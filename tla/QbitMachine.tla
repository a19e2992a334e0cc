---------------------------- MODULE QbitMachine -----------------------------
(***************************************************************************)
(* The prototype's qBittorrent machine (windlass-qbit-core), its shell     *)
(* with the client (windlass-clients) and the qBittorrent they talk to.    *)
(* The three privacy settings are one flag, sizes are zero or not, and     *)
(* mam_id is the torrent's own hash.                                       *)
(***************************************************************************)
EXTENDS Machine, FiniteSetsExt, Functions

CONSTANTS
    Ports,              \* forwarded ports, positive
    Hashes,             \* info hashes, natural numbers for their order
    HnrSeedTime, UnsatisfiedQuotaLimit, MaxSyncAttempts, Margin,
    Scenarios           \* qBittorrent's torrents and limit when Windlass
                        \* starts, and bounds on faults, orders and moves

VARIABLES qbittorrent, budget

NoPort == 0
NoCookie == 0
Unlimited == 1000000    \* u32::MAX

Timers == {"AuthRetry", "SyncRetry", "TorrentRefresh"}
TorrentStates == {"Downloading", "StalledDownloading", "Uploading",
                  "StalledUploading", "ForcedUpload", "PausedDownloading",
                  "PausedUploading", "Error"}
Records == [bytes : BOOLEAN, seed : 0..HnrSeedTime, state : TorrentStates]

(* TorrentState::is_active.                                                *)
IsActive(t) == t.state \in {"Downloading", "Uploading", "ForcedUpload",
                            "StalledDownloading", "StalledUploading"}

Topic(p) ==
    CASE p.is \in {"Ready", "Unavailable", "AuthRejected",
                   "ListenPortPersistentFailure"} -> "Availability"
      [] p.is = "ListenPortReady" -> "ListenPort"
      [] p.is \in {"BannedPrivacySettingsObserved", "PrivacyClean"} -> "Privacy"
      [] p.is = "QueueOrchestrated" -> "Queue"
      [] p.is \in {"UnsatisfiedQuotaCritical", "UnsatisfiedQuotaApproaching",
                   "UnsatisfiedQuotaOk"} -> "Quota"
      [] OTHER -> "Torrents"

(* TopicFanout::send: a publish goes to those who asked for its topic.     *)
Wanted(publishes) == SelectSeq(publishes, LAMBDA p : Topic(p) \in Subscribed)

Reply(m, actions, publishes) == Apply(m, actions, Wanted(publishes))

(* struct QbitMachine, but for its torrents, which TypeOK has.             *)
States(torrents) ==
    [cookie : Nat, listen_port : Ports \cup {NoPort},
     desired : Ports \cup {NoPort}, refresh_scheduled : BOOLEAN,
     torrents : {torrents}, banned : BOOLEAN, max_active : 0..Unlimited,
     sync_attempts : 0..MaxSyncAttempts]

New == [cookie |-> NoCookie, listen_port |-> NoPort, desired |-> NoPort,
        refresh_scheduled |-> FALSE, torrents |-> <<>>, banned |-> FALSE,
        max_active |-> Unlimited, sync_attempts |-> 0]

Call(kind) == [do |-> kind, cookie |-> machine.cookie]
CallPort(kind, cookie, port) == [do |-> kind, cookie |-> cookie, port |-> port]
CallHash(kind, h) == [do |-> kind, cookie |-> machine.cookie, hash |-> h]
Login == [do |-> "Login", cookie |-> NoCookie]
Says(kind) == [is |-> kind]
SaysPort(kind, port) == [is |-> kind, port |-> port]
SaysHash(kind, h) == [is |-> kind, hash |-> h]

(* An action only when there is a cookie (QBIT-1).                         *)
WithCookie(actions) == IF machine.cookie = NoCookie THEN <<>> ELSE actions

-----------------------------------------------------------------------------
(* Decisions over the torrents last listed.                                *)
Unsatisfied(t) == t.bytes /\ t.seed < HnrSeedTime

Mapped(torrents, Test(_)) == {h \in DOMAIN torrents : Test(torrents[h])}

InOrder(hashes) == SetToSortSeq(hashes, <)

(* authorize_delete: a torrent that is not known may be deleted.           *)
AuthorizeDelete(torrents, h) ==
    IF h \in DOMAIN torrents /\ Unsatisfied(torrents[h])
    THEN <<>> ELSE WithCookie(<<CallHash("DeleteTorrent", h)>>)

(* is_dead.                                                                *)
IsDead(t) ==
    /\ ~t.bytes
    /\ t.state \in {"StalledDownloading", "StalledUploading", "Error",
                    "PausedDownloading", "PausedUploading"}

Oldest(torrents, hashes) ==
    {h \in hashes : \A g \in hashes : torrents[h].seed >= torrents[g].seed}

(* orchestrate_queue: candidates in the order of their hashes, the last of *)
(* the oldest seeders.                                                     *)
Orchestrate(torrents) ==
    LET parked == Mapped(torrents, LAMBDA t :
                      Unsatisfied(t) /\ t.state \in {"PausedUploading", "StalledUploading"})
        seeders == Mapped(torrents, LAMBDA t :
                      t.seed >= HnrSeedTime /\ t.state = "Uploading")
        full == Cardinality(Mapped(torrents, IsActive)) >= machine.max_active
    IN  IF machine.cookie # NoCookie /\ full /\ parked # {} /\ seeders # {}
        THEN <<[paused |-> Max(Oldest(torrents, seeders)),
                force_resumed |-> Min(parked)]>>
        ELSE <<>>

UnsatisfiedCount(torrents) == Cardinality(Mapped(torrents, Unsatisfied))

(* quota_publish; Margin is the five torrents of warning.                  *)
QuotaPublish(torrents) ==
    LET n == UnsatisfiedCount(torrents) IN
    CASE UnsatisfiedQuotaLimit = 0 -> <<>>
      [] UnsatisfiedQuotaLimit > 0 /\ n >= UnsatisfiedQuotaLimit ->
           <<Says("UnsatisfiedQuotaCritical")>>
      [] n < UnsatisfiedQuotaLimit /\ n + Margin >= UnsatisfiedQuotaLimit ->
           <<Says("UnsatisfiedQuotaApproaching")>>
      [] OTHER -> <<Says("UnsatisfiedQuotaOk")>>

-----------------------------------------------------------------------------
(* The listening port.                                                     *)
RetryListenPort ==
    CASE machine.cookie = NoCookie -> <<Login>>
      [] machine.cookie # NoCookie /\ machine.desired = NoPort ->
           <<Call("ReadPreferences")>>
      [] OTHER -> <<CallPort("SetListenPort", machine.cookie, machine.desired)>>

(* Mutant: a listen port that differs is only noticed.                     *)
ConvergeNever(m) == <<>>

(* converge_listen_port.                                                   *)
ConvergeListenPort(m) ==
    CASE m.desired = NoPort \/ m.listen_port = m.desired -> <<>>
      [] m.desired # NoPort /\ m.listen_port # m.desired /\ m.cookie = NoCookie ->
           <<Login>>
      [] OTHER -> <<CallPort("SetListenPort", m.cookie, m.desired)>>

(* listen_port_publish.                                                    *)
ListenPortPublish(port) ==
    IF port # NoPort /\ machine.desired \in {NoPort, port}
    THEN <<SaysPort("ListenPortReady", port)>> ELSE <<>>

-----------------------------------------------------------------------------
(* QbitMachine::handle, one action per event.                              *)
HandleInit(e) ==
    /\ e.is = "Init" \/ (e.is = "TimerFired" /\ e.timer = "AuthRetry")
    /\ Reply(machine, <<Login>>, <<>>)

(* Mutant: every login starts a refresh chain.                             *)
AuthSucceededAgain(e) ==
    /\ e.is = "AuthSucceeded"
    /\ Reply([machine EXCEPT !.cookie = e.cookie, !.refresh_scheduled = TRUE],
             <<IF machine.desired = NoPort
               THEN [do |-> "ReadPreferences", cookie |-> e.cookie]
               ELSE CallPort("SetListenPort", e.cookie, machine.desired),
               Schedule("TorrentRefresh", 0)>>,
             <<Says("Ready")>>)

AuthSucceeded(e) ==
    /\ e.is = "AuthSucceeded"
    /\ Reply([machine EXCEPT !.cookie = e.cookie, !.refresh_scheduled = TRUE],
             <<IF machine.desired = NoPort
               THEN [do |-> "ReadPreferences", cookie |-> e.cookie]
               ELSE CallPort("SetListenPort", e.cookie, machine.desired)>>
             \o IF machine.refresh_scheduled THEN <<>>
                ELSE <<Schedule("TorrentRefresh", 0)>>,
             <<Says("Ready")>>)

AuthFailed(e) ==
    /\ e.is = "AuthFailed"
    /\ Reply(machine, <<Schedule("AuthRetry", 0)>>, <<Says("Unavailable")>>)

AuthRejected(e) ==
    /\ e.is = "AuthRejected"
    /\ Reply(machine, <<Schedule("AuthRetry", 0)>>,
             <<Says("Unavailable"), Says("AuthRejected")>>)

PreferencesRead(e) ==
    LET m == [machine EXCEPT !.listen_port = e.port, !.banned = e.banned,
                             !.max_active = e.max_active]
    IN  /\ e.is = "PreferencesRead"
        /\ Reply(m,
                 ConvergeListenPort(m)
                 \o IF e.banned THEN WithCookie(<<Call("DisableBannedPrivacySettings")>>)
                    ELSE <<>>,
                 ListenPortPublish(e.port)
                 \o <<Says(IF e.banned THEN "BannedPrivacySettingsObserved"
                           ELSE "PrivacyClean")>>)

PreferencesFailed(e) ==
    /\ e.is \in {"PreferencesFailed", "PrivacySettingsDisableFailed"}
    /\ Reply(machine, <<Schedule("SyncRetry", 0)>>, <<Says("Unavailable")>>)

ListenPortSetFailed(e) ==
    LET attempts == machine.sync_attempts + 1
        over == MaxSyncAttempts > 0 /\ attempts >= MaxSyncAttempts
    IN  /\ e.is = "ListenPortSetFailed"
        /\ IF over
           THEN Reply([machine EXCEPT !.sync_attempts = 0, !.cookie = NoCookie],
                      <<Schedule("AuthRetry", 0)>>,
                      <<Says("Unavailable"),
                        SaysPort("ListenPortPersistentFailure", e.port)>>)
           ELSE Reply([machine EXCEPT !.sync_attempts = attempts],
                      <<Schedule("SyncRetry", 0)>>, <<Says("Unavailable")>>)

ListenPortSet(e) ==
    /\ e.is = "ListenPortSet"
    /\ Reply([machine EXCEPT !.listen_port = e.port, !.sync_attempts = 0],
             <<>>, ListenPortPublish(e.port))

(* The hashes that a listing shows for the first time are found before the *)
(* map is replaced; every decision after that reads the new one.           *)
TorrentsListed(e) ==
    LET new == e.torrents
        seen == InOrder(DOMAIN new \ DOMAIN machine.torrents)
        dead == WithCookie(InOrder(Mapped(new, IsDead)))
        risk == InOrder(Mapped(new, LAMBDA t :
                    Unsatisfied(t) /\ t.state \in {"StalledUploading", "Error"}))
        swap == Orchestrate(new)
        each(kind, hashes) == [i \in DOMAIN hashes |-> SaysHash(kind, hashes[i])]
        calls(kind, hashes) == [i \in DOMAIN hashes |-> CallHash(kind, hashes[i])]
    IN  /\ e.is = "TorrentsListed"
        /\ Reply([machine EXCEPT !.torrents = new],
                 WithCookie(calls("SetAllFilesPriority", seen))
                 \o FlattenSeq([i \in DOMAIN dead |-> AuthorizeDelete(new, dead[i])])
                 \o FlattenSeq([i \in DOMAIN swap |->
                        <<CallHash("PauseTorrent", swap[i].paused),
                          CallHash("ForceResumeTorrent", swap[i].force_resumed)>>]),
                 <<Says("TorrentsUpdated"), Says("TorrentRecords")>>
                 \o each("HnRAtRisk", risk)
                 \o (IF seen = <<>> THEN <<>> ELSE <<Says("NewTorrentsAdded")>>)
                 \o each("DeadTorrentRemoved", dead)
                 \o [i \in DOMAIN swap |-> Says("QueueOrchestrated")]
                 \o QuotaPublish(new))

PrivacySettingsDisabled(e) ==
    e.is = "PrivacySettingsDisabled" /\ Reply(machine, <<>>, <<>>)

SyncRetry(e) ==
    /\ e.is = "TimerFired" /\ e.timer = "SyncRetry"
    /\ Reply(machine, RetryListenPort, <<>>)

TorrentRefresh(e) ==
    /\ e.is = "TimerFired" /\ e.timer = "TorrentRefresh"
    /\ Reply(machine,
             WithCookie(<<Call("ListTorrents"), Call("ReadPreferences")>>)
             \o <<Schedule("TorrentRefresh", 0)>>, <<>>)

(* TorrentAdded and TorrentAddFailed go on to the domain.                  *)
TorrentAddAnswered(e) ==
    /\ e.is \in {"TorrentAdded", "TorrentAddFailed"}
    /\ Reply(machine, <<>>, <<e>>)

Handler(e) ==
    \/ HandleInit(e) \/ AuthSucceeded(e) \/ AuthFailed(e) \/ AuthRejected(e)
    \/ PreferencesRead(e) \/ PreferencesFailed(e) \/ ListenPortSetFailed(e)
    \/ ListenPortSet(e) \/ TorrentsListed(e) \/ PrivacySettingsDisabled(e)
    \/ SyncRetry(e) \/ TorrentRefresh(e) \/ TorrentAddAnswered(e)

Handle ==
    Take /\ Handler(Head(events)) /\ UNCHANGED <<qbittorrent, budget>>

-----------------------------------------------------------------------------
(* QbitMachine::handle_command, one action per command.                    *)
EnsureAuthenticated == Reply(machine, <<Login>>, <<>>)

EnsureListenPort(port) ==
    LET m == [machine EXCEPT !.desired = port] IN
    IF m.listen_port = port
    THEN Reply(m, <<>>, <<SaysPort("ListenPortReady", port)>>)
    ELSE Reply(m, ConvergeListenPort(m), <<>>)

RefreshTorrents == Reply(machine, WithCookie(<<Call("ListTorrents")>>), <<>>)

PauseOrResume(h) ==
    \E kind \in {"PauseTorrent", "ResumeTorrent"} :
        Reply(machine, WithCookie(<<CallHash(kind, h)>>), <<>>)

DeleteTorrent(h) ==
    LET blocked == h \in DOMAIN machine.torrents /\ Unsatisfied(machine.torrents[h])
    IN  Reply(machine, AuthorizeDelete(machine.torrents, h),
              IF blocked THEN <<SaysHash("DeleteBlockedHnRLock", h)>> ELSE <<>>)

(* evict_one_for_disk_pressure: among equals the map's order decides.      *)
EvictOneForDiskPressure ==
    LET ts == machine.torrents
        satisfied == Mapped(ts, LAMBDA t : ~Unsatisfied(t))
    IN  \/ satisfied = {} /\ Reply(machine, <<>>, <<>>)
        \/ \E h \in Oldest(ts, satisfied) :
               Reply(machine, AuthorizeDelete(ts, h), <<>>)

AddTorrent(h) == Reply(machine, WithCookie(<<CallHash("AddTorrent", h)>>), <<>>)

Spend(kind) ==
    budget[kind] > 0 /\ budget' = [budget EXCEPT ![kind] = @ - 1]

Command ==
    /\ BagCardinality(tasks) < MaxTasks
    /\ \/ Spend("ports") /\ (EnsureAuthenticated
                              \/ \E port \in Ports : EnsureListenPort(port))
       \/ Spend("orders") /\ (RefreshTorrents \/ EvictOneForDiskPressure
              \/ \E h \in Hashes : PauseOrResume(h) \/ DeleteTorrent(h) \/ AddTorrent(h))
    /\ Obeyed /\ UNCHANGED qbittorrent

-----------------------------------------------------------------------------
(* QbitShell::dispatch and the client: a call works when qBittorrent       *)
(* answers and, but for the login, still knows the cookie.                 *)
Works(a) == qbittorrent.up /\ a.cookie = qbittorrent.session

Authenticate(a) ==
    /\ a.do = "Login"
    /\ \E ok \in BOOLEAN, rejected \in {FALSE} \cup {qbittorrent.up} :
         /\ ok = (qbittorrent.up /\ ~rejected)
         /\ rejected => budget.faults > 0
         /\ Finish(a, <<IF ok THEN [is |-> "AuthSucceeded",
                                    cookie |-> qbittorrent.session]
                        ELSE Says(IF rejected THEN "AuthRejected" ELSE "AuthFailed")>>)
         /\ budget' = [budget EXCEPT !.faults = @ - IF rejected THEN 1 ELSE 0]
    /\ UNCHANGED qbittorrent

GetPreferences(a) ==
    /\ a.do = "ReadPreferences"
    /\ Finish(a, <<IF Works(a)
                   THEN [is |-> "PreferencesRead", port |-> qbittorrent.port,
                         banned |-> qbittorrent.banned,
                         max_active |-> qbittorrent.limit]
                   ELSE Says("PreferencesFailed")>>)
    /\ UNCHANGED <<qbittorrent, budget>>

(* set_private_tracker_safe_prefs.                                         *)
SetSafePrefs(a) ==
    /\ a.do = "DisableBannedPrivacySettings"
    /\ Finish(a, <<Says(IF Works(a) THEN "PrivacySettingsDisabled"
                        ELSE "PrivacySettingsDisableFailed")>>)
    /\ qbittorrent' = [qbittorrent EXCEPT !.banned = @ /\ ~Works(a)]
    /\ UNCHANGED budget

(* sync_port; its answer may be lost after qBittorrent took the port.      *)
SyncPort(a) ==
    /\ a.do = "SetListenPort"
    /\ \E lost \in BOOLEAN :
         /\ lost => budget.faults > 0 /\ Works(a)
         /\ Finish(a, <<SaysPort(IF Works(a) /\ ~lost THEN "ListenPortSet"
                                 ELSE "ListenPortSetFailed", a.port)>>)
         /\ budget' = [budget EXCEPT !.faults = @ - IF lost THEN 1 ELSE 0]
    /\ qbittorrent' = [qbittorrent EXCEPT !.port = IF Works(a) THEN a.port ELSE @]

(* list_torrent_details: any error reads as no torrents.                   *)
ListTorrentDetails(a) ==
    /\ a.do = "ListTorrents"
    /\ Finish(a, <<[is |-> "TorrentsListed",
                    torrents |-> IF Works(a) THEN qbittorrent.torrents ELSE <<>>]>>)
    /\ UNCHANGED <<qbittorrent, budget>>

(* add_torrent: without a hash in the answer, the first torrent listed     *)
(* stands for the one added, and the listing may fail.                     *)
ClientAddTorrent(a) ==
    /\ a.do = "AddTorrent"
    /\ LET ts == qbittorrent.torrents
           after == IF Works(a) /\ a.hash \notin DOMAIN ts
                    THEN (a.hash :> [bytes |-> FALSE, seed |-> 0,
                                     state |-> "StalledDownloading"]) @@ ts
                    ELSE ts
       IN  /\ qbittorrent' = [qbittorrent EXCEPT !.torrents = after]
           /\ IF Works(a)
              THEN \/ \E h \in DOMAIN after : Finish(a, <<SaysHash("TorrentAdded", h)>>)
                   \/ Finish(a, <<SaysHash("TorrentAddFailed", a.hash)>>)
              ELSE Finish(a, <<SaysHash("TorrentAddFailed", a.hash)>>)
    /\ UNCHANGED budget

(* pause_torrent, resume_torrent, force_resume_torrent and                 *)
(* set_all_files_priority: their failures are only logged.                 *)
Resumed(state) ==
    CASE state = "PausedUploading" -> "Uploading"
      [] state = "PausedDownloading" -> "Downloading"
      [] OTHER -> state

After(kind, state) ==
    CASE kind = "PauseTorrent" /\ state \in {"Uploading", "StalledUploading",
                                             "ForcedUpload"} -> "PausedUploading"
      [] kind = "PauseTorrent" /\ state \in {"Downloading", "StalledDownloading"} ->
           "PausedDownloading"
      [] kind = "ResumeTorrent" -> Resumed(state)
      [] kind = "ForceResumeTorrent" /\ state \in {"Uploading", "StalledUploading",
                                                   "PausedUploading"} -> "ForcedUpload"
      [] OTHER -> state

FireAndForget(a) ==
    /\ a.do \in {"PauseTorrent", "ResumeTorrent", "ForceResumeTorrent",
                 "SetAllFilesPriority"}
    /\ Finish(a, <<>>)
    /\ qbittorrent' =
         IF Works(a) /\ a.hash \in DOMAIN qbittorrent.torrents
         THEN [qbittorrent EXCEPT !.torrents[a.hash].state = After(a.do, @)]
         ELSE qbittorrent
    /\ UNCHANGED budget

ClientDeleteTorrent(a) ==
    /\ a.do = "DeleteTorrent"
    /\ Finish(a, <<>>)
    /\ qbittorrent' =
         [qbittorrent EXCEPT !.torrents =
            IF Works(a) THEN Restrict(@, DOMAIN @ \ {a.hash}) ELSE @]
    /\ UNCHANGED budget

DispatchOne(a) ==
    \/ Authenticate(a) \/ GetPreferences(a) \/ SetSafePrefs(a) \/ SyncPort(a)
    \/ ListTorrentDetails(a) \/ ClientAddTorrent(a) \/ FireAndForget(a)
    \/ ClientDeleteTorrent(a)

Dispatch == \E a \in BagToSet(tasks) : DispatchOne(a)

FireTimer(t) == Fire(t) /\ UNCHANGED <<qbittorrent, budget>>

-----------------------------------------------------------------------------
(* qBittorrent, its owner and the swarm.                                   *)
Fails ==
    /\ Spend("faults")
    /\ \/ \E up \in {FALSE, qbittorrent.up} :        \* a crash, or a session ends
            qbittorrent' = [qbittorrent EXCEPT !.up = up, !.session = @ + 1]
       \/ \E p \in Ports : qbittorrent' = [qbittorrent EXCEPT !.port = p]
       \/ qbittorrent' = [qbittorrent EXCEPT !.banned = TRUE]
    /\ UNCHANGED <<runtime, now>>

Recovers ==
    /\ ~qbittorrent.up
    /\ qbittorrent' = [qbittorrent EXCEPT !.up = TRUE]
    /\ UNCHANGED <<runtime, budget, now>>

(* A torrent finds peers, completes, seeds or stalls.                      *)
Moved(t) ==
    CASE t.state = "StalledDownloading" -> {[t EXCEPT !.state = "Downloading", !.bytes = TRUE]}
      [] t.state = "Downloading" ->
           {[t EXCEPT !.state = "Uploading"], [t EXCEPT !.state = "Error"]}
      [] t.state \in {"Uploading", "ForcedUpload"} ->
           {[t EXCEPT !.seed = IF @ < HnrSeedTime THEN @ + 1 ELSE @]}
           \cup (IF t.state = "Uploading" THEN {[t EXCEPT !.state = "StalledUploading"]}
                 ELSE {})
      [] OTHER -> {}

Moves ==
    /\ Spend("moves")
    /\ \E h \in DOMAIN qbittorrent.torrents :
         \E t \in Moved(qbittorrent.torrents[h]) :
             qbittorrent' = [qbittorrent EXCEPT !.torrents[h] = t]
    /\ UNCHANGED <<runtime, now>>

-----------------------------------------------------------------------------
vars == <<runtime, qbittorrent, budget, now>>

Init ==
    /\ Spawn(New)
    /\ \E s \in Scenarios :
         /\ qbittorrent = [up |-> TRUE, session |-> 1, port |-> NoPort, banned |-> TRUE,
                           limit |-> s.limit, torrents |-> s.torrents]
         /\ budget = s.budget

Next == \/ Handle \/ Command \/ Dispatch \/ Fails \/ Recovers \/ Moves
        \/ \E t \in Timers : FireTimer(t)

(* The scheduler runs every task and every sleep, and qBittorrent is       *)
(* restarted by its container.                                             *)
Calls(kinds) == \E a \in BagToSet(tasks) : a.do \in kinds /\ DispatchOne(a)

Fairness ==
    /\ WF_vars(Handle) /\ WF_vars(Recovers)
    /\ SF_vars(Calls({"Login"}) \/ FireTimer("AuthRetry"))
    /\ SF_vars(Calls({"ListTorrents"}) \/ FireTimer("TorrentRefresh"))
    /\ SF_vars(Calls({"SetListenPort"}) \/ FireTimer("SyncRetry"))
    /\ SF_vars(Calls({"ReadPreferences"}))
    /\ SF_vars(Calls({"DisableBannedPrivacySettings"}))

Spec == Init /\ [][Next]_vars /\ Fairness

(* Every field holds what QbitMachine and its shell put there.             *)
TypeOK ==
    /\ machine \in States(machine.torrents)
    /\ \A h \in DOMAIN machine.torrents : machine.torrents[h] \in Records
    /\ DOMAIN timers \subseteq Timers

(* Once a login has succeeded, the refresh is either pending or on its way *)
(* in the channel, and never twice (QBIT-2 and QBIT-3,                     *)
(* windlass-qbit-core handle).                                             *)
OneRefreshChain ==
    LET waiting == IF "TorrentRefresh" \in DOMAIN timers THEN 1 ELSE 0
        queued == Len(SelectSeq(events, LAMBDA e :
                      e.is = "TimerFired" /\ e.timer = "TorrentRefresh"))
    IN  waiting + queued = IF machine.refresh_scheduled THEN 1 ELSE 0

Converged ==
    machine.desired # NoPort =>
      /\ qbittorrent.port = machine.desired
      /\ machine.listen_port = machine.desired
      /\ ~qbittorrent.banned

(* When faults and orders end, qBittorrent comes to listen on the port     *)
(* that is wanted and to have its banned settings off, and the machine to  *)
(* know it, through lost sessions, lost answers and ports changed by hand  *)
(* (QBIT-7, QBIT-12).                                                      *)
Converges == <>[]Converged
=============================================================================
