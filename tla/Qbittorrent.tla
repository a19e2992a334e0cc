---------------------------- MODULE Qbittorrent -----------------------------
(***************************************************************************)
(* The core's view of qBittorrent (core/qbittorrent.rs): one request at a  *)
(* time over its web UI, a copy of its torrent list kept by incremental    *)
(* updates, and the two settings Windlass keeps in it.                     *)
(*                                                                         *)
(* A torrent is what the registry tells apart of it.  The order of the     *)
(* handlers' effects is the code's; failure reasons, which only the        *)
(* dashboard shows, are left out.                                          *)
(***************************************************************************)
EXTENDS Runtime, Functions

CONSTANTS
    Hashes,        \* info hashes
    Ports,         \* listen ports
    PollsPerRead   \* POLLS_PER_PREFERENCES_READ

ASSUME QbittorrentAssumption == PollsPerRead \in Nat \ {0}

None == "None"

(* What the registry tells apart of a torrent: how far it is (level),      *)
(* whether it is stopped, whether some files are not selected and whether  *)
(* it runs regardless of the queue.                                        *)
Levels == {"Untouched", "Downloading", "Complete", "Seeded"}
Fields == {"level", "stopped", "partial", "forced"}
TorrentStates == [level : Levels, stopped : BOOLEAN, partial : BOOLEAN,
                  forced : BOOLEAN]

(* Torrent::default, before the fields of an update are merged.            *)
DefaultTorrent == [level |-> "Untouched", stopped |-> FALSE,
                   partial |-> FALSE, forced |-> FALSE]

(* completed_at is set; seeding_time has reached SEEDING_TARGET.           *)
Completed(t) == t.level \in {"Complete", "Seeded"}
Satisfied(t) == t.level = "Seeded"

(* A torrent list: the torrents present, by hash.                          *)
NoTorrents == [h \in {} |-> DefaultTorrent]

-----------------------------------------------------------------------------
(* The requests of the core, and the events that answer them.              *)
Request(op, arg) == [op |-> op, arg |-> arg]
NoRequest == Request("None", None)
Connect == Request("Connect", None)
Sync(position) == Request("Sync", position)
ReadPreferences == Request("ReadPreferences", None)
SetListenPort(port) == Request("SetListenPort", port)
SetQueue(setting) == Request("SetQueue", setting)
Command(command) == Request("Command", command)

(* A handler's result: the new state, the request to send and the timer to *)
(* start, if any.                                                          *)
Result(q, request, timer) == [q |-> q, request |-> request, timer |-> timer]
Quiet(q) == Result(q, NoRequest, NoTimer)

(* link is the state of the connection; activity is what the connected     *)
(* session is doing.  waiting is the timer of Activity::Waiting or of      *)
(* Unreachable.                                                            *)
Disabled ==
    [link |-> "Disabled", activity |-> None, waiting |-> NoTimer,
     port |-> None, queue |-> None, torrents |-> NoTorrents, position |-> 0,
     listed |-> FALSE, polls |-> 0]

(* QbittorrentEvent::Enable.                                               *)
Enable(q) ==
    IF q.link # "Disabled" THEN Quiet(q)
    ELSE Result([q EXCEPT !.link = "Connecting"], Connect, NoTimer)

(* QbittorrentEvent::Connected: a new session, which reads the whole list. *)
Connected(q, preferences) ==
    IF q.link # "Connecting" THEN Quiet(q)
    ELSE Result([Disabled EXCEPT !.link = "Connected", !.activity = "Syncing",
                                 !.port = preferences.port,
                                 !.queue = preferences.queue],
                Sync(0), NoTimer)

(* Mutant: the torrents that left are kept when the whole list is new.     *)
ApplyKeeping(q, update) ==
    LET known == DOMAIN q.torrents \cup DOMAIN update.torrents
        before(h) == IF h \in DOMAIN q.torrents THEN q.torrents[h]
                     ELSE DefaultTorrent
    IN  [q EXCEPT
           !.torrents = [h \in known \ update.removed |->
                           [f \in Fields |->
                              IF h \in DOMAIN update.torrents
                                 /\ f \in DOMAIN update.torrents[h]
                              THEN update.torrents[h][f] ELSE before(h)[f]]],
           !.listed = @ \/ update.full,
           !.position = update.position]

(* Session::apply: a full update replaces the list; the changed fields of  *)
(* each torrent are merged; removed torrents go.                           *)
Apply(q, update) ==
    LET base == IF update.full THEN NoTorrents ELSE q.torrents
        known == DOMAIN base \cup DOMAIN update.torrents
        before(h) == IF h \in DOMAIN base THEN base[h] ELSE DefaultTorrent
    IN  [q EXCEPT
           !.torrents = [h \in known \ update.removed |->
                           [f \in Fields |->
                              IF h \in DOMAIN update.torrents
                                 /\ f \in DOMAIN update.torrents[h]
                              THEN update.torrents[h][f] ELSE before(h)[f]]],
           !.listed = @ \/ update.full,
           !.position = update.position]

(* QbittorrentEvent::Synced.  Polls count up to the bound they are         *)
(* compared with.                                                          *)
Synced(q, update) ==
    IF q.link # "Connected" \/ q.activity # "Syncing" THEN Quiet(q)
    ELSE Quiet([Apply(q, update) EXCEPT
                  !.polls = IF @ < PollsPerRead THEN @ + 1 ELSE @,
                  !.activity = "DecidingAfterSync"])

(* QbittorrentEvent::CommandDone.                                          *)
CommandDone(q) ==
    IF q.link # "Connected" \/ q.activity # "Commanding" THEN Quiet(q)
    ELSE Quiet([q EXCEPT !.activity = "DecidingAfterOther"])

(* Session::wait.                                                          *)
Wait(q, id) == Result([q EXCEPT !.activity = "Waiting", !.waiting = id],
                      NoRequest, id)

(* QbittorrentEvent::PreferencesRead.                                      *)
PreferencesRead(q, preferences, id) ==
    IF q.link # "Connected" \/ q.activity # "ReadingPreferences" THEN Quiet(q)
    ELSE Wait([q EXCEPT !.port = preferences.port, !.queue = preferences.queue,
                        !.polls = 0], id)

(* QbittorrentEvent::ListenPortSet and QueueSet: the change is read back.  *)
PreferenceSet(q, activity) ==
    IF q.link # "Connected" \/ q.activity # activity THEN Quiet(q)
    ELSE Result([q EXCEPT !.activity = "ReadingPreferences"],
                ReadPreferences, NoTimer)

(* ConnectFailed while connecting, or any other failure while connected,   *)
(* whatever the session is doing.                                          *)
Failed(q, op, id) ==
    IF \/ op = "Connect" /\ q.link = "Connecting"
       \/ op # "Connect" /\ q.link = "Connected"
    THEN Result([Disabled EXCEPT !.link = "Unreachable", !.waiting = id],
                NoRequest, id)
    ELSE Quiet(q)

(* Qbittorrent::timer_expired.                                             *)
TimerExpired(q, id) ==
    CASE q.link = "Unreachable" /\ q.waiting = id ->
           Result([Disabled EXCEPT !.link = "Connecting"], Connect, NoTimer)
      [] q.link = "Connected" /\ q.activity = "Waiting" /\ q.waiting = id ->
           Quiet([q EXCEPT !.activity = "DecidingAfterOther",
                           !.waiting = NoTimer])
      [] OTHER -> Quiet(q)

(* The answer of a request: its op, whether it succeeded and what it says. *)
HandleAnswer(q, answer, id) ==
    IF ~answer.ok THEN Failed(q, answer.op, id)
    ELSE CASE answer.op = "Connect" -> Connected(q, answer.says)
           [] answer.op = "Sync" -> Synced(q, answer.says)
           [] answer.op = "ReadPreferences" ->
                PreferencesRead(q, answer.says, id)
           [] answer.op = "SetListenPort" ->
                PreferenceSet(q, "SettingListenPort")
           [] answer.op = "SetQueue" -> PreferenceSet(q, "SettingQueue")
           [] answer.op = "Command" -> CommandDone(q)

-----------------------------------------------------------------------------
(* Session::set_preferences: the first setting that differs, if any.  A    *)
(* queue that qBittorrent does not report is left alone.                   *)
PortDiffers(q, wanted) == wanted.port # None /\ q.port # wanted.port
QueueDiffers(q, wanted) ==
    wanted.queue # None /\ q.queue # None /\ q.queue # wanted.queue
SettingsDiffer(q, wanted) == PortDiffers(q, wanted) \/ QueueDiffers(q, wanted)

SetPreferences(q, wanted) ==
    LET idle == [q EXCEPT !.waiting = NoTimer]
    IN  IF PortDiffers(q, wanted)
        THEN Result([idle EXCEPT !.activity = "SettingListenPort"],
                    SetListenPort(wanted.port), NoTimer)
        ELSE Result([idle EXCEPT !.activity = "SettingQueue"],
                    SetQueue(wanted.queue), NoTimer)

Deciding(q) == q.link = "Connected"
               /\ q.activity \in {"DecidingAfterSync", "DecidingAfterOther"}

(* Qbittorrent::decide: settings first, then an update, or after one a     *)
(* command, the preferences or the next poll.                              *)
Decide(q, wanted, command, id) ==
    IF ~Deciding(q) THEN Quiet(q)
    ELSE IF SettingsDiffer(q, wanted) THEN SetPreferences(q, wanted)
    ELSE IF q.activity = "DecidingAfterOther"
    THEN Result([q EXCEPT !.activity = "Syncing"], Sync(q.position), NoTimer)
    ELSE IF command.op # "None"
    THEN Result([q EXCEPT !.activity = "Commanding"], Command(command), NoTimer)
    ELSE IF q.polls >= PollsPerRead
    THEN Result([q EXCEPT !.activity = "ReadingPreferences"],
                ReadPreferences, NoTimer)
    ELSE Wait(q, id)

(* Qbittorrent::follow_preferences: at once, while the session is idle.    *)
FollowPreferences(q, wanted) ==
    IF q.link = "Connected" /\ q.activity = "Waiting"
       /\ SettingsDiffer(q, wanted)
    THEN SetPreferences(q, wanted)
    ELSE Quiet(q)

(* The registry is asked for a command only where decide gets to it.       *)
AsksCommand(q, wanted) ==
    /\ q.link = "Connected" /\ q.activity = "DecidingAfterSync"
    /\ ~SettingsDiffer(q, wanted)
=============================================================================
