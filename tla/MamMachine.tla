----------------------------- MODULE MamMachine -----------------------------
(***************************************************************************)
(* The prototype's MAM machine (windlass-mam-core), its shell with the     *)
(* client (windlass-clients), and MAM with the exit IP it sees.  Waits and *)
(* ages count down or up to their limit instead of reading a clock, which  *)
(* stays at zero: the machine's wall clock is never set back.  No shell    *)
(* sends AuthSucceeded or AuthFailed, and the client waits where it once   *)
(* answered LocalRateLimit, so that their handlers, the KeepAlive chain    *)
(* among them, have no action here.                                        *)
(***************************************************************************)
EXTENDS Machine, FiniteSetsExt

CONSTANTS
    Ports, Ips,                 \* positive numbers
    Statuses,                   \* what MAM says of the account
    Takes,                      \* whether MAM takes registrations
    StatusRetry, SeedboxUpdateMinInterval, StaleRegistrationInterval,
    InFlightStale, KeepAliveFailureThreshold,
    Budgets                     \* bounds on faults, orders and moves

VARIABLES
    exit,       \* the tunnel's exit IP, which MAM sees
    site,       \* MAM: the registered IP and whether it takes registrations
    news,       \* exit IPs the domain has yet to pass on
    sinceUpdate,\* the age of the last UpdateSeedbox, up to the interval
    budget

None == 0
Asns == {"Unknown", "Accepted", "Mismatched"}
Timers == {"StatusRetry", "RateLimitExpired", "StaleRegistrationRefresh"}
EventKinds == {"Init", "StatusFetched", "StatusFailed", "Unreachable",
               "AsnMismatch", "SeedboxUpdated", "SeedboxUpdateFailed",
               "TimerFired", "TorrentBytesFetched", "TorrentBytesFetchFailed"}
ActionKinds == {"FetchStatus", "UpdateSeedbox", "FetchTorrentBytes"}

Topic(p) ==
    CASE p.is = "Unavailable" -> "Availability"
      [] p.is = "KeepAliveDegraded" -> "KeepAlive"
      [] p.is \in {"Connectable", "NotConnectable", "Unreachable"} -> "Connectability"
      [] p.is = "SeedboxPortReady" -> "Seedbox"
      [] p.is \in {"UploadHealthOk", "UploadHealthDegraded"} -> "UploadHealth"
      [] p.is \in {"AsnMismatch", "AsnAccepted"} -> "Compliance"
      [] p.is \in {"TorrentBytesReady", "TorrentBytesFetchFailed"} -> "TorrentFetch"

(* TopicFanout::send: a publish goes to those who asked for its topic.     *)
Wanted(publishes) == SelectSeq(publishes, LAMBDA p : Topic(p) \in Subscribed)

(* The age of what is not under way, or was never tried.                   *)
NotInFlight == InFlightStale
Long == SeedboxUpdateMinInterval

(* struct MamMachine.  Ages stand for the two instants.  Left out are the  *)
(* ratio, the credit and the registered AS, which a status or an answer    *)
(* says, and the two flags only AuthSucceeded sets.                        *)
States ==
    [seedbox_port : Ports \cup {None}, desired : Ports \cup {None},
     failures : 0..KeepAliveFailureThreshold, asn : Asns,
     observed : Ips \cup {None}, stale_chain : BOOLEAN,
     registered : Ips \cup {None},
     in_flight : 0..NotInFlight, last_attempt : 0..Long]

New == [seedbox_port |-> None, desired |-> None,
        failures |-> 0, asn |-> "Unknown", observed |-> None,
        stale_chain |-> FALSE, registered |-> None,
        in_flight |-> NotInFlight, last_attempt |-> Long]

Do(kind) == <<[do |-> kind]>>
Says(kind) == [is |-> kind]

(* Where an UpdateSeedbox is among the actions, sinceUpdate starts again.  *)
Reply(m, actions, publishes) ==
    /\ Apply(m, actions, Wanted(publishes))
    /\ sinceUpdate' = IF [do |-> "UpdateSeedbox"] \in ToSet(actions)
                      THEN 0 ELSE sinceUpdate

-----------------------------------------------------------------------------
NeedsSeedboxUpdate(m) ==
    \/ m.desired # None /\ m.seedbox_port # m.desired
    \/ m.observed # None /\ m.registered # m.observed

(* Mutant: the window is left to the answers.                              *)
RequestSeedboxUpdateUnspaced(m) ==
    IF m.in_flight < NotInFlight
    THEN [m |-> m, actions |-> <<>>]
    ELSE [m |-> [m EXCEPT !.in_flight = 0, !.last_attempt = 0],
          actions |-> Do("UpdateSeedbox")]

(* request_seedbox_update: one at a time unless it is stale, and spaced.   *)
RequestSeedboxUpdate(m) ==
    CASE m.in_flight < NotInFlight -> [m |-> m, actions |-> <<>>]
      [] m.in_flight = NotInFlight /\ m.last_attempt < Long ->
           [m |-> m,
            actions |-> <<Schedule("RateLimitExpired", Long - m.last_attempt)>>]
      [] OTHER -> [m |-> [m EXCEPT !.in_flight = 0, !.last_attempt = 0],
                   actions |-> Do("UpdateSeedbox")]

(* converge_seedbox; refresh_or_update_seedbox polls instead of nothing.   *)
ConvergeSeedbox(m, otherwise) ==
    IF NeedsSeedboxUpdate(m) THEN RequestSeedboxUpdate(m)
    ELSE [m |-> m, actions |-> otherwise]

SeedboxPublish(port) ==
    IF port # None /\ machine.desired \in {None, port}
    THEN <<[is |-> "SeedboxPortReady", port |-> port]>> ELSE <<>>

(* The count of failures, up to the threshold it is compared with.         *)
Bumped(m) == [m EXCEPT !.failures = IF @ < KeepAliveFailureThreshold
                                    THEN @ + 1 ELSE @]

(* bump_keep_alive_failures crosses the threshold from below.              *)
Degraded ==
    IF KeepAliveFailureThreshold > 0
         /\ machine.failures + 1 = KeepAliveFailureThreshold
    THEN <<Says("KeepAliveDegraded")>> ELSE <<>>

-----------------------------------------------------------------------------
(* MamMachine::handle, one action per event.                               *)
HandleInit(e) == e.is = "Init" /\ Reply(machine, Do("FetchStatus"), <<>>)

RetryTimer(e) ==
    LET r == ConvergeSeedbox(machine, Do("FetchStatus"))
    IN  /\ e.is = "TimerFired" /\ e.timer \in {"StatusRetry", "RateLimitExpired"}
        /\ Reply(r.m, r.actions, <<>>)

(* Mutant: the refresh asks first whether anything changed.                *)
RefreshWhenNeeded(e) ==
    LET r == ConvergeSeedbox(machine, <<>>)
    IN  /\ e.is = "TimerFired" /\ e.timer = "StaleRegistrationRefresh"
        /\ Reply(r.m, Append(r.actions, Schedule("StaleRegistrationRefresh",
                                                 StaleRegistrationInterval)), <<>>)

StaleRegistrationRefresh(e) ==
    LET r == RequestSeedboxUpdate(machine)
    IN  /\ e.is = "TimerFired" /\ e.timer = "StaleRegistrationRefresh"
        /\ Reply(r.m, Append(r.actions, Schedule("StaleRegistrationRefresh",
                                                 StaleRegistrationInterval)), <<>>)

(* StatusFailed, SeedboxUpdateFailed and Unreachable.                      *)
Failure(e) ==
    /\ e.is \in {"StatusFailed", "SeedboxUpdateFailed", "Unreachable"}
    /\ Reply([Bumped(machine) EXCEPT !.in_flight = NotInFlight],
             <<Schedule("StatusRetry", StatusRetry)>>,
             <<Says(IF e.is = "Unreachable" THEN "Unreachable" ELSE "Unavailable")>>
             \o Degraded)

StatusFetched(e) ==
    LET r == ConvergeSeedbox([machine EXCEPT !.seedbox_port = e.port,
                                             !.failures = 0], <<>>)
    IN  /\ e.is = "StatusFetched"
        /\ Reply(r.m, r.actions,
                 (IF e.connectable THEN <<Says("Connectable")>> \o SeedboxPublish(e.port)
                  ELSE <<Says("NotConnectable")>>)
                 \o <<Says(IF e.healthy THEN "UploadHealthOk"
                           ELSE "UploadHealthDegraded")>>)

(* The registered IP is the one observed now, not the one MAM saw.         *)
SeedboxUpdated(e) ==
    LET d == machine.desired
        r == ConvergeSeedbox([machine EXCEPT
                 !.in_flight = NotInFlight, !.asn = "Accepted",
                 !.seedbox_port = IF d = None THEN @ ELSE d,
                 !.registered = machine.observed], <<>>)
    IN  /\ e.is = "SeedboxUpdated"
        /\ Reply(r.m, r.actions,
                 (IF d = None THEN <<>> ELSE <<[is |-> "SeedboxPortReady", port |-> d]>>)
                 \o IF machine.asn = "Accepted" THEN <<>> ELSE <<Says("AsnAccepted")>>)

AsnMismatch(e) ==
    /\ e.is = "AsnMismatch"
    /\ Reply([Bumped(machine) EXCEPT !.in_flight = NotInFlight, !.asn = "Mismatched"],
             <<Schedule("StatusRetry", StatusRetry)>>,
             (IF machine.asn = "Mismatched" THEN <<>> ELSE <<Says("AsnMismatch")>>)
             \o Degraded)

TorrentBytes(e) ==
    /\ e.is \in {"TorrentBytesFetched", "TorrentBytesFetchFailed"}
    /\ Reply(machine, <<>>,
             <<Says(IF e.is = "TorrentBytesFetched" THEN "TorrentBytesReady"
                    ELSE "TorrentBytesFetchFailed")>>)

Handler(e) ==
    \/ HandleInit(e) \/ RetryTimer(e) \/ StaleRegistrationRefresh(e) \/ Failure(e)
    \/ StatusFetched(e) \/ SeedboxUpdated(e) \/ AsnMismatch(e) \/ TorrentBytes(e)

Handle ==
    Take /\ Handler(Head(events)) /\ UNCHANGED <<exit, site, news, budget>>

-----------------------------------------------------------------------------
(* MamMachine::handle_command, one action per command.                     *)
RefreshStatus == Reply(machine, Do("FetchStatus"), <<>>)

EnsureSeedboxPort(port) ==
    LET r == RequestSeedboxUpdate([machine EXCEPT !.desired = port]) IN
    IF machine.seedbox_port = port
    THEN Reply([machine EXCEPT !.desired = port], <<>>,
               <<[is |-> "SeedboxPortReady", port |-> port]>>)
    ELSE Reply(r.m, r.actions, <<>>)

ObservedIpChanged(ip) ==
    LET known == ip \in {machine.registered, machine.observed}
        r == RequestSeedboxUpdate([machine EXCEPT !.observed = ip])
    IN  IF known THEN Reply([machine EXCEPT !.observed = ip], <<>>, <<>>)
        ELSE Reply([r.m EXCEPT !.stale_chain = TRUE],
                   r.actions \o IF machine.stale_chain THEN <<>>
                                ELSE <<Schedule("StaleRegistrationRefresh",
                                                StaleRegistrationInterval)>>, <<>>)

FetchTorrent == Reply(machine, Do("FetchTorrentBytes"), <<>>)

(* The domain passes on the next exit IP.                                  *)
PassOn ==
    /\ news # <<>>
    /\ news' = Tail(news)
    /\ ObservedIpChanged(Head(news))
    /\ Obeyed /\ UNCHANGED <<exit, site, budget>>

Spend(kind) ==
    budget[kind] > 0 /\ budget' = [budget EXCEPT ![kind] = @ - 1]

Command ==
    /\ Spend("orders") /\ BagCardinality(tasks) < MaxTasks
    /\ RefreshStatus \/ FetchTorrent \/ \E port \in Ports : EnsureSeedboxPort(port)
    /\ Obeyed /\ UNCHANGED <<exit, site, news>>

-----------------------------------------------------------------------------
(* MamShell::dispatch and the client.  A call that goes wrong is           *)
(* Unreachable, or for an answer that cannot be read StatusFailed or       *)
(* SeedboxUpdateFailed.                                                    *)
FetchMamStatus ==
    \/ /\ \E s \in Statuses :
             Finish([do |-> "FetchStatus"],
                    <<[is |-> "StatusFetched", connectable |-> s.connectable,
                       healthy |-> s.healthy, port |-> None]>>)
       /\ UNCHANGED budget
    \/ /\ Spend("faults")
       /\ \E kind \in {"Unreachable", "StatusFailed"} :
             Finish([do |-> "FetchStatus"], <<Says(kind)>>)

(* MAM registers the IP the request comes from; its answer may be lost or  *)
(* unreadable.  A refusal other than an ASN mismatch is an answer with     *)
(* Success false, which do_update_seedbox passes on as a success.          *)
DoUpdateSeedbox ==
    LET Answers(kind) == Finish([do |-> "UpdateSeedbox"], <<Says(kind)>>)
        registered == IF site.takes THEN [site EXCEPT !.ip = exit] ELSE site
    IN  \/ /\ Answers("SeedboxUpdated")
           /\ site' = registered
           /\ UNCHANGED budget
        \/ /\ Spend("faults")
           /\ Answers("AsnMismatch")
           /\ UNCHANGED site
        \/ /\ Spend("faults")
           /\ Answers("Unreachable") \/ Answers("SeedboxUpdateFailed")
           /\ site' \in {site, registered}

FetchTorrentBytes ==
    \E kind \in {"TorrentBytesFetched", "TorrentBytesFetchFailed"} :
        Finish([do |-> "FetchTorrentBytes"], <<Says(kind)>>)

Dispatch ==
    /\ \/ FetchMamStatus /\ UNCHANGED site
       \/ DoUpdateSeedbox
       \/ FetchTorrentBytes /\ UNCHANGED <<site, budget>>
    /\ UNCHANGED <<exit, news, sinceUpdate>>

FireTimer(t) == Fire(t) /\ UNCHANGED <<exit, site, news, sinceUpdate, budget>>

(* The tunnel moves to another exit, and the domain hears of it.           *)
Moves ==
    /\ Spend("moves")
    /\ \E ip \in Ips \ {exit} : exit' = ip /\ news' = Append(news, ip)
    /\ UNCHANGED <<runtime, site, sinceUpdate, now>>

(* A unit of time passes, which is long for everything but a call.         *)
Tick ==
    LET older(age, limit) == IF age < limit THEN age + 1 ELSE age IN
    /\ events = <<>> /\ news = <<>> /\ \A t \in DOMAIN timers : timers[t] > 0
    /\ timers' = [t \in DOMAIN timers |-> timers[t] - 1]
    /\ machine' = [machine EXCEPT !.in_flight = older(@, NotInFlight),
                                  !.last_attempt = older(@, Long)]
    /\ sinceUpdate' = older(sinceUpdate, Long)
    /\ UNCHANGED <<events, tasks, published, exit, site, news, budget, now>>

-----------------------------------------------------------------------------
vars == <<runtime, exit, site, news, sinceUpdate, budget, now>>

Init ==
    /\ Spawn(New)
    /\ exit = Min(Ips) /\ news = <<exit>>
    /\ site \in [ip : {None}, takes : Takes]
    /\ sinceUpdate = Long
    /\ budget \in Budgets

Next == \/ Handle \/ PassOn \/ Command \/ Dispatch \/ Moves \/ Tick
        \/ \E t \in Timers : FireTimer(t)

(* The answers to status requests and to registrations both come.          *)
Calls(kinds) ==
    /\ Dispatch
    /\ \E kind \in kinds : CopiesIn([do |-> kind], tasks') < CopiesIn([do |-> kind], tasks)

Fairness ==
    /\ WF_vars(Handle) /\ WF_vars(PassOn) /\ WF_vars(Tick)
    /\ WF_vars(Calls({"UpdateSeedbox"})) /\ WF_vars(Calls({"FetchStatus"}))
    /\ \A t \in Timers : SF_vars(FireTimer(t))

Spec == Init /\ [][Next]_vars /\ Fairness

(* Every field holds what MamMachine and its shell put there.              *)
TypeOK ==
    /\ machine \in States
    /\ {e.is : e \in ToSet(events)} \subseteq EventKinds
    /\ {a.do : a \in BagToSet(tasks)} \subseteq ActionKinds
    /\ DOMAIN timers \subseteq Timers

(* A step that starts UpdateSeedbox starts one, the interval after the     *)
(* last.                                                                   *)
StartsSpaced ==
    LET started(bag) == CopiesIn([do |-> "UpdateSeedbox"], bag)
    IN  started(tasks') > started(tasks) =>
            started(tasks') = started(tasks) + 1 /\ sinceUpdate = Long

(* Whatever commands, retries, refreshes and failures come together, any   *)
(* two UpdateSeedbox actions are the minimum interval apart, also two      *)
(* within one unit of time (windlass-mam-core request_seedbox_update).     *)
UpdatesSpaced == [][StartsSpaced]_vars

(* When the exit IP comes to rest, MAM comes to have it registered, also   *)
(* when it moved while a registration was under way (MAM-6, MAM-17).       *)
ExitRegistered == <>[](site.takes => site.ip = exit)
=============================================================================
