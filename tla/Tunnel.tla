------------------------------- MODULE Tunnel -------------------------------
(***************************************************************************)
(* The VPN tunnel's exit-IP checks and the failover to another server      *)
(* (core/tunnel.rs), with the workers that check, save and switch          *)
(* (shell/tunnel.rs, shell/storage.rs), a clock, and crashes.              *)
(*                                                                         *)
(* An event carries the time its worker finished, which may be well before *)
(* the core handles it.  Addresses and failure reasons are abstracted: a   *)
(* check sees an address or fails.                                         *)
(***************************************************************************)
EXTENDS Runtime, Jobs, FiniteSetsExt

CONSTANTS
    ServerList,         \* the configured servers, in failover order
    Failures,           \* FAILURES_BEFORE_SWITCH
    SwitchSpacing,      \* SWITCH_SPACING
    SuspicionSpacing,   \* SUSPICION_SPACING
    Second              \* clock ticks in a second

ASSUME TunnelAssumption ==
    /\ Len(ServerList) \in Nat
    /\ Failures \in Nat \ {0}
    /\ SwitchSpacing \in Nat
    /\ SuspicionSpacing \in Nat
    /\ Second \in Nat \ {0}

VARIABLES
    tunnel,      \* the core's Tunnel, with Watch's fields in it
    checkTimer,  \* the armed TimerName::TunnelCheck
    tunnelJobs,  \* the tunnel's work in flight on workers
    switched,    \* the time of the switch saved in SQLite
    connected,   \* the server the machine's tunnel really uses
    orphan,      \* the server of a unit start that outlived its process
    started      \* history: the decision time of the last switch started, and
                 \* whether this process started it

tunnelVars == <<tunnel, checkTimer, tunnelJobs, switched, connected, orphan,
                started>>
vars == <<now, queue, tunnelVars>>

Servers == {ServerList[k] : k \in 1..Len(ServerList)}
NoServer == "NoServer"

Switch == [server : Servers \cup {NoServer}, at : Times \cup {NoTime}]
NoSwitch == [server |-> NoServer, at |-> NoTime]

TunnelState ==
    [lastSwitch : {"Unread", "Reading", "Known", "ReadFailed"},
     lastAt     : Times \cup {NoTime},   \* Known(None) is NoTime
     enabled    : BOOLEAN,               \* watch is Some
     current    : Servers \cup {NoServer},
     protection : {"Unknown", "Available", "Unavailable"},
     check      : {"Outstanding", "Waiting", "Switching"},
     waiting    : TimerIds \cup {NoTimer},
     failures   : 0..Failures,
     failover   : {"None", "Saving", "Switching"},
     switch     : Switch,                \* the failover's
     lastCheck  : Times]

NewTunnel == [lastSwitch |-> "Unread", lastAt |-> NoTime, enabled |-> FALSE,
              current |-> NoServer, protection |-> "Unknown",
              check |-> "Outstanding", waiting |-> NoTimer, failures |-> 0,
              failover |-> "None", switch |-> NoSwitch, lastCheck |-> 0]

Operations == {"ReadLastVpnSwitch", "CheckExitIp", "SaveVpnSwitch",
               "SwitchVpnServer"}

Job == [op : Operations, switch : Switch]   \* what it saves or starts
NewJob(op, switch) == [op |-> op, switch |-> switch]

(* The event a job's answer becomes; switch is what a read has found.      *)
Answer == [kind : Operations, ok : BOOLEAN, switch : Switch, at : Times]

(* A handler's new state, its actions for workers, and the timer it starts. *)
Result(t, actions, timer) == [tunnel |-> t, actions |-> actions, timer |-> timer]

-----------------------------------------------------------------------------
(* Watch::next_server: the first other server after the current one, in    *)
(* configured order, around the list once.                                 *)
NextServer(t) ==
    LET count == Len(ServerList)
        positions == {k \in 1..count : ServerList[k] = t.current}
        start == IF positions = {} THEN 0 ELSE Min(positions)
        nth(k) == ServerList[((start + k - 1) % count) + 1]
        others == {k \in 1..count : nth(k) # t.current}
    IN  IF others = {} THEN NoServer ELSE nth(Min(others))

(* Tunnel::switch_allowance = Now.                                         *)
SwitchAllowed(t, at) ==
    /\ t.enabled /\ NextServer(t) # NoServer
    /\ t.lastSwitch = "Known"
    /\ t.lastAt # NoTime => t.lastAt + SwitchSpacing <= at

(* Watch::check_now and Watch::wait.                                       *)
CheckNow(t, at) ==
    Result([t EXCEPT !.check = "Outstanding", !.waiting = NoTimer,
                     !.lastCheck = at],
           <<NewJob("CheckExitIp", NoSwitch)>>, NoTimer)

Wait(t, id) ==
    Result([t EXCEPT !.check = "Waiting", !.waiting = id], <<>>, id)

Ignore(t) == Result(t, <<>>, NoTimer)

(* Watch::fail_over.                                                       *)
FailOver(t, at) ==
    LET switch == [server |-> NextServer(t), at |-> at]
    IN  Result([t EXCEPT !.check = "Switching", !.waiting = NoTimer,
                         !.failover = "Saving", !.switch = switch],
               <<NewJob("SaveVpnSwitch", switch)>>, NoTimer)

(* TunnelEvent::LastSwitchRead and LastSwitchReadFailed.                   *)
LastSwitchRead(t, event) ==
    Ignore(IF t.lastSwitch # "Reading" THEN t
           ELSE IF event.ok
           THEN [t EXCEPT !.lastSwitch = "Known", !.lastAt = event.switch.at]
           ELSE [t EXCEPT !.lastSwitch = "ReadFailed"])

(* TunnelEvent::ExitIpObserved and ExitIpCheckFailed.  Failures beyond the *)
(* threshold are not told apart.                                           *)
CheckAnswered(t, event, id) ==
    LET failing == [t EXCEPT !.protection = "Unavailable",
                             !.failures = Min({@ + 1, Failures})]
    IN  IF ~t.enabled \/ t.check # "Outstanding" THEN Ignore(t)
        ELSE IF event.ok
        THEN Wait([t EXCEPT !.protection = "Available", !.failures = 0], id)
        ELSE IF failing.failures >= Failures /\ SwitchAllowed(t, event.at)
        THEN FailOver(failing, event.at)
        ELSE Wait(failing, id)

(* Mutant: no timer is started after a failover that failed.               *)
FailoverFailedForGood(t, id) ==
    IF ~t.enabled \/ t.failover = "None" THEN Ignore(t)
    ELSE Ignore([t EXCEPT !.failover = "None", !.switch = NoSwitch])

(* SwitchSaveFailed and SwitchFailed, whichever the failover's stage.      *)
FailoverFailed(t, id) ==
    IF ~t.enabled \/ t.failover = "None" THEN Ignore(t)
    ELSE Wait([t EXCEPT !.failover = "None", !.switch = NoSwitch], id)

(* Mutant: the saved switch is not remembered.                             *)
SwitchSavedForgotten(t) ==
    IF ~t.enabled \/ t.failover # "Saving" THEN Ignore(t)
    ELSE Result([t EXCEPT !.failover = "Switching"],
                <<NewJob("SwitchVpnServer", t.switch)>>, NoTimer)

(* TunnelEvent::SwitchSaved.                                               *)
SwitchSaved(t) ==
    IF ~t.enabled \/ t.failover # "Saving" THEN Ignore(t)
    ELSE Result([t EXCEPT !.lastSwitch = "Known", !.lastAt = t.switch.at,
                          !.failover = "Switching"],
                <<NewJob("SwitchVpnServer", t.switch)>>, NoTimer)

(* TunnelEvent::Switched.                                                  *)
Switched(t, at) ==
    IF ~t.enabled \/ t.failover # "Switching" THEN Ignore(t)
    ELSE CheckNow([t EXCEPT !.current = t.switch.server,
                            !.protection = "Unknown", !.failures = 0,
                            !.failover = "None", !.switch = NoSwitch], at)

(* Tunnel::handle, for the event a worker's answer becomes.                *)
HandleAnswer(t, event, id) ==
    CASE event.kind = "ReadLastVpnSwitch" -> LastSwitchRead(t, event)
      [] event.kind = "CheckExitIp" -> CheckAnswered(t, event, id)
      [] event.kind = "SaveVpnSwitch" /\ event.ok -> SwitchSaved(t)
      [] event.kind = "SwitchVpnServer" /\ event.ok -> Switched(t, event.at)
      [] event.kind \in {"SaveVpnSwitch", "SwitchVpnServer"} /\ ~event.ok ->
            FailoverFailed(t, id)

(* Tunnel::timer_expired: only the timer the check waits for.              *)
TimerExpired(t, expiry) ==
    IF t.enabled /\ t.check = "Waiting" /\ t.waiting = expiry.id
    THEN CheckNow(t, expiry.at) ELSE Ignore(t)

(* Tunnel::suspect.                                                        *)
Suspect(t, at) ==
    IF t.enabled /\ t.check = "Waiting" /\ at - t.lastCheck >= SuspicionSpacing
    THEN CheckNow(t, at) ELSE Ignore(t)

-----------------------------------------------------------------------------
(* The runner dispatches what a handler returned.                          *)
Dispatch(result) ==
    /\ tunnel' = result.tunnel
    /\ checkTimer' = StartTimer(checkTimer, result.timer)
    /\ tunnelJobs' = tunnelJobs \o result.actions
    /\ started' = IF result.actions # <<>>
                     /\ result.actions[1].op = "SwitchVpnServer"
                  THEN [at |-> result.actions[1].switch.at, here |-> TRUE]
                  ELSE started
    /\ UNCHANGED <<switched, connected, orphan>>

TunnelInit ==
    /\ tunnel = NewTunnel
    /\ checkTimer = NoTimer
    /\ tunnelJobs = <<>>
    /\ switched = NoTime
    /\ connected \in Servers
    /\ orphan = NoServer
    /\ started = [at |-> NoTime, here |-> FALSE]

(* TunnelEvent::Enable, with the server the NixOS module recorded, if any. *)
EnableTunnel ==
    /\ ~tunnel.enabled
    /\ \E current \in {connected, NoServer} :
          Dispatch(CheckNow([tunnel EXCEPT !.enabled = TRUE,
                                           !.current = current], now))

(* Tunnel::start_reading, once storage is open.                            *)
StartReading ==
    /\ tunnel.lastSwitch = "Unread"
    /\ Dispatch(Result([tunnel EXCEPT !.lastSwitch = "Reading"],
                       <<NewJob("ReadLastVpnSwitch", NoSwitch)>>, NoTimer))

(* The unit being started takes the tunnel over before systemctl returns.  *)
TakeOver(i) ==
    /\ tunnelJobs[i].op = "SwitchVpnServer"
    /\ connected' = tunnelJobs[i].switch.server
    /\ connected' # connected
    /\ UNCHANGED <<queue, tunnel, checkTimer, tunnelJobs, switched, orphan,
                   started>>

(* seconds in shell/storage.rs: times are saved in whole seconds.          *)
Saved(at) == (at \div Second) * Second

(* A unit start that a dead process asked for goes on in systemd.          *)
TakeOverOrphan ==
    /\ orphan # NoServer
    /\ connected' = orphan
    /\ orphan' = NoServer
    /\ UNCHANGED <<queue, tunnel, checkTimer, tunnelJobs, switched, started>>

(* A worker finishes and sends its event: a statement was committed or     *)
(* rolled back, a check or a unit start succeeded or failed.               *)
FinishTunnel(i) ==
    LET job == tunnelJobs[i]
    IN  /\ tunnelJobs' = Without(tunnelJobs, i)
        /\ \E ok \in BOOLEAN :
              /\ job.op = "SwitchVpnServer" /\ ok =>
                    connected = job.switch.server
              /\ switched' = IF job.op = "SaveVpnSwitch" /\ ok
                             THEN Saved(job.switch.at) ELSE switched
              /\ queue' = Append(queue,
                    [kind |-> job.op, ok |-> ok, at |-> now,
                     switch |-> IF job.op = "ReadLastVpnSwitch" /\ ok
                                THEN [NoSwitch EXCEPT !.at = switched]
                                ELSE NoSwitch])
        /\ UNCHANGED <<tunnel, checkTimer, connected, orphan, started>>

FireCheckTimer ==
    /\ Expire("TunnelCheck", checkTimer)
    /\ checkTimer' = NoTimer
    /\ UNCHANGED <<tunnel, tunnelJobs, switched, connected, orphan, started>>

(* The runner hands the next event to the core.                            *)
HandleTunnel(event) ==
    Dispatch(HandleAnswer(tunnel, event, Schedule("TunnelCheck", checkTimer)))

TakeCheckExpiry(event) == Dispatch(TimerExpired(tunnel, event))

(* A failed port mapping, reported at this time, casts suspicion.          *)
SuspectTunnel(at) == Dispatch(Suspect(tunnel, at))

(* The process dies: a save under way lands or not; a unit being started   *)
(* goes on or fails.                                                       *)
CrashTunnel ==
    /\ tunnel' = NewTunnel
    /\ checkTimer' = NoTimer
    /\ tunnelJobs' = <<>>
    /\ switched' \in {switched} \cup
          {Saved(tunnelJobs[k].switch.at) : k \in {j \in DOMAIN tunnelJobs :
              tunnelJobs[j].op = "SaveVpnSwitch"}}
    /\ orphan' \in {orphan} \cup
          {tunnelJobs[k].switch.server : k \in {j \in DOMAIN tunnelJobs :
              tunnelJobs[j].op = "SwitchVpnServer"}}
    /\ UNCHANGED connected
    /\ started' = [started EXCEPT !.here = FALSE]

-----------------------------------------------------------------------------
Init == now = 0 /\ queue = <<>> /\ TunnelInit

Work ==
    /\ \/ \E i \in DOMAIN tunnelJobs : TakeOver(i) \/ FinishTunnel(i)
       \/ TakeOverOrphan
    /\ UNCHANGED now

Handle ==
    /\ queue # <<>>
    /\ queue' = Tail(queue)
    /\ IF Head(queue).kind = "TimerExpired"
       THEN TakeCheckExpiry(Head(queue))
       ELSE HandleTunnel(Head(queue))
    /\ UNCHANGED now

Next ==
    \/ EnableTunnel /\ UNCHANGED <<now, queue>>
    \/ StartReading /\ UNCHANGED <<now, queue>>
    \/ Work
    \/ FireCheckTimer /\ UNCHANGED now
    \/ Handle
    \/ SuspectTunnel(now) /\ UNCHANGED <<now, queue>>
    \/ CrashTunnel /\ queue' = <<>> /\ UNCHANGED now
    \/ Tick /\ UNCHANGED <<queue, tunnelVars>>

(* Checks time out (CHECK_TIMEOUT), busy_timeout bounds a statement, a     *)
(* sleeping timer task wakes, and the runner takes queued events.  That a  *)
(* unit start ends is an assumption about the connect script: neither the  *)
(* shell nor the unit gives it a time limit.                               *)
Fairness == WF_vars(Work) /\ WF_vars(FireCheckTimer /\ UNCHANGED now)
            /\ WF_vars(Handle)

Spec == Init /\ [][Next]_vars /\ Fairness

-----------------------------------------------------------------------------
(* Every variable has its type, and the phases of Watch agree with each    *)
(* other as the enums of core/tunnel.rs make them.                         *)
TypeOK ==
    /\ now \in Times
    /\ tunnel \in TunnelState
    /\ tunnel.failover = "None" <=> tunnel.switch = NoSwitch
    /\ tunnel.check = "Waiting" <=> tunnel.waiting # NoTimer
    /\ checkTimer \in TimerIds \cup {NoTimer}
    /\ tunnelJobs \in Seq(Job)
    /\ \A k \in DOMAIN queue :
          queue[k].kind = "TimerExpired" \/ queue[k] \in Answer
    /\ switched \in Times \cup {NoTime}
    /\ connected \in Servers
    /\ orphan \in Servers \cup {NoServer}
    /\ started \in [at : Times \cup {NoTime}, here : BOOLEAN]

(* Two switches are never decided less than SWITCH_SPACING apart, even     *)
(* when a save failed or the decision was taken on an old answer, and less *)
(* than a second short of it when the process died in between: the switch  *)
(* is on disk, in whole seconds, before it starts.                         *)
SwitchesSpaced ==
    [][started'.at # started.at /\ started.at # NoTime
       => started'.at >= started.at + SwitchSpacing
                         - (IF started.here THEN 0 ELSE Second - 1)]_vars

(* One check is in flight, exactly while the core waits for one, and none  *)
(* while a failover is saved or under way: an answer never tells of a      *)
(* server that has been left and never counts twice towards the failures.  *)
OneCheck ==
    LET running == {k \in DOMAIN tunnelJobs : tunnelJobs[k].op = "CheckExitIp"}
        queued == {k \in DOMAIN queue : queue[k].kind = "CheckExitIp"}
    IN  Cardinality(running) + Cardinality(queued) =
            IF tunnel.enabled /\ tunnel.check = "Outstanding" THEN 1 ELSE 0

(* The watch never stalls: whatever fails, another check follows (or the   *)
(* process dies and watching starts again).                                *)
ChecksGoOn == []<>(~tunnel.enabled \/ tunnel.check = "Outstanding")

=============================================================================
