--------------------------- MODULE DockerMachine ----------------------------
(***************************************************************************)
(* The prototype's container machine (windlass-docker-core), its shell     *)
(* with the stream of daemon events, and the containers that share the     *)
(* network namespace of the anchor, which is Windlass itself.  Every       *)
(* container has a health check.                                           *)
(***************************************************************************)
EXTENDS Machine

CONSTANTS
    Dependents,             \* the containers in the anchor's namespace
    Anchor,
    MaxRestartsPerWindow, RestartWindowDuration,
    AutohealDependents,     \* whether unhealthy dependents are restarted
    MaxStream, MaxNow,      \* bounds on unread daemon events and on time
    Budgets                 \* bounds on faults and orders

VARIABLES
    docker,     \* of each container, whether it runs, its health and start
    stream,     \* daemon events the watcher has not read
    restarts,   \* when the circuit breaker let a restart through
    budget

Never == -1
Containers == Dependents \cup {Anchor}
Healths == {"Unknown", "Healthy", "Unhealthy"}
EventKinds == {"Init", "ContainerHealthy", "ContainerUnhealthy", "ContainerStopped",
               "ContainerStarted", "DependentsDiscovered", "LogsDumped",
               "LogsDumpFailed"}
ActionKinds == {"StartContainer", "StopContainer", "RestartContainer",
                "InspectContainer", "DumpLogs", "DiscoverDependents"}

Topic(p) == IF p.is = "LogsDumped" THEN "Logs" ELSE "Lifecycle"

(* TopicFanout::send: a publish goes to those who asked for its topic.     *)
Wanted(publishes) == SelectSeq(publishes, LAMBDA p : Topic(p) \in Subscribed)

Unseen == [health |-> "Unknown", started_at |-> Never, network_trusted |-> FALSE]

(* struct DockerMachine, without the identifier of the incident, which     *)
(* only the log names.                                                     *)
ContainerStates == [health : Healths, started_at : Int, network_trusted : BOOLEAN]
States ==
    [containers : [Containers -> ContainerStates], dependents : Seq(Dependents),
     anchor_healthy_since : Int, restart_window : Seq(Nat),
     crash_dump_emitted : BOOLEAN]

New == [containers |-> [c \in Containers |-> Unseen], dependents |-> <<>>,
        anchor_healthy_since |-> Never, restart_window |-> <<>>,
        crash_dump_emitted |-> FALSE]

Do(kind, name) == [do |-> kind, name |-> name]
Each(kind, names) == [i \in DOMAIN names |-> Do(kind, names[i])]
Says(kind, name) == [is |-> kind, name |-> name]

-----------------------------------------------------------------------------
(* Mutant: the window forgets what is exactly its length old and a restart *)
(* is let through at the limit.                                            *)
TryRestartOver(m, name) ==
    LET recent == SelectSeq(m.restart_window,
                            LAMBDA t : now - t <= RestartWindowDuration)
    IN  IF Len(recent) <= MaxRestartsPerWindow
        THEN [m |-> [m EXCEPT !.restart_window = Append(recent, now)],
              actions |-> <<Do("RestartContainer", name)>>, publishes |-> <<>>]
        ELSE [m |-> m, actions |-> <<>>,
              publishes |-> <<Says("RestartStorm", Anchor)>>]

(* try_restart: one budget for stale namespaces and autoheal; beyond it a  *)
(* storm is published for every restart held back, and logs are dumped     *)
(* once per incident.                                                      *)
TryRestart(m, name) ==
    LET recent == SelectSeq(m.restart_window,
                            LAMBDA t : now - t <= RestartWindowDuration)
        pruned == [m EXCEPT !.restart_window = recent]
    IN  IF MaxRestartsPerWindow = 0 \/ Len(recent) < MaxRestartsPerWindow
        THEN [m |-> [pruned EXCEPT !.restart_window = Append(@, now)],
              actions |-> <<Do("RestartContainer", name)>>, publishes |-> <<>>]
        ELSE [m |-> [pruned EXCEPT !.crash_dump_emitted = TRUE],
              actions |-> IF m.crash_dump_emitted THEN <<>>
                          ELSE Each("DumpLogs", <<Anchor>> \o m.dependents),
              publishes |-> <<Says("RestartStorm", Anchor)>>]

Kept(m) == [m |-> m, actions |-> <<>>, publishes |-> <<>>]

Known(name) == name \in ToSet(machine.dependents)

(* A handler's answer, with the restarts it let through on record.         *)
Reply(m, actions, publishes) ==
    /\ Apply(m, actions, Wanted(publishes))
    /\ restarts' = IF "RestartContainer" \in {a.do : a \in ToSet(actions)}
                   THEN Append(restarts, now) ELSE restarts

-----------------------------------------------------------------------------
(* DockerMachine::handle, one action per event.                            *)
HandleInit(e) ==
    /\ e.is = "Init"
    /\ Reply(machine, <<Do("DiscoverDependents", Anchor),
                        Do("InspectContainer", Anchor)>>, <<>>)

LogsDumped(e) ==
    e.is \in {"LogsDumped", "LogsDumpFailed"} /\ Reply(machine, <<>>, <<>>)

DependentsDiscovered(e) ==
    /\ e.is = "DependentsDiscovered"
    /\ Reply([machine EXCEPT !.dependents = e.names], <<>>, <<>>)

(* The anchor turns healthy: a new incident, and the dependents known so   *)
(* far are inspected again.                                                *)
ContainerHealthy(e) ==
    LET was == machine.containers[e.name].health = "Healthy"
        m == [machine EXCEPT !.containers[e.name].health = "Healthy"]
        rises == IF e.name = Anchor THEN m.anchor_healthy_since = Never ELSE ~was
        untrusted == [c \in Containers |->
                        [m.containers[c] EXCEPT !.network_trusted = @ /\ ~Known(c)]]
    IN  /\ e.is = "ContainerHealthy"
        /\ IF e.name = Anchor /\ rises
           THEN Reply([m EXCEPT !.anchor_healthy_since = now, !.containers = untrusted,
                                !.crash_dump_emitted = FALSE],
                      Each("InspectContainer", m.dependents),
                      <<Says("ContainerHealthy", Anchor)>>)
           ELSE Reply(m, <<>>, IF rises THEN <<Says("ContainerHealthy", e.name)>>
                               ELSE <<>>)

ContainerUnhealthy(e) ==
    LET was == machine.containers[e.name].health = "Unhealthy"
        m == [machine EXCEPT !.containers[e.name].health = "Unhealthy"]
        fell == m.anchor_healthy_since # Never
        untrusted == [c \in Containers |->
                        [m.containers[c] EXCEPT !.network_trusted = FALSE]]
        healed == IF AutohealDependents /\ Known(e.name) THEN TryRestart(m, e.name)
                  ELSE Kept(m)
        crashed == <<Says("ContainerCrashed", e.name)>>
    IN  /\ e.is = "ContainerUnhealthy"
        /\ \/ e.name = Anchor /\ fell
              /\ Reply([m EXCEPT !.anchor_healthy_since = Never,
                                 !.containers = untrusted], <<>>, crashed)
           \/ e.name = Anchor /\ ~fell /\ Reply(m, <<>>, <<>>)
           \/ e.name # Anchor
              /\ Reply(healed.m, healed.actions,
                       (IF was THEN <<>> ELSE crashed) \o healed.publishes)

ContainerStopped(e) ==
    /\ e.is = "ContainerStopped"
    /\ Reply([machine EXCEPT !.containers[e.name].network_trusted = FALSE],
             <<>>, <<Says("Stopped", e.name)>>)

(* Mutant: a start is enough for trust.                                    *)
ContainerStartedTrusted(e) ==
    /\ e.is = "ContainerStarted"
    /\ Reply([machine EXCEPT !.containers[e.name].started_at = e.started_at,
                             !.containers[e.name].network_trusted = Known(e.name)],
             <<>>, <<Says("Started", e.name)>>)

(* The stale-namespace check: a known dependent that started before the    *)
(* anchor turned healthy is restarted.                                     *)
ContainerStarted(e) ==
    LET m == [machine EXCEPT !.containers[e.name].started_at = e.started_at]
        since == m.anchor_healthy_since
        judged == Known(e.name) /\ e.name # Anchor /\ since # Never
        trusted == m.containers[e.name].network_trusted
        trust(yes) == [m EXCEPT !.containers[e.name].network_trusted = yes]
        r == TryRestart(trust(FALSE), e.name)
        started == <<Says("Started", e.name)>>
    IN  /\ e.is = "ContainerStarted"
        /\ \/ ~judged /\ Reply(m, <<>>, started)
           \/ judged /\ e.started_at >= since
              /\ Reply(trust(TRUE), <<>>,
                       started \o IF trusted THEN <<>>
                                  ELSE <<Says("DependentNetworkTrusted", e.name)>>)
           \/ judged /\ e.started_at < since
              /\ Reply(r.m, r.actions,
                       started \o <<Says("DependentNetworkUntrusted", e.name)>>
                       \o r.publishes)

Handler(e) ==
    \/ HandleInit(e) \/ LogsDumped(e) \/ DependentsDiscovered(e)
    \/ ContainerHealthy(e) \/ ContainerUnhealthy(e) \/ ContainerStopped(e)
    \/ ContainerStarted(e)

Handle ==
    Take /\ Handler(Head(events)) /\ UNCHANGED <<docker, stream, budget>>

-----------------------------------------------------------------------------
Spend(kind) ==
    budget[kind] > 0 /\ budget' = [budget EXCEPT ![kind] = @ - 1]

(* DockerMachine::handle_command: the commands the domain sends.           *)
CommandActions ==
    {Each("StopContainer", machine.dependents),
     Each("StartContainer", machine.dependents),
     Each("DumpLogs", <<Anchor>> \o machine.dependents)}

Command ==
    /\ Spend("orders") /\ BagCardinality(tasks) < MaxTasks
    /\ \E actions \in CommandActions : Apply(machine, actions, <<>>)
    /\ Obeyed /\ UNCHANGED <<docker, stream, restarts>>

-----------------------------------------------------------------------------
(* DockerShell::dispatch.                                                  *)
Unread(kinds, name) == stream \o [i \in DOMAIN kinds |-> Says(kinds[i], name)]
StreamRoom == Len(stream) < MaxStream

(* A container starts without a verdict of its health check.               *)
Start(name) == [docker EXCEPT ![name] = [up |-> TRUE, health |-> "Unknown",
                                         started |-> now]]

(* Whether or not the daemon does it, nothing is reported back.            *)
ChangeContainer(a) ==
    LET up == docker[a.name].up IN
    /\ StreamRoom
    /\ Finish(a, <<>>)
    /\ \/ /\ a.do = "StopContainer" /\ up
          /\ docker' = [docker EXCEPT ![a.name].up = FALSE, ![a.name].health = "Unknown"]
          /\ stream' = Unread(<<"ContainerStopped">>, a.name)
       \/ /\ a.do = "StartContainer" /\ ~up
          /\ docker' = Start(a.name)
          /\ stream' = Unread(<<"ContainerStarted">>, a.name)
       \/ /\ a.do = "RestartContainer"
          /\ docker' = Start(a.name)
          /\ stream' = Unread((IF up THEN <<"ContainerStopped">> ELSE <<>>)
                              \o <<"ContainerStarted">>, a.name)
       \/ /\ \/ a.do = "StopContainer" /\ ~up
             \/ a.do = "StartContainer" /\ up
          /\ UNCHANGED <<docker, stream>>
    /\ UNCHANGED budget

(* The daemon refuses: a warning is logged.                                *)
ChangeFails(a) ==
    /\ a.do \in {"StopContainer", "StartContainer", "RestartContainer"}
    /\ Spend("faults")
    /\ Finish(a, <<>>)
    /\ UNCHANGED <<docker, stream>>

Began(name) ==
    [is |-> "ContainerStarted", name |-> name, started_at |-> docker[name].started]

(* inspect_state: the last start also of a container that has stopped; no  *)
(* verdict of its health check yet reads as unhealthy.                     *)
InspectContainer(a) ==
    /\ a.do = "InspectContainer"
    /\ \/ /\ Finish(a, <<Began(a.name),
                         Says(IF docker[a.name].health = "Healthy" THEN "ContainerHealthy"
                              ELSE "ContainerUnhealthy", a.name)>>)
          /\ UNCHANGED budget
       \/ Spend("faults") /\ Finish(a, <<>>)
    /\ UNCHANGED <<docker, stream>>

DumpOne(a) ==
    /\ a.do = "DumpLogs"
    /\ \/ Finish(a, <<Says("LogsDumped", a.name)>>) /\ UNCHANGED budget
       \/ Spend("faults") /\ Finish(a, <<Says("LogsDumpFailed", a.name)>>)
    /\ UNCHANGED <<docker, stream>>

(* discover_dependents lists stopped containers too; on an error none.     *)
DiscoverDependents(a) ==
    /\ a.do = "DiscoverDependents"
    /\ \/ /\ Finish(a, <<[is |-> "DependentsDiscovered", names |-> SetToSeq(Dependents)]>>)
          /\ UNCHANGED budget
       \/ /\ Spend("faults")
          /\ Finish(a, <<[is |-> "DependentsDiscovered", names |-> <<>>]>>)
    /\ UNCHANGED <<docker, stream>>

Dispatch ==
    /\ \E a \in BagToSet(tasks) :
         \/ ChangeContainer(a) \/ ChangeFails(a) \/ InspectContainer(a) \/ DumpOne(a)
         \/ DiscoverDependents(a)
    /\ UNCHANGED restarts

(* spawn_event_watcher reads the next daemon event; the start it reports   *)
(* is the one it then inspects, or its own clock when that fails.          *)
Watch ==
    LET e == Head(stream)
        starts == e.is = "ContainerStarted"
    IN  /\ stream # <<>> /\ Room
        /\ stream' = Tail(stream)
        /\ \/ /\ events' = Append(events, IF starts THEN Began(e.name) ELSE e)
              /\ UNCHANGED budget
           \/ /\ starts /\ Spend("faults")
              /\ events' = Append(events, [Began(e.name) EXCEPT !.started_at = now])
        /\ UNCHANGED <<machine, tasks, timers, published, now, docker, restarts>>

(* The stream closes; what happens before it reconnects is not heard of.   *)
StreamClosed ==
    /\ stream # <<>> /\ Spend("faults")
    /\ stream' = <<>>
    /\ UNCHANGED <<runtime, now, docker, restarts>>

-----------------------------------------------------------------------------
(* The daemon's health checks.                                             *)
Turns(name, health) ==
    LET well == health = "Healthy" IN
    /\ StreamRoom
    /\ docker[name].up /\ docker[name].health # health
    /\ IF well THEN UNCHANGED budget ELSE Spend("faults")
    /\ docker' = [docker EXCEPT ![name].health = health]
    /\ stream' = Unread(<<IF well THEN "ContainerHealthy" ELSE "ContainerUnhealthy">>, name)
    /\ UNCHANGED <<runtime, now, restarts>>

(* The channel is drained faster than a unit of the clock.                 *)
Tick ==
    /\ now < MaxNow /\ events = <<>>
    /\ now' = now + 1
    /\ UNCHANGED <<runtime, docker, stream, restarts, budget>>

vars == <<runtime, now, docker, stream, restarts, budget>>

(* A dependent may have been there before Windlass was started.            *)
Init ==
    /\ Spawn(New)
    /\ docker = [c \in Containers |-> [up |-> TRUE, health |-> "Unknown", started |-> 0]]
    /\ stream = <<>> /\ restarts = <<>>
    /\ budget \in Budgets

Next == \/ Handle \/ Command \/ Dispatch \/ Watch \/ StreamClosed \/ Tick
        \/ \E c \in Containers, h \in {"Healthy", "Unhealthy"} : Turns(c, h)

Spec == Init /\ [][Next]_vars

-----------------------------------------------------------------------------
(* Every field holds what DockerMachine and its shell put there.           *)
TypeOK ==
    /\ machine \in States
    /\ {e.is : e \in ToSet(events)} \subseteq EventKinds
    /\ {a.do : a \in BagToSet(tasks)} \subseteq ActionKinds

(* Stale namespaces and autoheal together restart dependents at most       *)
(* max_restarts_per_window times in any window, through new incidents and  *)
(* forgotten windows (DOCKER-2, windlass-docker-core try_restart).         *)
RestartBudget ==
    MaxRestartsPerWindow > 0 =>
      \A i \in DOMAIN restarts :
         i + MaxRestartsPerWindow \in DOMAIN restarts =>
           restarts[i + MaxRestartsPerWindow] - restarts[i] > RestartWindowDuration

(* A dependent that is trusted started after the anchor last turned        *)
(* healthy, as the daemon has it and not only as the machine heard it      *)
(* (DOCKER-4), whatever events are lost or late.  The exception is a start *)
(* that the watcher could not inspect and dated by its own clock, later    *)
(* than the daemon has it.                                                 *)
TrustedIsFresh ==
    \A d \in Dependents :
        LET c == machine.containers[d] IN
        c.network_trusted =>
          /\ machine.anchor_healthy_since # Never
          /\ \/ docker[d].started >= machine.anchor_healthy_since
             \/ docker[d].started < c.started_at
=============================================================================
