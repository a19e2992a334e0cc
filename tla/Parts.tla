------------------------------- MODULE Parts --------------------------------
(***************************************************************************)
(* Three parts beside the pause over MAM requests, which share no state    *)
(* with it or with each other: port forwarding, the history, and the event *)
(* ingress with its shutdown.  One part runs; the others rest in a state   *)
(* of their own.  A resting pause is one whose storage could not be        *)
(* opened.                                                                 *)
(***************************************************************************)
EXTENDS MamPause, Ingress

CONSTANTS
    MaxTime, TimerIds, MaxQueued, Gateways, Lifetimes,             \* Port
    MaxSteps, BufferLimit, Limits                                  \* History

ASSUME PartsAssumption ==
    /\ MaxTime \in Nat /\ Lifetimes \subseteq Nat
    /\ MaxSteps \in Nat /\ BufferLimit \in Nat /\ Limits \subseteq Nat \ {0}
    /\ Capacity \in Nat \ {0}
    /\ MaxEffects \in Nat /\ MaxTimers \in Nat /\ MaxLosses \in Nat

VARIABLES
    part,
    now, portQueue, forwarding, leaseTimer, mappings,
    history, step, limit, historyCommands, store, buffer, lost, entries,
    historyQueue, entriesLost

Port == INSTANCE PortForwarding WITH queue <- portQueue

Log == INSTANCE History WITH
    commands <- historyCommands, stored <- entries, queue <- historyQueue,
    losses <- entriesLost

-----------------------------------------------------------------------------
portVars == <<now, portQueue, forwarding, leaseTimer, mappings>>
logVars == <<history, step, limit, historyCommands, store, buffer, lost,
             entries, historyQueue, entriesLost>>
partsVars == <<part, vars, portVars, logVars, ingressVars>>

(* Core::handle_startup's state after StorageOpenFailed.                   *)
PauseRests ==
    /\ core = [NewCore EXCEPT !.state = "Failed"]
    /\ jobs = <<>> /\ disk = "Absent" /\ asked = NoUpdate

PartsInit ==
    /\ part \in {"Pause", "Port", "Log", "Runner"}
    /\ IF part = "Pause" THEN Init ELSE PauseRests
    /\ Port!Init /\ Log!Init /\ IngressInit

(* A step of one part while the others rest.                               *)
PauseStep(A) ==
    part = "Pause" /\ A /\ UNCHANGED <<part, portVars, logVars, ingressVars>>

PortStep(A) ==
    part = "Port" /\ A /\ UNCHANGED <<part, vars, logVars, ingressVars>>

LogStep(A) ==
    part = "Log" /\ A /\ UNCHANGED <<part, vars, portVars, ingressVars>>

IngressStep(A) ==
    part = "Runner" /\ A /\ UNCHANGED <<part, vars, portVars, logVars>>

(* Once the runner has returned, the process is over.                      *)
Ended == part = "Runner" /\ runner = "Finished" /\ UNCHANGED partsVars

PartsNext ==
    \/ PauseStep(Next)
    \/ PortStep(Port!Next)
    \/ LogStep(Log!Next)
    \/ IngressStep(IngressNext)
    \/ Ended

(* Each part's own fairness.  The part that runs never changes, so that    *)
(* one condition speaks for an action of each.                             *)
PartsFairness ==
    /\ WF_partsVars(\/ PauseStep(Start)
                    \/ PortStep(Port!Work)
                    \/ IngressStep(RunnerStep))
    /\ WF_partsVars(\/ PauseStep(Work)
                    \/ PortStep(Port!FireLeaseTimer /\ UNCHANGED now)
                    \/ IngressStep(WriterStep))
    /\ WF_partsVars(\/ PortStep(Port!Handle)
                    \/ IngressStep(MarkShutdown \/ SendShutdown))
    /\ WF_partsVars(IngressStep(FinishEffect))
    /\ \A p \in Producers : WF_partsVars(IngressStep(Submit(p)))

PartsSpec == PartsInit /\ [][PartsNext]_partsVars /\ PartsFairness

-----------------------------------------------------------------------------
(* Properties of the two parts that are instances here.                    *)
(* Renewal of the forwarded port never stops (core/port_forwarding.rs).    *)
RequestsGoOn == Port!RequestsGoOn

(* The core's count of the history follows the writer's (core/history.rs). *)
RetainedExact == Log!RetainedExact
=============================================================================
