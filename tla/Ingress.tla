------------------------------ MODULE Ingress -------------------------------
(***************************************************************************)
(* The event stream and its shutdown: producers, workers, timers and the   *)
(* history writer send into one bounded queue, and the runner handles it   *)
(* until a shutdown has finished everything that was accepted              *)
(* (shell/ingress.rs, shell/mod.rs, runner.rs, shell/history.rs).          *)
(*                                                                         *)
(* Handling an event starts any effects here; what they are is modelled by *)
(* the components.                                                         *)
(***************************************************************************)
EXTENDS Integers, Sequences, FiniteSets

CONSTANTS
    Producers,    \* callers of EventSender::send_timed, one event each
    Capacity,     \* EVENT_QUEUE_CAPACITY
    MaxEffects,   \* bound on the effects that events start
    MaxTimers,    \* bound on timers that expire
    MaxLosses     \* bound on losses that the writer reports

VARIABLES
    queue,       \* the channel's inputs
    closed,      \* the receiver is closed
    state,       \* IngressState
    caller,      \* where each producer is
    shutdown,    \* where EventSender::shutdown is
    runner,      \* where the runner is
    active,      \* active_workers
    working,     \* effects running on workers
    started,     \* effects started so far
    expired,     \* timers expired so far
    commands,    \* the history writer's channel
    writing,     \* the result or the loss that the writer is sending
    losses,      \* losses reported so far
    handled,     \* history: producers whose event was handled
    recorded     \* history: entries recorded but not written

channelVars == <<queue, closed, state>>
effectVars == <<active, working, started>>
writerVars == <<commands, writing, losses, recorded>>
ingressVars == <<channelVars, caller, shutdown, runner, effectVars, expired,
          writerVars, handled>>

Event(from) == [kind |-> "Event", from |-> from]
Completed == [kind |-> "Completed", from |-> "shell"]
Shutdown == [kind |-> "Shutdown", from |-> "shell"]

(* Slots that a permit holds.                                              *)
Permits == Cardinality({p \in Producers : caller[p] = "Reserved"})
           + IF shutdown \in {"Reserved", "Marked"} THEN 1 ELSE 0

(* The channel's semaphore has a free slot.                                *)
HasRoom == Len(queue) + Permits < Capacity

-----------------------------------------------------------------------------
(* EventSender::send_timed: reserve a slot, or learn that the runner has   *)
(* stopped.                                                                *)
Reserve(p) ==
    /\ caller[p] = "Idle"
    /\ \/ closed /\ caller' = [caller EXCEPT ![p] = "Refused"]
       \/ ~closed /\ HasRoom /\ caller' = [caller EXCEPT ![p] = "Reserved"]
    /\ UNCHANGED <<channelVars, shutdown, runner, effectVars, expired,
                   writerVars, handled>>

(* A send to a closed channel loses its message.                           *)
Sent(input) == IF closed THEN queue ELSE Append(queue, input)

(* Mutant: acceptance does not look at the shutdown.                       *)
SubmitUnchecked(p) ==
    /\ caller[p] = "Reserved"
    /\ caller' = [caller EXCEPT ![p] = "Accepted"]
    /\ queue' = Sent(Event(p))
    /\ UNCHANGED <<closed, state, shutdown, runner, effectVars, expired,
                   writerVars, handled>>

(* The rest of send_timed: the borrowed state keeps a shutdown out between *)
(* the check and the send.                                                 *)
Submit(p) ==
    /\ caller[p] = "Reserved"
    /\ IF state = "Closing"
       THEN /\ caller' = [caller EXCEPT ![p] = "Refused"]
            /\ UNCHANGED queue
       ELSE /\ caller' = [caller EXCEPT ![p] = "Accepted"]
            /\ queue' = Sent(Event(p))
    /\ UNCHANGED <<closed, state, shutdown, runner, effectVars, expired,
                   writerVars, handled>>

(* EventSender::shutdown.                                                  *)
ReserveShutdown ==
    /\ shutdown = "Idle"
    /\ ~closed /\ HasRoom
    /\ shutdown' = "Reserved"
    /\ UNCHANGED <<channelVars, caller, runner, effectVars, expired,
                   writerVars, handled>>

MarkShutdown ==
    /\ shutdown = "Reserved"
    /\ shutdown' = "Marked"
    /\ state' = "Closing"
    /\ UNCHANGED <<queue, closed, caller, runner, effectVars, expired,
                   writerVars, handled>>

SendShutdown ==
    /\ shutdown = "Marked"
    /\ shutdown' = "Sent"
    /\ queue' = Sent(Shutdown)
    /\ UNCHANGED <<closed, state, caller, runner, effectVars, expired,
                   writerVars, handled>>

-----------------------------------------------------------------------------
(* A worker finishes and sends its completion once there is room.          *)
FinishEffect ==
    /\ working > 0
    /\ closed \/ HasRoom
    /\ working' = working - 1
    /\ queue' = Sent(Completed)
    /\ UNCHANGED <<closed, state, caller, shutdown, runner, active, started,
                   expired, writerVars, handled>>

(* A timer expires; its task sends past the ingress.                       *)
ExpireTimer ==
    /\ expired < MaxTimers
    /\ runner # "Finished"
    /\ closed \/ HasRoom
    /\ expired' = expired + 1
    /\ queue' = Sent(Event("timer"))
    /\ UNCHANGED <<closed, state, caller, shutdown, runner, effectVars,
                   writerVars, handled>>

(* The history writer's loop: it takes an entry, after which it may have   *)
(* losses to report, or does tracked work (opening, trimming).             *)
Write ==
    /\ writing = "None"
    /\ commands # <<>>
    /\ commands' = Tail(commands)
    /\ IF Head(commands) = "Record"
       THEN /\ recorded' = recorded - 1
            /\ \/ UNCHANGED <<writing, losses>>
               \/ /\ losses < MaxLosses
                  /\ losses' = losses + 1
                  /\ writing' = "Loss"
       ELSE writing' = "Result" /\ UNCHANGED <<recorded, losses>>
    /\ UNCHANGED <<channelVars, caller, shutdown, runner, effectVars, expired,
                   handled>>

(* The writer's blocking sends: Input::Completed, or EntriesLost as an     *)
(* event, which nothing counts.                                            *)
SendResult ==
    /\ writing # "None"
    /\ closed \/ HasRoom
    /\ writing' = "None"
    /\ queue' = Sent(IF writing = "Result" THEN Completed ELSE Event("writer"))
    /\ UNCHANGED <<closed, state, caller, shutdown, runner, effectVars,
                   expired, commands, losses, recorded, handled>>

-----------------------------------------------------------------------------
(* Core::handle, Shell::record and Shell::dispatch: the entry is recorded  *)
(* before the actions start, each on a worker or with the writer.          *)
HandleEvent(left) ==
    \E spawned \in 0..MaxEffects, tracked \in 0..MaxEffects :
      /\ started + spawned + tracked <= MaxEffects
      /\ started' = started + spawned + tracked
      /\ active' = left + spawned + tracked
      /\ working' = working + spawned
      /\ commands' = commands \o <<"Record">> \o [i \in 1..tracked |-> "Track"]
      /\ recorded' = recorded + 1

(* Shell::next_event: the stop condition's first two conjuncts...          *)
SeeClosing ==
    /\ runner = "Looking"
    /\ runner' = IF state = "Closing" /\ active = 0 THEN "Closing"
                 ELSE "Receiving"
    /\ UNCHANGED <<channelVars, caller, shutdown, effectVars, expired,
                   writerVars, handled>>

(* ...its third...                                                         *)
SeeEmpty ==
    /\ runner = "Closing"
    /\ runner' = IF queue = <<>> THEN "Stopping" ELSE "Receiving"
    /\ UNCHANGED <<channelVars, caller, shutdown, effectVars, expired,
                   writerVars, handled>>

(* ...and Receiver::close.                                                 *)
Stop ==
    /\ runner = "Stopping"
    /\ runner' = "Stopped"
    /\ closed' = TRUE
    /\ UNCHANGED <<queue, state, caller, shutdown, effectVars, expired,
                   writerVars, handled>>

(* The rest of next_event and Runner::run's loop, on a producer's or a     *)
(* timer's event.                                                          *)
ReceiveEvent ==
    /\ runner = "Receiving"
    /\ queue # <<>> /\ Head(queue).kind = "Event"
    /\ queue' = Tail(queue)
    /\ HandleEvent(active)
    /\ handled' = handled \cup ({Head(queue).from} \cap Producers)
    /\ runner' = "Looking"
    /\ UNCHANGED <<closed, state, caller, shutdown, expired, writing, losses>>

(* Mutant: a completion does not free its worker.                          *)
ReceiveCompletedBusy ==
    /\ runner = "Receiving"
    /\ queue # <<>> /\ Head(queue).kind = "Completed"
    /\ queue' = Tail(queue)
    /\ HandleEvent(active)
    /\ runner' = "Looking"
    /\ UNCHANGED <<closed, state, caller, shutdown, expired, writing,
                   losses, handled>>

(* A completion frees its worker and is handled as an event.               *)
ReceiveCompleted ==
    /\ runner = "Receiving"
    /\ queue # <<>> /\ Head(queue).kind = "Completed"
    /\ queue' = Tail(queue)
    /\ HandleEvent(active - 1)
    /\ runner' = "Looking"
    /\ UNCHANGED <<closed, state, caller, shutdown, expired, writing,
                   losses, handled>>

ReceiveShutdown ==
    /\ runner = "Receiving"
    /\ queue # <<>> /\ Head(queue).kind = "Shutdown"
    /\ queue' = Tail(queue)
    /\ state' = "Closing"
    /\ runner' = "Looking"
    /\ UNCHANGED <<closed, caller, shutdown, effectVars, expired, writerVars,
                   handled>>

(* Shell::finish: timers are aborted, and the writer's thread is joined    *)
(* once it has drained its channel.                                        *)
Finish ==
    /\ runner = "Stopped"
    /\ commands = <<>> /\ writing = "None"
    /\ runner' = "Finished"
    /\ UNCHANGED <<channelVars, caller, shutdown, effectVars, expired,
                   writerVars, handled>>

-----------------------------------------------------------------------------
IngressInit ==
    /\ queue = <<>> /\ closed = FALSE /\ state = "Open"
    /\ caller = [p \in Producers |-> "Idle"]
    /\ shutdown = "Idle"
    /\ runner = "Looking"
    /\ active = 0 /\ working = 0 /\ started = 0
    /\ expired = 0
    /\ commands = <<>> /\ writing = "None" /\ losses = 0
    /\ handled = {} /\ recorded = 0

Receive == ReceiveEvent \/ ReceiveCompleted \/ ReceiveShutdown

RunnerStep == SeeClosing \/ SeeEmpty \/ Stop \/ Receive \/ Finish

ShutdownStep == ReserveShutdown \/ MarkShutdown \/ SendShutdown

WriterStep == Write \/ SendResult

IngressNext ==
    \/ \E p \in Producers : Reserve(p) \/ Submit(p)
    \/ ShutdownStep
    \/ FinishEffect
    \/ ExpireTimer
    \/ WriterStep
    \/ RunnerStep

IngressFairness ==
    /\ WF_ingressVars(RunnerStep)
    /\ WF_ingressVars(WriterStep)
    /\ WF_ingressVars(MarkShutdown \/ SendShutdown)
    /\ WF_ingressVars(FinishEffect)
    /\ \A p \in Producers : WF_ingressVars(Submit(p))

IngressSpec == IngressInit /\ [][IngressNext]_ingressVars /\ IngressFairness

-----------------------------------------------------------------------------
(* Every variable has its type, and the queue and the permits never exceed *)
(* the channel's capacity.                                                 *)
IngressTypeOK ==
    /\ Len(queue) + Permits <= Capacity \/ closed
    /\ closed \in BOOLEAN /\ state \in {"Open", "Closing"}
    /\ caller \in [Producers -> {"Idle", "Reserved", "Accepted", "Refused"}]
    /\ shutdown \in {"Idle", "Reserved", "Marked", "Sent"}
    /\ runner \in {"Looking", "Receiving", "Closing", "Stopping", "Stopped",
                   "Finished"}
    /\ active \in Nat /\ working \in Nat /\ started \in 0..MaxEffects
    /\ expired \in 0..MaxTimers
    /\ commands \in Seq({"Record", "Track"})
    /\ writing \in {"None", "Result", "Loss"} /\ losses \in 0..MaxLosses
    /\ handled \subseteq Producers /\ recorded \in Nat

(* When the runner stops, every event that send_timed accepted was handled *)
(* and every effect has ended with its result handled, however submissions *)
(* and effects interleave with the shutdown; and the history writer has    *)
(* dealt with every handled event when run returns (the comment "Keep      *)
(* acceptance and enqueueing together across shutdown";                    *)
(* EventSender::shutdown, "after queued inputs and their resulting effects *)
(* finish"; HistoryWriter::finish).                                        *)
NothingLeft ==
    /\ runner \in {"Stopped", "Finished"}
         => /\ {p \in Producers : caller[p] = "Accepted"} \subseteq handled
            /\ working = 0 /\ writing # "Result"
            /\ \A i \in DOMAIN queue : queue[i].kind # "Completed"
            /\ \A i \in DOMAIN commands : commands[i] = "Record"
    /\ runner = "Finished" => recorded = 0

(* A requested shutdown completes, once effects end and start no others    *)
(* for ever: nothing waits for room in a queue that nobody reads.          *)
ShutdownCompletes == state = "Closing" ~> runner = "Finished"

=============================================================================
