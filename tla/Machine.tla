------------------------------ MODULE Machine -------------------------------
(***************************************************************************)
(* The service runtime of the archived prototype (windlass-machine): one   *)
(* sans-I/O machine, the shell that runs its actions as tasks, keyed       *)
(* timers and the bounded channel of the one subscriber.  A machine's      *)
(* module extends this one and gives its handlers as actions that end in   *)
(* Apply.  Action, event and publish payloads are records; an action's     *)
(* kind is its field "do", an event's and a publish's its field "is".      *)
(***************************************************************************)
EXTENDS Integers, Sequences, SequencesExt, BagsExt

CONSTANTS
    Subscribed,     \* the topics the subscriber asked for
    Capacity,       \* the room of its channel
    MaxEvents,      \* bound on the event channel, which has none
    MaxTasks        \* bound on tasks under way, which have none

VARIABLES
    machine,        \* the machine's own state
    events,         \* the event channel
    tasks,          \* actions whose spawned task has not finished, a bag
    timers,         \* when each pending sleep ends
    published,      \* the subscriber's channel
    now             \* the clock, in units of the machine's shortest wait

runtime == <<machine, events, tasks, timers, published>>

Schedule(timer, after) ==
    [do |-> "ScheduleTimer", timer |-> timer, after |-> after]

IsTimer(action) == action.do = "ScheduleTimer"

(* KeyedTimers::schedule: the new sleep replaces the pending one.          *)
Sleeps(actions) ==
    LET last(t) == SelectLastInSeq(actions,
                       LAMBDA a : IsTimer(a) /\ a.timer = t)
    IN  [t \in {a.timer : a \in {x \in ToSet(actions) : IsTimer(x)}} |->
           now + actions[last(t)].after]

(* TopicFanout::send to the one subscriber: what finds its channel full is *)
(* dropped.                                                                *)
Fanout(publishes) ==
    LET all == published \o publishes
    IN  SubSeq(all, 1, IF Len(all) > Capacity THEN Capacity ELSE Len(all))

(* ServiceRuntime::apply: actions first, then the publishes of subscribed  *)
(* topics.                                                                 *)
Apply(m, actions, publishes) ==
    /\ machine' = m
    /\ tasks' = FoldLeft(BagAdd, tasks,
                         SelectSeq(actions, LAMBDA a : ~IsTimer(a)))
    /\ timers' = Sleeps(actions) @@ timers
    /\ published' = Fanout(publishes)

(* ServiceRuntime::run takes the next event; the machine's Handler says    *)
(* what it does with it.                                                   *)
Take ==
    /\ events # <<>>
    /\ events' = Tail(events)
    /\ UNCHANGED now

(* ServiceRuntime::run takes a command, which is no event; the machine's   *)
(* Command says what it does with it.                                      *)
Obeyed == UNCHANGED <<events, now>>

Room == Len(events) < MaxEvents

(* A sleep ends and its event is sent.                                     *)
Fire(timer) ==
    /\ timer \in DOMAIN timers /\ timers[timer] <= now
    /\ Room /\ BagCardinality(tasks) < MaxTasks
    /\ timers' = [t \in DOMAIN timers \ {timer} |-> timers[t]]
    /\ events' = Append(events, [is |-> "TimerFired", timer |-> timer])
    /\ UNCHANGED <<machine, tasks, published, now>>

(* A task ends and sends the given events, none for one that is not        *)
(* answered.                                                               *)
Finish(action, answer) ==
    /\ BagIn(action, tasks)
    /\ answer # <<>> => Room
    /\ tasks' = BagRemove(tasks, action)
    /\ events' = events \o answer
    /\ UNCHANGED <<machine, timers, published, now>>

(* spawn: the machine as new, and the Init event that init.rs sends.       *)
Spawn(new) ==
    /\ machine = new
    /\ events = <<[is |-> "Init"]>>
    /\ tasks = EmptyBag /\ timers = <<>> /\ published = <<>> /\ now = 0
=============================================================================
