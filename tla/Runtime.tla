------------------------------ MODULE Runtime -------------------------------
(***************************************************************************)
(* What the shell gives every component: a clock, the event queue the      *)
(* runner consumes in order, and named timers (shell/mod.rs, runner.rs,    *)
(* core/timer.rs).                                                         *)
(*                                                                         *)
(* An event is stamped where it occurs and handled when its turn comes.    *)
(* The monotonic and the wall clock advance together here.  Timer delays   *)
(* are of any length.  The code counts timer identities up for ever; all   *)
(* it uses of them is that a new one differs from any armed or queued, so  *)
(* a few reused identities are enough.                                     *)
(***************************************************************************)
EXTENDS Integers, FiniteSets, Sequences

CONSTANTS
    MaxTime,    \* bound on the clock
    TimerIds,   \* timer identities
    MaxQueued   \* bound on the queued expiries of one timer

NoTimer == -1

ASSUME RuntimeAssumption ==
    /\ MaxTime \in Nat
    /\ IsFiniteSet(TimerIds) /\ NoTimer \notin TimerIds
    /\ MaxQueued \in Nat \ {0}
    /\ Cardinality(TimerIds) > MaxQueued + 1

VARIABLES
    now,     \* the clock
    queue    \* the event queue

NoTime == -1
Times == 0..MaxTime

(* Event::TimerExpired.                                                    *)
Expiry(name, id, at) ==
    [kind |-> "TimerExpired", name |-> name, id |-> id, at |-> at]

Expiries(name) ==
    {queue[k] : k \in {j \in DOMAIN queue : /\ queue[j].kind = "TimerExpired"
                                            /\ queue[j].name = name}}

(* Timers::schedule.                                                       *)
Schedule(name, armed) ==
    CHOOSE id \in TimerIds :
        id # armed /\ \A expiry \in Expiries(name) : expiry.id # id

(* Action::StartTimer aborts the previous task of the name; an expiry that *)
(* is already queued stays there.                                          *)
StartTimer(armed, id) == IF id = NoTimer THEN armed ELSE id

(* The sleeping task wakes and sends its expiry.                           *)
Expire(name, armed) ==
    /\ armed # NoTimer
    /\ Cardinality(Expiries(name)) < MaxQueued
    /\ queue' = Append(queue, Expiry(name, armed, now))

Tick == now < MaxTime /\ now' = now + 1
=============================================================================
