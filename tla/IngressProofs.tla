---------------------------- MODULE IngressProofs ----------------------------
(***************************************************************************)
(* That a shutdown leaves nothing behind, for any number of producers, any *)
(* capacity and any number of effects, timers and losses.                  *)
(*                                                                         *)
(* The runner's active_workers is proved to be exactly the work that is    *)
(* still to be answered for: effects on workers, commands with the history *)
(* writer, the result that it is sending and completions in the queue.  So *)
(* the stop condition's three tests, made one after another while others   *)
(* go on, are enough.                                                      *)
(***************************************************************************)
EXTENDS Ingress, Counting

Inputs == {Event(from) : from \in Producers \cup {"timer", "writer"}}
          \cup {Completed, Shutdown}

Shapes ==
    /\ queue \in Seq(Inputs)
    /\ commands \in Seq({"Record", "Track"})
    /\ caller \in [Producers -> {"Idle", "Reserved", "Accepted", "Refused"}]
    /\ writing \in {"None", "Result", "Loss"}
    /\ active \in Nat /\ working \in Nat /\ recorded \in Nat

(* active_workers counts what is still to be answered for.                 *)
Tracked == Count(commands, {"Track"})
Sending == IF writing = "Result" THEN 1 ELSE 0
Queued == Count(queue, {Completed})

Balance == active = working + Tracked + Sending + Queued

(* Every entry recorded and not written is with the writer.                *)
Entries == recorded = Count(commands, {"Record"})

(* The receiver closes when the runner stops; from the stop condition's    *)
(* first tests on, a shutdown is under way and nothing is active.          *)
Stops ==
    /\ closed => runner \in {"Stopped", "Finished"}
    /\ runner \in {"Closing", "Stopping", "Stopped", "Finished"}
         => state = "Closing" /\ active = 0

(* An accepted event is in the queue until it is handled.                  *)
Acceptance ==
    \A p \in Producers : caller[p] = "Accepted" =>
        \/ p \in handled
        \/ /\ runner \notin {"Stopping", "Stopped", "Finished"}
           /\ \E i \in 1..Len(queue) : queue[i] = Event(p)

IngressInv ==
    /\ Shapes /\ Balance /\ Entries /\ Stops /\ Acceptance
    /\ runner = "Finished" => commands = <<>>

-----------------------------------------------------------------------------
(* The inputs are told apart by their kinds and their producers.           *)
LEMMA InputsApart ==
    /\ \A from : Event(from) # Completed /\ Event(from) # Shutdown
    /\ Completed # Shutdown
    /\ \A p, q : Event(p) = Event(q) => p = q
    /\ Completed.kind = "Completed" /\ Shutdown.kind = "Shutdown"
    /\ \A from : Event(from).kind = "Event" /\ Event(from).from = from
  BY Zenon DEF Event, Completed, Shutdown

(* A queued input of the kind Completed is a completion.                   *)
LEMMA KindCompleted ==
    ASSUME NEW input \in Inputs
    PROVE  input.kind = "Completed" <=> input = Completed
  BY InputsApart, Zenon DEF Inputs

(* What is counted is a number, and nothing else is to be known of it in   *)
(* sums.                                                                   *)
LEMMA Numbers ==
    ASSUME Shapes
    PROVE  /\ Tracked \in Nat /\ Sending \in Nat /\ Queued \in Nat
           /\ active \in Nat /\ working \in Nat
  BY CountType, Zenon DEF Shapes, Tracked, Sending, Queued

LEMMA PlusZero ==
    ASSUME NEW a \in Nat, NEW b \in Nat, a = b + 0
    PROVE  a = b
  OBVIOUS

LEMMA SumZero ==
    ASSUME NEW a \in Nat, NEW b \in Nat, NEW c \in Nat, NEW d \in Nat,
           a + b + c + d = 0
    PROVE  a = 0 /\ b = 0 /\ c = 0 /\ d = 0
  OBVIOUS

(* What an invariant's conjuncts say once they are put together.           *)
LEMMA LeftNothing == IngressInv => NothingLeft
<1> SUFFICES ASSUME IngressInv PROVE NothingLeft
  BY Zenon
<1> USE DEF IngressInv
<1>2. ASSUME runner \in {"Stopped", "Finished"}
      PROVE  /\ working = 0 /\ writing # "Result"
             /\ Count(commands, {"Track"}) = 0 /\ Count(queue, {Completed}) = 0
  <2>1. working = 0 /\ Tracked = 0 /\ Sending = 0 /\ Queued = 0
    BY <1>2, Numbers, SumZero DEF Balance, Stops
  <2> QED  BY <2>1 DEF Tracked, Sending, Queued
<1>3. ASSUME runner \in {"Stopped", "Finished"}
      PROVE  \A i \in DOMAIN queue : queue[i].kind # "Completed"
  <2>1. \A i \in 1..Len(queue) : queue[i] \notin {Completed}
    BY <1>2, <1>3, CountZero, Zenon DEF Shapes
  <2>2. \A i \in 1..Len(queue) : queue[i] \in Inputs
    BY DEF Shapes
  <2>3. DOMAIN queue = 1..Len(queue)
    BY DEF Shapes
  <2> QED  BY <2>1, <2>2, <2>3, KindCompleted
<1>4. ASSUME runner \in {"Stopped", "Finished"}
      PROVE  \A i \in DOMAIN commands : commands[i] = "Record"
  <2>1. \A i \in 1..Len(commands) : commands[i] \notin {"Track"}
    BY <1>2, <1>4, CountZero, Zenon DEF Shapes
  <2> QED  BY <2>1 DEF Shapes
<1>5. ASSUME runner \in {"Stopped", "Finished"}
      PROVE  {p \in Producers : caller[p] = "Accepted"} \subseteq handled
  BY <1>5, Zenon DEF Acceptance
<1>6. ASSUME runner = "Finished" PROVE recorded = 0
  BY <1>6, CountEmpty, Zenon DEF Entries
<1> QED  BY <1>2, <1>3, <1>4, <1>5, <1>6, Zenon DEF NothingLeft

-----------------------------------------------------------------------------
(* A send leaves in the queue what was there and adds at most its input.   *)
LEMMA SentQueue ==
    ASSUME NEW input \in Inputs, Shapes
    PROVE  /\ Sent(input) \in Seq(Inputs)
           /\ ~closed => Count(Sent(input), {Completed})
                           = Count(queue, {Completed})
                             + IF input = Completed THEN 1 ELSE 0
           /\ input # Completed => Count(Sent(input), {Completed})
                                     = Count(queue, {Completed})
           /\ \A i \in 1..Len(queue) :
                 i \in 1..Len(Sent(input)) /\ Sent(input)[i] = queue[i]
           /\ ~closed => /\ Len(queue) + 1 \in 1..Len(Sent(input))
                         /\ Sent(input)[Len(queue) + 1] = input
<1>1. Count(queue, {Completed}) \in Nat
  BY CountType, Zenon DEF Shapes
<1>2. Count(Append(queue, input), {Completed})
        = Count(queue, {Completed}) + IF input = Completed THEN 1 ELSE 0
  BY CountAppend DEF Shapes
<1> QED  BY <1>1, <1>2 DEF Sent, Shapes

(* A queue that is sent to keeps every accepted event.                     *)
LEMMA SentAcceptance ==
    ASSUME NEW input \in Inputs, Shapes, Acceptance,
           queue' = Sent(input), UNCHANGED <<runner, handled>>,
           NEW p \in Producers, caller[p] = "Accepted"
    PROVE  \/ p \in handled'
           \/ /\ runner' \notin {"Stopping", "Stopped", "Finished"}
              /\ \E i \in 1..Len(queue') : queue'[i] = Event(p)
  BY SentQueue, Zenon DEF Acceptance

-----------------------------------------------------------------------------
(* The producers' steps.                                                   *)
LEMMA CallerKeepsInv ==
    ASSUME IngressInv, NEW p \in Producers, Reserve(p) \/ Submit(p)
    PROVE  IngressInv'
<1> USE DEF IngressInv
<1>1. CASE Reserve(p)
  <2> USE <1>1 DEF Reserve, channelVars, effectVars, writerVars
  <2>1. Shapes'
    BY Zenon DEF Shapes
  <2>2. Acceptance'
    BY Zenon DEF Acceptance, Shapes
  <2> QED  BY <2>1, <2>2, Zenon DEF Balance, Tracked, Sending, Queued, Entries, Stops
<1>2. CASE Submit(p)
  <2> USE <1>2 DEF Submit, effectVars, writerVars
  <2>1. Event(p) \in Inputs
    BY Zenon DEF Inputs
  <2>2. CASE state = "Closing"
    <3>1. Shapes'
      BY <2>2, Zenon DEF Shapes
    <3>2. Acceptance'
      BY <2>2, Zenon DEF Acceptance, Shapes
    <3> QED  BY <2>2, <3>1, <3>2, Zenon DEF Balance, Tracked, Sending, Queued, Entries,
                Stops
  <2>3. CASE state # "Closing"
    <3>1. ~closed /\ runner \notin {"Stopping", "Stopped", "Finished"}
      BY <2>3, Zenon DEF Stops
    <3>2. queue' = Sent(Event(p))
      BY <2>3, Zenon
    <3>3. Shapes'
      BY <2>1, <2>3, SentQueue, Zenon DEF Shapes
    <3>4. Queued' = Queued
      BY <2>1, <3>2, InputsApart, SentQueue, Zenon DEF Queued
    <3>5. Acceptance'
      <4> SUFFICES ASSUME NEW q \in Producers, caller'[q] = "Accepted"
                   PROVE  \/ q \in handled'
                          \/ /\ runner' \notin {"Stopping", "Stopped",
                                                "Finished"}
                             /\ \E i \in 1..Len(queue') : queue'[i] = Event(q)
        BY Zenon DEF Acceptance
      <4>1. CASE q = p
        BY <2>1, <3>1, <3>2, <4>1, SentQueue, Zenon
      <4>2. CASE q # p
        <5>1. caller[q] = "Accepted"
          BY <2>3, <4>2, Zenon DEF Shapes
        <5> QED  BY <2>1, <3>2, <5>1, SentAcceptance, Zenon
      <4> QED  BY <4>1, <4>2, Zenon
    <3> QED  BY <2>3, <3>3, <3>4, <3>5, Zenon DEF Balance, Tracked, Sending, Entries, Stops
  <2> QED  BY <2>2, <2>3, Zenon
<1> QED  BY <1>1, <1>2, Zenon

(* EventSender::shutdown's steps.                                          *)
LEMMA ShutdownKeepsInv ==
    ASSUME IngressInv, ShutdownStep
    PROVE  IngressInv'
<1> USE DEF IngressInv
<1>1. CASE ReserveShutdown
  BY <1>1, Zenon DEF ReserveShutdown, channelVars, effectVars, writerVars, Shapes,
              Balance, Tracked, Sending, Queued, Entries, Stops, Acceptance
<1>2. CASE MarkShutdown
  BY <1>2, Zenon DEF MarkShutdown, effectVars, writerVars, Shapes, Balance, Tracked,
              Sending, Queued, Entries, Stops, Acceptance
<1>3. CASE SendShutdown
  <2> USE <1>3 DEF SendShutdown, effectVars, writerVars
  <2>1. Shutdown \in Inputs
    BY Zenon DEF Inputs
  <2>2. Shapes'
    BY <2>1, SentQueue, Zenon DEF Shapes
  <2>3. Queued' = Queued
    BY <2>1, InputsApart, SentQueue, Zenon DEF Queued
  <2>4. Acceptance'
    BY <2>1, SentAcceptance, Zenon DEF Acceptance
  <2> QED  BY <2>2, <2>3, <2>4, Zenon DEF Balance, Tracked, Sending, Entries, Stops
<1> QED  BY <1>1, <1>2, <1>3, Zenon DEF ShutdownStep

(* A worker's completion: it was counted while it ran and is counted in    *)
(* the queue.  The receiver is open, for the runner waits for the worker.  *)
LEMMA EffectKeepsInv ==
    ASSUME IngressInv, FinishEffect
    PROVE  IngressInv'
<1> USE DEF IngressInv, FinishEffect, writerVars
<1>1. active # 0
  BY Numbers, SumZero DEF Balance
<1>2. ~closed
  BY <1>1, Zenon DEF Stops
<1>3. Completed \in Inputs
  BY Zenon DEF Inputs
<1>4. Shapes'
  BY <1>3, SentQueue DEF Shapes
<1>5. Queued' = Queued + 1
  BY <1>2, <1>3, SentQueue, Zenon DEF Queued
<1>6. Balance'
  <2>1. Tracked' = Tracked /\ Sending' = Sending
    BY Zenon DEF Tracked, Sending
  <2> QED  BY <1>5, <2>1, Numbers DEF Balance
<1>7. Acceptance'
  BY <1>3, SentAcceptance, Zenon DEF Acceptance
<1> QED  BY <1>4, <1>6, <1>7, Zenon DEF Entries, Stops

(* A timer's event.                                                        *)
LEMMA TimerKeepsInv ==
    ASSUME IngressInv, ExpireTimer
    PROVE  IngressInv'
<1> USE DEF IngressInv, ExpireTimer, effectVars, writerVars
<1>1. Event("timer") \in Inputs
  BY Zenon DEF Inputs
<1>2. Shapes'
  BY <1>1, SentQueue, Zenon DEF Shapes
<1>3. Queued' = Queued
  BY <1>1, InputsApart, SentQueue, Zenon DEF Queued
<1>4. Acceptance'
  BY <1>1, SentAcceptance, Zenon DEF Acceptance
<1> QED  BY <1>2, <1>3, <1>4, Zenon DEF Balance, Tracked, Sending, Entries, Stops

(* The history writer's steps.                                             *)
LEMMA WriterKeepsInv ==
    ASSUME IngressInv, WriterStep
    PROVE  IngressInv'
<1> USE DEF IngressInv
<1>1. CASE Write
  <2> USE <1>1 DEF Write, channelVars, effectVars
  <2>1. /\ Head(commands) \in {"Record", "Track"}
        /\ Tail(commands) \in Seq({"Record", "Track"})
    BY DEF Shapes
  <2>2. /\ Count(commands, {"Track"}) = Count(commands', {"Track"})
             + IF Head(commands) \in {"Track"} THEN 1 ELSE 0
        /\ Count(commands, {"Record"}) = Count(commands', {"Record"})
             + IF Head(commands) \in {"Record"} THEN 1 ELSE 0
    BY CountTail, Zenon DEF Shapes
  <2>3. Count(commands', {"Track"}) \in Nat /\ Count(commands', {"Record"}) \in Nat
    BY <2>1, CountType, Zenon
  <2>4. Shapes'
    BY <2>1, <2>2, <2>3 DEF Shapes, Entries
  <2>5. Balance'
    <3>1. Queued' = Queued
      BY Zenon DEF Queued
    <3>2. Sending = 0
      BY Zenon DEF Sending
    <3>3. CASE Head(commands) = "Record"
      <4>1. Tracked = Tracked' + 0 /\ Tracked' \in Nat /\ Sending' = 0
        BY <2>2, <2>3, <3>3, Zenon DEF Tracked, Sending
      <4> QED  BY <3>1, <3>2, <4>1, Numbers DEF Balance
    <3>4. CASE Head(commands) = "Track"
      <4>1. Tracked = Tracked' + 1 /\ Tracked' \in Nat /\ Sending' = 1
        BY <2>2, <2>3, <3>4, Zenon DEF Tracked, Sending
      <4> QED  BY <3>1, <3>2, <4>1, Numbers DEF Balance
    <3> QED  BY <2>1, <3>3, <3>4, Zenon
  <2>6. Entries'
    BY <2>1, <2>2, <2>3 DEF Entries, Shapes
  <2>7. Acceptance'
    BY Zenon DEF Acceptance
  <2> QED  BY <2>4, <2>5, <2>6, <2>7, Zenon DEF Stops
<1>2. CASE SendResult
  <2> DEFINE input == IF writing = "Result" THEN Completed ELSE Event("writer")
  <2>0. /\ writing # "None" /\ writing' = "None"
        /\ UNCHANGED <<closed, state, caller, runner, active, working,
                       commands, recorded, handled>>
    BY <1>2, Zenon DEF SendResult, effectVars
  <2>1. input \in Inputs /\ queue' = Sent(input)
    BY <1>2, Zenon DEF SendResult, Inputs
  <2>2. writing = "Result" => ~closed
    <3>1. writing = "Result" => active # 0
      BY Numbers, SumZero DEF Balance, Sending
    <3> QED  BY <3>1, Zenon DEF Stops
  <2>4. input = Completed <=> writing = "Result"
    BY InputsApart, Zenon
  <2> HIDE DEF input
  <2>5. Shapes'
    BY <2>0, <2>1, SentQueue, Zenon DEF Shapes
  <2>6. Queued' = Queued + Sending
    <3>1. CASE writing = "Result"
      BY <2>1, <2>2, <2>4, <3>1, SentQueue, Zenon DEF Queued, Sending
    <3>2. CASE writing # "Result"
      <4>1. Queued' = Queued
        BY <2>1, <2>4, <3>2, SentQueue, Zenon DEF Queued
      <4>2. Sending = 0
        BY <3>2, Zenon DEF Sending
      <4> QED  BY <4>1, <4>2, Numbers
    <3> QED  BY <3>1, <3>2, Zenon
  <2>7. Balance'
    <3>1. Tracked' = Tracked /\ Sending' = 0
      BY <2>0, Zenon DEF Tracked, Sending
    <3> QED  BY <2>0, <2>6, <3>1, Numbers DEF Balance
  <2>8. Acceptance'
    BY <2>0, <2>1, SentAcceptance, Zenon DEF Acceptance
  <2> QED  BY <2>0, <2>5, <2>7, <2>8, Zenon DEF Entries, Stops
<1> QED  BY <1>1, <1>2, Zenon DEF WriterStep

-----------------------------------------------------------------------------
(* What handling an event does to the counts: each effect that it starts   *)
(* is counted once, on a worker or with the writer.                        *)
LEMMA HandleCounts ==
    ASSUME Shapes, Entries, NEW left \in Nat, HandleEvent(left)
    PROVE  /\ commands' \in Seq({"Record", "Track"})
           /\ active' \in Nat /\ working' \in Nat /\ recorded' \in Nat
           /\ Tracked' \in Nat
           /\ active' - left = (working' - working) + (Tracked' - Tracked)
           /\ Entries'
<1> PICK spawned \in 0..MaxEffects, tracked \in 0..MaxEffects :
      /\ active' = left + spawned + tracked
      /\ working' = working + spawned
      /\ commands' = commands \o <<"Record">> \o [i \in 1..tracked |-> "Track"]
      /\ recorded' = recorded + 1
  BY Zenon DEF HandleEvent
<1> DEFINE S == {"Record", "Track"}
           run == [i \in 1..tracked |-> "Track"]
<1>1. spawned \in Nat /\ tracked \in Nat
  OBVIOUS
<1>2. run \in Seq(S) /\ <<"Record">> \in Seq(S) /\ commands \in Seq(S)
  BY <1>1 DEF Shapes
<1>3. commands \o <<"Record">> \in Seq(S) /\ commands' \in Seq(S)
  BY <1>2
<1>4. ASSUME NEW E
      PROVE  Count(commands', E) = Count(commands, E)
               + Count(<<"Record">>, E) + Count(run, E)
  <2>1. Count(commands \o <<"Record">>, E)
          = Count(commands, E) + Count(<<"Record">>, E)
    BY <1>2, CountConcat, Zenon
  <2>2. Count((commands \o <<"Record">>) \o run, E)
          = Count(commands \o <<"Record">>, E) + Count(run, E)
    BY <1>2, <1>3, CountConcat, Zenon
  <2> QED  BY <2>1, <2>2, Zenon
<1>5. Count(run, {"Track"}) = tracked /\ Count(run, {"Record"}) = 0
  <2>1. ASSUME NEW E
        PROVE  Count(run, E) = IF "Track" \in E THEN tracked ELSE 0
    BY <1>1, CountRun
  <2> HIDE DEF run
  <2> QED  BY <2>1, Zenon
<1>6. /\ Count(<<"Record">>, {"Track"}) = 0
      /\ Count(<<"Record">>, {"Record"}) = 1
  BY CountOne, Zenon
<1>7. Count(commands, {"Track"}) \in Nat /\ Count(commands, {"Record"}) \in Nat
  BY CountType, Zenon DEF Shapes
<1> HIDE DEF run
<1>8. Tracked' = Tracked + tracked
  <2>1. Tracked' = Tracked + Count(<<"Record">>, {"Track"}) + Count(run, {"Track"})
    BY <1>4, Zenon DEF Tracked
  <2> QED  BY <1>1, <1>5, <1>6, <2>1, Numbers
<1>9. Entries'
  <2>1. recorded = Count(commands, {"Record"})
    BY Zenon DEF Entries
  <2>2. Count(commands', {"Record"}) = recorded
          + Count(<<"Record">>, {"Record"}) + Count(run, {"Record"})
    BY <1>4, <2>1, Zenon
  <2>3. Count(commands', {"Record"}) = recorded + 1
    BY <1>5, <1>6, <2>2 DEF Shapes
  <2> QED  BY <2>3, Zenon DEF Entries
<1>10. active' - left = (working' - working) + (Tracked' - Tracked)
  <2>1. PICK w \in Nat, t \in Nat : w = working /\ t = Tracked
    BY Numbers, Zenon
  <2>2. /\ active' = left + spawned + tracked
        /\ working' = w + spawned
        /\ Tracked' = t + tracked
    BY <1>8, <2>1, Zenon
  <2>3. (left + spawned + tracked) - left
          = ((w + spawned) - w) + ((t + tracked) - t)
    BY ONLY left \in Nat, w \in Nat, t \in Nat, <1>1
  <2> QED  BY <2>1, <2>2, <2>3, Zenon
<1>11. /\ active' \in Nat
       /\ working' \in Nat
       /\ recorded' \in Nat
  BY <1>1 DEF Shapes
<1>12. Tracked' \in Nat
  BY <1>1, <1>8, Numbers
<1> QED  BY <1>3, <1>9, <1>10, <1>11, <1>12, Zenon

(* An event taken from the queue's front leaves the others.                *)
LEMMA TakenAcceptance ==
    ASSUME Shapes, Acceptance, queue # <<>>, queue' = Tail(queue),
           runner' = "Looking", UNCHANGED caller,
           handled \subseteq handled',
           \A p \in Producers : Head(queue) = Event(p) => p \in handled'
    PROVE  Acceptance'
<1> SUFFICES ASSUME NEW p \in Producers, caller[p] = "Accepted",
                    p \notin handled'
             PROVE  \E i \in 1..Len(queue') : queue'[i] = Event(p)
  BY Zenon DEF Acceptance
<1>1. PICK i \in 1..Len(queue) : queue[i] = Event(p)
  BY Zenon DEF Acceptance
<1>2. i # 1
  BY <1>1 DEF Shapes
<1>3. i - 1 \in 1..Len(queue') /\ queue'[i - 1] = queue[i]
  BY <1>1, <1>2 DEF Shapes
<1> QED  BY <1>1, <1>3, Zenon

(* The runner's steps that take an input.                                  *)
LEMMA ReceiveKeepsInv ==
    ASSUME IngressInv, Receive
    PROVE  IngressInv'
<1> USE DEF IngressInv
<1>0. queue # <<>> /\ queue' = Tail(queue) =>
        /\ Head(queue) \in Inputs /\ queue' \in Seq(Inputs)
        /\ Queued' \in Nat
        /\ Head(queue) = Completed => Queued = Queued' + 1
        /\ Head(queue) # Completed => Queued = Queued'
  <2> SUFFICES ASSUME queue # <<>>, queue' = Tail(queue)
               PROVE  /\ Head(queue) \in Inputs /\ queue' \in Seq(Inputs)
                      /\ Queued' \in Nat
                      /\ Head(queue) = Completed => Queued = Queued' + 1
                      /\ Head(queue) # Completed => Queued = Queued'
    BY Zenon
  <2>1. Head(queue) \in Inputs /\ queue' \in Seq(Inputs)
    BY DEF Shapes
  <2>2. Queued = Queued' + IF Head(queue) \in {Completed} THEN 1 ELSE 0
    BY CountTail, Zenon DEF Shapes, Queued
  <2>3. Queued' \in Nat
    BY <2>1, CountType, Zenon DEF Queued
  <2>4. CASE Head(queue) = Completed
    <3>1. Queued = Queued' + 1
      BY <2>2, <2>4, Zenon
    <3> QED  BY <2>1, <2>3, <2>4, <3>1, Zenon
  <2>5. CASE Head(queue) # Completed
    <3>1. Queued = Queued' + 0
      BY <2>2, <2>5, Zenon
    <3>2. Queued \in Nat
      BY Numbers, Zenon
    <3>3. Queued = Queued'
      BY ONLY <2>3, <3>1, <3>2, PlusZero, Zenon
    <3> QED  BY <2>1, <2>3, <2>5, <3>3, Zenon
  <2> QED  BY <2>4, <2>5, Zenon
<1>1. CASE ReceiveEvent
  <2> USE <1>1 DEF ReceiveEvent
  <2>1. Head(queue) # Completed
    BY InputsApart, Zenon
  <2>2. /\ commands' \in Seq({"Record", "Track"}) /\ Tracked' \in Nat
        /\ active' \in Nat /\ working' \in Nat /\ recorded' \in Nat
        /\ active' - active = (working' - working) + (Tracked' - Tracked)
        /\ Entries'
    BY HandleCounts, Zenon DEF Shapes
  <2>4. Shapes'
    BY <1>0, <2>2, Zenon DEF Shapes
  <2>5. Balance'
    <3>1. Sending' = Sending /\ Queued' = Queued
      BY <1>0, <2>1, Zenon DEF Sending
    <3>2. active' = working' + Tracked' + Sending + Queued
      <4>1. PICK a \in Nat, w \in Nat, t \in Nat, s \in Nat, q \in Nat :
              a = active /\ w = working /\ t = Tracked /\ s = Sending
              /\ q = Queued
        BY Numbers, Zenon
      <4>2. PICK a1 \in Nat, w1 \in Nat, t1 \in Nat, q1 \in Nat :
              a1 = active' /\ w1 = working' /\ t1 = Tracked' /\ q1 = Queued'
        BY <1>0, <2>2, Zenon
      <4>3. a = w + t + s + q
        BY <4>1, Zenon DEF Balance
      <4>4. a1 - a = (w1 - w) + (t1 - t)
        BY <4>1, <4>2, <2>2, Zenon
      <4>5. a1 = w1 + t1 + s + q
        BY ONLY <4>3, <4>4, a \in Nat, w \in Nat, t \in Nat, s \in Nat, q \in Nat,
                a1 \in Nat, w1 \in Nat, t1 \in Nat, q1 \in Nat
      <4> QED  BY <4>1, <4>2, <4>5, Zenon
    <3> QED  BY <3>1, <3>2, Zenon DEF Balance
  <2>6. Acceptance'
    BY TakenAcceptance, InputsApart, Zenon
  <2> QED  BY <2>2, <2>4, <2>5, <2>6, Zenon DEF Stops
<1>2. CASE ReceiveCompleted
  <2> USE <1>2 DEF ReceiveCompleted
  <2>1. Head(queue) = Completed
    BY <1>0, KindCompleted, Zenon
  <2>2. Queued = Queued' + 1 /\ Queued' \in Nat
    BY <1>0, <2>1, Zenon
  <2>3. active - 1 \in Nat
    <3>1. PICK a \in Nat, w \in Nat, t \in Nat, s \in Nat, q \in Nat, r \in Nat :
            /\ a = active /\ w = working /\ t = Tracked /\ s = Sending
            /\ q = Queued /\ r = Queued'
      BY <2>2, Numbers, Zenon
    <3>2. a = w + t + s + q /\ q = r + 1
      BY <2>2, <3>1, Zenon DEF Balance
    <3>3. a - 1 \in Nat
      BY ONLY <3>2, a \in Nat, w \in Nat, t \in Nat, s \in Nat, q \in Nat, r \in Nat
    <3> QED  BY <3>1, <3>3, Zenon
  <2>4. /\ commands' \in Seq({"Record", "Track"}) /\ Tracked' \in Nat
        /\ active' \in Nat /\ working' \in Nat /\ recorded' \in Nat
        /\ active' - (active - 1) = (working' - working) + (Tracked' - Tracked)
        /\ Entries'
    BY <2>3, HandleCounts, Zenon
  <2>5. Shapes'
    BY <1>0, <2>4, Zenon DEF Shapes
  <2>6. Balance'
    <3>1. Sending' = Sending
      BY Zenon DEF Sending
    <3>2. active' = working' + Tracked' + Sending + Queued'
      <4>1. PICK a \in Nat, w \in Nat, t \in Nat, s \in Nat, q \in Nat :
              a = active /\ w = working /\ t = Tracked /\ s = Sending
              /\ q = Queued
        BY Numbers, Zenon
      <4>2. PICK a1 \in Nat, w1 \in Nat, t1 \in Nat, q1 \in Nat :
              a1 = active' /\ w1 = working' /\ t1 = Tracked' /\ q1 = Queued'
        BY <2>2, <2>4, Zenon
      <4>3. a = w + t + s + q
        BY <4>1, Zenon DEF Balance
      <4>4. a1 - (a - 1) = (w1 - w) + (t1 - t) /\ q = q1 + 1
        BY <4>1, <4>2, <2>2, <2>4, Zenon
      <4>5. a1 = w1 + t1 + s + q1
        BY ONLY <4>3, <4>4, a \in Nat, w \in Nat, t \in Nat, s \in Nat, q \in Nat,
                a1 \in Nat, w1 \in Nat, t1 \in Nat, q1 \in Nat
      <4> QED  BY <4>1, <4>2, <4>5, Zenon
    <3> QED  BY <3>1, <3>2, Zenon DEF Balance
  <2>7. Acceptance'
    BY <2>1, TakenAcceptance, InputsApart, Zenon
  <2> QED  BY <2>4, <2>5, <2>6, <2>7, Zenon DEF Stops
<1>3. CASE ReceiveShutdown
  <2> USE <1>3 DEF ReceiveShutdown, effectVars, writerVars
  <2>1. Head(queue) # Completed /\ \A p \in Producers : Head(queue) # Event(p)
    BY InputsApart, Zenon
  <2>2. Shapes'
    BY <1>0, Zenon DEF Shapes
  <2>3. Balance'
    <3>1. Sending' = Sending /\ Tracked' = Tracked /\ Queued' = Queued
      BY <1>0, <2>1, Zenon DEF Sending, Tracked
    <3> QED  BY <3>1, Zenon DEF Balance
  <2>4. Acceptance'
    BY <2>1, TakenAcceptance, Zenon
  <2> QED  BY <2>2, <2>3, <2>4, Zenon DEF Entries, Stops
<1> QED  BY <1>1, <1>2, <1>3, Zenon DEF Receive

(* The runner's steps that stop it.                                        *)
LEMMA RunnerKeepsInv ==
    ASSUME IngressInv, RunnerStep
    PROVE  IngressInv'
<1> USE DEF IngressInv
<1>1. CASE SeeClosing
  BY <1>1, Zenon DEF SeeClosing, channelVars, effectVars, writerVars, Shapes,
              Balance, Tracked, Sending, Queued, Entries, Stops, Acceptance
<1>2. CASE SeeEmpty
  BY <1>2 DEF SeeEmpty, channelVars, effectVars, writerVars, Shapes, Balance,
              Tracked, Sending, Queued, Entries, Stops, Acceptance
<1>3. CASE Stop
  BY <1>3, Zenon DEF Stop, effectVars, writerVars, Shapes, Balance, Tracked,
              Sending, Queued, Entries, Stops, Acceptance
<1>4. CASE Finish
  BY <1>4, Zenon DEF Finish, channelVars, effectVars, writerVars, Shapes, Balance,
              Tracked, Sending, Queued, Entries, Stops, Acceptance
<1> QED  BY <1>1, <1>2, <1>3, <1>4, ReceiveKeepsInv, Zenon DEF RunnerStep

-----------------------------------------------------------------------------
(* The invariant holds from Runner::new on, whatever producers, workers,   *)
(* timers, the writer and the runner do.                                   *)
THEOREM IngressBalanced == IngressSpec => []IngressInv
<1>1. IngressInit => IngressInv
  <2> SUFFICES ASSUME IngressInit PROVE IngressInv
    BY Zenon
  <2>1. Shapes
    BY DEF IngressInit, Shapes
  <2>2. Balance /\ Entries
    BY CountEmpty DEF IngressInit, Balance, Tracked, Sending, Queued, Entries
  <2> QED  BY <2>1, <2>2, Zenon DEF IngressInit, IngressInv, Stops, Acceptance
<1>2. IngressInv /\ [IngressNext]_ingressVars => IngressInv'
  <2> SUFFICES ASSUME IngressInv, [IngressNext]_ingressVars PROVE IngressInv'
    BY Zenon
  <2>1. CASE UNCHANGED ingressVars
    BY <2>1, Zenon DEF ingressVars, channelVars, effectVars, writerVars, IngressInv, Shapes,
                Balance, Tracked, Sending, Queued, Entries, Stops, Acceptance
  <2>2. CASE IngressNext
    BY Zenon, <2>2, CallerKeepsInv, ShutdownKeepsInv, EffectKeepsInv, TimerKeepsInv,
       WriterKeepsInv, RunnerKeepsInv DEF IngressNext
  <2> QED  BY <2>1, <2>2, Zenon
<1> QED  BY <1>1, <1>2, PTL DEF IngressSpec

(* When the runner stops, every accepted event was handled and every       *)
(* effect has ended with its result handled, and when run returns the      *)
(* writer has dealt with every entry (NothingLeft), however submissions,   *)
(* completions, timers and losses interleave with the three tests of       *)
(* Shell::next_event.                                                      *)
THEOREM ShutdownLeavesNothing == IngressSpec => []NothingLeft
  BY IngressBalanced, LeftNothing, PTL
=============================================================================
