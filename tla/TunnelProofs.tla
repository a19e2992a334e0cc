---------------------------- MODULE TunnelProofs ----------------------------
(***************************************************************************)
(* That switches between VPN servers keep their spacing across failed      *)
(* saves, late answers and restarts, and that the core never has two exit  *)
(* checks under way: for any servers, spacings, failure threshold and      *)
(* clock.                                                                  *)
(*                                                                         *)
(* The core's state says exactly which operations are under way, each once *)
(* (Balance).  So an answer always belongs to what the core waits for, the *)
(* switch that is reported saved is the one on disk, and the time known to *)
(* the core, on disk or just read is never older than the last start, to   *)
(* the second.                                                             *)
(***************************************************************************)
EXTENDS TunnelHandlers

Events == Answer \cup {Expiry("TunnelCheck", id, at) : id \in TimerIds,
                                                       at \in Times}
OfKind(op) == {event \in Events : event.kind = op}

Typed ==
    /\ now \in Times
    /\ tunnel \in TunnelState
    /\ checkTimer \in TimerIds \cup {NoTimer}
    /\ tunnelJobs \in Seq(Job)
    /\ queue \in Seq(Events)
    /\ switched \in Times \cup {NoTime}
    /\ connected \in Servers
    /\ orphan \in Servers \cup {NoServer}
    /\ started \in [at : Times \cup {NoTime}, here : BOOLEAN]

(* Few enough expiries are queued for Schedule to find an identity.        *)
TimersFit ==
    /\ IsFiniteSet(Expiries("TunnelCheck"))
    /\ Cardinality(Expiries("TunnelCheck")) <= MaxQueued

(* What the core waits for is under way or answered, once.                 *)
Balance ==
    \A op \in Operations :
        Count(tunnelJobs, OfOp(op)) + Count(queue, OfKind(op))
        = Owed(tunnel, op)

(* The last start as the process that made it, or a later one, knows it.   *)
Since(s) == IF s.here THEN s.at ELSE Saved(s.at)

Paced(t, s) ==
    /\ t.lastSwitch # "Known" => ~s.here
    /\ s.at # NoTime =>
          /\ t.lastSwitch = "Known" => t.lastAt # NoTime /\ t.lastAt >= Since(s)
          /\ t.failover = "Saving" => t.switch.at >= Since(s) + SwitchSpacing

OnDisk == started.at # NoTime => switched # NoTime /\ switched >= Saved(started.at)

(* What jobs and answers carry.                                            *)
JobsCarry ==
    \A k \in 1..Len(tunnelJobs) :
        tunnelJobs[k].op \in {"SaveVpnSwitch", "SwitchVpnServer"}
          => tunnelJobs[k].switch = tunnel.switch
SavesCarry ==
    \A k \in 1..Len(queue) :
        queue[k].kind = "SaveVpnSwitch" /\ queue[k].ok
          => switched = Saved(tunnel.switch.at)
ReadsCarry ==
    \A k \in 1..Len(queue) :
        (/\ queue[k].kind = "ReadLastVpnSwitch" /\ queue[k].ok
         /\ tunnel.lastSwitch = "Reading" /\ started.at # NoTime)
          => /\ queue[k].switch.at # NoTime
             /\ queue[k].switch.at >= Saved(started.at)
Carried == JobsCarry /\ SavesCarry /\ ReadsCarry

TunnelInv ==
    /\ Typed /\ TimersFit /\ Agree(tunnel) /\ Balance
    /\ Paced(tunnel, started) /\ OnDisk /\ Carried

-----------------------------------------------------------------------------
(* Whole seconds: at most a second short, in order, and stable.            *)
LEMMA SavedSeconds ==
    ASSUME NEW a \in Nat, NEW b \in Nat
    PROVE  /\ Saved(a) \in Nat
           /\ Saved(a) <= a /\ a <= Saved(a) + (Second - 1)
           /\ Saved(a) <= b => Saved(a) <= Saved(b)
<1> DEFINE q == a \div Second
           p == b \div Second
<1>0. Second \in Nat \ {0}
  BY TunnelAssumption, Zenon
<1>1. /\ q \in Nat /\ Second * q <= a /\ a < Second * q + Second
      /\ p \in Nat /\ Second * p <= b /\ b < Second * p + Second
  BY <1>0
<1>2. Saved(a) = Second * q /\ Saved(b) = Second * p
  BY <1>0, <1>1 DEF Saved
<1> HIDE DEF q, p
<1>3. ASSUME Second * q <= b PROVE Second * q <= Second * p
  <2>1. SUFFICES ASSUME p + 1 <= q PROVE FALSE
    BY <1>0, <1>1
  <2>2. Second * (p + 1) <= Second * q
    BY <1>0, <1>1, <2>1
  <2>3. Second * (p + 1) = Second * p + Second
    BY <1>0, <1>1
  <2> QED  BY <1>0, <1>1, <1>3, <2>2, <2>3
<1> QED  BY <1>0, <1>1, <1>2, <1>3

(* Timers::schedule finds a new identity.                                  *)
LEMMA ScheduleFresh ==
    ASSUME TimersFit, NEW armed
    PROVE  Schedule("TunnelCheck", armed) \in TimerIds
<1> DEFINE E == Expiries("TunnelCheck")
           ids == {e.id : e \in E}
           used == ids \cup {armed}
           f == [e \in E |-> e.id]
<1>1. f \in Surjection(E, ids)
  BY Zenon DEF Surjection
<1>2. IsFiniteSet(ids) /\ Cardinality(ids) <= Cardinality(E)
  BY <1>1, FS_Surjection, Zenon DEF TimersFit
<1>3. IsFiniteSet(used) /\ Cardinality(used) <= Cardinality(ids) + 1
  BY <1>2, FS_AddElement, FS_CardinalityType
<1>4. /\ Cardinality(E) \in Nat /\ Cardinality(ids) \in Nat
      /\ Cardinality(used) \in Nat
  BY <1>2, <1>3, FS_CardinalityType, Zenon DEF TimersFit
<1>5. /\ MaxQueued \in Nat /\ IsFiniteSet(TimerIds)
      /\ Cardinality(TimerIds) > MaxQueued + 1
      /\ Cardinality(TimerIds) \in Nat
  BY RuntimeAssumption, FS_CardinalityType, Zenon
<1>6. Cardinality(used) < Cardinality(TimerIds)
  BY <1>2, <1>3, <1>4, <1>5 DEF TimersFit
<1>7. ~ TimerIds \subseteq used
  BY <1>3, <1>4, <1>5, <1>6, FS_Subset
<1>8. \E id \in TimerIds : id # armed /\ \A e \in E : e.id # id
  BY <1>7, Zenon
<1> HIDE DEF E
<1>9. Schedule("TunnelCheck", armed)
        = CHOOSE id \in TimerIds : id # armed /\ \A e \in E : e.id # id
  BY Zenon DEF Schedule, E
<1> QED  BY <1>8, <1>9, Zenon

-----------------------------------------------------------------------------
(* What a step makes of the queue before the core's state changes: an      *)
(* event is taken, or none is.                                             *)
Taken(event) ==
    /\ queue' \in Seq(Events)
    /\ \A op \in Operations :
          Count(queue', OfKind(op)) + (IF op = event.kind THEN 1 ELSE 0)
          = Count(queue, OfKind(op))
    /\ \A k \in 1..Len(queue') : \E j \in 1..Len(queue) : queue'[k] = queue[j]
    /\ event.kind \in Operations
         => \E j \in 1..Len(queue) : event = queue[j]

NoEvent == [kind |-> "None"]

LEMMA NoneTaken ==
    ASSUME Typed, UNCHANGED queue
    PROVE  Taken(NoEvent) /\ NoEvent.kind \notin Operations
<1>1. NoEvent.kind \notin Operations
  BY Zenon DEF NoEvent, Operations
<1>2. \A op \in Operations : Count(queue, OfKind(op)) \in Nat
  BY CountType, Zenon DEF Typed
<1> QED  BY <1>1, <1>2 DEF Taken, Typed

LEMMA HeadTaken ==
    ASSUME Typed, queue # <<>>, queue' = Tail(queue)
    PROVE  /\ Taken(Head(queue)) /\ Head(queue) \in Events
           /\ \/ Head(queue) \in Answer /\ Head(queue).kind # "TimerExpired"
              \/ /\ Head(queue).kind = "TimerExpired"
                 /\ Head(queue).kind \notin Operations
                 /\ Head(queue).at \in Times
<1>1. Head(queue) \in Events /\ Tail(queue) \in Seq(Events)
  BY DEF Typed
<1>2. \A op \in Operations : Head(queue) \in OfKind(op) <=> op = Head(queue).kind
  BY <1>1, Zenon DEF OfKind
<1>3. \A op \in Operations :
        /\ Count(queue, OfKind(op)) = Count(Tail(queue), OfKind(op))
             + IF Head(queue) \in OfKind(op) THEN 1 ELSE 0
        /\ Count(Tail(queue), OfKind(op)) \in Nat
  BY <1>1, CountTail, CountType, Zenon DEF Typed
<1>4. \A k \in 1..Len(queue') :
        k + 1 \in 1..Len(queue) /\ queue'[k] = queue[k + 1]
  BY DEF Typed
<1>5. 1 \in 1..Len(queue) /\ Head(queue) = queue[1]
  BY DEF Typed
<1>6. Taken(Head(queue))
  BY <1>1, <1>2, <1>3, <1>4, <1>5, Zenon DEF Taken
<1>7. \/ Head(queue) \in Answer /\ Head(queue).kind # "TimerExpired"
      \/ /\ Head(queue).kind = "TimerExpired"
         /\ Head(queue).kind \notin Operations /\ Head(queue).at \in Times
  BY <1>1 DEF Events, Answer, Operations, Expiry
<1> QED  BY <1>1, <1>6, <1>7, Zenon

(* What is under way, and what is answered in the queue, is awaited.       *)
LEMMA CountedIsAwaited ==
    ASSUME NEW t, NEW jobs \in Seq(Job), NEW q \in Seq(Events),
           \A op \in Operations :
               Count(jobs, OfOp(op)) + Count(q, OfKind(op)) = Owed(t, op)
    PROVE  /\ \A k \in 1..Len(jobs) : Awaits(t, jobs[k].op)
           /\ \A k \in 1..Len(q) :
                 q[k].kind \in Operations => Awaits(t, q[k].kind)
<1>0. ASSUME NEW op \in Operations
      PROVE  Count(jobs, OfOp(op)) \in Nat /\ Count(q, OfKind(op)) \in Nat
  BY CountType, Zenon
<1>1. ASSUME NEW k \in 1..Len(jobs) PROVE Awaits(t, jobs[k].op)
  <2> DEFINE op == jobs[k].op
  <2>0. jobs[k] \in Job
    OBVIOUS
  <2>1. op \in Operations /\ jobs[k] \in OfOp(op)
    BY <2>0, Zenon DEF Job, OfOp
  <2>2. Count(jobs, OfOp(op)) # 0
    BY <2>1, CountZero, Zenon
  <2> HIDE DEF op
  <2>3. Owed(t, op) # 0
    BY <1>0, <2>1, <2>2
  <2> QED  BY <2>3, Zenon DEF Owed, op
<1>2. ASSUME NEW k \in 1..Len(q), q[k].kind \in Operations
      PROVE  Awaits(t, q[k].kind)
  <2> DEFINE op == q[k].kind
  <2>1. op \in Operations /\ q[k] \in OfKind(op)
    BY <1>2 DEF OfKind
  <2>2. Count(q, OfKind(op)) # 0
    BY <2>1, CountZero, Zenon
  <2> HIDE DEF op
  <2>3. Owed(t, op) # 0
    BY <1>0, <2>1, <2>2
  <2> QED  BY <2>3, Zenon DEF Owed, op
<1> QED  BY <1>1, <1>2, Zenon

LEMMA AllAwaited ==
    ASSUME Typed, Balance
    PROVE  /\ \A k \in 1..Len(tunnelJobs) : Awaits(tunnel, tunnelJobs[k].op)
           /\ \A k \in 1..Len(queue) : queue[k].kind \in Operations
                => Awaits(tunnel, queue[k].kind)
<1>1. /\ tunnelJobs \in Seq(Job) /\ queue \in Seq(Events)
      /\ \A op \in Operations :
           Count(tunnelJobs, OfOp(op)) + Count(queue, OfKind(op))
           = Owed(tunnel, op)
  BY Zenon DEF Typed, Balance
<1> QED  BY ONLY <1>1, CountedIsAwaited, Zenon

(* A queue that grows by no expiry leaves Schedule its identities.         *)
LEMMA TimersStillFit ==
    ASSUME TimersFit,
           \A k \in DOMAIN queue' : queue'[k].kind = "TimerExpired" =>
               \E j \in DOMAIN queue : queue'[k] = queue[j]
    PROVE  TimersFit'
<1>1. Expiries("TunnelCheck")' \subseteq Expiries("TunnelCheck")
  BY Zenon DEF Expiries
<1>2. /\ IsFiniteSet(Expiries("TunnelCheck")')
      /\ Cardinality(Expiries("TunnelCheck")')
           <= Cardinality(Expiries("TunnelCheck"))
  BY <1>1, FS_Subset, Zenon DEF TimersFit
<1>3. /\ Cardinality(Expiries("TunnelCheck")') \in Nat
      /\ Cardinality(Expiries("TunnelCheck")) \in Nat
  BY <1>2, FS_CardinalityType, Zenon DEF TimersFit
<1> QED  BY <1>2, <1>3, RuntimeAssumption DEF TimersFit

(* The step that SwitchesSpaced speaks of.                                 *)
SpacedStep ==
    started'.at # started.at /\ started.at # NoTime
      => started'.at >= started.at + SwitchSpacing
                        - (IF started.here THEN 0 ELSE Second - 1)

(* The time that a switch keeps its distance from is the last start's, to  *)
(* the second.                                                             *)
LEMMA SinceBounds ==
    ASSUME NEW s \in [at : Times \cup {NoTime}, here : BOOLEAN], s.at # NoTime
    PROVE  /\ s.at \in Nat /\ Since(s) \in Nat /\ Since(s) <= s.at
           /\ Saved(s.at) \in Nat /\ Saved(s.at) <= Since(s)
           /\ s.at <= Since(s) + IF s.here THEN 0 ELSE Second - 1
<1>1. s.at \in Nat /\ Second \in Nat \ {0}
  BY RuntimeAssumption, TunnelAssumption DEF Times
<1> QED  BY <1>1, SavedSeconds DEF Since

(* The runner dispatches a handler's result.                               *)
LEMMA DispatchKeepsInv ==
    ASSUME TunnelInv, UNCHANGED now, NEW event, Taken(event), NEW r,
           Dispatch(r), Steps(tunnel, r, event)
    PROVE  TunnelInv' /\ SpacedStep
<1> USE DEF TunnelInv
<1>1. /\ tunnel' = r.tunnel /\ tunnelJobs' = tunnelJobs \o r.actions
      /\ checkTimer' \in {checkTimer, r.timer}
      /\ switched' = switched /\ connected' = connected /\ orphan' = orphan
      /\ started' = IF Starts(r)
                    THEN [at |-> r.actions[1].switch.at, here |-> TRUE]
                    ELSE started
  BY Zenon DEF Dispatch, Starts, StartTimer
<1>2. /\ r.tunnel \in TunnelState /\ Agree(r.tunnel)
      /\ r.timer \in TimerIds \cup {NoTimer} /\ r.actions \in Seq(Job)
  BY Zenon DEF Steps, Shaped
<1>3. Starts(r) =>
        /\ r.actions[1].switch = tunnel.switch
        /\ tunnel.switch.at \in Times /\ tunnel.failover = "Saving"
        /\ r.tunnel.lastSwitch = "Known" /\ r.tunnel.failover = "Switching"
        /\ switched = Saved(tunnel.switch.at)
  <2> SUFFICES ASSUME Starts(r)
               PROVE  /\ r.actions[1].switch = tunnel.switch
                      /\ tunnel.switch.at \in Times
                      /\ tunnel.failover = "Saving"
                      /\ r.tunnel.lastSwitch = "Known"
                      /\ r.tunnel.failover = "Switching"
                      /\ switched = Saved(tunnel.switch.at)
    BY Zenon
  <2>1. /\ event.kind = "SaveVpnSwitch" /\ event.ok
        /\ tunnel.failover = "Saving" /\ r.tunnel.failover = "Switching"
        /\ r.tunnel.lastSwitch = "Known" /\ r.tunnel.switch = tunnel.switch
    BY Zenon DEF Steps, Decides
  <2>2. 1 \in 1..Len(r.actions) /\ r.actions[1].op = "SwitchVpnServer"
    BY <1>2 DEF Starts
  <2>3. r.actions[1].switch = tunnel.switch
    BY <2>1, <2>2, Zenon DEF Steps, Shaped
  <2>4. \E j \in 1..Len(queue) : event = queue[j]
    BY <2>1, Zenon DEF Taken, Operations
  <2> QED  BY <2>1, <2>3, <2>4, Zenon DEF Agree, Carried, SavesCarry
<1>4. Typed'
  <2>1. tunnelJobs' \in Seq(Job)
    BY <1>1, <1>2 DEF Typed
  <2>2. started' \in [at : Times \cup {NoTime}, here : BOOLEAN]
    BY <1>1, <1>3, Zenon DEF Typed
  <2> QED  BY <1>1, <1>2, <2>1, <2>2, Zenon DEF Typed, Taken
<1>5. TimersFit'
  <2>1. DOMAIN queue = 1..Len(queue) /\ DOMAIN queue' = 1..Len(queue')
    BY <1>4 DEF Typed
  <2> QED  BY <2>1, TimersStillFit, Zenon DEF Taken
<1>6. Balance'
  <2> SUFFICES ASSUME NEW op \in Operations
               PROVE  Count(tunnelJobs', OfOp(op)) + Count(queue', OfKind(op))
                        = Owed(tunnel', op)
    BY Zenon DEF Balance
  <2>1. Count(tunnelJobs', OfOp(op))
          = Count(tunnelJobs, OfOp(op)) + Count(r.actions, OfOp(op))
    BY <1>1, <1>2, CountConcat DEF Typed
  <2>2. /\ Count(tunnelJobs, OfOp(op)) \in Nat
        /\ Count(r.actions, OfOp(op)) \in Nat
        /\ Count(queue, OfKind(op)) \in Nat
        /\ Count(queue', OfKind(op)) \in Nat
    BY <1>2, <1>4, CountType, Zenon DEF Typed
  <2>3. Owed(tunnel, op) \in Nat /\ Owed(r.tunnel, op) \in Nat
    BY Zenon DEF Owed
  <2>4. Count(r.actions, OfOp(op)) + Owed(tunnel, op)
          = Owed(r.tunnel, op) + IF op = event.kind THEN 1 ELSE 0
    BY Zenon DEF Steps, Accounts
  <2>5. Count(queue', OfKind(op)) + (IF op = event.kind THEN 1 ELSE 0)
          = Count(queue, OfKind(op))
    BY Zenon DEF Taken
  <2>6. Count(tunnelJobs, OfOp(op)) + Count(queue, OfKind(op))
          = Owed(tunnel, op)
    BY Zenon DEF Balance
  <2>7. PICK j \in Nat, a \in Nat, q \in Nat, q1 \in Nat, o \in Nat, o1 \in Nat :
          /\ j = Count(tunnelJobs, OfOp(op)) /\ a = Count(r.actions, OfOp(op))
          /\ q = Count(queue, OfKind(op)) /\ q1 = Count(queue', OfKind(op))
          /\ o = Owed(tunnel, op) /\ o1 = Owed(r.tunnel, op)
    BY <2>2, <2>3, Zenon
  <2>8. PICK d \in {0, 1} : d = IF op = event.kind THEN 1 ELSE 0
    BY Zenon
  <2>9. a + o = o1 + d /\ q1 + d = q /\ j + q = o
    BY <2>4, <2>5, <2>6, <2>7, <2>8, Zenon
  <2>10. (j + a) + q1 = o1
    BY ONLY <2>9, j \in Nat, a \in Nat, q \in Nat, q1 \in Nat, o \in Nat,
            o1 \in Nat, d \in {0, 1}
  <2> QED  BY <1>1, <2>1, <2>7, <2>10, Zenon
<1>7. Paced(tunnel', started') /\ SpacedStep
  <2>1. CASE Starts(r)
    <3> DEFINE at == tunnel.switch.at
    <3>1. /\ started'.at = at /\ started'.here = TRUE
          /\ at \in Nat /\ tunnel'.failover = "Switching"
          /\ tunnel'.lastSwitch = "Known" /\ tunnel'.lastAt = at
      <4>1. r.tunnel.lastAt = at
        BY <2>1, Zenon DEF Steps, Decides
      <4>2. at \in Nat
        BY <1>3, <2>1, RuntimeAssumption DEF Times
      <4> QED  BY <1>1, <1>3, <2>1, <4>1, <4>2, Zenon
    <3>2. Paced(tunnel', started')
      BY <3>1 DEF Paced, Since, NoTime
    <3>3. SpacedStep
      <4> SUFFICES ASSUME started.at # NoTime
                   PROVE  at >= started.at + SwitchSpacing
                                - (IF started.here THEN 0 ELSE Second - 1)
        BY <3>1, Zenon DEF SpacedStep
      <4>1. at >= Since(started) + SwitchSpacing
        BY <1>3, <2>1, Zenon DEF Paced
      <4>2. /\ started.at \in Nat /\ Since(started) \in Nat
            /\ started.at <= Since(started)
                 + IF started.here THEN 0 ELSE Second - 1
        BY SinceBounds, Zenon DEF Typed
      <4>3. SwitchSpacing \in Nat /\ Second \in Nat \ {0}
        BY TunnelAssumption, Zenon
      <4> HIDE DEF at
      <4> QED  BY <3>1, <4>1, <4>2, <4>3
    <3> QED  BY <3>2, <3>3, Zenon
  <2>2. CASE ~Starts(r)
    <3>1. started' = started
      BY <1>1, <2>2, Zenon
    <3>2. SpacedStep
      BY <3>1, Zenon DEF SpacedStep
    <3>3. tunnel'.lastSwitch # "Known" => ~started.here
      BY <1>1, Zenon DEF Paced, Steps, Learns
    <3>4. ASSUME started.at # NoTime, tunnel'.lastSwitch = "Known"
          PROVE  tunnel'.lastAt # NoTime /\ tunnel'.lastAt >= Since(started)
      <4>1. CASE tunnel.lastSwitch = "Known" /\ tunnel'.lastAt = tunnel.lastAt
        BY <3>4, <4>1, Zenon DEF Paced
      <4>2. CASE /\ event.kind = "ReadLastVpnSwitch" /\ event.ok
                 /\ tunnel.lastSwitch = "Reading"
                 /\ tunnel'.lastAt = event.switch.at
        <5>1. \E j \in 1..Len(queue) : event = queue[j]
          BY <4>2, Zenon DEF Taken, Operations
        <5>2. /\ event.switch.at # NoTime
              /\ event.switch.at >= Saved(started.at)
          BY <3>4, <4>2, <5>1, Zenon DEF Carried, ReadsCarry
        <5>3. ~started.here
          BY <4>2, Zenon DEF Paced
        <5> QED  BY <4>2, <5>2, <5>3, Zenon DEF Since
      <4> QED  BY <1>1, <2>2, <3>4, <4>1, <4>2, Zenon DEF Steps, Learns
    <3>5. ASSUME started.at # NoTime, tunnel'.failover = "Saving"
          PROVE  tunnel'.switch.at >= Since(started) + SwitchSpacing
      <4>1. CASE tunnel.failover = "Saving" /\ tunnel'.switch = tunnel.switch
        BY <3>5, <4>1, Zenon DEF Paced
      <4>2. CASE /\ tunnel.lastSwitch = "Known"
                 /\ tunnel.lastAt # NoTime
                      => tunnel'.switch.at >= tunnel.lastAt + SwitchSpacing
        <5>1. tunnel.lastAt # NoTime /\ tunnel.lastAt >= Since(started)
          BY <3>5, <4>2, Zenon DEF Paced
        <5>2. Since(started) \in Nat /\ SwitchSpacing \in Nat
          BY <3>5, SinceBounds, TunnelAssumption, Zenon DEF Typed
        <5>3. tunnel.lastAt \in Int /\ tunnel'.switch.at \in Int
          <6>1. tunnel.lastAt \in Times \cup {NoTime}
            BY Zenon DEF Typed, TunnelState
          <6>2. tunnel'.switch.at \in Times
            BY <1>1, <1>2, <3>5, Zenon DEF Agree
          <6>3. Times \cup {NoTime} \subseteq Int
            BY RuntimeAssumption DEF Times, NoTime
          <6> QED  BY <6>1, <6>2, <6>3, Zenon
        <5> QED  BY <4>2, <5>1, <5>2, <5>3
      <4> QED  BY <1>1, <3>5, <4>1, <4>2, Zenon DEF Steps, Decides
    <3> QED  BY <3>1, <3>2, <3>3, <3>4, <3>5, Zenon DEF Paced
  <2> QED  BY <2>1, <2>2, Zenon
<1>8. OnDisk'
  <2>1. CASE Starts(r)
    <3>1. started'.at = tunnel.switch.at /\ tunnel.switch.at \in Nat
      BY <1>1, <1>3, <2>1, RuntimeAssumption DEF Times
    <3>2. Saved(tunnel.switch.at) \in Nat
      BY <3>1, SavedSeconds, Zenon
    <3> QED  BY <1>1, <1>3, <2>1, <3>1, <3>2 DEF OnDisk, NoTime
  <2>2. CASE ~Starts(r)
    BY <1>1, <2>2, Zenon DEF OnDisk
  <2> QED  BY <2>1, <2>2, Zenon
<1>9. Carried'
  <2>0. /\ \A k \in 1..Len(tunnelJobs') : Awaits(tunnel', tunnelJobs'[k].op)
        /\ \A k \in 1..Len(queue') : queue'[k].kind \in Operations
             => Awaits(tunnel', queue'[k].kind)
        /\ \A k \in 1..Len(tunnelJobs) : Awaits(tunnel, tunnelJobs[k].op)
        /\ \A k \in 1..Len(queue) : queue[k].kind \in Operations
             => Awaits(tunnel, queue[k].kind)
    <3>1. /\ tunnelJobs' \in Seq(Job) /\ queue' \in Seq(Events)
          /\ \A op \in Operations :
               Count(tunnelJobs', OfOp(op)) + Count(queue', OfKind(op))
               = Owed(tunnel', op)
      BY <1>4, <1>6, Zenon DEF Typed, Balance
    <3>2. /\ \A k \in 1..Len(tunnelJobs') : Awaits(tunnel', tunnelJobs'[k].op)
          /\ \A k \in 1..Len(queue') : queue'[k].kind \in Operations
               => Awaits(tunnel', queue'[k].kind)
      BY ONLY <3>1, CountedIsAwaited, Zenon
    <3> QED  BY <3>2, AllAwaited, Zenon
  <2>1. ASSUME NEW k \in 1..Len(tunnelJobs'),
               tunnelJobs'[k].op \in {"SaveVpnSwitch", "SwitchVpnServer"}
        PROVE  tunnelJobs'[k].switch = tunnel'.switch
    <3>1. tunnel'.failover # "None"
      BY <2>0, <2>1, Zenon DEF Awaits
    <3>2. \/ k \in 1..Len(tunnelJobs) /\ tunnelJobs'[k] = tunnelJobs[k]
          \/ /\ k - Len(tunnelJobs) \in 1..Len(r.actions)
             /\ tunnelJobs'[k] = r.actions[k - Len(tunnelJobs)]
      BY <1>1, <1>2 DEF Typed
    <3>3. CASE k \in 1..Len(tunnelJobs) /\ tunnelJobs'[k] = tunnelJobs[k]
      <4>1. /\ Awaits(tunnel, tunnelJobs[k].op)
            /\ tunnelJobs[k].op \in {"SaveVpnSwitch", "SwitchVpnServer"}
        BY <2>0, <2>1, <3>3, Zenon
      <4>2. tunnel.failover # "None"
        BY <4>1, Zenon DEF Awaits
      <4>3. r.tunnel.switch = tunnel.switch
        BY <1>1, <3>1, <4>2, Zenon DEF Steps, Decides
      <4>4. tunnelJobs[k].switch = tunnel.switch
        BY <3>3, <4>1, Zenon DEF Carried, JobsCarry
      <4> QED  BY <1>1, <3>3, <4>3, <4>4, Zenon
    <3>4. CASE /\ k - Len(tunnelJobs) \in 1..Len(r.actions)
               /\ tunnelJobs'[k] = r.actions[k - Len(tunnelJobs)]
      <4>1. PICK j \in 1..Len(r.actions) : tunnelJobs'[k] = r.actions[j]
        BY <3>4, Zenon
      <4>2. r.actions[j].switch = r.tunnel.switch
        BY <2>1, <4>1, Zenon DEF Steps, Shaped
      <4> QED  BY <1>1, <4>1, <4>2, Zenon
    <3> QED  BY <3>2, <3>3, <3>4, Zenon
  <2>2. ASSUME NEW k \in 1..Len(queue'),
               queue'[k].kind = "SaveVpnSwitch", queue'[k].ok
        PROVE  switched' = Saved(tunnel'.switch.at)
    <3>1. PICK j \in 1..Len(queue) : queue'[k] = queue[j]
      BY Zenon DEF Taken
    <3>2. tunnel'.failover = "Saving" /\ tunnel.failover = "Saving"
      BY <2>0, <2>2, <3>1, Zenon DEF Awaits, Operations
    <3>3. tunnel'.switch = tunnel.switch
      BY <1>1, <3>2, Zenon DEF Steps, Decides
    <3> QED  BY <1>1, <2>2, <3>1, <3>3, Zenon DEF Carried, SavesCarry
  <2>3. ASSUME NEW k \in 1..Len(queue'),
               queue'[k].kind = "ReadLastVpnSwitch", queue'[k].ok,
               tunnel'.lastSwitch = "Reading", started'.at # NoTime
        PROVE  /\ queue'[k].switch.at # NoTime
               /\ queue'[k].switch.at >= Saved(started'.at)
    <3>1. PICK j \in 1..Len(queue) : queue'[k] = queue[j]
      BY Zenon DEF Taken
    <3>2. tunnel.lastSwitch = "Reading"
      BY <2>0, <2>3, <3>1, Zenon DEF Awaits, Operations
    <3>3. started' = started
      BY <1>1, <1>3, <2>3, Zenon
    <3> QED  BY <2>3, <3>1, <3>2, <3>3, Zenon DEF Carried, ReadsCarry
  <2>4. JobsCarry'
    BY <2>1, Zenon DEF JobsCarry
  <2>5. SavesCarry'
    BY <2>2, Zenon DEF SavesCarry
  <2>6. ReadsCarry'
    BY <2>3, Zenon DEF ReadsCarry
  <2> QED  BY <2>4, <2>5, <2>6, Zenon DEF Carried
<1> QED  BY <1>1, <1>2, <1>4, <1>5, <1>6, <1>7, <1>8, <1>9, Zenon

-----------------------------------------------------------------------------
(* The core's steps.                                                       *)
LEMMA CoreKeepsInv ==
    ASSUME TunnelInv, UNCHANGED now,
           \/ EnableTunnel /\ UNCHANGED queue
           \/ StartReading /\ UNCHANGED queue
           \/ Handle
           \/ SuspectTunnel(now) /\ UNCHANGED queue
    PROVE  TunnelInv' /\ SpacedStep
<1>0. /\ Typed /\ TimersFit /\ tunnel \in TunnelState /\ Agree(tunnel)
      /\ now \in Times /\ connected \in Servers
  BY Zenon DEF TunnelInv, Typed
<1>1. CASE EnableTunnel /\ UNCHANGED queue
  <2>1. Taken(NoEvent) /\ NoEvent.kind \notin Operations
    BY <1>0, <1>1, NoneTaken, Zenon
  <2>2. PICK current \in {connected, NoServer} :
          Dispatch(CheckNow([tunnel EXCEPT !.enabled = TRUE,
                                           !.current = current], now))
    BY <1>1, Zenon DEF EnableTunnel
  <2>3. Steps(tunnel, CheckNow([tunnel EXCEPT !.enabled = TRUE,
                                              !.current = current], now),
              NoEvent)
    BY <1>0, <1>1, <2>1, EnableSteps, Zenon DEF EnableTunnel
  <2> QED  BY <2>1, <2>2, <2>3, DispatchKeepsInv, Zenon
<1>2. CASE StartReading /\ UNCHANGED queue
  <2>1. Taken(NoEvent) /\ NoEvent.kind \notin Operations
    BY <1>0, <1>2, NoneTaken, Zenon
  <2>2. Dispatch(StartedReading(tunnel))
    BY <1>2, Zenon DEF StartReading, StartedReading
  <2>3. Steps(tunnel, StartedReading(tunnel), NoEvent)
    BY <1>0, <1>2, <2>1, StartReadingSteps, Zenon DEF StartReading
  <2> QED  BY <2>1, <2>2, <2>3, DispatchKeepsInv, Zenon
<1>3. CASE Handle
  <2> DEFINE event == Head(queue)
  <2>1. /\ queue # <<>> /\ queue' = Tail(queue)
        /\ IF event.kind = "TimerExpired" THEN TakeCheckExpiry(event)
           ELSE HandleTunnel(event)
    BY <1>3, Zenon DEF Handle
  <2>2. /\ Taken(event)
        /\ \/ event \in Answer /\ event.kind # "TimerExpired"
           \/ /\ event.kind = "TimerExpired"
              /\ event.kind \notin Operations /\ event.at \in Times
    BY <1>0, <2>1, HeadTaken, Zenon
  <2>3. CASE event.kind = "TimerExpired"
    <3>1. Dispatch(TimerExpired(tunnel, event))
      BY <2>1, <2>3, Zenon DEF TakeCheckExpiry
    <3>2. Steps(tunnel, TimerExpired(tunnel, event), event)
      BY <1>0, <2>2, <2>3, RecheckSteps, IgnoreSteps, Zenon DEF TimerExpired
    <3> HIDE DEF event
    <3> QED  BY <2>2, <3>1, <3>2, DispatchKeepsInv, Zenon
  <2>4. CASE event.kind # "TimerExpired"
    <3> DEFINE id == Schedule("TunnelCheck", checkTimer)
    <3>1. Dispatch(HandleAnswer(tunnel, event, id))
      BY <2>1, <2>4, Zenon DEF HandleTunnel
    <3>2. id \in TimerIds
      BY <1>0, ScheduleFresh, Zenon
    <3>3. event \in Answer /\ event.kind \in Operations
      BY <2>2, <2>4, Zenon DEF Answer
    <3>4. Awaits(tunnel, event.kind)
      <4>1. 1 \in 1..Len(queue) /\ event = queue[1]
        BY <1>0, <2>1 DEF Typed
      <4>2. \A k \in 1..Len(queue) :
              queue[k].kind \in Operations => Awaits(tunnel, queue[k].kind)
        BY AllAwaited, Zenon DEF TunnelInv
      <4> QED  BY <3>3, <4>1, <4>2, Zenon
    <3> HIDE DEF id, event
    <3>5. Steps(tunnel, HandleAnswer(tunnel, event, id), event)
      BY <1>0, <3>2, <3>3, <3>4, AnswerSteps, Zenon
    <3> QED  BY <2>2, <3>1, <3>5, DispatchKeepsInv, Zenon
  <2> QED  BY <2>3, <2>4, Zenon
<1>4. CASE SuspectTunnel(now) /\ UNCHANGED queue
  <2>1. Taken(NoEvent) /\ NoEvent.kind \notin Operations
    BY <1>0, <1>4, NoneTaken, Zenon
  <2>2. Dispatch(Suspect(tunnel, now))
    BY <1>4, Zenon DEF SuspectTunnel
  <2>3. Steps(tunnel, Suspect(tunnel, now), NoEvent)
    BY <1>0, <2>1, RecheckSteps, IgnoreSteps, Zenon DEF Suspect
  <2> QED  BY <2>1, <2>2, <2>3, DispatchKeepsInv, Zenon
<1> QED  BY <1>1, <1>2, <1>3, <1>4, Zenon

(* A worker finishes: what was under way is answered, and a save that was  *)
(* committed is the one the core waits for.                                *)
LEMMA FinishKeepsInv ==
    ASSUME TunnelInv, UNCHANGED now, NEW i \in DOMAIN tunnelJobs,
           FinishTunnel(i)
    PROVE  TunnelInv' /\ SpacedStep
<1> USE DEF TunnelInv
<1> DEFINE job == tunnelJobs[i]
<1>0. i \in 1..Len(tunnelJobs) /\ job \in Job
  BY DEF Typed
<1> USE <1>0
<1>1. PICK ok \in BOOLEAN :
        /\ switched' = IF job.op = "SaveVpnSwitch" /\ ok
                       THEN Saved(job.switch.at) ELSE switched
        /\ queue' = Append(queue,
              [kind |-> job.op, ok |-> ok, at |-> now,
               switch |-> IF job.op = "ReadLastVpnSwitch" /\ ok
                          THEN [NoSwitch EXCEPT !.at = switched]
                          ELSE NoSwitch])
  BY Zenon DEF FinishTunnel
<1>2. /\ tunnelJobs' = Without(tunnelJobs, i)
      /\ UNCHANGED <<tunnel, checkTimer, connected, orphan, started>>
  BY Zenon DEF FinishTunnel
<1> DEFINE read == IF job.op = "ReadLastVpnSwitch" /\ ok
                   THEN [NoSwitch EXCEPT !.at = switched] ELSE NoSwitch
           answer == [kind |-> job.op, ok |-> ok, at |-> now, switch |-> read]
<1>3. /\ read \in Switch
      /\ job.op = "ReadLastVpnSwitch" /\ ok => read.at = switched
  BY NoSwitchTyped, Zenon DEF Typed, Switch, NoSwitch
<1>4. /\ answer \in Answer /\ answer \in Events /\ answer.kind = job.op
      /\ answer.ok = ok /\ answer.switch = read
      /\ job.op \in Operations /\ answer.kind # "TimerExpired"
  <2>1. job.op \in Operations
    BY <1>0, Zenon DEF Job
  <2>2. answer \in Answer
    BY <1>3, <2>1, Zenon DEF Answer, Typed
  <2> QED  BY <2>1, <2>2 DEF Events, Operations
<1>5. queue' = Append(queue, answer)
  BY <1>1, Zenon
<1> HIDE DEF read, answer
<1>6. \A k \in 1..Len(tunnelJobs) : Awaits(tunnel, tunnelJobs[k].op)
  BY AllAwaited, Zenon
<1>7. job.op = "SaveVpnSwitch" =>
        /\ job.switch = tunnel.switch /\ tunnel.failover = "Saving"
        /\ tunnel.switch.at \in Times
  <2> SUFFICES ASSUME job.op = "SaveVpnSwitch"
               PROVE  /\ job.switch = tunnel.switch
                      /\ tunnel.failover = "Saving"
                      /\ tunnel.switch.at \in Times
    BY Zenon
  <2>1. Awaits(tunnel, job.op)
    BY <1>6, Zenon
  <2>2. tunnel.failover = "Saving"
    BY <2>1, Zenon DEF Awaits
  <2> QED  BY <2>2, Zenon DEF Carried, JobsCarry, Agree
<1> HIDE DEF job
<1>8. /\ Without(tunnelJobs, i) \in Seq(Job)
      /\ \A k \in 1..Len(tunnelJobs') :
            \E j \in 1..Len(tunnelJobs) : tunnelJobs'[k] = tunnelJobs[j]
  <2>1. tunnelJobs \in Seq(Job)
    BY Zenon DEF Typed
  <2>2. Without(tunnelJobs, i) \in Seq(Job)
    BY ONLY Zenon, <2>1, i \in 1..Len(tunnelJobs), Removed
  <2>3. \A k \in 1..Len(tunnelJobs') :
          \E j \in 1..Len(tunnelJobs) : tunnelJobs'[k] = tunnelJobs[j]
    <3>1. tunnelJobs' = Without(tunnelJobs, i)
      BY <1>2, Zenon
    <3> QED  BY ONLY <2>1, <3>1, i \in 1..Len(tunnelJobs), RemovedFrom
  <2> QED  BY <1>2, <2>2, <2>3, Zenon
<1>9. /\ queue' \in Seq(Events) /\ Len(queue') = Len(queue) + 1
      /\ queue'[Len(queue) + 1] = answer
      /\ \A k \in 1..Len(queue) : queue'[k] = queue[k]
  BY <1>4, <1>5 DEF Typed
<1>10. switched' \in Times \cup {NoTime}
  <2>1. ASSUME NEW a \in Times PROVE Saved(a) \in Times
    BY <2>1, SavedSeconds, RuntimeAssumption DEF Times
  <2> QED  BY <1>1, <1>7, <2>1, Zenon DEF Typed
<1>11. Typed'
  BY <1>2, <1>8, <1>9, <1>10, Zenon DEF Typed
<1>12. TimersFit'
  <2>1. DOMAIN queue = 1..Len(queue) /\ DOMAIN queue' = 1..(Len(queue) + 1)
    <3>1. queue \in Seq(Events)
      BY Zenon DEF Typed
    <3>2. Len(queue) \in Nat
      BY <3>1
    <3> QED  BY <1>9, <3>1, <3>2
  <2>2. \A k \in DOMAIN queue' : queue'[k].kind = "TimerExpired" =>
            \E j \in DOMAIN queue : queue'[k] = queue[j]
    BY <1>4, <1>9, <2>1 DEF Typed
  <2> QED  BY <2>2, TimersStillFit, Zenon
<1>13. Balance'
  <2> SUFFICES ASSUME NEW op \in Operations
               PROVE  Count(tunnelJobs', OfOp(op)) + Count(queue', OfKind(op))
                        = Owed(tunnel, op)
    BY <1>2, Zenon DEF Balance
  <2>1. /\ job \in OfOp(op) <=> op = job.op
        /\ answer \in OfKind(op) <=> op = job.op
    BY <1>0, <1>4, Zenon DEF OfOp, OfKind
  <2>2. Count(tunnelJobs, OfOp(op)) = Count(tunnelJobs', OfOp(op))
          + IF job \in OfOp(op) THEN 1 ELSE 0
    BY <1>0, <1>2, CountRemoved, Zenon DEF Typed, job
  <2>3. Count(queue', OfKind(op)) = Count(queue, OfKind(op))
          + IF answer \in OfKind(op) THEN 1 ELSE 0
    BY <1>4, <1>5, CountAppend DEF Typed
  <2>4. /\ Count(tunnelJobs', OfOp(op)) \in Nat
        /\ Count(queue, OfKind(op)) \in Nat
    BY <1>11, CountType, Zenon DEF Typed
  <2>5. Count(tunnelJobs, OfOp(op)) + Count(queue, OfKind(op))
          = Owed(tunnel, op)
    BY Zenon DEF Balance
  <2> QED  BY <2>1, <2>2, <2>3, <2>4, <2>5
<1>14. OnDisk'
  <2> SUFFICES ASSUME started.at # NoTime
               PROVE  switched' # NoTime /\ switched' >= Saved(started.at)
    BY <1>2, Zenon DEF OnDisk
  <2>1. CASE job.op = "SaveVpnSwitch" /\ ok
    <3> DEFINE at == tunnel.switch.at
    <3>1. switched' = Saved(at) /\ at \in Nat
      BY <1>1, <1>7, <2>1, RuntimeAssumption DEF Times
    <3>2. at >= Since(started) + SwitchSpacing
      BY <1>7, <2>1, Zenon DEF Paced
    <3>3. /\ started.at \in Nat /\ Since(started) \in Nat
          /\ Saved(started.at) \in Nat /\ Saved(started.at) <= Since(started)
      BY SinceBounds, Zenon DEF Typed
    <3>4. SwitchSpacing \in Nat
      BY TunnelAssumption, Zenon
    <3> HIDE DEF at
    <3>5. Saved(started.at) <= at
      BY <3>1, <3>2, <3>3, <3>4
    <3>6. Saved(at) \in Nat /\ Saved(started.at) <= Saved(at)
      BY <3>1, <3>3, <3>5, SavedSeconds, Zenon
    <3> QED  BY <3>1, <3>3, <3>6 DEF NoTime
  <2>2. CASE ~(job.op = "SaveVpnSwitch" /\ ok)
    BY <1>1, <2>2, Zenon DEF OnDisk
  <2> QED  BY <2>1, <2>2, Zenon
<1>15. Carried'
  <2>1. \A k \in 1..Len(tunnelJobs') :
          tunnelJobs'[k].op \in {"SaveVpnSwitch", "SwitchVpnServer"}
            => tunnelJobs'[k].switch = tunnel'.switch
    BY <1>2, <1>8, Zenon DEF Carried, JobsCarry
  <2>2. \A k \in 1..Len(queue') :
          k = Len(queue) + 1 \/ k \in 1..Len(queue)
    BY <1>9 DEF Typed
  <2>3. ASSUME NEW k \in 1..Len(queue'),
               queue'[k].kind = "SaveVpnSwitch", queue'[k].ok
        PROVE  switched' = Saved(tunnel'.switch.at)
    <3>1. CASE job.op = "SaveVpnSwitch" /\ ok
      BY <1>1, <1>2, <1>7, <3>1, Zenon
    <3>2. CASE ~(job.op = "SaveVpnSwitch" /\ ok)
      <4>1. k \in 1..Len(queue)
        BY <1>4, <1>9, <2>2, <2>3, <3>2, Zenon
      <4> QED  BY <1>1, <1>2, <1>9, <2>3, <3>2, <4>1, Zenon DEF Carried, SavesCarry
    <3> QED  BY <3>1, <3>2, Zenon
  <2>4. ASSUME NEW k \in 1..Len(queue'),
               queue'[k].kind = "ReadLastVpnSwitch", queue'[k].ok,
               tunnel'.lastSwitch = "Reading", started'.at # NoTime
        PROVE  /\ queue'[k].switch.at # NoTime
               /\ queue'[k].switch.at >= Saved(started'.at)
    <3>1. CASE k \in 1..Len(queue)
      BY <1>2, <1>9, <2>4, <3>1, Zenon DEF Carried, ReadsCarry
    <3>2. CASE k = Len(queue) + 1
      <4>1. queue'[k].switch.at = switched
        BY <1>3, <1>4, <1>9, <2>4, <3>2, Zenon
      <4> QED  BY <1>2, <2>4, <4>1, Zenon DEF OnDisk
    <3> QED  BY <2>2, <3>1, <3>2, Zenon
  <2>5. JobsCarry'
    BY <2>1, Zenon DEF JobsCarry
  <2>6. SavesCarry'
    BY <2>3, Zenon DEF SavesCarry
  <2>7. ReadsCarry'
    BY <2>4, Zenon DEF ReadsCarry
  <2> QED  BY <2>5, <2>6, <2>7, Zenon DEF Carried
<1> QED  BY <1>2, <1>11, <1>12, <1>13, <1>14, <1>15, Zenon DEF SpacedStep

(* A unit takes the tunnel over.                                           *)
LEMMA TakeOverKeepsInv ==
    ASSUME TunnelInv, UNCHANGED now,
           \/ \E i \in DOMAIN tunnelJobs : TakeOver(i)
           \/ TakeOverOrphan
    PROVE  TunnelInv' /\ SpacedStep
<1>1. /\ UNCHANGED <<queue, tunnel, checkTimer, tunnelJobs, switched, started>>
      /\ connected' \in Servers /\ orphan' \in Servers \cup {NoServer}
  <2>1. CASE \E i \in DOMAIN tunnelJobs : TakeOver(i)
    <3>1. PICK i \in 1..Len(tunnelJobs) : TakeOver(i)
      BY <2>1 DEF TunnelInv, Typed
    <3>2. /\ Awaits(tunnel, tunnelJobs[i].op)
          /\ tunnelJobs[i].op = "SwitchVpnServer"
      BY <3>1, AllAwaited, Zenon DEF TunnelInv, TakeOver
    <3>3. tunnelJobs[i].switch.server \in Servers
      BY <3>2, Zenon DEF TunnelInv, Carried, JobsCarry, Agree, Awaits
    <3> QED  BY <3>1, <3>3, Zenon DEF TakeOver, TunnelInv, Typed
  <2>2. CASE TakeOverOrphan
    BY <2>2, Zenon DEF TakeOverOrphan, TunnelInv, Typed
  <2> QED  BY <2>1, <2>2, Zenon
<1> QED  BY <1>1, Zenon DEF TunnelInv, Typed, TimersFit, Expiries, Balance, OnDisk,
            Carried, JobsCarry, SavesCarry, ReadsCarry, SpacedStep

(* The timer's task wakes: one more expiry, while there is room for one.   *)
LEMMA FireKeepsInv ==
    ASSUME TunnelInv, UNCHANGED now, FireCheckTimer
    PROVE  TunnelInv' /\ SpacedStep
<1> USE DEF TunnelInv
<1> DEFINE expiry == Expiry("TunnelCheck", checkTimer, now)
<1>1. /\ queue' = Append(queue, expiry) /\ checkTimer' = NoTimer
      /\ checkTimer \in TimerIds
      /\ Cardinality(Expiries("TunnelCheck")) < MaxQueued
      /\ UNCHANGED <<tunnel, tunnelJobs, switched, connected, orphan, started>>
  BY Zenon DEF FireCheckTimer, Expire, Typed
<1>2. /\ expiry \in Events /\ expiry.kind = "TimerExpired"
      /\ \A op \in Operations : expiry \notin OfKind(op)
  <2>1. expiry.kind = "TimerExpired"
    BY Zenon DEF Expiry
  <2> QED  BY <1>1, <2>1 DEF Events, Typed, OfKind, Operations
<1> HIDE DEF expiry
<1>3. /\ queue' \in Seq(Events) /\ Len(queue') = Len(queue) + 1
      /\ queue'[Len(queue) + 1] = expiry
      /\ \A k \in 1..Len(queue) : queue'[k] = queue[k]
      /\ \A k \in 1..Len(queue') : k = Len(queue) + 1 \/ k \in 1..Len(queue)
  <2>1. queue \in Seq(Events) /\ Len(queue) \in Nat
    BY DEF Typed
  <2>2. /\ queue' \in Seq(Events) /\ Len(queue') = Len(queue) + 1
        /\ queue'[Len(queue) + 1] = expiry
        /\ \A k \in 1..Len(queue) : queue'[k] = queue[k]
    BY ONLY <1>1, <1>2, <2>1
  <2> QED  BY ONLY <2>1, <2>2
<1>4. Typed'
  BY <1>1, <1>3, Zenon DEF Typed
<1>5. TimersFit'
  <2> DEFINE E == Expiries("TunnelCheck")
  <2>1. DOMAIN queue = 1..Len(queue) /\ DOMAIN queue' = 1..Len(queue')
    BY <1>3 DEF Typed
  <2>2. E' \subseteq E \cup {expiry}
    BY <1>3, <2>1, Zenon DEF Expiries
  <2>3. IsFiniteSet(E) /\ Cardinality(E) \in Nat
    BY FS_CardinalityType, Zenon DEF TimersFit
  <2> HIDE DEF E
  <2>4. /\ IsFiniteSet(E \cup {expiry})
        /\ Cardinality(E \cup {expiry}) <= Cardinality(E) + 1
        /\ Cardinality(E \cup {expiry}) \in Nat
    BY <2>3, FS_AddElement, FS_CardinalityType
  <2>5. /\ IsFiniteSet(E') /\ Cardinality(E') <= Cardinality(E \cup {expiry})
        /\ Cardinality(E') \in Nat
    BY <2>2, <2>4, FS_Subset, FS_CardinalityType, Zenon
  <2>6. Cardinality(E) < MaxQueued /\ MaxQueued \in Nat
    BY <1>1, RuntimeAssumption, Zenon DEF E
  <2>7. Cardinality(E') <= MaxQueued
    BY <2>3, <2>4, <2>5, <2>6
  <2> QED  BY <2>5, <2>7, Zenon DEF TimersFit, E
<1>6. Balance'
  <2> SUFFICES ASSUME NEW op \in Operations
               PROVE  Count(queue', OfKind(op)) = Count(queue, OfKind(op))
    BY <1>1, Zenon DEF Balance
  <2>1. Count(queue', OfKind(op)) = Count(queue, OfKind(op)) + 0
    BY <1>1, <1>2, CountAppend DEF Typed
  <2> QED  BY <2>1, CountType DEF Typed
<1>7. Carried'
  <2>1. JobsCarry'
    BY <1>1, Zenon DEF Carried, JobsCarry
  <2>2. \A k \in 1..Len(queue') :
          queue'[k].kind # "TimerExpired"
            => k \in 1..Len(queue) /\ queue'[k] = queue[k]
    BY <1>2, <1>3, Zenon
  <2>3. SavesCarry'
    BY <1>1, <2>2, Zenon DEF Carried, SavesCarry
  <2>4. ReadsCarry'
    BY <1>1, <2>2 DEF Carried, ReadsCarry
  <2> QED  BY <2>1, <2>3, <2>4, Zenon DEF Carried
<1> QED  BY <1>1, <1>4, <1>5, <1>6, <1>7, Zenon DEF OnDisk, SpacedStep

(* Watch and the core as they start: nothing is awaited.                   *)
LEMMA NewTunnelSound ==
    /\ NewTunnel \in TunnelState /\ Agree(NewTunnel)
    /\ NewTunnel.lastSwitch = "Unread" /\ NewTunnel.failover = "None"
    /\ \A op \in Operations : Owed(NewTunnel, op) = 0
<1>1. 0 \in Times /\ 0 \in 0..Failures /\ NoSwitch \in Switch
  BY NoSwitchTyped, RuntimeAssumption, TunnelAssumption DEF Times
<1>2. NewTunnel \in TunnelState
  BY ONLY Zenon, <1>1 DEF NewTunnel, TunnelState
<1>3. /\ NewTunnel.lastSwitch = "Unread" /\ NewTunnel.failover = "None"
      /\ NewTunnel.switch = NoSwitch /\ NewTunnel.check = "Outstanding"
      /\ NewTunnel.waiting = NoTimer /\ NewTunnel.enabled = FALSE
  BY Zenon DEF NewTunnel
<1>4. Agree(NewTunnel)
  BY <1>3, Zenon DEF Agree
<1>5. \A op \in Operations : Owed(NewTunnel, op) = 0
  BY <1>3, Zenon DEF Owed, Awaits
<1> QED  BY <1>2, <1>3, <1>4, <1>5, Zenon

(* A crash: what the core knew is gone, and a save under way that landed   *)
(* is the one the core was waiting for.                                    *)
LEMMA CrashKeepsInv ==
    ASSUME TunnelInv, UNCHANGED now, CrashTunnel, queue' = <<>>
    PROVE  TunnelInv' /\ SpacedStep
<1> USE DEF TunnelInv
<1>1. /\ tunnel' = NewTunnel /\ checkTimer' = NoTimer /\ tunnelJobs' = <<>>
      /\ connected' = connected /\ started' = [started EXCEPT !.here = FALSE]
  BY Zenon DEF CrashTunnel
<1>2. /\ started'.at = started.at /\ started'.here = FALSE
      /\ started' \in [at : Times \cup {NoTime}, here : BOOLEAN]
  BY <1>1, Zenon DEF Typed
<1>3. /\ NewTunnel \in TunnelState /\ Agree(NewTunnel)
      /\ NewTunnel.lastSwitch = "Unread" /\ NewTunnel.failover = "None"
      /\ \A op \in Operations : Owed(NewTunnel, op) = 0
  BY NewTunnelSound, Zenon
<1>4. \A k \in 1..Len(tunnelJobs) :
        /\ tunnelJobs[k] \in Job /\ Awaits(tunnel, tunnelJobs[k].op)
  <2>1. \A k \in 1..Len(tunnelJobs) : Awaits(tunnel, tunnelJobs[k].op)
    BY AllAwaited, Zenon
  <2>2. tunnelJobs \in Seq(Job)
    BY Zenon DEF Typed
  <2> QED  BY <2>1, <2>2
<1>5. orphan' \in Servers \cup {NoServer}
  <2>1. \A k \in 1..Len(tunnelJobs) :
          tunnelJobs[k].switch.server \in Servers \cup {NoServer}
    BY <1>4, Zenon DEF Job, Switch
  <2> QED  BY <2>1 DEF CrashTunnel, Typed
<1>6. ASSUME NEW k \in 1..Len(tunnelJobs), tunnelJobs[k].op = "SaveVpnSwitch"
      PROVE  /\ Saved(tunnelJobs[k].switch.at) \in Times
             /\ started.at # NoTime
                  => Saved(tunnelJobs[k].switch.at) >= Saved(started.at)
  <2> DEFINE at == tunnelJobs[k].switch.at
  <2>1. tunnelJobs[k].switch = tunnel.switch /\ tunnel.failover = "Saving"
    BY <1>4, <1>6, Zenon DEF Carried, JobsCarry, Awaits
  <2>2. at \in Times /\ at \in Nat
    BY <2>1, RuntimeAssumption DEF Agree, Times
  <2>3. started.at # NoTime => at >= Since(started) + SwitchSpacing
    BY <2>1, Zenon DEF Paced
  <2>4. started.at # NoTime =>
          /\ started.at \in Nat /\ Since(started) \in Nat
          /\ Saved(started.at) \in Nat /\ Saved(started.at) <= Since(started)
    BY SinceBounds, Zenon DEF Typed
  <2>5. SwitchSpacing \in Nat
    BY TunnelAssumption, Zenon
  <2> HIDE DEF at
  <2>6. started.at # NoTime => Saved(started.at) <= at
    BY <2>2, <2>3, <2>4, <2>5
  <2>7. Saved(at) \in Times
    BY <2>2, SavedSeconds, RuntimeAssumption DEF Times
  <2>8. started.at # NoTime => Saved(started.at) <= Saved(at)
    BY <2>2, <2>4, <2>6, SavedSeconds, Zenon
  <2>9. started.at # NoTime => Saved(at) >= Saved(started.at)
    BY <2>2, <2>4, <2>8, SavedSeconds, Zenon
  <2> QED  BY <2>7, <2>9, Zenon DEF at
<1>7. \/ switched' = switched
      \/ \E k \in 1..Len(tunnelJobs) :
            /\ tunnelJobs[k].op = "SaveVpnSwitch"
            /\ switched' = Saved(tunnelJobs[k].switch.at)
  BY DEF CrashTunnel, Typed
<1>8. switched' \in Times \cup {NoTime}
  BY <1>6, <1>7, Zenon DEF Typed
<1>9. OnDisk'
  <2> SUFFICES ASSUME started.at # NoTime
               PROVE  switched' # NoTime /\ switched' >= Saved(started.at)
    BY <1>2, Zenon DEF OnDisk
  <2>1. CASE switched' = switched
    BY <2>1, Zenon DEF OnDisk
  <2>2. CASE switched' # switched
    <3>1. PICK k \in 1..Len(tunnelJobs) :
            /\ tunnelJobs[k].op = "SaveVpnSwitch"
            /\ switched' = Saved(tunnelJobs[k].switch.at)
      BY <1>7, <2>2, Zenon
    <3>2. switched' \in Times /\ switched' >= Saved(started.at)
      BY <1>6, <3>1, Zenon
    <3>3. NoTime \notin Times
      BY RuntimeAssumption DEF Times, NoTime
    <3> QED  BY <3>2, <3>3, Zenon
  <2> QED  BY <2>1, <2>2, Zenon
<1>10. Typed'
  <2>1. queue' \in Seq(Events) /\ tunnelJobs' \in Seq(Job)
    BY <1>1
  <2> QED  BY <1>1, <1>2, <1>3, <1>5, <1>8, <2>1, Zenon DEF Typed
<1>11. TimersFit'
  <2>1. \A k \in DOMAIN queue' : FALSE
    OBVIOUS
  <2> QED  BY <2>1, TimersStillFit, Zenon
<1>12. Balance'
  BY <1>1, <1>3, CountEmpty DEF Balance
<1>13. Paced(tunnel', started') /\ Carried' /\ SpacedStep
  BY <1>1, <1>2, <1>3 DEF Paced, Carried, JobsCarry, SavesCarry, ReadsCarry, SpacedStep
<1> QED  BY <1>1, <1>3, <1>9, <1>10, <1>11, <1>12, <1>13, Zenon

-----------------------------------------------------------------------------
(* The invariant holds at the start.                                       *)
LEMMA InitTunnel == Init => TunnelInv
<1> SUFFICES ASSUME Init PROVE TunnelInv
  BY Zenon
<1> USE DEF Init, TunnelInit
<1>1. /\ NewTunnel \in TunnelState /\ Agree(NewTunnel)
      /\ NewTunnel.lastSwitch = "Unread" /\ NewTunnel.failover = "None"
      /\ \A op \in Operations : Owed(NewTunnel, op) = 0
  BY NewTunnelSound, Zenon
<1>2. Typed
  BY <1>1, RuntimeAssumption DEF Typed, Times
<1>3. TimersFit
  <2>1. Expiries("TunnelCheck") = {}
    BY DEF Expiries
  <2> QED  BY <2>1, FS_EmptySet, RuntimeAssumption DEF TimersFit
<1>4. Balance
  BY <1>1, CountEmpty DEF Balance
<1> QED  BY <1>1, <1>2, <1>3, <1>4 DEF TunnelInv, Paced, OnDisk, Carried, JobsCarry, SavesCarry, ReadsCarry

(* Every step keeps it, and starts no switch too early.                    *)
LEMMA TunnelStep == TunnelInv /\ [Next]_vars => TunnelInv' /\ SpacedStep
<1> SUFFICES ASSUME TunnelInv, [Next]_vars PROVE TunnelInv' /\ SpacedStep
  BY Zenon
<1>1. CASE \/ EnableTunnel /\ UNCHANGED <<now, queue>>
           \/ StartReading /\ UNCHANGED <<now, queue>>
           \/ Handle
           \/ SuspectTunnel(now) /\ UNCHANGED <<now, queue>>
  BY <1>1, CoreKeepsInv, Zenon DEF Handle
<1>2. CASE Work
  BY <1>2, FinishKeepsInv, TakeOverKeepsInv, Zenon DEF Work
<1>3. CASE FireCheckTimer /\ UNCHANGED now
  BY <1>3, FireKeepsInv, Zenon
<1>4. CASE CrashTunnel /\ queue' = <<>> /\ UNCHANGED now
  BY <1>4, CrashKeepsInv, Zenon
<1>5. CASE (Tick /\ UNCHANGED <<queue, tunnelVars>>) \/ UNCHANGED vars
  <2>1. now' \in Times /\ UNCHANGED <<queue, tunnelVars>>
    BY <1>5, RuntimeAssumption DEF Tick, vars, TunnelInv, Typed, Times
  <2> QED  BY <2>1, Zenon DEF tunnelVars, TunnelInv, Typed, TimersFit, Expiries,
              Balance, OnDisk, Carried, JobsCarry, SavesCarry, ReadsCarry, SpacedStep
<1> QED  BY <1>1, <1>2, <1>3, <1>4, <1>5, Zenon DEF Next

(* What the core waits for is under way once, and the times known, saved   *)
(* and read are the last start's, in every reachable state.                *)
THEOREM TunnelSound == Spec => []TunnelInv
  BY InitTunnel, TunnelStep, PTL DEF Spec

(* Switches are decided SWITCH_SPACING apart, to the second across a       *)
(* restart (Tunnel::switch_allowance, with the save before the start).     *)
THEOREM SwitchSpacingKept == Spec => SwitchesSpaced
<1>1. SpacedStep <=> (started'.at # started.at /\ started.at # NoTime
       => started'.at >= started.at + SwitchSpacing
                         - (IF started.here THEN 0 ELSE Second - 1))
  BY Zenon DEF SpacedStep
<1>2. TunnelInv /\ [Next]_vars
        => [started'.at # started.at /\ started.at # NoTime
            => started'.at >= started.at + SwitchSpacing
                              - (IF started.here THEN 0 ELSE Second - 1)]_vars
  BY TunnelStep, <1>1, Zenon
<1> QED  BY TunnelSound, <1>2, PTL DEF Spec, SwitchesSpaced

(* One check is under way exactly while the core waits for one (OneCheck). *)
THEOREM ChecksAreSingle == Spec => []OneCheck
<1>1. TunnelInv => OneCheck
  <2> SUFFICES ASSUME TunnelInv PROVE OneCheck
    BY Zenon
  <2>1. /\ Places(tunnelJobs, OfOp("CheckExitIp"))
             = {k \in DOMAIN tunnelJobs : tunnelJobs[k].op = "CheckExitIp"}
        /\ Places(queue, OfKind("CheckExitIp"))
             = {k \in DOMAIN queue : queue[k].kind = "CheckExitIp"}
    BY DEF TunnelInv, Typed, Places, OfOp, OfKind
  <2>2. Count(tunnelJobs, OfOp("CheckExitIp"))
          + Count(queue, OfKind("CheckExitIp")) = Owed(tunnel, "CheckExitIp")
    BY Zenon DEF TunnelInv, Balance, Operations
  <2>3. Owed(tunnel, "CheckExitIp")
          = IF tunnel.enabled /\ tunnel.check = "Outstanding" THEN 1 ELSE 0
    BY Zenon DEF Owed, Awaits
  <2> QED  BY <2>1, <2>2, <2>3, Zenon DEF OneCheck, Count
<1> QED  BY <1>1, TunnelSound, PTL

(* Every variable keeps its type, and Watch's phases agree.                *)
THEOREM TunnelTyped == Spec => []TypeOK
<1>1. TunnelInv => TypeOK
  <2> SUFFICES ASSUME TunnelInv PROVE TypeOK
    BY Zenon
  <2>1. \A k \in DOMAIN queue :
          queue[k].kind = "TimerExpired" \/ queue[k] \in Answer
    <3>1. \A k \in DOMAIN queue : queue[k] \in Events
      BY DEF TunnelInv, Typed
    <3> QED  BY <3>1 DEF Events, Expiry
  <2> QED  BY <2>1, Zenon DEF TypeOK, TunnelInv, Typed, Agree
<1> QED  BY <1>1, TunnelSound, PTL
=============================================================================
