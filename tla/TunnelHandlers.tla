--------------------------- MODULE TunnelHandlers ---------------------------
(***************************************************************************)
(* What every handler of the tunnel core does, whatever the event and for  *)
(* any servers, spacings and failure threshold: it keeps the phases of     *)
(* Watch in agreement, it waits for one operation more for each action it  *)
(* returns and for one fewer if the event answered one, and it decides and *)
(* starts a switch only as it may (Steps).                                 *)
(***************************************************************************)
EXTENDS Tunnel, Counting, WellFoundedInduction

OfOp(op) == {job \in Job : job.op = op}

(* The phases of Watch agree with each other.                              *)
Agree(t) ==
    /\ t.failover = "None" <=> t.switch = NoSwitch
    /\ t.check = "Waiting" <=> t.waiting # NoTimer
    /\ t.check = "Switching" <=> t.failover # "None"
    /\ ~t.enabled => t.check = "Outstanding"
    /\ t.failover # "None" => /\ t.lastSwitch = "Known"
                              /\ t.switch.server \in Servers
                              /\ t.switch.at \in Times

(* The operation that the state waits for.                                 *)
Awaits(t, op) ==
    \/ op = "ReadLastVpnSwitch" /\ t.lastSwitch = "Reading"
    \/ op = "CheckExitIp" /\ t.enabled /\ t.check = "Outstanding"
    \/ op = "SaveVpnSwitch" /\ t.failover = "Saving"
    \/ op = "SwitchVpnServer" /\ t.failover = "Switching"
Owed(t, op) == IF Awaits(t, op) THEN 1 ELSE 0

-----------------------------------------------------------------------------
(* Min finds an element of a set of numbers that has one.                  *)
Less == {p \in Nat \X Nat : p[1] < p[2]}

LEMMA LessWellFounded == IsWellFoundedOn(Less, Nat)
<1>1. OpToRel(<, Nat) = Less
  BY Zenon DEF OpToRel, Less
<1> QED  BY <1>1, NatLessThanWellFounded, Zenon

LEMMA MinFound ==
    ASSUME NEW S, S \subseteq Nat, S # {}
    PROVE  Min(S) \in S
<1>1. PICK x \in S : \A y \in S : ~ (<<y, x>> \in Less)
  BY LessWellFounded, WFMin, Zenon
<1>2. ASSUME NEW y \in S PROVE x <= y
  <2>1. <<y, x>> \notin Less
    BY <1>1, Zenon
  <2>2. y \in Nat /\ x \in Nat
    BY Zenon
  <2> QED  BY <2>1, <2>2 DEF Less
<1> QED  BY <1>2, Zenon DEF Min

(* Failures beyond the threshold are not told apart.                       *)
LEMMA FailuresBounded ==
    ASSUME NEW n \in 0..Failures
    PROVE  Min({n + 1, Failures}) \in 0..Failures
<1>1. {n + 1, Failures} \in SUBSET Nat /\ Failures \in Nat \ {0}
  BY TunnelAssumption
<1>2. \E x \in {n + 1, Failures} : \A y \in {n + 1, Failures} : x <= y
  BY <1>1
<1>3. PICK x \in {n + 1, Failures} :
        /\ x = Min({n + 1, Failures})
        /\ \A y \in {n + 1, Failures} : x <= y
  BY <1>2, Zenon DEF Min
<1> QED  BY <1>1, <1>3

(* Watch::next_server names a configured server, if it names one.          *)
LEMMA NextServerFound ==
    ASSUME NEW t, NextServer(t) # NoServer
    PROVE  NextServer(t) \in Servers
<1> DEFINE count == Len(ServerList)
           positions == {k \in 1..count : ServerList[k] = t.current}
           first == IF positions = {} THEN 0 ELSE Min(positions)
           nth(k) == ServerList[((first + k - 1) % count) + 1]
           others == {k \in 1..count : nth(k) # t.current}
<1>1. others # {} /\ NextServer(t) = nth(Min(others))
  BY Zenon DEF NextServer
<1>2. count \in Nat
  BY TunnelAssumption, Zenon
<1>3. count >= 1
  BY <1>1, <1>2
<1>4. Min(others) \in others
  <2>1. others \subseteq Nat
    BY <1>2
  <2> HIDE DEF others
  <2> QED  BY <1>1, <2>1, MinFound, Zenon
<1>5. first \in Nat
  <2>1. positions \subseteq Nat
    BY <1>2
  <2> HIDE DEF positions
  <2> QED  BY <2>1, MinFound, Zenon
<1> DEFINE m == Min(others)
<1>6. m \in 1..count
  BY <1>4, Zenon
<1> HIDE DEF m, first
<1>7. (first + m - 1) % count \in 0..(count - 1)
  BY <1>2, <1>3, <1>5, <1>6
<1>8. ((first + m - 1) % count) + 1 \in 1..count
  BY <1>2, <1>3, <1>7
<1> QED  BY <1>1, <1>8, Zenon DEF m, Servers

-----------------------------------------------------------------------------
(* What every handler does, whatever the event: the new state is sound, it *)
(* waits for one operation more for each action and for one fewer if the   *)
(* event answered one, and it takes up a switch, or a time for the last    *)
(* one, only as it may.                                                    *)
Starts(r) == r.actions # <<>> /\ r.actions[1].op = "SwitchVpnServer"

Accounts(t, r, kind) ==
    \A op \in Operations :
        Count(r.actions, OfOp(op)) + Owed(t, op)
        = Owed(r.tunnel, op) + IF op = kind THEN 1 ELSE 0

Shaped(r) ==
    /\ r.tunnel \in TunnelState /\ Agree(r.tunnel)
    /\ r.timer \in TimerIds \cup {NoTimer}
    /\ r.actions \in Seq(Job)
    /\ \A k \in 1..Len(r.actions) :
          r.actions[k].op \in {"SaveVpnSwitch", "SwitchVpnServer"}
            => r.actions[k].switch = r.tunnel.switch

Learns(t, r, event) ==
    /\ t.lastSwitch = "Known" => r.tunnel.lastSwitch = "Known"
    /\ r.tunnel.lastSwitch = "Known" =>
          \/ t.lastSwitch = "Known" /\ r.tunnel.lastAt = t.lastAt
          \/ Starts(r) /\ r.tunnel.lastAt = t.switch.at
          \/ /\ event.kind = "ReadLastVpnSwitch" /\ event.ok
             /\ t.lastSwitch = "Reading"
             /\ r.tunnel.lastAt = event.switch.at

Decides(t, r, event) ==
    /\ r.tunnel.failover # "None"
         => t.failover = "None" \/ r.tunnel.switch = t.switch
    /\ r.tunnel.failover = "Saving" =>
          \/ t.failover = "Saving" /\ r.tunnel.switch = t.switch
          \/ /\ t.failover = "None" /\ t.lastSwitch = "Known"
             /\ t.lastAt # NoTime
                  => r.tunnel.switch.at >= t.lastAt + SwitchSpacing
    /\ Starts(r) => /\ event.kind = "SaveVpnSwitch" /\ event.ok
                    /\ t.failover = "Saving"
                    /\ r.tunnel.failover = "Switching"
                    /\ r.tunnel.lastSwitch = "Known"
                    /\ r.tunnel.lastAt = t.switch.at
                    /\ r.tunnel.switch = t.switch

Steps(t, r, event) ==
    /\ Shaped(r) /\ Accounts(t, r, event.kind)
    /\ Learns(t, r, event) /\ Decides(t, r, event)

(* The actions of a handler: none or one.                                  *)
LEMMA ActionCounts ==
    ASSUME NEW op \in Operations, NEW switch \in Switch
    PROVE  /\ NewJob(op, switch) \in Job
           /\ <<NewJob(op, switch)>> \in Seq(Job)
           /\ \A other \in Operations :
                 /\ Count(<<NewJob(op, switch)>>, OfOp(other))
                      = IF other = op THEN 1 ELSE 0
                 /\ Count(<<>>, OfOp(other)) = 0
<1>1. NewJob(op, switch) \in Job /\ NewJob(op, switch).op = op
  BY Zenon DEF NewJob, Job
<1>2. \A other \in Operations :
        NewJob(op, switch) \in OfOp(other) <=> other = op
  BY <1>1, Zenon DEF OfOp
<1> QED  BY <1>1, <1>2, CountOne, CountEmpty

Single(actions, op, switch) == actions = <<NewJob(op, switch)>>

LEMMA OneAction ==
    ASSUME NEW op \in Operations, NEW switch \in Switch, NEW actions,
           Single(actions, op, switch)
    PROVE  /\ actions \in Seq(Job) /\ Len(actions) = 1
           /\ actions[1].op = op /\ actions[1].switch = switch
           /\ \A other \in Operations :
                 Count(actions, OfOp(other)) = IF other = op THEN 1 ELSE 0
<1>1. actions = <<NewJob(op, switch)>>
  BY Zenon DEF Single
<1>2. actions \in Seq(Job)
  BY <1>1, ActionCounts, Zenon
<1>3. Len(actions) = 1 /\ actions[1] = NewJob(op, switch)
  BY <1>1, Zenon
<1>4. \A other \in Operations :
        Count(actions, OfOp(other)) = IF other = op THEN 1 ELSE 0
  BY <1>1, ActionCounts, Zenon
<1> QED  BY <1>2, <1>3, <1>4 DEF NewJob

LEMMA NoSwitchTyped == NoSwitch \in Switch /\ NoSwitch.at = NoTime
  BY Zenon DEF NoSwitch, Switch

(* Watch::check_now, from a state that waits for no check.                 *)
LEMMA CheckNowSteps ==
    ASSUME NEW t \in TunnelState, Agree(t), NEW u \in TunnelState, Agree(u),
           NEW event, NEW at \in Times,
           u.enabled, u.failover = "None",
           u.lastSwitch = t.lastSwitch, u.lastAt = t.lastAt,
           \A op \in Operations \ {"CheckExitIp"} :
               Owed(t, op) = Owed(u, op) + IF op = event.kind THEN 1 ELSE 0,
           Owed(t, "CheckExitIp") = 0, event.kind # "CheckExitIp"
    PROVE  Steps(t, CheckNow(u, at), event)
<1> SUFFICES ASSUME NEW r, r = CheckNow(u, at)
             PROVE  Steps(t, r, event)
  BY Zenon
<1>1. /\ Single(r.actions, "CheckExitIp", NoSwitch) /\ r.timer = NoTimer
      /\ r.tunnel = [u EXCEPT !.check = "Outstanding", !.waiting = NoTimer,
                              !.lastCheck = at]
  BY Zenon DEF CheckNow, Result, Single
<1>2. /\ r.tunnel \in TunnelState /\ r.tunnel.enabled
      /\ r.tunnel.check = "Outstanding" /\ r.tunnel.waiting = NoTimer
      /\ r.tunnel.failover = "None" /\ r.tunnel.switch = u.switch
      /\ r.tunnel.lastSwitch = t.lastSwitch /\ r.tunnel.lastAt = t.lastAt
  <2>1. r.tunnel \in TunnelState
    BY ONLY <1>1, u \in TunnelState, at \in Times, Zenon DEF TunnelState
  <2>2. /\ r.tunnel.check = "Outstanding" /\ r.tunnel.waiting = NoTimer
        /\ r.tunnel.enabled = u.enabled /\ r.tunnel.failover = u.failover
        /\ r.tunnel.switch = u.switch /\ r.tunnel.lastSwitch = u.lastSwitch
        /\ r.tunnel.lastAt = u.lastAt
    BY ONLY <1>1, u \in TunnelState DEF TunnelState
  <2> QED  BY <2>1, <2>2, Zenon
<1>3. /\ r.actions \in Seq(Job) /\ Len(r.actions) = 1
      /\ r.actions[1].op = "CheckExitIp"
      /\ \A op \in Operations :
            Count(r.actions, OfOp(op)) = IF op = "CheckExitIp" THEN 1 ELSE 0
  <2>1. "CheckExitIp" \in Operations
    BY Zenon DEF Operations
  <2> QED  BY <1>1, <2>1, OneAction, NoSwitchTyped
<1>4. Shaped(r)
  <2>1. Agree(r.tunnel)
    BY <1>2, Zenon DEF Agree
  <2> QED  BY <1>1, <1>2, <1>3, <2>1 DEF Shaped
<1>5. ~Starts(r)
  BY <1>3, Zenon DEF Starts
<1>6. Accounts(t, r, event.kind)
  <2> SUFFICES ASSUME NEW op \in Operations
               PROVE  Count(r.actions, OfOp(op)) + Owed(t, op)
                        = Owed(r.tunnel, op) + IF op = event.kind THEN 1 ELSE 0
    BY Zenon DEF Accounts
  <2>1. Count(r.actions, OfOp(op)) = IF op = "CheckExitIp" THEN 1 ELSE 0
    BY <1>3, Zenon
  <2>2. CASE op = "CheckExitIp"
    BY <1>2, <2>1, <2>2, Zenon DEF Owed, Awaits
  <2>3. CASE op # "CheckExitIp"
    BY <1>2, <2>1, <2>3 DEF Owed, Awaits, Operations
  <2> QED  BY <2>2, <2>3, Zenon
<1> QED  BY <1>2, <1>4, <1>5, <1>6, Zenon DEF Steps, Learns, Decides, Agree

(* Watch::wait, from a state that waits for no check any more.             *)
LEMMA WaitSteps ==
    ASSUME NEW t \in TunnelState, NEW u \in TunnelState, NEW event,
           NEW id \in TimerIds,
           u.enabled, u.failover = "None", u.switch = NoSwitch,
           u.lastSwitch = t.lastSwitch, u.lastAt = t.lastAt,
           Owed(t, event.kind) = 1, event.kind # "ReadLastVpnSwitch",
           \A op \in Operations \ {event.kind, "ReadLastVpnSwitch"} :
               Owed(t, op) = 0
    PROVE  Steps(t, Wait(u, id), event)
<1> SUFFICES ASSUME NEW r, r = Wait(u, id)
             PROVE  Steps(t, r, event)
  BY Zenon
<1>1. /\ r.actions = <<>> /\ r.timer = id
      /\ r.tunnel = [u EXCEPT !.check = "Waiting", !.waiting = id]
  BY Zenon DEF Wait, Result
<1>2. /\ r.tunnel \in TunnelState /\ r.tunnel.enabled
      /\ r.tunnel.check = "Waiting" /\ r.tunnel.waiting = id
      /\ r.tunnel.failover = "None" /\ r.tunnel.switch = NoSwitch
      /\ r.tunnel.lastSwitch = t.lastSwitch /\ r.tunnel.lastAt = t.lastAt
  <2>1. r.tunnel \in TunnelState
    BY ONLY <1>1, u \in TunnelState, id \in TimerIds, Zenon DEF TunnelState
  <2>2. /\ r.tunnel.check = "Waiting" /\ r.tunnel.waiting = id
        /\ r.tunnel.enabled = u.enabled /\ r.tunnel.failover = u.failover
        /\ r.tunnel.switch = u.switch /\ r.tunnel.lastSwitch = u.lastSwitch
        /\ r.tunnel.lastAt = u.lastAt
    BY ONLY Zenon, <1>1, u \in TunnelState DEF TunnelState
  <2> QED  BY <2>1, <2>2, Zenon
<1>3. id # NoTimer
  BY RuntimeAssumption, Zenon
<1>4. Agree(r.tunnel) /\ ~Starts(r)
  BY <1>1, <1>2, <1>3, Zenon DEF Agree, Starts
<1>5. Shaped(r)
  BY <1>1, <1>2, <1>4 DEF Shaped
<1>6. Accounts(t, r, event.kind)
  <2> SUFFICES ASSUME NEW op \in Operations
               PROVE  Count(r.actions, OfOp(op)) + Owed(t, op)
                        = Owed(r.tunnel, op) + IF op = event.kind THEN 1 ELSE 0
    BY Zenon DEF Accounts
  <2>1. Count(r.actions, OfOp(op)) = 0
    BY <1>1, CountEmpty, Zenon
  <2>2. CASE op = "ReadLastVpnSwitch"
    BY <1>2, <2>1, <2>2 DEF Owed, Awaits
  <2>3. CASE op # "ReadLastVpnSwitch"
    BY <1>2, <2>1, <2>3, Zenon DEF Owed, Awaits, Operations
  <2> QED  BY <2>2, <2>3, Zenon
<1> QED  BY <1>2, <1>4, <1>5, <1>6, Zenon DEF Steps, Learns, Decides

(* Doing nothing about an event that answers nothing.                      *)
LEMMA IgnoreSteps ==
    ASSUME NEW t \in TunnelState, Agree(t), NEW event,
           event.kind \notin Operations
    PROVE  Steps(t, Ignore(t), event)
<1> SUFFICES ASSUME NEW r, r = Ignore(t)
             PROVE  Steps(t, r, event)
  BY Zenon
<1>1. r.actions = <<>> /\ r.timer = NoTimer /\ r.tunnel = t
  BY Zenon DEF Ignore, Result
<1>2. ~Starts(r) /\ Shaped(r)
  BY <1>1 DEF Starts, Shaped
<1>3. Accounts(t, r, event.kind)
  BY <1>1, CountEmpty DEF Accounts, Owed
<1> QED  BY <1>1, <1>2, <1>3, Zenon DEF Steps, Learns, Decides

(* LastSwitchRead and LastSwitchReadFailed.                                *)
LEMMA ReadSteps ==
    ASSUME NEW t \in TunnelState, Agree(t), NEW event \in Answer,
           event.kind = "ReadLastVpnSwitch", Awaits(t, event.kind)
    PROVE  Steps(t, LastSwitchRead(t, event), event)
<1> SUFFICES ASSUME NEW r, r = LastSwitchRead(t, event)
             PROVE  Steps(t, r, event)
  BY Zenon
<1> DEFINE u == IF event.ok
                THEN [t EXCEPT !.lastSwitch = "Known",
                               !.lastAt = event.switch.at]
                ELSE [t EXCEPT !.lastSwitch = "ReadFailed"]
<1>0. t.lastSwitch = "Reading" /\ t.failover = "None"
  BY Zenon DEF Awaits, Agree
<1>1. r.actions = <<>> /\ r.timer = NoTimer /\ r.tunnel = u
  BY <1>0, Zenon DEF LastSwitchRead, Ignore, Result
<1>2. event.switch.at \in Times \cup {NoTime} /\ event.ok \in BOOLEAN
  BY Zenon DEF Answer, Switch
<1>3. /\ u \in TunnelState
      /\ u.enabled = t.enabled /\ u.check = t.check /\ u.waiting = t.waiting
      /\ u.failover = t.failover /\ u.switch = t.switch
      /\ u.lastSwitch = IF event.ok THEN "Known" ELSE "ReadFailed"
      /\ event.ok => u.lastAt = event.switch.at
  BY <1>2, Zenon DEF TunnelState
<1> HIDE DEF u
<1>4. ~Starts(r) /\ Agree(u)
  BY <1>0, <1>1, <1>3, Zenon DEF Starts, Agree
<1>5. Shaped(r)
  BY <1>1, <1>3, <1>4 DEF Shaped
<1>6. Accounts(t, r, event.kind)
  <2> SUFFICES ASSUME NEW op \in Operations
               PROVE  Owed(t, op)
                        = Owed(u, op) + IF op = event.kind THEN 1 ELSE 0
    BY <1>1, CountEmpty DEF Accounts, Owed
  <2> QED  BY <1>0, <1>3 DEF Owed, Awaits, Operations
<1> QED  BY <1>0, <1>1, <1>3, <1>4, <1>5, <1>6, Zenon DEF Steps, Learns, Decides

(* Watch::fail_over, after a check that failed.                            *)
LEMMA FailOverSteps ==
    ASSUME NEW t \in TunnelState, Agree(t), NEW u \in TunnelState,
           NEW event \in Answer, event.kind = "CheckExitIp",
           Awaits(t, event.kind), SwitchAllowed(t, event.at),
           u.enabled = t.enabled, u.current = t.current,
           u.lastSwitch = t.lastSwitch, u.lastAt = t.lastAt
    PROVE  Steps(t, FailOver(u, event.at), event)
<1> DEFINE switch == [server |-> NextServer(u), at |-> event.at]
<1> SUFFICES ASSUME NEW r, r = FailOver(u, event.at)
             PROVE  Steps(t, r, event)
  BY Zenon
<1>0. /\ t.enabled /\ t.check = "Outstanding" /\ t.failover = "None"
      /\ t.lastSwitch = "Known"
      /\ t.lastAt # NoTime => t.lastAt + SwitchSpacing <= event.at
  BY Zenon DEF Awaits, Agree, SwitchAllowed
<1>1. /\ Single(r.actions, "SaveVpnSwitch", switch) /\ r.timer = NoTimer
      /\ r.tunnel = [u EXCEPT !.check = "Switching", !.waiting = NoTimer,
                              !.failover = "Saving", !.switch = switch]
  BY Zenon DEF FailOver, Result, Single
<1>2. NextServer(u) = NextServer(t)
  BY DEF NextServer
<1>3. NextServer(u) \in Servers
  BY <1>2, NextServerFound, Zenon DEF SwitchAllowed
<1>4. event.at \in Times
  BY Zenon DEF Answer
<1>5. /\ switch \in Switch /\ switch.at = event.at
      /\ switch.server \in Servers /\ switch # NoSwitch
  <2>1. switch \in Switch /\ switch.at = event.at /\ switch.server \in Servers
    BY <1>3, <1>4, Zenon DEF Switch
  <2>2. event.at # NoTime
    BY <1>4, RuntimeAssumption DEF Times, NoTime
  <2> QED  BY <2>1, <2>2, NoSwitchTyped, Zenon
<1> HIDE DEF switch
<1>6. /\ r.tunnel \in TunnelState /\ r.tunnel.enabled
      /\ r.tunnel.check = "Switching" /\ r.tunnel.waiting = NoTimer
      /\ r.tunnel.failover = "Saving" /\ r.tunnel.switch = switch
      /\ r.tunnel.lastSwitch = "Known" /\ r.tunnel.lastAt = t.lastAt
  <2>1. r.tunnel \in TunnelState
    BY ONLY <1>1, <1>5, u \in TunnelState, Zenon DEF TunnelState
  <2>2. /\ r.tunnel.check = "Switching" /\ r.tunnel.waiting = NoTimer
        /\ r.tunnel.failover = "Saving" /\ r.tunnel.switch = switch
        /\ r.tunnel.enabled = u.enabled /\ r.tunnel.lastSwitch = u.lastSwitch
        /\ r.tunnel.lastAt = u.lastAt
    BY ONLY <1>1, u \in TunnelState DEF TunnelState
  <2> QED  BY <1>0, <2>1, <2>2, Zenon
<1>7. "SaveVpnSwitch" \in Operations
  BY Zenon DEF Operations
<1>8. /\ r.actions \in Seq(Job) /\ Len(r.actions) = 1
      /\ r.actions[1].op = "SaveVpnSwitch" /\ r.actions[1].switch = switch
      /\ \A op \in Operations :
            Count(r.actions, OfOp(op)) = IF op = "SaveVpnSwitch" THEN 1 ELSE 0
  BY <1>1, <1>5, <1>7, OneAction
<1>10. ~Starts(r) /\ Agree(r.tunnel)
  BY <1>4, <1>5, <1>6, <1>8, Zenon DEF Starts, Agree
<1>11. Shaped(r)
  BY <1>1, <1>6, <1>8, <1>10 DEF Shaped
<1>12. Accounts(t, r, event.kind)
  <2> SUFFICES ASSUME NEW op \in Operations
               PROVE  Count(r.actions, OfOp(op)) + Owed(t, op)
                        = Owed(r.tunnel, op) + IF op = event.kind THEN 1 ELSE 0
    BY Zenon DEF Accounts
  <2> QED  BY <1>0, <1>6, <1>8, Zenon DEF Owed, Awaits, Operations
<1>13. t.lastAt # NoTime => switch.at >= t.lastAt + SwitchSpacing
  <2>1. t.lastAt \in Times \cup {NoTime} /\ SwitchSpacing \in Nat
    BY TunnelAssumption, Zenon DEF TunnelState
  <2> QED  BY <1>0, <1>4, <1>5, <2>1, RuntimeAssumption, Zenon DEF Times, NoTime
<1> QED  BY <1>0, <1>6, <1>10, <1>11, <1>12, <1>13, Zenon DEF Steps, Learns, Decides

(* ExitIpObserved and ExitIpCheckFailed.                                   *)
LEMMA CheckSteps ==
    ASSUME NEW t \in TunnelState, Agree(t), NEW event \in Answer,
           event.kind = "CheckExitIp", Awaits(t, event.kind),
           NEW id \in TimerIds
    PROVE  Steps(t, CheckAnswered(t, event, id), event)
<1> DEFINE found == [t EXCEPT !.protection = "Available", !.failures = 0]
           failing == [t EXCEPT !.protection = "Unavailable",
                                !.failures = Min({@ + 1, Failures})]
<1>0. /\ t.enabled /\ t.check = "Outstanding" /\ t.failover = "None"
      /\ t.switch = NoSwitch
  BY Zenon DEF Awaits, Agree
<1>1. Min({t.failures + 1, Failures}) \in 0..Failures
  BY FailuresBounded, Zenon DEF TunnelState
<1>2. /\ found \in TunnelState /\ failing \in TunnelState
      /\ \A u \in {found, failing} :
           /\ u.enabled /\ u.failover = "None"
           /\ u.switch = NoSwitch /\ u.current = t.current
           /\ u.lastSwitch = t.lastSwitch /\ u.lastAt = t.lastAt
  <2>0. 0 \in 0..Failures
    BY TunnelAssumption
  <2>1. found \in TunnelState
    BY ONLY <2>0, t \in TunnelState, Zenon DEF TunnelState
  <2>2. failing \in TunnelState
    BY <1>1, Zenon DEF TunnelState
  <2>3. /\ found.enabled = t.enabled /\ found.failover = t.failover
        /\ found.switch = t.switch /\ found.current = t.current
        /\ found.lastSwitch = t.lastSwitch /\ found.lastAt = t.lastAt
    BY Zenon DEF TunnelState
  <2>4. /\ failing.enabled = t.enabled /\ failing.failover = t.failover
        /\ failing.switch = t.switch /\ failing.current = t.current
        /\ failing.lastSwitch = t.lastSwitch /\ failing.lastAt = t.lastAt
    BY Zenon DEF TunnelState
  <2> HIDE DEF found, failing
  <2> QED  BY <1>0, <2>1, <2>2, <2>3, <2>4, Zenon
<1>3. /\ Owed(t, event.kind) = 1
      /\ \A op \in Operations \ {event.kind, "ReadLastVpnSwitch"} :
            Owed(t, op) = 0
  BY <1>0, Zenon DEF Owed, Awaits, Operations
<1>4. \/ CheckAnswered(t, event, id) \in {Wait(found, id), Wait(failing, id)}
      \/ /\ CheckAnswered(t, event, id) = FailOver(failing, event.at)
         /\ SwitchAllowed(t, event.at)
  BY <1>0, Zenon DEF CheckAnswered
<1> HIDE DEF found, failing
<1>5. Steps(t, Wait(found, id), event) /\ Steps(t, Wait(failing, id), event)
  BY <1>2, <1>3, WaitSteps, Zenon
<1>6. SwitchAllowed(t, event.at) => Steps(t, FailOver(failing, event.at), event)
  BY <1>0, <1>2, FailOverSteps, Zenon
<1> QED  BY <1>4, <1>5, <1>6, Zenon

(* SwitchSaved.                                                            *)
LEMMA SavedSteps ==
    ASSUME NEW t \in TunnelState, Agree(t), NEW event \in Answer,
           event.kind = "SaveVpnSwitch", event.ok, Awaits(t, event.kind)
    PROVE  Steps(t, SwitchSaved(t), event)
<1> SUFFICES ASSUME NEW r, r = SwitchSaved(t)
             PROVE  Steps(t, r, event)
  BY Zenon
<1>0. /\ t.failover = "Saving" /\ t.check = "Switching" /\ t.enabled
      /\ t.switch # NoSwitch
  BY Zenon DEF Awaits, Agree
<1>1. /\ Single(r.actions, "SwitchVpnServer", t.switch)
      /\ r.timer = NoTimer
      /\ r.tunnel = [t EXCEPT !.lastSwitch = "Known", !.lastAt = t.switch.at,
                              !.failover = "Switching"]
  BY <1>0, Zenon DEF SwitchSaved, Result, Single
<1>2. t.switch \in Switch /\ t.switch.at \in Times \cup {NoTime}
  BY Zenon DEF TunnelState, Switch
<1>3. /\ r.tunnel \in TunnelState /\ r.tunnel.enabled
      /\ r.tunnel.check = "Switching" /\ r.tunnel.waiting = t.waiting
      /\ r.tunnel.failover = "Switching" /\ r.tunnel.switch = t.switch
      /\ r.tunnel.lastSwitch = "Known" /\ r.tunnel.lastAt = t.switch.at
  BY <1>0, <1>1, <1>2, Zenon DEF TunnelState
<1>4. "SwitchVpnServer" \in Operations
  BY Zenon DEF Operations
<1>5. /\ r.actions \in Seq(Job) /\ Len(r.actions) = 1
      /\ r.actions[1].op = "SwitchVpnServer" /\ r.actions[1].switch = t.switch
      /\ \A op \in Operations :
            Count(r.actions, OfOp(op)) = IF op = "SwitchVpnServer" THEN 1 ELSE 0
  BY <1>1, <1>2, <1>4, OneAction
<1>7. Agree(r.tunnel) /\ Starts(r)
  BY <1>0, <1>1, <1>3, <1>5 DEF Agree, Starts
<1>8. Shaped(r)
  BY <1>1, <1>3, <1>5, <1>7 DEF Shaped
<1>9. Accounts(t, r, event.kind)
  <2> SUFFICES ASSUME NEW op \in Operations
               PROVE  Count(r.actions, OfOp(op)) + Owed(t, op)
                        = Owed(r.tunnel, op) + IF op = event.kind THEN 1 ELSE 0
    BY Zenon DEF Accounts
  <2>1. t.lastSwitch = "Known"
    BY <1>0, Zenon DEF Agree
  <2> QED  BY <1>0, <1>3, <1>5, <2>1, Zenon DEF Owed, Awaits, Operations
<1> QED  BY <1>0, <1>3, <1>7, <1>8, <1>9, Zenon DEF Steps, Learns, Decides

(* Switched.                                                               *)
LEMMA SwitchedSteps ==
    ASSUME NEW t \in TunnelState, Agree(t), NEW event \in Answer,
           event.kind = "SwitchVpnServer", Awaits(t, event.kind)
    PROVE  Steps(t, Switched(t, event.at), event)
<1> DEFINE u == [t EXCEPT !.current = t.switch.server,
                          !.protection = "Unknown", !.failures = 0,
                          !.failover = "None", !.switch = NoSwitch]
           v == [u EXCEPT !.check = "Outstanding"]
<1>0. /\ t.failover = "Switching" /\ t.check = "Switching" /\ t.enabled
      /\ t.switch.server \in Servers /\ t.waiting = NoTimer
      /\ t.lastSwitch = "Known"
  BY Zenon DEF Awaits, Agree
<1>1. Switched(t, event.at) = CheckNow(u, event.at)
  BY <1>0, Zenon DEF Switched
<1>2. /\ v \in TunnelState /\ v.enabled /\ v.failover = "None"
      /\ v.switch = NoSwitch /\ v.check = "Outstanding" /\ v.waiting = NoTimer
      /\ v.lastSwitch = t.lastSwitch /\ v.lastAt = t.lastAt
  <2>0. 0 \in 0..Failures /\ NoSwitch \in Switch
    BY TunnelAssumption, NoSwitchTyped
  <2>1. u \in TunnelState
    BY ONLY <1>0, <2>0, t \in TunnelState, Zenon DEF TunnelState
  <2>2. /\ u.enabled = t.enabled /\ u.waiting = t.waiting
        /\ u.lastSwitch = t.lastSwitch /\ u.lastAt = t.lastAt
        /\ u.failover = "None" /\ u.switch = NoSwitch
    BY ONLY Zenon, t \in TunnelState DEF TunnelState
  <2> HIDE DEF u
  <2>3. v \in TunnelState
    BY ONLY <2>1 DEF TunnelState
  <2>4. /\ v.enabled = u.enabled /\ v.waiting = u.waiting
        /\ v.lastSwitch = u.lastSwitch /\ v.lastAt = u.lastAt
        /\ v.failover = u.failover /\ v.switch = u.switch
        /\ v.check = "Outstanding"
    BY ONLY Zenon, <2>1 DEF TunnelState
  <2> HIDE DEF v
  <2> QED  BY <1>0, <2>2, <2>3, <2>4, Zenon
<1>3. Agree(v)
  BY <1>2, Zenon DEF Agree
<1>4. event.at \in Times
  BY Zenon DEF Answer
<1>5. CheckNow(u, event.at) = CheckNow(v, event.at)
  BY Zenon DEF CheckNow, Result, TunnelState
<1>6. /\ \A op \in Operations \ {"CheckExitIp"} :
            Owed(t, op) = Owed(v, op) + IF op = event.kind THEN 1 ELSE 0
      /\ Owed(t, "CheckExitIp") = 0
  BY <1>0, <1>2 DEF Owed, Awaits, Operations
<1> HIDE DEF u, v
<1> QED  BY <1>1, <1>2, <1>3, <1>4, <1>5, <1>6, CheckNowSteps, Zenon

(* SwitchSaveFailed and SwitchFailed.                                      *)
LEMMA FailedSteps ==
    ASSUME NEW t \in TunnelState, Agree(t), NEW event \in Answer,
           event.kind \in {"SaveVpnSwitch", "SwitchVpnServer"},
           Awaits(t, event.kind), NEW id \in TimerIds
    PROVE  Steps(t, FailoverFailed(t, id), event)
<1> DEFINE u == [t EXCEPT !.failover = "None", !.switch = NoSwitch]
<1>0. /\ t.failover # "None" /\ t.check = "Switching" /\ t.enabled
  BY Zenon DEF Awaits, Agree
<1>1. FailoverFailed(t, id) = Wait(u, id)
  BY <1>0, Zenon DEF FailoverFailed
<1>2. /\ u \in TunnelState /\ u.enabled /\ u.failover = "None"
      /\ u.switch = NoSwitch
      /\ u.lastSwitch = t.lastSwitch /\ u.lastAt = t.lastAt
  BY <1>0, NoSwitchTyped, Zenon DEF TunnelState
<1>3. /\ Owed(t, event.kind) = 1
      /\ \A op \in Operations \ {event.kind, "ReadLastVpnSwitch"} :
            Owed(t, op) = 0
  BY <1>0, Zenon DEF Owed, Awaits, Operations
<1> HIDE DEF u
<1> QED  BY <1>1, <1>2, <1>3, WaitSteps, Zenon

(* Tunnel::handle, on the answer to what the core waits for.               *)
LEMMA AnswerSteps ==
    ASSUME NEW t \in TunnelState, Agree(t), NEW event \in Answer,
           Awaits(t, event.kind), NEW id \in TimerIds
    PROVE  Steps(t, HandleAnswer(t, event, id), event)
<1> USE DEF HandleAnswer
<1>0. event.kind \in Operations /\ event.ok \in BOOLEAN
  BY Zenon DEF Answer
<1>1. CASE event.kind = "ReadLastVpnSwitch"
  BY <1>1, ReadSteps, Zenon
<1>2. CASE event.kind = "CheckExitIp"
  BY <1>2, CheckSteps, Zenon
<1>3. CASE event.kind = "SaveVpnSwitch" /\ event.ok
  BY <1>3, SavedSteps, Zenon
<1>4. CASE event.kind = "SwitchVpnServer" /\ event.ok
  BY <1>4, SwitchedSteps, Zenon
<1>5. CASE event.kind \in {"SaveVpnSwitch", "SwitchVpnServer"} /\ ~event.ok
  BY <1>5, FailedSteps, Zenon
<1> QED  BY <1>0, <1>1, <1>2, <1>3, <1>4, <1>5, Zenon DEF Operations

(* A check that starts for another reason: a timer, a suspicion.           *)
LEMMA RecheckSteps ==
    ASSUME NEW t \in TunnelState, Agree(t), NEW event,
           event.kind \notin Operations, NEW at \in Times,
           t.enabled, t.check = "Waiting"
    PROVE  Steps(t, CheckNow(t, at), event)
<1>1. t.failover = "None"
  BY Zenon DEF Agree
<1>2. event.kind # "CheckExitIp" /\ Owed(t, "CheckExitIp") = 0
  BY Zenon DEF Operations, Owed, Awaits
<1>3. \A op \in Operations \ {"CheckExitIp"} :
        Owed(t, op) = Owed(t, op) + IF op = event.kind THEN 1 ELSE 0
  BY DEF Owed
<1> QED  BY <1>1, <1>2, <1>3, CheckNowSteps, Zenon

(* TunnelEvent::Enable.                                                    *)
LEMMA EnableSteps ==
    ASSUME NEW t \in TunnelState, Agree(t), NEW event,
           event.kind \notin Operations, NEW at \in Times, ~t.enabled,
           NEW current \in Servers \cup {NoServer}
    PROVE  Steps(t, CheckNow([t EXCEPT !.enabled = TRUE, !.current = current],
                             at), event)
<1> DEFINE u == [t EXCEPT !.enabled = TRUE, !.current = current]
<1>1. t.check = "Outstanding" /\ t.failover = "None"
  BY Zenon DEF Agree
<1>2. /\ u \in TunnelState /\ u.enabled /\ u.failover = "None"
      /\ u.switch = t.switch /\ u.check = t.check /\ u.waiting = t.waiting
      /\ u.lastSwitch = t.lastSwitch /\ u.lastAt = t.lastAt
  BY <1>1, Zenon DEF TunnelState
<1> HIDE DEF u
<1>3. Agree(u)
  BY <1>1, <1>2, Zenon DEF Agree
<1>4. event.kind # "CheckExitIp" /\ Owed(t, "CheckExitIp") = 0
  BY Zenon DEF Operations, Owed, Awaits
<1>5. \A op \in Operations \ {"CheckExitIp"} :
        Owed(t, op) = Owed(u, op) + IF op = event.kind THEN 1 ELSE 0
  BY <1>1, <1>2 DEF Operations, Owed, Awaits
<1>6. Steps(t, CheckNow(u, at), event)
  BY <1>2, <1>3, <1>4, <1>5, CheckNowSteps, Zenon
<1> QED  BY <1>6, Zenon DEF u

(* Tunnel::start_reading.                                                  *)
StartedReading(t) ==
    Result([t EXCEPT !.lastSwitch = "Reading"],
           <<NewJob("ReadLastVpnSwitch", NoSwitch)>>, NoTimer)

LEMMA StartReadingSteps ==
    ASSUME NEW t \in TunnelState, Agree(t), NEW event,
           event.kind \notin Operations, t.lastSwitch = "Unread"
    PROVE  Steps(t, StartedReading(t), event)
<1> SUFFICES ASSUME NEW r, r = StartedReading(t)
             PROVE  Steps(t, r, event)
  BY Zenon
<1>1. /\ Single(r.actions, "ReadLastVpnSwitch", NoSwitch)
      /\ r.timer = NoTimer /\ r.tunnel = [t EXCEPT !.lastSwitch = "Reading"]
  BY Zenon DEF StartedReading, Result, Single
<1>2. /\ r.tunnel \in TunnelState /\ r.tunnel.enabled = t.enabled
      /\ r.tunnel.check = t.check /\ r.tunnel.waiting = t.waiting
      /\ r.tunnel.failover = t.failover /\ r.tunnel.switch = t.switch
      /\ r.tunnel.lastSwitch = "Reading"
  BY <1>1 DEF TunnelState
<1>3. "ReadLastVpnSwitch" \in Operations
  BY Zenon DEF Operations
<1>4. /\ r.actions \in Seq(Job) /\ Len(r.actions) = 1
      /\ r.actions[1].op = "ReadLastVpnSwitch"
      /\ \A op \in Operations :
            Count(r.actions, OfOp(op)) = IF op = "ReadLastVpnSwitch" THEN 1 ELSE 0
  BY <1>1, <1>3, OneAction, NoSwitchTyped
<1>6. t.failover = "None"
  BY Zenon DEF Agree
<1>7. Agree(r.tunnel) /\ ~Starts(r)
  BY <1>2, <1>4, <1>6, Zenon DEF Agree, Starts
<1>8. Shaped(r)
  BY <1>1, <1>2, <1>4, <1>7 DEF Shaped
<1>9. Accounts(t, r, event.kind)
  <2> SUFFICES ASSUME NEW op \in Operations
               PROVE  Count(r.actions, OfOp(op)) + Owed(t, op)
                        = Owed(r.tunnel, op) + IF op = event.kind THEN 1 ELSE 0
    BY Zenon DEF Accounts
  <2> QED  BY <1>2, <1>4 DEF Owed, Awaits, Operations
<1> QED  BY <1>2, <1>6, <1>7, <1>8, <1>9, Zenon DEF Steps, Learns, Decides
=============================================================================
