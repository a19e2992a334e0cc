--------------------------- MODULE PortForwarding ---------------------------
(***************************************************************************)
(* Leases on a forwarded port from the VPN server's NAT-PMP gateway        *)
(* (core/port_forwarding.rs) and the worker that asks for them             *)
(* (shell/natpmp.rs).  A port is known here by the gateway that granted    *)
(* it; failure reasons and counts, which only the dashboard shows, are     *)
(* left out.                                                               *)
(***************************************************************************)
EXTENDS Runtime, SequencesExt

CONSTANTS
    Gateways,    \* the servers' gateways; all answer at one address
    Lifetimes    \* lease lifetimes a gateway grants

VARIABLES
    forwarding,   \* the core's PortForwarding
    leaseTimer,   \* the armed TimerName::PortLease
    mappings      \* mapping requests in flight on workers

forwardingVars == <<forwarding, leaseTimer, mappings>>
vars == <<now, queue, forwardingVars>>

NoGateway == "NoGateway"

Forwarding ==
    [enabled : BOOLEAN,
     lease   : Gateways \cup {NoGateway},
     expires : Nat,
     request : {"Outstanding", "Waiting"},
     waiting : TimerIds \cup {NoTimer}]

Disabled == [enabled |-> FALSE, lease |-> NoGateway, expires |-> 0,
             request |-> "Outstanding", waiting |-> NoTimer]

(* A mapping request: the gateway that has answered it, if one has.        *)
Mapping == [gateway : Gateways \cup {NoGateway}]
NewMapping == [gateway |-> NoGateway]

(* PortForwardingEvent::Mapped, or MappingFailed when no gateway granted.  *)
Answer == [kind : {"Mapping"}, gateway : Gateways \cup {NoGateway},
           lifetime : Lifetimes \cup {0}, at : Times]

Result(p, actions, timer) ==
    [forwarding |-> p, actions |-> actions, timer |-> timer]

-----------------------------------------------------------------------------
Forget(p) == [p EXCEPT !.lease = NoGateway, !.expires = 0]

(* PortForwarding::expire, at the end of every core step.                  *)
ExpireLease(p, at) ==
    IF p.lease # NoGateway /\ p.expires <= at THEN Forget(p) ELSE p

(* The next request: Action::RequestPortMapping.                           *)
Ask(p) ==
    Result([p EXCEPT !.request = "Outstanding", !.waiting = NoTimer],
           <<NewMapping>>, NoTimer)

Ignore(p) == Result(p, <<>>, NoTimer)

(* PortForwardingEvent::Mapped and MappingFailed; a lifetime of zero is a  *)
(* failure.  A failure keeps the lease.                                    *)
HandleAnswer(p, event, id) ==
    LET later == [p EXCEPT !.request = "Waiting", !.waiting = id]
    IN  IF ~p.enabled \/ p.request # "Outstanding" THEN Ignore(p)
        ELSE IF event.gateway # NoGateway /\ event.lifetime # 0
        THEN Result([later EXCEPT !.lease = event.gateway,
                                  !.expires = event.at + event.lifetime],
                    <<>>, id)
        ELSE Result(later, <<>>, id)

(* Mutant: the wait starts again when nothing is held to be renewed.       *)
TimerExpiredHolding(p, expiry) ==
    IF ~p.enabled \/ p.request # "Waiting" \/ p.waiting # expiry.id
    THEN Ignore(p)
    ELSE IF p.lease # NoGateway THEN Ask(p)
    ELSE Result(p, <<>>, expiry.id)

(* PortForwarding::timer_expired.                                          *)
TimerExpired(p, expiry) ==
    IF p.enabled /\ p.request = "Waiting" /\ p.waiting = expiry.id
    THEN Ask(p) ELSE Ignore(p)

(* Mutant: the lease is kept while a request is outstanding.               *)
RenewKeeping(p) ==
    IF p.enabled /\ p.request = "Waiting" THEN Ask(Forget(p)) ELSE Ignore(p)

(* PortForwarding::renew: the gateway changed.                             *)
Renew(p) ==
    CASE ~p.enabled -> Ignore(p)
      [] p.enabled /\ p.request = "Waiting" -> Ask(Forget(p))
      [] p.enabled /\ p.request = "Outstanding" -> Ignore(Forget(p))

-----------------------------------------------------------------------------
(* The runner ends the step at this time and dispatches its actions.       *)
Dispatch(result, at) ==
    /\ forwarding' = ExpireLease(result.forwarding, at)
    /\ leaseTimer' = StartTimer(leaseTimer, result.timer)
    /\ mappings' = mappings \o result.actions

ForwardingInit ==
    /\ forwarding = Disabled
    /\ leaseTimer = NoTimer
    /\ mappings = <<>>

(* PortForwardingEvent::Enable.                                            *)
EnableForwarding ==
    /\ ~forwarding.enabled
    /\ Dispatch(Ask([forwarding EXCEPT !.enabled = TRUE]), now)

(* natpmp::map: the connected server's gateway answers.                    *)
Grant(i, gateway) ==
    /\ mappings[i].gateway = NoGateway
    /\ mappings' = [mappings EXCEPT ![i].gateway = gateway]
    /\ UNCHANGED <<queue, forwarding, leaseTimer>>

(* natpmp::map_ports ends with that answer, or after its last attempt, and *)
(* the worker sends its event.                                             *)
FinishMapping(i) ==
    /\ mappings' = RemoveAt(mappings, i)
    /\ \E lifetime \in IF mappings[i].gateway = NoGateway THEN {0}
                       ELSE Lifetimes :
          queue' = Append(queue,
              [kind |-> "Mapping", gateway |-> mappings[i].gateway,
               lifetime |-> lifetime, at |-> now])
    /\ UNCHANGED <<forwarding, leaseTimer>>

FireLeaseTimer ==
    /\ Expire("PortLease", leaseTimer)
    /\ leaseTimer' = NoTimer
    /\ UNCHANGED <<forwarding, mappings>>

HandleMapping(event) ==
    Dispatch(HandleAnswer(forwarding, event, Schedule("PortLease", leaseTimer)),
             event.at)

TakeLeaseExpiry(event) == Dispatch(TimerExpired(forwarding, event), event.at)

(* A step on another component's event: the lease may lapse.               *)
OtherEvent(at) == Dispatch(Ignore(forwarding), at)

(* The gateway changed: Switched to another server, or the connectability  *)
(* repair asks for a new lease.                                            *)
RenewLease(at) == Dispatch(Renew(forwarding), at)

CrashForwarding ==
    /\ forwarding' = Disabled
    /\ leaseTimer' = NoTimer
    /\ mappings' = <<>>

-----------------------------------------------------------------------------
Init == now = 0 /\ queue = <<>> /\ ForwardingInit

Work ==
    /\ \E i \in DOMAIN mappings :
          (\E gateway \in Gateways : Grant(i, gateway)) \/ FinishMapping(i)
    /\ UNCHANGED now

Handle ==
    /\ queue # <<>>
    /\ queue' = Tail(queue)
    /\ IF Head(queue).kind = "TimerExpired"
       THEN TakeLeaseExpiry(Head(queue))
       ELSE HandleMapping(Head(queue))
    /\ UNCHANGED now

Next ==
    \/ EnableForwarding /\ UNCHANGED <<now, queue>>
    \/ Work
    \/ FireLeaseTimer /\ UNCHANGED now
    \/ Handle
    \/ OtherEvent(now) /\ UNCHANGED <<now, queue>>
    \/ RenewLease(now) /\ UNCHANGED <<now, queue>>
    \/ CrashForwarding /\ queue' = <<>> /\ UNCHANGED now
    \/ Tick /\ UNCHANGED <<queue, forwardingVars>>

(* Every attempt at the gateway times out (ATTEMPT_TIMEOUTS), a sleeping   *)
(* timer task wakes, and the runner takes queued events.                   *)
Fairness == WF_vars(Work) /\ WF_vars(FireLeaseTimer /\ UNCHANGED now)
            /\ WF_vars(Handle)

Spec == Init /\ [][Next]_vars /\ Fairness

-----------------------------------------------------------------------------
(* Every variable has its type, and LeaseRequest::Waiting carries a timer  *)
(* while Outstanding carries none (core/port_forwarding.rs).               *)
TypeOK ==
    /\ now \in Times
    /\ forwarding \in Forwarding
    /\ forwarding.request = "Waiting" <=> forwarding.waiting # NoTimer
    /\ leaseTimer \in TimerIds \cup {NoTimer}
    /\ mappings \in Seq(Mapping)
    /\ \A k \in DOMAIN queue :
          queue[k].kind = "TimerExpired" \/ queue[k] \in Answer

(* One mapping request is in flight or answered in the queue exactly while *)
(* the core waits for one: stale timer expiries and renewals forced by a   *)
(* switch never start a second, whose late answer could replace a newer    *)
(* lease.                                                                  *)
OneRequest ==
    Len(mappings)
    + Cardinality({k \in DOMAIN queue : queue[k].kind = "Mapping"})
    = IF forwarding.enabled /\ forwarding.request = "Outstanding" THEN 1 ELSE 0

(* The lease keeps being renewed: whatever fails, another request follows. *)
RequestsGoOn == []<>(~forwarding.enabled \/ forwarding.request = "Outstanding")

=============================================================================
