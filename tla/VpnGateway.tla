----------------------------- MODULE VpnGateway -----------------------------
(***************************************************************************)
(* The tunnel and port forwarding as one core step composes them           *)
(* (Core::handle in core/machine.rs): a switch to another server renews    *)
(* the lease, a failed mapping casts suspicion on the tunnel, and every    *)
(* step ends by forgetting a lapsed lease.  Mapping requests reach the     *)
(* gateway of the server the machine is connected to at that moment.       *)
(***************************************************************************)
EXTENDS Runtime

CONSTANTS
    ServerList, Failures, SwitchSpacing,
    SuspicionSpacing, Second, Lifetimes

VARIABLES
    tunnel, checkTimer, tunnelJobs, switched, connected, orphan, started,
    forwarding, leaseTimer, mappings,
    left     \* history: gateways no longer used that the core cannot know
             \* to have been left, as their answer is on its way or taken

Gateways == {ServerList[k] : k \in 1..Len(ServerList)}

T == INSTANCE Tunnel
P == INSTANCE PortForwarding

tunnelVars == <<tunnel, checkTimer, tunnelJobs, switched, connected, orphan,
                started>>
forwardingVars == <<forwarding, leaseTimer, mappings>>
vars == <<now, queue, tunnelVars, forwardingVars, left>>

-----------------------------------------------------------------------------
Init ==
    /\ now = 0 /\ queue = <<>>
    /\ T!TunnelInit /\ P!ForwardingInit
    /\ left = {}

(* Enable events follow Start; storage opens at some later moment.         *)
Enable ==
    /\ \/ T!EnableTunnel /\ P!OtherEvent(now)
       \/ T!StartReading /\ P!OtherEvent(now)
       \/ P!EnableForwarding /\ UNCHANGED tunnelVars
    /\ UNCHANGED <<now, queue>>

(* Workers: a mapping request is answered by the connected server.         *)
Work ==
    /\ \/ /\ \/ \E i \in DOMAIN tunnelJobs : T!TakeOver(i) \/ T!FinishTunnel(i)
             \/ T!TakeOverOrphan
          /\ UNCHANGED forwardingVars
       \/ /\ \E i \in DOMAIN mappings :
                P!Grant(i, connected) \/ P!FinishMapping(i)
          /\ UNCHANGED tunnelVars
    /\ UNCHANGED now

Timers ==
    /\ \/ T!FireCheckTimer /\ UNCHANGED forwardingVars
       \/ P!FireLeaseTimer /\ UNCHANGED tunnelVars
    /\ UNCHANGED now

(* Event::Tunnel in Core::handle: Switched to another server renews.       *)
TunnelStep(event) ==
    /\ T!HandleTunnel(event)
    /\ IF /\ event.kind = "SwitchVpnServer" /\ event.ok
          /\ tunnel'.current # tunnel.current
       THEN P!RenewLease(event.at)
       ELSE P!OtherEvent(event.at)

(* Event::PortForwarding in Core::handle: a failure casts suspicion.       *)
ForwardingStep(event) ==
    /\ P!HandleMapping(event)
    /\ IF event.gateway = P!NoGateway
       THEN T!SuspectTunnel(event.at)
       ELSE UNCHANGED tunnelVars

(* Event::TimerExpired in Core::handle.                                    *)
TimerExpired(event) ==
    \/ /\ event.name = "TunnelCheck"
       /\ T!TakeCheckExpiry(event)
       /\ P!OtherEvent(event.at)
    \/ /\ event.name = "PortLease"
       /\ P!TakeLeaseExpiry(event)
       /\ UNCHANGED tunnelVars

Handle ==
    /\ queue # <<>>
    /\ queue' = Tail(queue)
    /\ LET event == Head(queue)
       IN  CASE event.kind = "TimerExpired" -> TimerExpired(event)
             [] event.kind = "Mapping" -> ForwardingStep(event)
             [] OTHER -> TunnelStep(event)
    /\ UNCHANGED now

(* LeaseRenewal of Findings::check: a repair asks for a new lease only     *)
(* where the VPN forwards a port.  What else it finds is only shown.       *)
RepairRenews == forwarding.lease # P!NoGateway

(* Any other event, after which the connectability repair may want a new   *)
(* lease (Mam::take_lease_renewal in Core::handle).                        *)
OtherEvent ==
    /\ P!OtherEvent(now) \/ (RepairRenews /\ P!RenewLease(now))
    /\ UNCHANGED <<now, queue, tunnelVars>>

Crash ==
    T!CrashTunnel /\ P!CrashForwarding /\ queue' = <<>> /\ UNCHANGED now

(* The process goes from one server to another.                            *)
Switched ==
    tunnel.enabled /\ tunnel'.enabled /\ tunnel'.current # tunnel.current

(* The gateway of the answer on its way, if there is one.                  *)
Granted ==
    ({mappings[i].gateway : i \in DOMAIN mappings} \cup
     {queue[k].gateway : k \in {j \in DOMAIN queue : queue[j].kind = "Mapping"}})
    \ {P!NoGateway}

(* An answer on its way at a switch, or a lease when an orphaned start     *)
(* moves the tunnel, is left, until that answer and that lease are gone.   *)
RecordLeft ==
    left' = CASE ~forwarding'.enabled -> {}
              [] forwarding'.enabled /\ Switched -> Granted
              [] forwarding'.enabled /\ orphan' # orphan ->
                   left \cup Granted \cup ({forwarding.lease} \ {P!NoGateway})
              [] OTHER -> left \cap (Granted' \cup {forwarding'.lease})

Next ==
    /\ \/ Enable
       \/ Work
       \/ Timers
       \/ Handle
       \/ OtherEvent
       \/ Crash
       \/ Tick /\ UNCHANGED <<queue, tunnelVars, forwardingVars>>
    /\ RecordLeft

Spec == Init /\ [][Next]_vars

-----------------------------------------------------------------------------
(* While the tunnel is connected to the server the core knows, qBittorrent *)
(* is told that server's port, or none.  There are two exceptions, each    *)
(* for one lease, until a renewal replaces it or it lapses.  The old       *)
(* gateway had granted the outstanding request when the switch was         *)
(* handled; or a start that outlived its process moved the tunnel.  No     *)
(* switch, repair or stale expiry starts a second request beside the       *)
(* outstanding one, whose answer would be a third                          *)
(* (Event::Tunnel in Core::handle, PortForwarding::renew).                 *)
LeaseOfServer ==
    /\ P!OneRequest
    /\ tunnel.enabled /\ tunnel.current = connected =>
         forwarding.lease \in {connected, P!NoGateway} \cup left
=============================================================================
