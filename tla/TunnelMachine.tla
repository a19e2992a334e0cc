--------------------------- MODULE TunnelMachine ----------------------------
(***************************************************************************)
(* The prototype's tunnel machine (windlass-tunnel-core) and its shell     *)
(* (windlass-net): the kill switch, the WireGuard interface, the handshake *)
(* watchdog that rotates through the peers, the NAT-PMP lease, the leak    *)
(* probe and the query of the exit address.  Peers are numbered as in      *)
(* wg.conf; peer p leaves from address p + 1.  Every wait is one unit, so  *)
(* a pending timer may always fire.  The handshake's age and the gateway's *)
(* epoch are recorded by the code and decide nothing.                      *)
(***************************************************************************)
EXTENDS Machine

CONSTANTS
    StallCountBeforeRotate, RotationsBeforeStuck,
    NatPmpFailureThreshold, ExitIpFailureThreshold,
    Ports,          \* what the gateway may grant
    Scenarios       \* how many peers, and bounds on faults, orders, and on
                    \* peers falling silent, ports changing and leaks

VARIABLES
    net,            \* the namespace, the peers and the gateway
    budget

None == 0
NoPeer == -1
PeerCount == machine.peer_count
Peers == 0 .. PeerCount - 1
Healths == {"Initializing", "Connecting", "Up", "Down", "Stuck"}
Timers == {"HandshakeWatchdog", "PortRenewal", "LeakProbe", "ExitIpQuery"}
EventKinds == {"Init", "PreTunnelFirewallInstalled", "PreTunnelFirewallInstallFailed",
               "InterfaceConfigured", "InterfaceConfigureFailed", "FirewallInstalled",
               "FirewallInstallFailed", "HandshakeReported", "HandshakeStalled",
               "NatPmpLeaseGranted", "NatPmpFailed", "LeakProbeCompleted",
               "ExitIpObserved", "ExitIpQueryFailed", "TimerFired"}
ActionKinds == {"InstallPreTunnelFirewall", "ConfigureInterface", "InstallFirewall",
                "PollHandshake", "RequestNatPmp", "AwaitNatPmp", "RotateEndpoint",
                "RunLeakProbe", "QueryExitIp"}

Topic(p) ==
    CASE p.is \in {"Up", "Down", "Stuck", "Recovered"} -> "Health"
      [] p.is \in {"PortReady", "PortUnavailable", "PortForwardingDegraded"} -> "Port"
      [] p.is = "LeakDetected" -> "Leak"
      [] OTHER -> "PublicIp"

(* TopicFanout::send: a publish goes to those who asked for its topic.     *)
Wanted(publishes) == SelectSeq(publishes, LAMBDA p : Topic(p) \in Subscribed)

Do(kind) == [do |-> kind]
At(kind, peer) == [do |-> kind, peer |-> peer]
Says(kind) == [is |-> kind]
WithIp(kind, ip) == [is |-> kind, ip |-> ip]
WithPort(kind, port) == [is |-> kind, port |-> port]

(* struct TunnelMachine, without the two numbers that decide nothing.      *)
States ==
    [peer_count : {PeerCount}, active_peer_index : Peers, health : Healths,
     interface_configured : BOOLEAN, firewall_installed : BOOLEAN,
     pre_tunnel_firewall_installed : BOOLEAN, consecutive_stalls : Nat,
     rotation_count : Nat, consecutive_natpmp_failures : Nat,
     forwarded_port : Ports \cup {None}, port_published : BOOLEAN,
     port_degraded_published : BOOLEAN, last_exit_ip : Nat,
     consecutive_exit_ip_failures : Nat, exit_ip_degraded_published : BOOLEAN]

(* TunnelMachine::new, with the rotations capped by the peers.             *)
New(peers) ==
       [peer_count |-> peers, active_peer_index |-> 0, health |-> "Initializing",
        interface_configured |-> FALSE, firewall_installed |-> FALSE,
        pre_tunnel_firewall_installed |-> FALSE, consecutive_stalls |-> 0,
        rotation_count |-> 0, consecutive_natpmp_failures |-> 0,
        forwarded_port |-> None, port_published |-> FALSE,
        port_degraded_published |-> FALSE, last_exit_ip |-> None,
        consecutive_exit_ip_failures |-> 0, exit_ip_degraded_published |-> FALSE]

MaxRotations == IF RotationsBeforeStuck < PeerCount THEN RotationsBeforeStuck
                ELSE PeerCount

NextPeerIndex == (machine.active_peer_index + 1) % PeerCount

(* Counters are only compared with their threshold.                        *)
OneMore(count, threshold) == IF count < threshold THEN count + 1 ELSE threshold

Watchdog == Schedule("HandshakeWatchdog", 0)

Reply(m, actions, publishes) == Apply(m, actions, Wanted(publishes))

-----------------------------------------------------------------------------
(* pending_port_ready: a port is told of behind the kill switch only, and  *)
(* once.                                                                   *)
PendingPortReady(m) ==
    ~m.port_published /\ m.firewall_installed /\ m.forwarded_port # None

PortTold(m) == [m EXCEPT !.port_published = @ \/ PendingPortReady(m)]

PortSaid(m) ==
    IF PendingPortReady(m) THEN <<WithPort("PortReady", m.forwarded_port)>> ELSE <<>>

(* TunnelMachine::handle, one action per event: the boot, fence first.     *)
HandleInit(e) ==
    e.is = "Init" /\ Reply(machine, <<Do("InstallPreTunnelFirewall")>>, <<>>)

PreTunnelFirewallInstalled(e) ==
    /\ e.is = "PreTunnelFirewallInstalled"
    /\ Reply([machine EXCEPT !.pre_tunnel_firewall_installed = TRUE],
             <<Do("ConfigureInterface")>>, <<>>)

InterfaceConfigured(e) ==
    /\ e.is = "InterfaceConfigured"
    /\ Reply([machine EXCEPT !.interface_configured = TRUE],
             <<Do("InstallFirewall")>>, <<>>)

(* Also what a failed rotation ends in.                                    *)
BootFailed(e) ==
    /\ e.is \in {"PreTunnelFirewallInstallFailed", "InterfaceConfigureFailed",
                 "FirewallInstallFailed"}
    /\ Reply([machine EXCEPT !.health = "Down"], <<>>, <<Says("Down")>>)

FirewallInstalled(e) ==
    LET m == [machine EXCEPT !.firewall_installed = TRUE,
                             !.health = IF @ = "Initializing" THEN "Connecting" ELSE @]
    IN  /\ e.is = "FirewallInstalled"
        /\ Reply(PortTold(m),
                 <<At("PollHandshake", m.active_peer_index), Do("RequestNatPmp"),
                   Do("RunLeakProbe"), Do("QueryExitIp"), Watchdog,
                   Schedule("LeakProbe", 0), Schedule("ExitIpQuery", 0)>>,
                 PortSaid(m))

-----------------------------------------------------------------------------
(* apply_handshake_stalled: wait, rotate, or give up and say so once.      *)
ApplyHandshakeStalled ==
    LET stalls == OneMore(machine.consecutive_stalls, StallCountBeforeRotate)
        rotates == machine.rotation_count < MaxRotations /\ PeerCount > 1
        was_up == machine.health = "Up"
        m == [machine EXCEPT !.consecutive_stalls = stalls]
    IN  \/ /\ stalls < StallCountBeforeRotate
           /\ Reply(m, <<Watchdog>>, <<>>)
        \/ /\ stalls >= StallCountBeforeRotate /\ rotates
           /\ Reply([m EXCEPT !.active_peer_index = NextPeerIndex, !.rotation_count = @ + 1,
                              !.consecutive_stalls = 0,
                              !.health = IF was_up THEN "Down" ELSE @],
                    <<At("RotateEndpoint", NextPeerIndex), Watchdog>>,
                    IF was_up THEN <<Says("Down")>> ELSE <<>>)
        \/ /\ stalls >= StallCountBeforeRotate /\ ~rotates
           /\ Reply([m EXCEPT !.health = "Stuck"], <<Watchdog>>,
                    IF machine.health = "Stuck" THEN <<>> ELSE <<Says("Stuck")>>)

Healthy(m) == [m EXCEPT !.consecutive_stalls = 0, !.rotation_count = 0, !.health = "Up"]

HealthSaid ==
    (IF machine.health # "Up" THEN <<WithIp("Up", machine.last_exit_ip)>> ELSE <<>>)
    \o (IF machine.health = "Stuck" THEN <<WithIp("Recovered", machine.last_exit_ip)>>
        ELSE <<>>)

(* Mutant: a handshake counts before the kill switch stands.               *)
HandshakeReportedEarly(e) ==
    /\ e.is = "HandshakeReported"
    /\ IF e.fresh THEN Reply(PortTold(Healthy(machine)), <<>>,
                             HealthSaid \o PortSaid(Healthy(machine)))
       ELSE ApplyHandshakeStalled

(* Mutant: once stuck, only an operator brings the tunnel back.            *)
HandshakeReportedStuck(e) ==
    /\ e.is = "HandshakeReported"
    /\ IF ~machine.firewall_installed \/ machine.health = "Stuck"
       THEN Reply(machine, <<>>, <<>>)
       ELSE IF e.fresh THEN Reply(PortTold(Healthy(machine)), <<>>,
                                  HealthSaid \o PortSaid(Healthy(machine)))
            ELSE ApplyHandshakeStalled

HandshakeReported(e) ==
    LET early == ~machine.interface_configured \/ ~machine.firewall_installed
        up == Healthy(machine)
    IN  /\ e.is = "HandshakeReported"
        /\ \/ early /\ Reply(machine, <<>>, <<>>)
           \/ ~early /\ ~e.fresh /\ ApplyHandshakeStalled
           \/ ~early /\ e.fresh /\ Reply(PortTold(up), <<>>, HealthSaid \o PortSaid(up))

HandshakeStalled(e) == e.is = "HandshakeStalled" /\ ApplyHandshakeStalled

-----------------------------------------------------------------------------
NatPmpLeaseGranted(e) ==
    LET m == [machine EXCEPT !.consecutive_natpmp_failures = 0,
                             !.port_degraded_published = FALSE,
                             !.forwarded_port = e.port,
                             !.port_published = @ /\ machine.forwarded_port = e.port]
    IN  /\ e.is = "NatPmpLeaseGranted"
        /\ Reply(PortTold(m), <<Schedule("PortRenewal", 0)>>, PortSaid(m))

(* degraded_edge_crossed: at the threshold, once per streak, the port is   *)
(* let go.                                                                 *)
NatPmpFailed(e) ==
    LET failures == OneMore(machine.consecutive_natpmp_failures, NatPmpFailureThreshold)
        crossed == ~machine.port_degraded_published /\ failures >= NatPmpFailureThreshold
        lost == machine.forwarded_port # None /\ machine.port_published
        m == [machine EXCEPT !.consecutive_natpmp_failures = failures]
    IN  /\ e.is = "NatPmpFailed"
        /\ IF crossed
           THEN Reply([m EXCEPT !.port_degraded_published = TRUE, !.forwarded_port = None,
                                !.port_published = @ /\ machine.forwarded_port = None],
                      <<Schedule("PortRenewal", 0)>>,
                      <<Says("PortForwardingDegraded")>>
                      \o IF lost THEN <<Says("PortUnavailable")>> ELSE <<>>)
           ELSE Reply(m, <<Schedule("PortRenewal", 0)>>, <<>>)

LeakProbeCompleted(e) ==
    LET was_up == machine.health = "Up" IN
    /\ e.is = "LeakProbeCompleted"
    /\ IF e.leak
       THEN Reply([machine EXCEPT !.health = "Down"], <<Schedule("LeakProbe", 0)>>,
                  <<WithIp("LeakDetected", machine.last_exit_ip)>>
                  \o IF was_up THEN <<Says("Down")>> ELSE <<>>)
       ELSE Reply(machine, <<Schedule("LeakProbe", 0)>>, <<>>)

ExitIpObserved(e) ==
    /\ e.is = "ExitIpObserved"
    /\ Reply([machine EXCEPT !.last_exit_ip = e.ip, !.consecutive_exit_ip_failures = 0,
                             !.exit_ip_degraded_published = FALSE],
             <<>>,
             IF machine.last_exit_ip # e.ip THEN <<WithIp("ExitIpObserved", e.ip)>>
             ELSE <<>>)

ExitIpQueryFailed(e) ==
    LET failures == OneMore(machine.consecutive_exit_ip_failures, ExitIpFailureThreshold)
        crossed == ~machine.exit_ip_degraded_published
                   /\ failures >= ExitIpFailureThreshold
    IN  /\ e.is = "ExitIpQueryFailed"
        /\ Reply([machine EXCEPT !.consecutive_exit_ip_failures = failures,
                                 !.exit_ip_degraded_published = @ \/ crossed],
                 <<Schedule("ExitIpQuery", 0)>>,
                 IF crossed THEN <<Says("ExitIpVerificationDegraded")>> ELSE <<>>)

TimerFired(e) ==
    /\ e.is = "TimerFired"
    /\ Reply(machine,
             CASE e.timer = "HandshakeWatchdog" ->
                    <<At("PollHandshake", machine.active_peer_index), Watchdog>>
               [] e.timer = "PortRenewal" -> <<Do("RequestNatPmp")>>
               [] e.timer = "LeakProbe" -> <<Do("RunLeakProbe")>>
               [] e.timer = "ExitIpQuery" ->
                    <<Do("QueryExitIp"), Schedule("ExitIpQuery", 0)>>,
             <<>>)

Handler(e) ==
    \/ HandleInit(e) \/ PreTunnelFirewallInstalled(e) \/ InterfaceConfigured(e)
    \/ BootFailed(e) \/ FirewallInstalled(e) \/ HandshakeReported(e)
    \/ HandshakeStalled(e) \/ NatPmpLeaseGranted(e) \/ NatPmpFailed(e)
    \/ LeakProbeCompleted(e) \/ ExitIpObserved(e) \/ ExitIpQueryFailed(e)
    \/ TimerFired(e)

Handle ==
    Take /\ Handler(Head(events)) /\ UNCHANGED <<net, budget>>

-----------------------------------------------------------------------------
Spend(kind) ==
    budget[kind] > 0 /\ budget' = [budget EXCEPT ![kind] = @ - 1]

(* TunnelMachine::handle_command; a rotation is refused with one peer and  *)
(* before the interface.                                                   *)
Command ==
    LET order(m, actions) == Reply(m, actions, <<>>) IN
    /\ Spend("orders")
    /\ \/ order(machine, <<At("PollHandshake", machine.active_peer_index)>>)
       \/ order(machine, <<Do("RequestNatPmp")>>)
       \/ order(machine, <<Do("RunLeakProbe")>>)
       \/ /\ PeerCount > 1 /\ machine.interface_configured
          /\ order([machine EXCEPT !.active_peer_index = NextPeerIndex,
                                   !.consecutive_stalls = 0],
                   <<At("RotateEndpoint", NextPeerIndex)>>)
    /\ Obeyed /\ UNCHANGED net

-----------------------------------------------------------------------------
(* SystemRunner::run: no process, a signal, or another status than zero.   *)
CommandError == Spend("faults")

(* TunnelShell::dispatch: what a failed command ends in.                   *)
Fails(a, event) == CommandError /\ Finish(a, <<Says(event)>>) /\ UNCHANGED net

InstallPreTunnelFirewall(a) ==
    /\ a.do = "InstallPreTunnelFirewall"
    /\ \/ /\ Finish(a, <<Says("PreTunnelFirewallInstalled")>>)
          /\ net' = [net EXCEPT !.fence = "Underlay"]
          /\ UNCHANGED budget
       \/ Fails(a, "PreTunnelFirewallInstallFailed")

(* configure_interface takes down what it put up when a step fails.        *)
ConfigureInterface(a) ==
    /\ a.do = "ConfigureInterface"
    /\ \/ /\ Finish(a, <<Says("InterfaceConfigured")>>)
          /\ net' = [net EXCEPT !.wg = 0, !.handshake = "Never"]
          /\ UNCHANGED budget
       \/ Fails(a, "InterfaceConfigureFailed")

(* The ruleset replaces the first one in one transaction.                  *)
InstallFirewall(a) ==
    /\ a.do = "InstallFirewall"
    /\ \/ /\ Finish(a, <<Says("FirewallInstalled")>>)
          /\ net' = [net EXCEPT !.fence = "Tunnel"]
          /\ UNCHANGED budget
       \/ Fails(a, "FirewallInstallFailed")

(* latest_handshake_age: a peer that is not configured any more is not     *)
(* found, and is as good as one that never answered.                       *)
HandshakeAge(peer) == IF net.wg = peer THEN net.handshake ELSE "Never"

PollHandshake(a) ==
    /\ a.do = "PollHandshake"
    /\ \/ /\ IF HandshakeAge(a.peer) # "Never"
             THEN Finish(a, <<[is |-> "HandshakeReported",
                               fresh |-> HandshakeAge(a.peer) = "Fresh"]>>)
             ELSE Finish(a, <<Says("HandshakeStalled")>>)
          /\ UNCHANGED <<net, budget>>
       \/ Fails(a, "HandshakeStalled")

(* set_wg_interface removes every other peer.                              *)
SetWgInterface(peer) ==
    net' = [net EXCEPT !.wg = peer,
                       !.handshake = IF net.wg = peer THEN @ ELSE "Never"]

(* A rotation takes an interface, and nothing confirms it.                 *)
RotateEndpoint(a) ==
    /\ a.do = "RotateEndpoint"
    /\ \/ /\ net.wg # NoPeer
          /\ Finish(a, <<>>)
          /\ SetWgInterface(a.peer)
          /\ UNCHANGED budget
       \/ /\ net.wg = NoPeer
          /\ Finish(a, <<Says("InterfaceConfigureFailed")>>)
          /\ UNCHANGED <<net, budget>>
       \/ Fails(a, "InterfaceConfigureFailed")

-----------------------------------------------------------------------------
(* Traffic passes the tunnel.                                              *)
Carries == net.fence = "Tunnel" /\ net.wg \in net.alive

(* NatPmpLease, as decode reads it from a datagram.                        *)
Lease(protocol, port) == [protocol |-> protocol, port |-> port]

(* The gateway answers a request at once; the answer may be late.          *)
Answered(protocol) ==
    IF Carries THEN net.wire \cup {Lease(protocol, net.port)} ELSE net.wire

Await(protocol, udp) == [do |-> "AwaitNatPmp", protocol |-> protocol, udp |-> udp]

Goes(a, b) ==
    /\ tasks' = BagAdd(BagRemove(tasks, a), b)
    /\ UNCHANGED <<machine, events, timers, published, now, budget>>

(* NatPmpClient::new finds no socket.                                      *)
NoClient(a) == Fails(a, "NatPmpFailed")

(* NatPmpClient::request for the UDP mapping.                              *)
RequestNatPmp(a) ==
    /\ a.do = "RequestNatPmp"
    /\ \/ Goes(a, Await("Udp", None)) /\ net' = [net EXCEPT !.wire = Answered("Udp")]
       \/ NoClient(a)

(* NatPmpLease::matches_request: an answer for the other protocol is       *)
(* noise, an answer to an earlier request is not told apart.               *)
MatchesRequest(d, a) == d.protocol = a.protocol

(* merge_dual_lease refuses a split grant.                                 *)
MergeDualLease(udp, tcp) ==
    IF udp = tcp THEN WithPort("NatPmpLeaseGranted", tcp) ELSE Says("NatPmpFailed")

(* NatPmpClient::request waits for each protocol in turn, 2 s at most.     *)
AwaitNatPmp(a) ==
    /\ a.do = "AwaitNatPmp"
    /\ \/ \E d \in net.wire :
            \/ /\ ~MatchesRequest(d, a)
               /\ net' = [net EXCEPT !.wire = @ \ {d}]
               /\ UNCHANGED <<runtime, now, budget>>
            \/ /\ MatchesRequest(d, a) /\ a.protocol = "Udp"
               /\ Goes(a, Await("Tcp", d.port))
               /\ net' = [net EXCEPT !.wire = Answered("Tcp") \ {d}]
            \/ /\ MatchesRequest(d, a) /\ a.protocol = "Tcp"
               /\ Finish(a, <<MergeDualLease(a.udp, d.port)>>)
               /\ net' = [net EXCEPT !.wire = @ \ {d}]
               /\ UNCHANGED budget
       \/ /\ \A d \in net.wire : ~MatchesRequest(d, a)
          /\ Finish(a, <<Says("NatPmpFailed")>>)
          /\ UNCHANGED <<net, budget>>
       \/ Fails(a, "NatPmpFailed")

(* active_connect_probe: a connection past the tunnel proves the leak; a   *)
(* target that does not answer proves nothing and counts as none.          *)
ActiveConnectProbe(leak) ==
    \/ leak = net.leaks /\ UNCHANGED budget
    \/ net.leaks /\ ~leak /\ Spend("faults")

RunLeakProbe(a) ==
    /\ a.do = "RunLeakProbe"
    /\ \E leak \in BOOLEAN :
         /\ ActiveConnectProbe(leak)
         /\ Finish(a, <<[is |-> "LeakProbeCompleted", leak |-> leak]>>)
    /\ UNCHANGED net

(* Every address service in turn; the query fails when all do.             *)
QueryExitIp(a) ==
    /\ a.do = "QueryExitIp"
    /\ \/ /\ Finish(a, <<IF Carries THEN WithIp("ExitIpObserved", net.wg + 1)
                         ELSE Says("ExitIpQueryFailed")>>)
          /\ UNCHANGED <<net, budget>>
       \/ Carries /\ Fails(a, "ExitIpQueryFailed")

DispatchOne(a) ==
    \/ InstallPreTunnelFirewall(a) \/ ConfigureInterface(a) \/ InstallFirewall(a)
    \/ PollHandshake(a) \/ RotateEndpoint(a) \/ RequestNatPmp(a) \/ AwaitNatPmp(a)
    \/ RunLeakProbe(a) \/ QueryExitIp(a)

Dispatch == \E a \in BagToSet(tasks) : DispatchOne(a)

Fires(t) == Fire(t) /\ UNCHANGED <<net, budget>>

-----------------------------------------------------------------------------
(* The kernel and the configured peer shake hands while the peer answers;  *)
(* the last handshake ages when it does not.                               *)
Handshakes ==
    /\ net.wg # NoPeer
    /\ net' = [net EXCEPT !.handshake =
                 IF net.wg \in net.alive THEN "Fresh"
                 ELSE IF @ = "Fresh" THEN "Old" ELSE @]
    /\ net' # net
    /\ UNCHANGED <<runtime, now, budget>>

(* A peer falls silent, the gateway grants another port, a path past the   *)
(* kill switch opens.                                                      *)
Worsens ==
    /\ \/ Spend("silences") /\ \E p \in net.alive : net' = [net EXCEPT !.alive = @ \ {p}]
       \/ Spend("grants") /\ \E p \in Ports \ {net.port} : net' = [net EXCEPT !.port = p]
       \/ Spend("leaks") /\ ~net.leaks /\ net' = [net EXCEPT !.leaks = TRUE]
    /\ UNCHANGED <<runtime, now>>

(* And what was lost comes back.                                           *)
Recovers ==
    /\ \/ \E p \in Peers \ net.alive : net' = [net EXCEPT !.alive = @ \cup {p}]
       \/ net.leaks /\ net' = [net EXCEPT !.leaks = FALSE]
    /\ UNCHANGED <<runtime, now, budget>>

vars == <<runtime, now, net, budget>>

Init ==
    \E s \in Scenarios :
      /\ Spawn(New(s.peers))
      /\ net = [fence |-> "None", wg |-> NoPeer, handshake |-> "Never", alive |-> Peers,
                leaks |-> FALSE, port |-> CHOOSE p \in Ports : TRUE, wire |-> {}]
      /\ budget = s.budget

Next == \/ Handle \/ Command \/ Dispatch \/ Handshakes \/ Worsens \/ Recovers
        \/ \E t \in Timers : Fires(t)

(* Tasks end, the timers of health and port fire, peers come back.         *)
Calls(kinds) == \E a \in BagToSet(tasks) : a.do \in kinds /\ DispatchOne(a)

(* A wait for the gateway ends, by an answer or at its deadline.           *)
Awaits(protocol) ==
    \E a \in BagToSet(tasks) :
      a.do = "AwaitNatPmp" /\ a.protocol = protocol /\ AwaitNatPmp(a)
      /\ tasks' # tasks

Fairness ==
    /\ WF_vars(Handle) /\ WF_vars(Handshakes) /\ WF_vars(Recovers)
    /\ WF_vars(Calls({"InstallPreTunnelFirewall", "ConfigureInterface",
                      "InstallFirewall", "RotateEndpoint", "RequestNatPmp"}))
    /\ SF_vars(Calls({"PollHandshake"}))
    /\ SF_vars(Awaits("Udp")) /\ SF_vars(Awaits("Tcp"))
    /\ SF_vars(Calls({"RunLeakProbe", "QueryExitIp"}))
    /\ SF_vars(Fires("HandshakeWatchdog")) /\ SF_vars(Fires("PortRenewal"))

Spec == Init /\ [][Next]_vars /\ Fairness

-----------------------------------------------------------------------------
(* Every field holds what TunnelMachine and its shell put there.           *)
TypeOK ==
    /\ machine \in States
    /\ {e.is : e \in ToSet(events)} \subseteq EventKinds
    /\ {a.do : a \in BagToSet(tasks)} \subseteq ActionKinds
    /\ DOMAIN timers \subseteq Timers

(* The tunnel counts as up, and a port is told of, only behind the full    *)
(* kill switch, and the interface never exists without a fence around it   *)
(* (docs/vpn-ownership.md, windlass-tunnel-core boot sequence), whatever   *)
(* the order of orders and results.                                        *)
UpIsFenced ==
    /\ machine.health = "Up" \/ machine.port_published => net.fence = "Tunnel"
    /\ net.wg # NoPeer => net.fence # "None"

Sent(kind) == \E e \in ToSet(events) : e.is = kind
Under(kind) == \E a \in BagToSet(tasks) : a.do = kind
PathStands ==
    /\ net.wg \in net.alive /\ net.wg = machine.active_peer_index
    /\ machine.firewall_installed /\ ~net.leaks
NoRequest == ~Under("RequestNatPmp") /\ ~Under("AwaitNatPmp")
Served ==
    /\ machine.health = "Up"
    /\ machine.port_published /\ machine.forwarded_port = net.port

(* Once the configured peer answers for good the tunnel comes up and the   *)
(* gateway's port is told of, also after Stuck (apply_handshake_stalled,   *)
(* NatPmpFailed).  A request waits 4 s at most and is renewed 5 s later at *)
(* the earliest, so again and again none is under way.                     *)
ComesBack == <>[]PathStands /\ []<>NoRequest => []<>Served
=============================================================================
