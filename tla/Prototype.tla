----------------------------- MODULE Prototype ------------------------------
(***************************************************************************)
(* The archived prototype's five machines, each in the world its shell     *)
(* works on.  They share the variables of Machine; part says which of them *)
(* a behaviour is of.                                                      *)
(***************************************************************************)
EXTENDS Integers, Sequences

CONSTANTS
    QbitScenarios, MamBudgets, DockerBudgets, TunnelScenarios, WindlassScenarios,
    QbitEvents,      \* bound on the events in qBittorrent's channel
    QbitPorts,       \* ports the tunnel may forward to qBittorrent
    Candidates       \* torrents the owner may ask for

VARIABLES
    part,
    machine, events, tasks, timers, published, now, budget,
    qbittorrent,                        \* QbitMachine
    exit, site, news, sinceUpdate,      \* MamMachine
    docker, stream, restarts,           \* DockerMachine
    net,                                \* TunnelMachine
    tunnel, vpn, services, db           \* WindlassMachine

common == <<machine, events, tasks, timers, published, now, budget>>
ofQbit == <<qbittorrent>>
ofMam == <<exit, site, news, sinceUpdate>>
ofDocker == <<docker, stream, restarts>>
ofTunnel == <<net>>
ofWindlass == <<tunnel, vpn, services, db>>
vars == <<part, common, ofQbit, ofMam, ofDocker, ofTunnel, ofWindlass>>

Unused == "unused"

-----------------------------------------------------------------------------
Qbit == INSTANCE QbitMachine WITH
    Subscribed <- {}, Capacity <- 1, MaxEvents <- QbitEvents, MaxTasks <- 2,
    Ports <- QbitPorts, Hashes <- {1, 2}, HnrSeedTime <- 1, UnsatisfiedQuotaLimit <- 1,
    MaxSyncAttempts <- 2, Margin <- 1, Scenarios <- QbitScenarios

Mam == INSTANCE MamMachine WITH
    Subscribed <- {}, Capacity <- 1, MaxEvents <- 1, MaxTasks <- 2,
    Ports <- {1}, Ips <- {1, 2}, Statuses <- {[connectable |-> TRUE, healthy |-> TRUE]},
    Takes <- BOOLEAN, StatusRetry <- 1, SeedboxUpdateMinInterval <- 2,
    StaleRegistrationInterval <- 3, InFlightStale <- 1, KeepAliveFailureThreshold <- 2,
    Budgets <- MamBudgets

Docker == INSTANCE DockerMachine WITH
    Subscribed <- {}, Capacity <- 1, MaxEvents <- 1, MaxTasks <- 2,
    Dependents <- {"qbit"}, Anchor <- "windlass", MaxRestartsPerWindow <- 1,
    RestartWindowDuration <- 1, AutohealDependents <- TRUE, MaxStream <- 1, MaxNow <- 2,
    Budgets <- DockerBudgets

Tunnel == INSTANCE TunnelMachine WITH
    Subscribed <- {}, Capacity <- 1, MaxEvents <- 1, MaxTasks <- 2,
    StallCountBeforeRotate <- 1, RotationsBeforeStuck <- 2, NatPmpFailureThreshold <- 1,
    ExitIpFailureThreshold <- 1, Ports <- {1, 2}, Scenarios <- TunnelScenarios

Windlass == INSTANCE WindlassMachine WITH
    Subscribed <- {"SystemState", "Activity"}, Capacity <- 4, MaxEvents <- 1,
    MaxTasks <- 2, Ports <- {1, 2}, Ips <- {1}, Ids <- {1},
    Scenarios <- WindlassScenarios

-----------------------------------------------------------------------------
NoQbit == qbittorrent = Unused
NoMam == exit = Unused /\ site = Unused /\ news = Unused /\ sinceUpdate = Unused
NoDocker == docker = Unused /\ stream = Unused /\ restarts = Unused
NoTunnel == net = Unused
NoWindlass == tunnel = Unused /\ vpn = Unused /\ services = Unused /\ db = Unused

Init ==
    \/ part = "Qbit" /\ Qbit!Init /\ NoMam /\ NoDocker /\ NoTunnel /\ NoWindlass
    \/ part = "Mam" /\ Mam!Init /\ NoQbit /\ NoDocker /\ NoTunnel /\ NoWindlass
    \/ part = "Docker" /\ Docker!Init /\ NoQbit /\ NoMam /\ NoTunnel /\ NoWindlass
    \/ part = "Tunnel" /\ Tunnel!Init /\ NoQbit /\ NoMam /\ NoDocker /\ NoWindlass
    \/ part = "Windlass" /\ Windlass!Init /\ NoQbit /\ NoMam /\ NoDocker /\ NoTunnel

OfQbit(A) ==
    part = "Qbit" /\ A /\ UNCHANGED <<part, ofMam, ofDocker, ofTunnel, ofWindlass>>
OfMam(A) ==
    part = "Mam" /\ A /\ UNCHANGED <<part, ofQbit, ofDocker, ofTunnel, ofWindlass>>
OfDocker(A) ==
    part = "Docker" /\ A /\ UNCHANGED <<part, ofQbit, ofMam, ofTunnel, ofWindlass>>
OfTunnel(A) ==
    part = "Tunnel" /\ A /\ UNCHANGED <<part, ofQbit, ofMam, ofDocker, ofWindlass>>
OfWindlass(A) ==
    part = "Windlass" /\ A /\ UNCHANGED <<part, ofQbit, ofMam, ofDocker, ofTunnel>>

Next == \/ OfQbit(Qbit!Next) \/ OfMam(Mam!Next) \/ OfDocker(Docker!Next)
        \/ OfTunnel(Tunnel!Next) \/ OfWindlass(Windlass!Next)

(* The fairness of the machines, one action of each under a condition: a   *)
(* behaviour is of one machine, so the condition is that machine's own.    *)
Fairness ==
    /\ WF_vars(\/ OfQbit(Qbit!Handle) \/ OfMam(Mam!Handle)
               \/ OfTunnel(Tunnel!Handle) \/ OfWindlass(Windlass!Handle))
    /\ WF_vars(\/ OfQbit(Qbit!Recovers) \/ OfMam(Mam!PassOn)
               \/ OfTunnel(Tunnel!Handshakes) \/ OfWindlass(Windlass!Forward))
    /\ WF_vars(OfMam(Mam!Tick) \/ OfTunnel(Tunnel!Recovers))
    /\ WF_vars(\/ OfMam(Mam!Calls({"UpdateSeedbox"}))
               \/ OfTunnel(Tunnel!Calls({"InstallPreTunnelFirewall",
                      "ConfigureInterface", "InstallFirewall", "RotateEndpoint",
                      "RequestNatPmp"})))
    /\ WF_vars(OfMam(Mam!Calls({"FetchStatus"})))
    /\ SF_vars(\/ OfQbit(Qbit!Calls({"Login"}) \/ Qbit!FireTimer("AuthRetry"))
               \/ OfMam(Mam!FireTimer("StatusRetry"))
               \/ OfTunnel(Tunnel!Calls({"PollHandshake"})))
    /\ SF_vars(\/ OfQbit(Qbit!Calls({"ListTorrents"}) \/ Qbit!FireTimer("TorrentRefresh"))
               \/ OfMam(Mam!FireTimer("RateLimitExpired"))
               \/ OfTunnel(Tunnel!Awaits("Udp")))
    /\ SF_vars(\/ OfQbit(Qbit!Calls({"SetListenPort"}) \/ Qbit!FireTimer("SyncRetry"))
               \/ OfMam(Mam!FireTimer("StaleRegistrationRefresh"))
               \/ OfTunnel(Tunnel!Awaits("Tcp")))
    /\ SF_vars(\/ OfQbit(Qbit!Calls({"ReadPreferences"}))
               \/ OfTunnel(Tunnel!Calls({"RunLeakProbe", "QueryExitIp"})))
    /\ SF_vars(\/ OfQbit(Qbit!Calls({"DisableBannedPrivacySettings"}))
               \/ OfTunnel(Tunnel!Fires("HandshakeWatchdog")))
    /\ SF_vars(OfTunnel(Tunnel!Fires("PortRenewal")))

Spec == Init /\ [][Next]_vars

FairSpec == Spec /\ Fairness

-----------------------------------------------------------------------------
(* qBittorrent's refresh is pending or queued once, never twice: QbitMachine. *)
OneRefreshChain == part = "Qbit" => Qbit!OneRefreshChain

(* qBittorrent comes to listen on the wanted port with its banned settings *)
(* off, through lost sessions and lost answers: QbitMachine.               *)
QbitConverges == <>[](part = "Qbit" => Qbit!Converged)

(* Any two seedbox updates are the minimum interval apart: MamMachine.     *)
UpdatesSpaced == [][part = "Mam" => Mam!StartsSpaced]_vars

(* The exit IP at rest comes to be registered: MamMachine.                 *)
ExitRegistered == <>[](part = "Mam" /\ site.takes => site.ip = exit)

(* Dependents are restarted within the budget of any window: DockerMachine. *)
RestartBudget == part = "Docker" => Docker!RestartBudget

(* A trusted dependent started after the anchor turned healthy:            *)
(* DockerMachine.                                                          *)
TrustedIsFresh == part = "Docker" => Docker!TrustedIsFresh

(* Up only behind the full kill switch, no interface without a fence:      *)
(* TunnelMachine.                                                          *)
UpIsFenced == part = "Tunnel" => Tunnel!UpIsFenced

(* The tunnel comes up again and its port is told of, also after Stuck:    *)
(* TunnelMachine.                                                          *)
ComesBack ==
    /\ <>[](part = "Tunnel" => Tunnel!PathStands)
    /\ []<>(part = "Tunnel" => Tunnel!NoRequest)
    => []<>(part = "Tunnel" => Tunnel!Served)

(* The domain's port and its dependents follow the tunnel:                 *)
(* WindlassMachine.                                                        *)
DomainFollows == part = "Windlass" => Windlass!DomainFollows

(* The failures of a broken database come to rest: WindlassMachine.        *)
FailuresEnd == []<>(part = "Windlass" => Windlass!Settled)
=============================================================================
