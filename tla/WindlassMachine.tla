-------------------------- MODULE WindlassMachine ---------------------------
(***************************************************************************)
(* The prototype's domain machine (windlass-domain-core) between the other *)
(* machines, as init.rs wires them: the tunnel's publishes pass the bridge *)
(* and reach the domain on two ways, through VpnMachine and straight; the  *)
(* failures of the database come back as events; commands go to the        *)
(* runtimes of qBittorrent, MAM, Docker and the database, which are here   *)
(* by what they publish.  Alerts and activity are kinds of database        *)
(* commands, without their wording.                                        *)
(***************************************************************************)
EXTENDS Machine

CONSTANTS
    Ports, Ips, Ids,    \* forwarded ports, exit addresses, torrents of MAM
    Candidates,         \* what the librarian may ask for
    Scenarios           \* bounds on the tunnel's moves, on orders, snapshots and
                        \* the news of the services, the news that may come, and
                        \* whether the database fails

VARIABLES
    tunnel,     \* what the tunnel machine has published last, and its channel
    vpn,        \* VpnMachine with its two channels
    services,   \* how the commands left qBittorrent, MAM and Docker
    db,         \* the database's failures nobody has read
    budget

None == 0
Statuses == {"Unknown", "Ready", "Degraded"}
Compliances == {"Unknown", "Yes", "No"}

Topic(p) == p.is

(* TopicFanout::send: a publish goes to those who asked for its topic.     *)
Wanted(publishes) == SelectSeq(publishes, LAMBDA p : Topic(p) \in Subscribed)

(* The publishes that reach the domain, by service.                        *)
VpnPublishes == {"Connected", "Disconnected", "Crashed", "Recovered", "PortReady",
                 "PortUnavailable", "PublicIpObserved", "PublicIpUnavailable",
                 "PublicIpMismatch", "PublicIpVerificationDegraded"}
DockerPublishes == {"DependentNetworkUntrusted", "DependentNetworkTrusted",
                    "RestartStorm", "ContainerLifecycle"}
QbitPublishes == {"TorrentsUpdated", "QbitReady", "QbitUnavailable", "ListenPortReady",
                  "AuthRejected", "ListenPortPersistentFailure"}
TorrentPublishes == {"TorrentRecords", "HnRAtRisk", "DeleteBlockedHnRLock",
                     "NewTorrentsAdded", "TorrentAdded", "TorrentAddFailed",
                     "QueueOrchestrated"}
GatePublishes == {"UnsatisfiedQuotaCritical", "UnsatisfiedQuotaApproaching",
                  "UnsatisfiedQuotaOk", "DeadTorrentRemoved",
                  "BannedPrivacySettingsObserved", "PrivacyClean"}
FetchPublishes == {"TorrentBytesReady", "TorrentBytesFetchFailed"}
MamPublishes == {"Connectable", "SeedboxPortReady", "MamReady", "MamUnavailable",
                 "Unreachable", "NotConnectable", "UploadHealthDegraded",
                 "UploadHealthOk", "AsnMismatch", "AsnAccepted", "KeepAliveDegraded",
                 "RateLimited"}
DiskPublishes == {"BelowFloor", "AboveFloor"}

(* The subscriptions of init.rs, which has none to MamTopic::TorrentFetch. *)
Heard == DockerPublishes \cup QbitPublishes \cup TorrentPublishes \cup GatePublishes
         \cup MamPublishes \cup DiskPublishes

(* struct WindlassMachine: SystemStateView, AdmissionState and the         *)
(* blacklist.                                                              *)
States ==
    [vpn : Statuses, qbit : Statuses, mam : Statuses,
     forwarded_port : Ports \cup {None},
     upload_health_ok : BOOLEAN, upload_buffer_ok : BOOLEAN,
     unsatisfied_quota_full : BOOLEAN, qbit_privacy_clean : BOOLEAN,
     qbit_listen_port : Ports \cup {None}, mam_healthy : BOOLEAN,
     vpn_ip_compliant : Compliances, blacklisted_mam_ids : SUBSET Ids]

(* The runtime's view and AdmissionState::fail_closed.                     *)
New == [vpn |-> "Unknown", qbit |-> "Unknown", mam |-> "Unknown",
        forwarded_port |-> None,
        upload_health_ok |-> FALSE, upload_buffer_ok |-> FALSE,
        unsatisfied_quota_full |-> TRUE, qbit_privacy_clean |-> FALSE,
        qbit_listen_port |-> None, mam_healthy |-> FALSE,
        vpn_ip_compliant |-> "Unknown", blacklisted_mam_ids |-> {}]

QbitPortSynced(m) ==
    m.qbit_listen_port # None /\ m.qbit_listen_port = m.forwarded_port

Gates == {"UploadHealth", "UnsatisfiedQuotaFull", "QbitPrivacyUnclean",
          "QbitPortDesynced", "MamUnhealthy", "VpnIpNonCompliant",
          "AlreadySnatched", "Collection", "FreeleechWindowTooNarrow"}

(* WindlassMachine::admit: the gates a candidate fails.                    *)
GateFailures(m, c) ==
    {g \in Gates :
       CASE g = "UploadHealth" -> \/ ~m.upload_buffer_ok
                                  \/ ~c.freeleech /\ ~m.upload_health_ok
         [] g = "UnsatisfiedQuotaFull" -> m.unsatisfied_quota_full
         [] g = "QbitPrivacyUnclean" -> ~m.qbit_privacy_clean
         [] g = "QbitPortDesynced" -> ~QbitPortSynced(m)
         [] g = "MamUnhealthy" -> ~m.mam_healthy
         [] g = "VpnIpNonCompliant" -> m.vpn_ip_compliant # "Yes"
         [] g = "AlreadySnatched" -> c.my_snatched
         [] g = "Collection" -> c.collection
         [] g = "FreeleechWindowTooNarrow" -> c.freeleech /\ ~c.window_fits}

-----------------------------------------------------------------------------
(* What a handler answers: its commands, its database commands and what it *)
(* publishes.                                                              *)
Out(m, commands, records, says) ==
    [m |-> m, commands |-> commands, records |-> records, says |-> says]

Nothing(m) == Out(m, <<>>, <<>>, <<>>)
Alert(m) == Out(m, <<>>, <<"RecordAlert">>, <<>>)
Activity(m) == Out(m, <<>>, <<"RecordActivity">>, <<>>)
Noted(m) == Out(m, <<>>, <<"RecordActivity">>, <<"Activity">>)
Alarm(m) == Out(m, <<>>, <<"RecordAlert", "RecordActivity">>, <<"Activity">>)
PublishState(m) == Out(m, <<>>, <<"SaveSystemSnapshot">>, <<"SystemState">>)
PublishStateWithActivity(m) ==
    Out(m, <<>>, <<"SaveSystemSnapshot">>, <<"SystemState", "Activity">>)

(* What the alarming publishes leave behind; the handler's arm has set the *)
(* gate before.                                                            *)
OnPublicIpMismatch(m) == Alarm([m EXCEPT !.vpn_ip_compliant = "No"])
OnPublicIpVerificationDegraded(m) == Alarm(m)
OnDependentNetworkUntrusted(m) == Alarm([m EXCEPT !.vpn_ip_compliant = "No"])
OnDependentNetworkTrusted(m) == Noted(m)
OnRestartStorm(m) == Alarm([m EXCEPT !.vpn_ip_compliant = "No"])
OnQueueOrchestrated(m) == Noted(m)
OnUnsatisfiedQuotaCritical(m) == Alarm([m EXCEPT !.unsatisfied_quota_full = TRUE])
OnUnsatisfiedQuotaApproaching(m) == Alarm([m EXCEPT !.unsatisfied_quota_full = FALSE])
OnBannedPrivacySettingsObserved(m) == Alarm([m EXCEPT !.qbit_privacy_clean = FALSE])
OnMamAsnMismatch(m) == Alarm([m EXCEPT !.vpn_ip_compliant = "No"])
OnKeepAliveDegraded(m) == Alarm(m)

OnUploadHealthDegraded(m, buffer_ok) ==
    Alarm([m EXCEPT !.upload_health_ok = FALSE, !.upload_buffer_ok = buffer_ok])

OnMamNotConnectable(m) ==
    Out(m, <<>>, <<"RecordAlert", "RecordActivity", "SaveSystemSnapshot">>,
        <<"SystemState", "Activity">>)

OnDeadTorrentRemoved(m, id) ==
    IF id = None THEN Nothing(m)
    ELSE Out([m EXCEPT !.blacklisted_mam_ids = @ \cup {id}], <<>>,
             <<"MarkDownloadState">>, <<"Activity">>)

Order(kind) == [is |-> kind]
WithPort(kind, port) == [is |-> kind, port |-> port]
WithIp(kind, ip) == [is |-> kind, ip |-> ip]
WithId(kind, id) == [is |-> kind, id |-> id]

(* WindlassMachine::handle, by the service whose publish it is.            *)
VpnEffect(m, e) ==
    CASE e.is = "Connected" -> PublishState([m EXCEPT !.vpn = "Ready"])
      [] e.is = "Disconnected" ->
           PublishState([m EXCEPT !.vpn = "Degraded", !.forwarded_port = None])
      [] e.is = "Crashed" ->
           Out(m, <<Order("DumpAllLogs"), Order("StopDependents")>>,
               <<"RecordAlert">>, <<>>)
      [] e.is = "Recovered" -> Out(m, <<Order("StartDependents")>>, <<>>, <<>>)
      [] e.is = "PortReady" ->
           Out([m EXCEPT !.forwarded_port = e.port],
               <<WithPort("EnsureListenPort", e.port),
                 WithPort("EnsureSeedboxPort", e.port)>>,
               <<"SaveSystemSnapshot">>, <<"SystemState">>)
      [] e.is = "PortUnavailable" -> PublishState([m EXCEPT !.forwarded_port = None])
      [] e.is = "PublicIpObserved" ->
           Out(m, <<WithIp("ObservedIpChanged", e.ip)>>, <<>>, <<>>)
      [] e.is = "PublicIpUnavailable" ->
           PublishStateWithActivity([m EXCEPT !.vpn_ip_compliant = "Unknown"])
      [] e.is = "PublicIpMismatch" -> OnPublicIpMismatch(m)
      [] e.is = "PublicIpVerificationDegraded" -> OnPublicIpVerificationDegraded(m)

DockerEffect(m, e) ==
    CASE e.is = "DependentNetworkUntrusted" -> OnDependentNetworkUntrusted(m)
      [] e.is = "RestartStorm" -> OnRestartStorm(m)
      [] e.is = "DependentNetworkTrusted" -> OnDependentNetworkTrusted(m)
      [] e.is = "ContainerLifecycle" -> Nothing(m)

QbitEffect(m, e) ==
    CASE e.is = "TorrentsUpdated" -> Nothing(m)
      [] e.is = "QbitReady" ->
           LET out == PublishState([m EXCEPT !.qbit = "Ready"]) IN
           IF m.qbit = "Ready" THEN out
           ELSE [out EXCEPT !.records = Append(@, "RecordActivity")]
      [] e.is = "QbitUnavailable" ->
           PublishStateWithActivity([m EXCEPT !.qbit = "Degraded"])
      [] e.is = "ListenPortReady" ->
           IF m.qbit_listen_port = e.port THEN Nothing(m)
           ELSE Activity([m EXCEPT !.qbit_listen_port = e.port])
      [] e.is \in {"AuthRejected", "ListenPortPersistentFailure"} -> Alert(m)

(* One record per torrent, by to_db_record; one torrent stands for them.   *)
Upserted(m) == Out(m, <<>>, <<"UpsertTorrent">>, <<>>)

(* The torrents among qBittorrent's publishes.                             *)
TorrentEffect(m, e) ==
    CASE e.is = "TorrentRecords" -> Upserted(m)
      [] e.is \in {"HnRAtRisk", "DeleteBlockedHnRLock", "NewTorrentsAdded"} -> Alert(m)
      [] e.is \in {"TorrentAdded", "TorrentAddFailed"} ->
           Out(m, <<>>, <<"RecordAlert", "RecordActivity">>, <<>>)
      [] e.is = "QueueOrchestrated" -> OnQueueOrchestrated(m)

GateEffect(m, e) ==
    CASE e.is = "UnsatisfiedQuotaCritical" -> OnUnsatisfiedQuotaCritical(m)
      [] e.is = "UnsatisfiedQuotaApproaching" -> OnUnsatisfiedQuotaApproaching(m)
      [] e.is = "UnsatisfiedQuotaOk" ->
           Nothing([m EXCEPT !.unsatisfied_quota_full = FALSE])
      [] e.is = "DeadTorrentRemoved" -> OnDeadTorrentRemoved(m, e.id)
      [] e.is = "BannedPrivacySettingsObserved" -> OnBannedPrivacySettingsObserved(m)
      [] e.is = "PrivacyClean" -> Nothing([m EXCEPT !.qbit_privacy_clean = TRUE])

FetchEffect(m, e) ==
    CASE e.is = "TorrentBytesReady" -> Out(m, <<WithId("AddTorrent", e.id)>>, <<>>, <<>>)
      [] e.is = "TorrentBytesFetchFailed" ->
           Out(m, <<>>, <<"RecordAlert", "RecordActivity">>, <<>>)

MamDown(m) == [m EXCEPT !.mam = "Degraded", !.mam_healthy = FALSE]

MamEffect(m, e) ==
    CASE e.is = "Connectable" -> Nothing([m EXCEPT !.mam_healthy = TRUE])
      [] e.is = "SeedboxPortReady" -> Alert(m)
      [] e.is = "MamReady" ->
           PublishState([m EXCEPT !.mam = "Ready", !.mam_healthy = TRUE])
      [] e.is \in {"MamUnavailable", "Unreachable"} -> PublishStateWithActivity(MamDown(m))
      [] e.is = "NotConnectable" -> OnMamNotConnectable(MamDown(m))
      [] e.is = "UploadHealthDegraded" -> OnUploadHealthDegraded(m, e.buffer_ok)
      [] e.is = "UploadHealthOk" ->
           Nothing([m EXCEPT !.upload_health_ok = TRUE, !.upload_buffer_ok = TRUE])
      [] e.is = "AsnMismatch" -> OnMamAsnMismatch(m)
      [] e.is = "AsnAccepted" -> Nothing([m EXCEPT !.vpn_ip_compliant = "Yes"])
      [] e.is = "KeepAliveDegraded" -> OnKeepAliveDegraded(m)
      [] e.is = "RateLimited" ->
           Out(MamDown(m), <<>>, <<"SaveSystemSnapshot", "RecordAlert">>,
               <<"SystemState", "Activity">>)

OwnEffect(m, e) ==
    CASE e.is = "Init" ->
           Out(m, <<Order("EnsureAuthenticated"), Order("EnsureAuthenticated")>>, <<>>, <<>>)
      [] e.is = "AboveFloor" -> Nothing(m)
      [] e.is = "BelowFloor" ->
           Out(m, <<Order("EvictOneForDiskPressure")>>, <<"RecordAlert">>, <<"Activity">>)
      [] e.is = "DbFailed" -> Out(m, <<>>, <<>>, <<"Activity">>)
      [] e.is = "TimerFired" -> Out(m, <<>>, <<"SaveSystemSnapshot">>, <<>>)

Effect(m, e) ==
    CASE e.is \in VpnPublishes -> VpnEffect(m, e)
      [] e.is \in DockerPublishes -> DockerEffect(m, e)
      [] e.is \in QbitPublishes -> QbitEffect(m, e)
      [] e.is \in TorrentPublishes -> TorrentEffect(m, e)
      [] e.is \in GatePublishes -> GateEffect(m, e)
      [] e.is \in FetchPublishes -> FetchEffect(m, e)
      [] e.is \in MamPublishes -> MamEffect(m, e)
      [] OTHER -> OwnEffect(m, e)

-----------------------------------------------------------------------------
(* PostgresDbActor::handle: what it answers with a failure, which is       *)
(* everything while the database is broken.                                *)
ActorFailures(records) == IF db.broken THEN records ELSE <<>>

(* DbMachine executes every command and publishes the failures.            *)
Executes(records) == db' = [db EXCEPT !.failed = @ \o ActorFailures(records)]

(* DomainShell::dispatch sends the command to its runtime.  MAM asks for   *)
(* an update for another address or port; the rest of what the runtimes do *)
(* shows in their publishes.                                               *)
Dispatched(s, c) ==
    CASE c.is = "EnsureListenPort" -> [s EXCEPT !.want = c.port]
      [] c.is = "EnsureSeedboxPort" -> [s EXCEPT !.updates = TRUE]
      [] c.is = "ObservedIpChanged" ->
           [s EXCEPT !.updates = @ \/ s.observed # c.ip, !.observed = c.ip]
      [] c.is \in {"StartDependents", "StopDependents"} ->
           [s EXCEPT !.docker = c.is, !.repeated = @ \/ s.docker = c.is]
      [] c.is = "FetchTorrent" -> [s EXCEPT !.fetches = @ \cup {c.id}]
      [] c.is = "AddTorrent" -> [s EXCEPT !.adds = @ \cup {c.id}]
      [] OTHER -> s

(* The snapshot timer is the domain's only one.                            *)
Reply(out, timer) ==
    /\ Apply(out.m, timer, Wanted([i \in DOMAIN out.says |-> [is |-> out.says[i]]]))
    /\ services' = FoldLeft(Dispatched, services, out.commands)
    /\ Executes(out.records)

Handler(e) ==
    Reply(Effect(machine, e), IF e.is \in {"Init", "TimerFired"}
                              THEN <<Schedule("Snapshot", 0)>> ELSE <<>>)

Handle ==
    Take /\ Handler(Head(events)) /\ UNCHANGED <<tunnel, vpn, budget>>

Spend(kind) ==
    budget[kind] > 0 /\ budget' = [budget EXCEPT ![kind] = @ - 1]

(* Only the activity tells of it: blocked_admission_message names the      *)
(* gates.                                                                  *)
AdmissionBlocked(m) == Out(m, <<>>, <<>>, <<"Activity">>)

(* handle_manual_download: three gates.                                    *)
ManualDownload(id) ==
    CASE id \in machine.blacklisted_mam_ids -> Activity(machine)
      [] id \notin machine.blacklisted_mam_ids
         /\ (machine.unsatisfied_quota_full \/ machine.qbit_listen_port = None) ->
           Alert(machine)
      [] OTHER -> Out(machine, <<WithId("FetchTorrent", id)>>, <<>>, <<>>)

TryAddTorrent(c) ==
    IF GateFailures(machine, c) = {}
    THEN Out(machine, <<WithId("FetchTorrent", c.id)>>, <<>>, <<>>)
    ELSE AdmissionBlocked(machine)

(* WindlassMachine::handle_command.                                        *)
Command ==
    /\ Spend("orders")
    /\ \/ Reply(Out(machine, <<Order("RefreshTorrents"), Order("RefreshStatus")>>,
                    <<>>, <<>>), <<>>)
       \/ \E id \in Ids : Reply(ManualDownload(id), <<>>)
       \/ \E c \in Candidates : Reply(TryAddTorrent(c), <<>>)
    /\ Obeyed /\ UNCHANGED <<tunnel, vpn>>

-----------------------------------------------------------------------------
(* bridge_tunnel_publish: the events for VpnMachine.                       *)
BridgeEvents(p) ==
    CASE p.is \in {"Up", "Recovered"} -> <<Order("ContainerHealthy")>>
      [] p.is \in {"Down", "Stuck", "LeakDetected"} -> <<Order("ContainerUnhealthy")>>
      [] p.is = "PortReady" -> <<WithPort("PortFileChanged", p.port)>>
      [] OTHER -> <<>>

(* Mutant: the loss of the port stays in the bridge.                       *)
BridgePublishesFewer(p) ==
    CASE p.is \in {"Up", "Recovered", "ExitIpObserved"} ->
           IF p.ip = None THEN <<>> ELSE <<WithIp("PublicIpObserved", p.ip)>>
      [] p.is \in {"Down", "Stuck"} -> <<Order("PublicIpUnavailable")>>
      [] OTHER -> <<>>

(* bridge_tunnel_publish: the publishes for the domain.                    *)
BridgePublishes(p) ==
    CASE p.is \in {"Up", "Recovered", "ExitIpObserved"} ->
           IF p.ip = None THEN <<>> ELSE <<WithIp("PublicIpObserved", p.ip)>>
      [] p.is \in {"Down", "Stuck"} -> <<Order("PublicIpUnavailable")>>
      [] p.is = "LeakDetected" -> <<Order("PublicIpMismatch")>>
      [] p.is \in {"PortUnavailable", "PortForwardingDegraded"} ->
           <<Order("PortUnavailable")>>
      [] p.is = "ExitIpVerificationDegraded" -> <<Order("PublicIpVerificationDegraded")>>
      [] p.is = "PortReady" -> <<>>

(* A port is between the bridge and the domain, with VpnMachine.           *)
PortUnderWay ==
    \E e \in ToSet(vpn.events \o vpn.published) : e.is \in {"PortFileChanged", "PortReady"}

(* The tunnel forwarder of init.rs.  overtaken is history: a loss that     *)
(* goes straight to the domain passes a port that is still under way.      *)
ForwardTunnel ==
    /\ tunnel.published # <<>> /\ Room
    /\ tunnel' = [tunnel EXCEPT !.published = Tail(@),
                      !.overtaken = \/ @
                                    \/ /\ Order("PortUnavailable") \in
                                            ToSet(BridgePublishes(Head(tunnel.published)))
                                       /\ PortUnderWay]
    /\ vpn' = [vpn EXCEPT !.events = @ \o BridgeEvents(Head(tunnel.published))]
    /\ events' = events \o BridgePublishes(Head(tunnel.published))
    /\ UNCHANGED <<machine, tasks, timers, published, now, services, db, budget>>

Edge(rises, kind) == IF rises THEN <<Order(kind)>> ELSE <<>>

(* VpnMachine::handle.                                                     *)
VpnHandle(v, e) ==
    CASE e.is = "ContainerHealthy" ->
           [v EXCEPT !.connected = TRUE,
                     !.published = @ \o <<Order("Connected")>> \o Edge(~v.connected, "Recovered")]
      [] e.is = "ContainerUnhealthy" ->
           [v EXCEPT !.connected = FALSE, !.port = None,
                     !.published = @ \o <<Order("Disconnected"), Order("PortUnavailable")>>
                                   \o Edge(v.connected, "Crashed")]
      [] e.is = "PortFileChanged" ->
           [v EXCEPT !.port = e.port, !.published = Append(@, WithPort("PortReady", e.port))]

HandleVpn ==
    /\ vpn.events # <<>>
    /\ vpn' = VpnHandle([vpn EXCEPT !.events = Tail(@)], Head(vpn.events))
    /\ UNCHANGED <<runtime, now, tunnel, services, db, budget>>

(* The VPN forwarder of init.rs.                                           *)
ForwardVpn ==
    /\ vpn.published # <<>> /\ Room
    /\ vpn' = [vpn EXCEPT !.published = Tail(@)]
    /\ events' = Append(events, Head(vpn.published))
    /\ UNCHANGED <<machine, tasks, timers, published, now, tunnel, services, db, budget>>

(* Mutant: every failure is reported.                                      *)
IsReportedAlways(operation) == TRUE

(* A failure to record activity would be recorded as activity.             *)
IsReported(operation) == operation # "RecordActivity"

(* The database forwarder of init.rs.                                      *)
ForwardDbFailure ==
    /\ db.failed # <<>> /\ Room
    /\ db' = [db EXCEPT !.failed = Tail(@)]
    /\ events' = IF IsReported(Head(db.failed)) THEN Append(events, Order("DbFailed"))
                 ELSE events
    /\ UNCHANGED <<machine, tasks, timers, published, now, tunnel, vpn, services, budget>>

(* The activity forwarder of init.rs; states are read by nobody.           *)
ForwardActivity ==
    /\ published # <<>>
    /\ published' = Tail(published)
    /\ Executes(IF Head(published).is = "Activity" THEN <<"RecordActivity">> ELSE <<>>)
    /\ UNCHANGED <<machine, events, tasks, timers, now, tunnel, vpn, services, budget>>

-----------------------------------------------------------------------------
(* TunnelMachine, by its publishes: one answer at a time.                  *)
Publishes(t, says) ==
    /\ tunnel.published = <<>> /\ Spend("moves")
    /\ tunnel' = [t EXCEPT !.published = says]
    /\ UNCHANGED <<runtime, now, vpn, services, db>>

TunnelUp ==
    /\ tunnel.health # "Up"
    /\ Publishes([tunnel EXCEPT !.health = "Up"],
                 <<WithIp("Up", tunnel.ip)>>
                 \o IF tunnel.health = "Stuck" THEN <<WithIp("Recovered", tunnel.ip)>>
                    ELSE <<>>)

(* Down, or Stuck when no peer is left to try; the port is kept.           *)
TunnelLost ==
    \E health \in {"Down", "Stuck"} :
        /\ IF health = "Down" THEN tunnel.health = "Up" ELSE tunnel.health # "Stuck"
        /\ Publishes([tunnel EXCEPT !.health = health, !.told = FALSE, !.overtaken = FALSE],
                     <<Order(health)>>)

TunnelLeaks ==
    Publishes([tunnel EXCEPT !.health = "Down", !.told = FALSE, !.overtaken = FALSE],
              <<Order("LeakDetected")>>
              \o IF tunnel.health = "Up" THEN <<Order("Down")>> ELSE <<>>)

(* A port is told of when it is new or was lost.                           *)
TunnelPort ==
    \E port \in Ports \ {tunnel.port} :
        Publishes([tunnel EXCEPT !.port = port, !.told = TRUE, !.overtaken = FALSE,
                                 !.degraded = FALSE],
                  <<WithPort("PortReady", port)>>)

(* Renewals have failed up to the threshold, which is told once.           *)
TunnelPortLost ==
    /\ ~tunnel.degraded
    /\ Publishes([tunnel EXCEPT !.port = None, !.told = FALSE, !.degraded = TRUE],
                 <<Order("PortForwardingDegraded")>>
                 \o IF tunnel.port # None THEN <<Order("PortUnavailable")>> ELSE <<>>)

TunnelExit ==
    \/ \E ip \in Ips \ {tunnel.ip} :
         Publishes([tunnel EXCEPT !.ip = ip], <<WithIp("ExitIpObserved", ip)>>)
    \/ Publishes(tunnel, <<Order("ExitIpVerificationDegraded")>>)

Hears(s, says) ==
    /\ Room
    /\ services' = s
    /\ events' = events \o SelectSeq(says, LAMBDA p : p.is \in Heard)
    /\ UNCHANGED <<machine, tasks, timers, published, now, tunnel, vpn, db>>

(* qBittorrent listens where it was told to.                               *)
QbitListens ==
    /\ services.want # services.port
    /\ Hears([services EXCEPT !.port = services.want],
             <<WithPort("ListenPortReady", services.want)>>)
    /\ UNCHANGED budget

(* MAM answers an update; it speaks when its verdict changes.              *)
MamAnswers ==
    /\ services.updates
    /\ \E verdict \in {"AsnAccepted", "AsnMismatch"} :
         Hears([services EXCEPT !.updates = FALSE, !.asn = verdict],
               (IF services.asn = verdict THEN <<>> ELSE <<Order(verdict)>>)
               \o IF verdict = "AsnAccepted" THEN <<Order("SeedboxPortReady")>> ELSE <<>>)
    /\ UNCHANGED budget

(* The torrent file is there, or not.                                      *)
MamFetches ==
    \E id \in services.fetches, kind \in FetchPublishes :
        /\ Hears([services EXCEPT !.fetches = @ \ {id}], <<WithId(kind, id)>>)
        /\ UNCHANGED budget

(* What else the services publish.                                         *)
ServiceNews ==
    \E p \in budget.kinds :
        /\ budget.news > 0
        /\ budget' = [budget EXCEPT !.news = @ - 1, !.kinds = @ \ {p}]
        /\ Hears(services, <<p>>)

(* The interval is long, and counts.                                       *)
Snapshot ==
    /\ Spend("snapshots") /\ Fire("Snapshot")
    /\ UNCHANGED <<tunnel, vpn, services, db>>

-----------------------------------------------------------------------------
vars == <<runtime, now, tunnel, vpn, services, db, budget>>

Init ==
    \E s \in Scenarios :
      /\ Spawn(New)
      /\ tunnel = [health |-> "Connecting", ip |-> None, port |-> None, told |-> FALSE,
                   overtaken |-> FALSE, degraded |-> FALSE, published |-> <<>>]
      /\ vpn = [connected |-> FALSE, port |-> None, events |-> <<>>, published |-> <<>>]
      /\ services = [want |-> None, port |-> None, updates |-> FALSE, observed |-> None,
                     asn |-> "Unknown", docker |-> "None", repeated |-> FALSE, fetches |-> {},
                     adds |-> {}]
      /\ db = [broken |-> s.broken, failed |-> <<>>]
      /\ budget = s.budget

Forward == ForwardTunnel \/ HandleVpn \/ ForwardVpn \/ ForwardDbFailure \/ ForwardActivity

Next == \/ Handle \/ Command \/ Forward \/ Snapshot
        \/ TunnelUp \/ TunnelLost \/ TunnelLeaks \/ TunnelPort \/ TunnelPortLost
        \/ TunnelExit \/ QbitListens \/ MamAnswers \/ MamFetches \/ ServiceNews

Fairness == WF_vars(Handle) /\ WF_vars(Forward)

Spec == Init /\ [][Next]_vars /\ Fairness

-----------------------------------------------------------------------------
(* Every field holds what WindlassMachine and VpnMachine put there.        *)
TypeOK ==
    /\ machine \in States
    /\ vpn.port \in Ports \cup {None}

(* Nothing is under way to the domain.                                     *)
Settled ==
    /\ events = <<>> /\ published = <<>> /\ db.failed = <<>>
    /\ tunnel.published = <<>> /\ vpn.events = <<>> /\ vpn.published = <<>>

(* Once everything told has arrived: a port told since the tunnel last     *)
(* went down and not lost is the domain's, and qBittorrent is asked to     *)
(* listen there, although ports and losses come on two ways; a port not    *)
(* so told is not the domain's, unless its loss overtook it on the         *)
(* straight way; and the dependents were started last when the tunnel is   *)
(* up and stopped last when it is not, no order ever following its like:   *)
(* VpnMachine's two edges neither repeat nor go missing.  A port kept      *)
(* while the tunnel was down is not told again (NatPmpLeaseGranted), so    *)
(* the domain is without it until the gateway grants another               *)
(* (tunnel_bridge.rs, WindlassEvent::Vpn, VPN-17, VPN-18, DOM-27, DOM-28). *)
DomainFollows ==
    /\ ~services.repeated
    /\ Settled =>
         /\ tunnel.told => machine.forwarded_port = tunnel.port
                           /\ services.want = tunnel.port
         /\ ~tunnel.told /\ ~tunnel.overtaken => machine.forwarded_port = None
         /\ machine.vpn = "Ready" <=> tunnel.health = "Up"
         /\ services.docker = "StartDependents" <=> tunnel.health = "Up"

(* A database that fails every command keeps nobody busy: its failures     *)
(* come to rest again and again (the recursion guard of the database       *)
(* forwarder in init.rs).                                                  *)
FailuresEnd == []<>Settled
=============================================================================
