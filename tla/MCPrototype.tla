---------------------------- MODULE MCPrototype -----------------------------
EXTENDS Prototype, TLC

(* qBittorrent has no torrents; has torrents at the quota; has one with no *)
(* bytes.                                                                  *)
Unsatisfied == [bytes |-> TRUE, seed |-> 0, state |-> "PausedUploading"]
Satisfied == [bytes |-> TRUE, seed |-> 1, state |-> "Uploading"]
Dead == [bytes |-> FALSE, seed |-> 0, state |-> "StalledDownloading"]

QbitScenario(limit, torrents, faults, ports, orders, moves) ==
    [limit |-> limit, torrents |-> torrents,
     budget |-> [faults |-> faults, ports |-> ports, orders |-> orders, moves |-> moves]]

MCQbitScenarios ==
    {QbitScenario(1000000, <<>>, 1, 1, 0, 0),
     QbitScenario(1, (1 :> Unsatisfied) @@ (2 :> Satisfied), 0, 0, 1, 0),
     QbitScenario(1, 1 :> Dead, 0, 0, 1, 1)}

MCQbitFaults == {QbitScenario(1000000, <<>>, 1, 1, 0, 0)}

MamBudget(faults, orders, moves) ==
    [faults |-> faults, orders |-> orders, moves |-> moves]

MCMamBudgets == {MamBudget(1, 1, 1)}

MCMamMoves == {MamBudget(1, 0, 1)}

DockerBudget(faults, orders) == [faults |-> faults, orders |-> orders]

MCDockerBudgets == {DockerBudget(2, 0), DockerBudget(0, 1)}

(* One budget at a time, and two peers with none.                          *)
TunnelScenario(peers, one) ==
    [peers |-> peers,
     budget |-> [kind \in {"faults", "orders", "silences", "grants", "leaks"} |->
                   IF kind = one THEN 1 ELSE 0]]

MCTunnelScenarios ==
    {TunnelScenario(2, "none")}
    \cup {TunnelScenario(1, one) : one \in {"faults", "orders", "silences", "grants", "leaks"}}

MCTunnelStalls == {TunnelScenario(2, "none"), TunnelScenario(1, "faults")}

Candidate(freeleech) ==
    [id |-> 1, freeleech |-> freeleech, my_snatched |-> freeleech,
     collection |-> freeleech, window_fits |-> FALSE]

MCCandidates == {Candidate(TRUE), Candidate(FALSE)}

(* What qBittorrent, MAM, Docker and the disk may say unasked, and what    *)
(* opens the gates.                                                        *)
Unasked ==
    {[is |-> kind] : kind \in
       {"DependentNetworkUntrusted", "DependentNetworkTrusted", "RestartStorm",
        "ContainerLifecycle", "TorrentsUpdated", "QbitReady", "QbitUnavailable",
        "AuthRejected", "ListenPortPersistentFailure", "TorrentRecords", "HnRAtRisk",
        "DeleteBlockedHnRLock", "NewTorrentsAdded", "TorrentAdded", "TorrentAddFailed",
        "QueueOrchestrated", "UnsatisfiedQuotaCritical", "UnsatisfiedQuotaApproaching",
        "UnsatisfiedQuotaOk", "BannedPrivacySettingsObserved", "PrivacyClean",
        "Connectable", "MamReady", "MamUnavailable", "Unreachable", "NotConnectable",
        "UploadHealthOk", "KeepAliveDegraded", "RateLimited", "BelowFloor",
        "AboveFloor"}}
    \cup {[is |-> "DeadTorrentRemoved", id |-> id] : id \in {0, 1}}
    \cup {[is |-> "UploadHealthDegraded", buffer_ok |-> ok] : ok \in BOOLEAN}

Opening == {[is |-> kind] : kind \in
              {"UploadHealthOk", "UnsatisfiedQuotaOk", "PrivacyClean", "MamReady"}}

WindlassScenario(broken, moves, orders, snapshots, count, kinds) ==
    [broken |-> broken,
     budget |-> [moves |-> moves, orders |-> orders, snapshots |-> snapshots,
                 news |-> count, kinds |-> kinds]]

MCWindlassScenarios ==
    {WindlassScenario(FALSE, 1, 1, 0, 4, Opening), WindlassScenario(FALSE, 3, 0, 0, 0, {}),
     WindlassScenario(FALSE, 0, 1, 1, 1, Unasked)}

(* A database that fails every write.                                      *)
MCWindlassBroken ==
    {WindlassScenario(TRUE, 1, 0, 1, 0, {}), WindlassScenario(TRUE, 0, 0, 0, 1, Unasked)}

=============================================================================
