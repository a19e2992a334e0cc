SPECIFICATION Spec
CONSTANTS
    QbitScenarios <- MCQbitScenarios
    QbitEvents = 2
    QbitPorts = {1, 2}
    MamBudgets <- MCMamBudgets
    DockerBudgets <- MCDockerBudgets
    TunnelScenarios <- MCTunnelScenarios
    WindlassScenarios <- MCWindlassScenarios
    Candidates <- MCCandidates
INVARIANTS OneRefreshChain RestartBudget TrustedIsFresh UpIsFenced
           DomainFollows
PROPERTY UpdatesSpaced
CHECK_DEADLOCK FALSE
