SPECIFICATION FairSpec
CONSTANTS
    QbitScenarios <- MCQbitFaults
    QbitEvents = 1
    QbitPorts = {1}
    MamBudgets <- MCMamMoves
    DockerBudgets = {}
    TunnelScenarios <- MCTunnelStalls
    WindlassScenarios <- MCWindlassBroken
    Candidates <- MCCandidates
PROPERTIES QbitConverges ExitRegistered ComesBack FailuresEnd
CHECK_DEADLOCK FALSE
