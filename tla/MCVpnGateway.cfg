SPECIFICATION Spec
CONSTANTS
    TimerIds = {1, 2, 3}
    MaxQueued = 1
    ServerList <- MCServerList
    Failures = 1
    SwitchSpacing = 1
    SuspicionSpacing = 2
    Second = 2
    Lifetimes = {1}
    MaxTime = 1
INVARIANTS
    LeaseOfServer
