SPECIFICATION Spec
CONSTANTS
    Tracked <- MCTracked
    FactSets <- MCFacts
    OutboxLimit = 1
    LogKept = 2
    TimerIds = {1, 2, 3, 4, 5, 6}
    RetryFirst = 5
    RetryMax = 10
    Tick = 5
    MaxChanges = 2
    MaxFaults = 1
INVARIANT OutboxKept
PROPERTIES HeldIsTold OutboxDrains
CHECK_DEADLOCK FALSE
