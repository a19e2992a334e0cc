SPECIFICATION PartsSpec
CONSTANTS
    TimerIds = {1, 2, 3, 4}
    MaxQueued = 2
    Gateways = {"one", "two"}
    Lifetimes = {0, 1, 2}
    MaxTime = 3
    MaxSteps = 7
    BufferLimit = 2
    Limits = {2, 3}
    Producers = {p, q}
    Capacity = 2
    MaxEffects = 2
    MaxTimers = 1
    MaxLosses = 1
INVARIANTS
    RunningIsSaved
    PausedSurvivesRestart
    RetainedExact
    NothingLeft
PROPERTIES
    RequestsSettle
    RequestsGoOn
    ShutdownCompletes
