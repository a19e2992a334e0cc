SPECIFICATION Spec
CONSTANTS
    MaxTime = 0
    TimerIds = {1, 2, 3}
    MaxQueued = 1
    Hashes = {"h"}
    MamIds = {"m"}
    HashOf <- MCHashOf
    Ports = {"p", "q"}
    Stores <- MCStores
    FirstClients <- MCClients
    Queues = {"x", "y"}
    PollsPerRead = 1
    MaxRows = 2
    MaxDisturbances = 2
INVARIANTS
    CopyIsShown
    RestartAgrees
CHECK_DEADLOCK FALSE
PROPERTY Converges
