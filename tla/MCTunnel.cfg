SPECIFICATION Spec
CONSTANTS
    TimerIds = {1, 2, 3}
    MaxQueued = 1
    ServerList <- MCServerList
    Failures = 2
    SwitchSpacing = 2
    SuspicionSpacing = 1
    Second = 2
    MaxTime = 3
PROPERTIES
    SwitchesSpaced
    ChecksGoOn
