SPECIFICATION Spec
CONSTANTS
    Skew = 2
    Tick = 1
    SyncInterval = 2
    FirstSync = 0
    MaxSyncs = 1
    LastTime = 4
    MinDelay = 2
    MaxDelay = 3
    FirstDelay = 2
    Limit = 3
    Window = 2
    MaxSnapshots = 3
CHECK_DEADLOCK FALSE
INVARIANTS
    ClockLagsBehind
PROPERTIES
    ShownBetweenNeighbours
    BackstepBounded
