SPECIFICATION FairSpec
CONSTANTS
    Threads <- ThreeThreads
    MaxDepth = 3
    ReadCountMask = 9
    AllowUpgrade = TRUE
    AllowTimeout = TRUE
CHECK_DEADLOCK FALSE
INVARIANTS
    MutualExclusion
    ReadCountIsExact
    UnlockCrashNeedsNestedWrite
PROPERTIES
    ImplementsRWLock
    UpgradeNeverSucceeds
    LockMakesProgress
