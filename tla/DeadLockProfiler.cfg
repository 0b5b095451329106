SPECIFICATION ProfilerSpec
CONSTANTS
    t1 = t1
    t2 = t2
    t3 = t3
    a = a
    b = b
    c = c
    d = d
    Callers <- ThreeCallers
    Locks <- FourLocks
    NameOf <- SharedName
    NoLock = NoLock
    MaxNesting = 2
SYMMETRY CallerSymmetry
CHECK_DEADLOCK FALSE
INVARIANTS
    CycleIsFound
    DeadlockIsAnnounced
