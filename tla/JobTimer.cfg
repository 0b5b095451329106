SPECIFICATION TimerFairSpec
CONSTANTS
    t1 = t1
    t2 = t2
    t3 = t3
    q1 = q1
    q2 = q2
    j1 = j1
    j2 = j2
    NoQueue = NoQueue
    NoJob = NoJob
    Threads <- ThreeThreads
    Queues <- TwoQueues
    Jobs <- TwoJobs
    AllowClear = TRUE
    TimeLeft = {TRUE, FALSE}
    Strong <- OneStrong
    Delays <- SomeDelays
    LastTick = 1
CHECK_DEADLOCK FALSE
INVARIANTS
    OneDuty
    NoJobStranded
    TimedJobsKeepOrder
PROPERTIES
    ImplementsSerialExecutor
    EveryJobRuns
    FlagComesBack
