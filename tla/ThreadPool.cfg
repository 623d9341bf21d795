SPECIFICATION FairSpec
CONSTANTS
    t1 = t1
    t2 = t2
    t3 = t3
    k1 = k1
    k2 = k2
    k3 = k3
    NoTask = NoTask
    Threads = {t1, t2, t3}
    Tasks = {k1, k2, k3}
    Throwing = {k3}
    Requests <- SomeRequests
    Concurrency = 2
CHECK_DEADLOCK FALSE
INVARIANTS
    NeverUnderstaffed
    OnlyTasksCrash
PROPERTIES
    RefinesExecutor
    EveryTaskStarts
    PoolConverges
    ShutdownCompletes
