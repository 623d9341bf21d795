SPECIFICATION FairSpec
CONSTANTS
    c1 = c1
    c2 = c2
    a1 = a1
    a2 = a2
    r1 = r1
    Nobody = Nobody
    Clients = {c1}
    LocalJobs = {a1}
    RemoteJobs = {r1}
    Failing = {a1}
    PoolSize = 2
    PoolSizes = {1, 2}
    Patient = TRUE
CHECK_DEADLOCK FALSE
INVARIANT
   ClientsSeeResults
PROPERTIES
    EveryJobEnds
    GetReturnsIfCompleted
