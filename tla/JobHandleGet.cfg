SPECIFICATION FairSpec
CONSTANTS
    c1 = c1
    c2 = c2
    a1 = a1
    a2 = a2
    r1 = r1
    Nobody = Nobody
    Clients = {c1}
    LocalJobs = {a1}
    RemoteJobs = {}
    Failing = {}
    PoolSize = 1
    PoolSizes = {}
    Patient = FALSE
CHECK_DEADLOCK FALSE
PROPERTIES
    LocalGetReturns
