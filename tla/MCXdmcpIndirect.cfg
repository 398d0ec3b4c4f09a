CONSTANTS
    Hosts = {a, b}
    LocalHosts = {}
    LoopbackHosts = {}
    Nums = {0, 1}
    Managers = {m}
    Here = here
    HonorIndirect = TRUE
    MaxDisplays = 1
    MaxPending = 1
    DisplaysPerHost = 1
    MaxForwardQueries = 0
    MaxConnectAttempts = 2
    MaxId = 2
    Objects = {d1}
    MaxTimers = 1
SPECIFICATION FairSpec
INVARIANTS TypeOK SessionStored  OneManagedForward
PROPERTIES EndedLeave ManagedForwardsEnd
CHECK_DEADLOCK FALSE
