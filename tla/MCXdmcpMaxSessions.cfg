CONSTANTS
    Hosts = {a, b}
    LocalHosts = {}
    LoopbackHosts = {}
    Nums = {0}
    Managers = {}
    Here = here
    HonorIndirect = FALSE
    MaxDisplays = 1
    MaxPending = 1
    DisplaysPerHost = 1
    MaxForwardQueries = 1
    MaxConnectAttempts = 1
    MaxId = 3
    Objects = {d1, d2}
    MaxTimers = 1
SPECIFICATION Spec
INVARIANT MaxSessionsRespected
