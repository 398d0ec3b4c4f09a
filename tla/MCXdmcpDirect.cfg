CONSTANTS
    Hosts = {a, b}
    LocalHosts = {b}
    LoopbackHosts = {}
    Nums = {0, 1}
    Managers = {}
    Here = here
    HonorIndirect = FALSE
    MaxDisplays = 2
    MaxPending = 1
    DisplaysPerHost = 1
    MaxForwardQueries = 1
    MaxConnectAttempts = 1
    MaxId = 3
    Objects = {d1, d2}
    MaxTimers = 2
SPECIFICATION Spec
SYMMETRY Symmetry
VIEW DirectView
INVARIANTS PerHostBounded OneDisplayPerSlot SessionIdsUnique
CHECK_DEADLOCK FALSE
