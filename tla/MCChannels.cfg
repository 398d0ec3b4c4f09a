SPECIFICATION FairChannelsSpec
CONSTANTS
    Procs = {g, u}
    LoginScreens = {g}
    Unmanaged = {}
    MaxTasks = 2
    None = None
    Login = Login
INVARIANTS
    TypeOK
    OwnChannelOnly
PROPERTIES
    RequestsAnswered
    GetsComplete
    ProxiesHearSignals
    TransientChannelsEnd
CHECK_DEADLOCK FALSE
