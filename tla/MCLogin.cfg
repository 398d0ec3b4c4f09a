CONSTANTS
    Workers = {w1, w2}
    ReauthWorkers = {}
    Callers = {}
    ChannelBound = 2
    Services = {password, smartcard}
    AutologinService = autologin
    LoginModes = {"greeter"}
    SpawnMayFail = TRUE
    InFlight = 2
SPECIFICATION LoginSpec
INVARIANTS LoginTypeOK NoOrphanWorker NoLostStart OneSession OneQueryAtATime
PROPERTY SessionConversationValid
SYMMETRY Symmetry
CHECK_DEADLOCK FALSE
