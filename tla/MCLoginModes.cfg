CONSTANTS
    Workers = {w1}
    ReauthWorkers = {}
    Callers = {}
    ChannelBound = 2
    Services = {password, autologin}
    AutologinService = autologin
    LoginModes = {"greeter", "timed", "automatic"}
    SpawnMayFail = TRUE
    InFlight = 2
SPECIFICATION FairAutomaticSpec
PROPERTIES  OpenedLoginStarts
CHECK_DEADLOCK FALSE
