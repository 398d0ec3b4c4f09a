CONSTANTS
    d1 = d1
    d2 = d2
    Displays = {d1, d2}
    NoDisplay = NoDisplay
    Seat0 = seat0
    OtherSeats = {seat1}
    MaxDisplayFailures = 1
    MaxNumber = 1
    MaxInputs = 2
    AutoLogin = FALSE
    InitialSetup = FALSE
SPECIFICATION Spec
CHECK_DEADLOCK FALSE
PROPERTIES EverySeatGetsLoginScreen
SYMMETRY Symmetry
