CONSTANTS
    d1 = d1
    d2 = d2
    Displays = {d1, d2}
    NoDisplay = NoDisplay
    Seat0 = seat0
    OtherSeats = {seat1, seat2}
    MaxDisplayFailures = 1
    MaxNumber = 1
    MaxInputs = 3
    AutoLogin = TRUE
    InitialSetup = TRUE
SPECIFICATION Spec
CONSTRAINT Timely
CHECK_DEADLOCK FALSE
INVARIANTS  DeadGreeterLeaves
PROPERTIES AutomaticLoginOnce
SYMMETRY Symmetry
