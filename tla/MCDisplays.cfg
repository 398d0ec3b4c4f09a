CONSTANTS
    d1 = d1
    d2 = d2
    d3 = d3
    Displays = {d1, d2, d3}
    NoDisplay = NoDisplay
    Seat0 = seat0
    OtherSeats = {}
    MaxDisplayFailures = 1
    MaxNumber = 0
    MaxInputs = 3
    AutoLogin = FALSE
    InitialSetup = FALSE
SPECIFICATION Spec
CHECK_DEADLOCK FALSE
INVARIANTS TypeOK NoOrphanGreeter NoDanglingSource
PROPERTIES  EndedStaysEnded
SYMMETRY Symmetry
