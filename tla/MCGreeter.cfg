SPECIFICATION FairLESpec
INVARIANTS
    NothingLeft
PROPERTIES
    EndIsTold
    StopEndsGreeter
