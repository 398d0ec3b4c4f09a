CONSTANTS
    Workers = {w1, w2}
    ReauthWorkers = {w2}
    Callers = {c1}
    ChannelBound = 2
SPECIFICATION OneSpec
INVARIANTS TypeOK StageHoldsPam SessionNeedsPam TerminationCleansUp ReauthNeverStarts
PROPERTY ImplementsLifecycle
CHECK_DEADLOCK FALSE
