CONSTANTS
    Attempts = {a1, a2, a3}
    NoAttempt = NoAttempt
    connectionIntervals <- MCIntervals
    Threaded = TRUE
    Callback = TRUE
    InitSetsState = TRUE
    DaemonMode = FALSE
    MaxFailed = 7
    MaxLosses = 3
SPECIFICATION FairSpecWithHandles
INVARIANTS
    ConnectedIsQuiet
    OneInitAtATime
    FlushedWhileLost
    NoHandleDuringInit
PROPERTIES
    PromiseKept
    HandlesReturn
