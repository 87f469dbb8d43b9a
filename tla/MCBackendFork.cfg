CONSTANTS
    Attempts = {a1, a2}
    NoAttempt = NoAttempt
    connectionIntervals <- MCIntervals
    Threaded = FALSE
    Callback = FALSE
    InitSetsState = FALSE
    DaemonMode = TRUE
    MaxFailed = 2
    MaxLosses = 1
SPECIFICATION FairSpec
PROPERTY
    QuitCompletes
CHECK_DEADLOCK FALSE
