CONSTANTS
    Attempts = {a1, a2, a3}
    NoAttempt = NoAttempt
    connectionIntervals <- MCIntervals
    Threaded = FALSE
    Callback = TRUE
    InitSetsState = TRUE
    DaemonMode = FALSE
    MaxFailed = 3
    MaxLosses = 3
SPECIFICATION FairSpec
INVARIANTS
    TypeOK
    NeverStranded
    LossNotForgotten
    BackoffAtLeast
PROPERTIES
    Reconnects
    QuitCompletes
