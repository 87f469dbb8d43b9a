CONSTANTS
    Connections = {c1}
    Requests <- MCRequests
    Splits <- MCSplits
    Nested = FALSE
SPECIFICATION Spec
INVARIANT
    WaitingIsDiscarded
