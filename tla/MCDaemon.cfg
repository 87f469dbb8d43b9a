CONSTANTS
    Handlers = {term, int}
    sigTermHandler = term
    sigIntHandler = int
    SignalOf <- MCSignalOf
    MaxUnread = 2
    MaxFaults = 2
    MaxSignals = 2
    MaxStarts = 3
SPECIFICATION FairSpec
INVARIANTS
    Reachable
    ExitsClean
    MappedIsOpen
PROPERTY
    SignalQuits
CHECK_DEADLOCK FALSE
