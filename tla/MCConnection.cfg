CONSTANTS
    Connections = {c1, c2}
    Requests <- MCRequests
    Splits <- MCSplits
    Nested = TRUE
SPECIFICATION FairSpec
INVARIANTS
    TypeOK
    PlayedInOrder
    SessionInUse
    UnknownNeverServed
    WholeNeverTerminated
PROPERTIES
    GoneIsDeleted
    LegacyServed
