CONSTANTS
    Libs <- MCLibs
    Kind <- MCKind
    Installations <- MCInstallations
    IdealThreadCount = 1
    MaxPlugged = 1
SPECIFICATION Spec
INVARIANTS
    TypeOK
    PluginsAlive
    LoadedInOrder
CHECK_DEADLOCK FALSE
