CONSTANTS
    Sessions = {s1, s2}
    NameList <- MCOneName
    BackendList <- MCOneBackend
    Themes <- MCThemes
    DirList <- MCDirList
    Content <- MCContent
    Handles = {h1, h2, h3, h4, h5}
    Null = Null
    Nested = TRUE
    MaxEpoch <- MCOneEpoch
    MaxChanges = 1
    MaxDepth = 2
SPECIFICATION FairSpec
INVARIANTS
    OneSetupAtATime
PROPERTY
    SetupCompletes
