CONSTANTS
    Sessions = {s1, s2}
    NameList <- MCNames
    BackendList <- MCOneBackend
    Themes <- MCThemes
    DirList <- MCDirList
    Content <- MCContent
    Handles = {h1, h2, h3, h4, h5}
    Null = Null
    Nested = TRUE
    MaxEpoch <- MCEpochs
    MaxChanges = 2
    MaxDepth = 2
SPECIFICATION Spec
INVARIANT
    SessionOutlivesSlot
