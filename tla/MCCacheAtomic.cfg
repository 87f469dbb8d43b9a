CONSTANTS
    Sessions = {s1, s2}
    NameList <- MCOneName
    BackendList <- MCTwoBackends
    Themes <- MCThemes
    DirList <- MCDirList
    Content <- MCContent
    Handles = {h1, h2, h3, h4, h5, h6, h7, h8}
    Null = Null
    Nested = FALSE
    MaxEpoch <- MCEpochs
    MaxChanges = 1
    MaxDepth = 1
SPECIFICATION Spec
INVARIANTS
    TypeOK
    RefCountExact
    CacheExact
    PlaysFreshHandle
    ThemeSettled
