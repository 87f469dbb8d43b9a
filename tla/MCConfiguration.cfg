CONSTANTS
    nan = nan
    Backends = {"audio", "vibra"}
    General = "volume"
    Priorities <- MCPriorities
    OtherDirs <- MCOtherDirs
    PrefixNumber <- MCPrefixNumber
    NotANumber <- nan
    Feedbacks <- MCFeedbacks
    NamePriority <- MCNamePriority
    UnknownStrings = {"loud"}
    Themes = {"base", "custom"}
    DefaultTheme = "base"
    Written = {"off", "loud", "unset"}
    MaxWrites = 2
SPECIFICATION Spec
INVARIANTS
    TypeOK
    PlaysAsConfigured
    ThemeFollowsStore
