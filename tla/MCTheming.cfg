CONSTANTS
    base = base
    custom = custom
    another = another
    none = none
    Themes <- MCThemes
    Base <- base
    NoTheme <- none
    NameOrder <- MCNameOrder
    IllFormed <- MCIllFormed
    FallbackName <- MCFallbackName
    NoName = ""
    Trees <- MCTrees
    UpdatedTrees <- MCUpdatedTrees
    MaxChanges = 2
SPECIFICATION Spec
CHECK_DEADLOCK FALSE
INVARIANTS
    TypeOK
    ListsCurrent
    NamesAligned
    StopsForCause
