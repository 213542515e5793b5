SPECIFICATION DataSpec
CONSTANTS
    Conditions <- MCConditions
    Selects <- MCSelects
    Sorts <- MCSorts
    Users <- MCUsers
    MaxParams = 3
    None = None
    Keys = {"password", "user"}
    Listed = {"password"}
    MaxDepth = 3
CHECK_DEADLOCK FALSE
INVARIANTS
    ParsedOK
    NeverNarrower
    Faithful
    OwnRows
    SelectKeepsIdentity
    SortKeepsPriority
    ListedHidden
    OthersKept
