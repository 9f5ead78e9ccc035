SPECIFICATION Spec
CONSTANTS
    MaxPolls = 3
    Accounts = {1, 2, 3, 4}
    NONE = NONE
    Limits <- MCLimits
    Requests <- MCRequests
    DEFAULT_LIMIT = 2
    MAX_LIMIT = 3
INVARIANTS
    TypeOK
    NoDuplicates
    CompleteWalk
PROPERTIES
    WalkEnds
CHECK_DEADLOCK FALSE
