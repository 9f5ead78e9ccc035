SPECIFICATION Spec
CONSTANTS
    Polls <- MCPolls
    Users = {user}
    Gov = gov
    NONE = NONE
    InitPolls <- NestedPolls
    MaxCalls = 10
INVARIANTS
    AtomicExecution
    ReplyFailsTheRightPoll
PROPERTIES
    OnlyPassedPollsRun
    TransactionsEnd
CHECK_DEADLOCK FALSE
