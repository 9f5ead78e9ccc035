SPECIFICATION Spec
CONSTANTS
    Polls = {1, 2}
    Users = {user}
    Gov = gov
    NONE = NONE
    InitPolls <- YourselfPolls
    MaxCalls = 10
PROPERTY OnlyPassedPollsRun
CHECK_DEADLOCK FALSE
