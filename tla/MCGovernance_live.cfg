SPECIFICATION FairSpec
CONSTANTS
    u1 = u1
    u2 = u2
    Users = {u1}
    Gov = gov
    Tokens = {psi}
    NONE = NONE
    EXTERNAL = external
    DECIMAL_FRACTIONAL = 10
    InitConfigs <- LiveInit
    Messages <- LiveMessages
    Amounts = {1, 2}
    Supply = 4
    MaxPolls = 1
    MaxTime = 2
PROPERTIES
    PollsEndUnlessStuck
    PassedPollsSettle
CHECK_DEADLOCK FALSE
