SPECIFICATION Spec
CONSTANTS
    u1 = u1
    u2 = u2
    o = o
    Users = {u1, u2}
    Owners = {o}
    Gov = gov
    PoolAddr = pool
    DropAddr = drop
    NONE = NONE
    BAD = BAD
    LeafHash <- MCLeafHash
    PairHash <- MCPairHash
    Distributions <- MCDistributions
    PollMessages <- MCPollMessages
    DirectMessages <- MCDirectMessages
    Funds = 7
    U8_MAX = 2
INVARIANTS
    TypeOK
    AllOrNothing
    StagesFunded
    EntitledCanClaim
PROPERTIES
    HandoverBinds
    ImplementsEntitlements
CHECK_DEADLOCK FALSE
