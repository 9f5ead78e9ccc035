SPECIFICATION Spec
CONSTANTS
    u1 = u1
    u2 = u2
    Users <- MCUsers
    Gov = gov
    Tokens = {psi}
    NONE = NONE
    EXTERNAL = external
    DECIMAL_FRACTIONAL = 10
    InitConfigs <- StakeInit
    Messages <- StakeMessages
    Amounts = {0, 1, 2, 3}
    Supply = 5
    MaxPolls = 1
    MaxTime = 1
SYMMETRY UserSymmetry
INVARIANT DepositsHeld
CHECK_DEADLOCK FALSE
