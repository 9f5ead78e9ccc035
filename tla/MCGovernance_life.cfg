SPECIFICATION Spec
CONSTANTS
    u1 = u1
    u2 = u2
    Users = {u1}
    Gov = gov
    Tokens = {psi}
    NONE = NONE
    EXTERNAL = external
    DECIMAL_FRACTIONAL = 10
    InitConfigs <- LifeInit
    Messages <- LifeMessages
    Amounts = {1}
    Supply = 3
    MaxPolls = 2
    MaxTime = 2
INVARIANTS
    TypeOK
PROPERTIES
    ImplementsLifecycle
CHECK_DEADLOCK FALSE
