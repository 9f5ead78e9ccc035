SPECIFICATION Spec
CONSTANTS
    a1 = a1
    a2 = a2
    o1 = o1
    o2 = o2
    t1 = t1
    t2 = t2
    Accounts = {a1, a2}
    Owners = {o1, o2}
    Tokens = {t1, t2}
    NONE = NONE
    DECIMAL_FRACTIONAL = 10
    InitConfigs <- MCInitConfigs
    Updates <- MCUpdates
    Registrations <- MCRegistrations
    Funds = 8
    MaxTime = 6
INVARIANT ClaimableAfterSchedule
