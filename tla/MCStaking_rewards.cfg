SPECIFICATION Spec
CONSTANTS
    s1 = s1
    s2 = s2
    Stakers <- MCStakers
    Owners <- MCOwners
    o1 = o1
    o2 = o2
    Self = self
    DECIMAL_FRACTIONAL = 10
    InitSchedules <- MCInitSchedules
    NewSchedules <- MCNewSchedules
    Amounts = {1, 2}
    Supply = 3
    Funds = 8
    MaxSchedules = 2
    MaxTime = 3
SYMMETRY AccountSymmetry
INVARIANTS
    TypeOK
    BondsHeld
    MigrationLeavesRewards
    RewardsAccounted
    StakersCanLeave
PROPERTIES
    RewardsNeverLost
CHECK_DEADLOCK FALSE
