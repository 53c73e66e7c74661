SPECIFICATION StakeSpec
CONSTANTS
    w1 = w1
    w2 = w2
    Wallet = {w1, w2}
    SECONDS_PER_DAY = 1
    MAX_I64 = 500
    Times <- MCTimes
    PeriodDays <- MCPeriodDays
    MIN_STAKE = 2
    Amounts = {1, 2, 3}
    InitialKns <- MCInitialKns
SYMMETRY MCSymmetry
INVARIANTS
    WeightedTotalExact
    StakeBacked
    KnsConserved
    ExpiredStakeWithdrawable
PROPERTY
    LockHonoured
CHECK_DEADLOCK FALSE
