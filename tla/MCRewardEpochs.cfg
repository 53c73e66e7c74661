SPECIFICATION EpochSpec
CONSTANTS
    w1 = w1
    w2 = w2
    Wallet = {w1, w2}
    SECONDS_PER_DAY = 1
    MAX_I64 = 26
    Times <- MCTimes
    PeriodDays <- MCPeriodDays
    EpochId = {1}
    USDC = USDC
    OTHER = OTHER
    Mint = {USDC, OTHER}
    USDC_MIN_CLAIM = 2
    Roots <- MCRoots
    TotalRewards = {3, 4}
    ClaimAmounts = {1, 2, 3}
    Deposits = {1}
    InitialUsdc <- MCInitialUsdc
INVARIANTS
    UsdcConserved
    EpochSolvent
    ClaimsCommitted
    EveryLeafClaimable
PROPERTIES
    TermsFrozen
    OutflowAccounted
    ImplementsPots
CHECK_DEADLOCK FALSE
