SPECIFICATION SerialSpec
CONSTANTS
    Call = {a, b, c}
    LastDay = 3
    WEEK = 2
    small = small
    large = large
    failed = failed
    Signature = {small, large, failed}
    Cents <- MCCents
    Confirmed = {small, large}
    SWAP_POINTS_MIN_CENTS = 50
    SWAP_POINTS_DAILY_CAP = 5
    COMMUNITY_POINTS_WEEKLY_CAP = 5
    CommunityPoints = {3}
    ContributionPoints = {4}
    KnsPoints = {10}
SYMMETRY Requests
CHECK_DEADLOCK FALSE
INVARIANTS
    LedgerExact
    CapsKept
PROPERTY
    AwardKeepsWeeklyCap
