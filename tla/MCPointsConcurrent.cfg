SPECIFICATION PointsSpec
CONSTANTS
    Call = {a, b}
    LastDay = 1
    WEEK = 1
    small = small
    large = large
    failed = failed
    Signature = {small, large}
    Cents <- MCCents
    Confirmed = {small, large}
    SWAP_POINTS_MIN_CENTS = 50
    SWAP_POINTS_DAILY_CAP = 5
    COMMUNITY_POINTS_WEEKLY_CAP = 5
    CommunityPoints = {3}
    ContributionPoints = {4}
    KnsPoints = {10}
SYMMETRY Requests
CHECK_DEADLOCK FALSE
INVARIANTS
    NeverMoreThanDue
    FlaggedSwapsSettled
