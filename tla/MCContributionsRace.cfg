SPECIFICATION ContributionSpec
CONSTANTS
    Call = {a, b, c}
    LastDay = 2
    WEEK = 1
    Crowd = 2
    Link = {l1, l2}
    WEEKLY_CATEGORY_LIMITS <- MCLimits
    Points = {2, 3}
    Asked = {1, 2, 3}
    SwapPoints = {5}
    COMMUNITY_POINTS_WEEKLY_CAP = 4
    COMMUNITY_POINTS_MAX_PERCENTAGE = 40
    MIN_POINTS_FOR_CAP_ENFORCEMENT = 5
SYMMETRY Requests
CHECK_DEADLOCK FALSE
INVARIANT
    WeeklyCap
