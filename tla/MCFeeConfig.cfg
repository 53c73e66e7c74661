SPECIFICATION ConfigSpec
CONSTANTS
    r1 = r1
    r2 = r2
    Replica = {r1, r2}
    MaxCalls = 2
    NumTiers = 2
    WHOLE = 20
    InitialConfig <- MCConfig
    InitialTier <- MCTier
    DefaultConfig <- MCDefault
    DefaultTiers <- MCDefaultTiers
    ConfigChanges <- MCConfigChanges
    TierChanges <- MCTierChanges
    Reads <- MCReads
CHECK_DEADLOCK FALSE
INVARIANT
    PortionsWhole
PROPERTY
    CachesSettle
