SPECIFICATION PageSpec
CONSTANTS
    MaxAttempts = 2
    MAX_BLOCKHASH_RETRIES = 2
    Mode = {"single_tx", "legacy_two_tx", "mobile"}
CHECK_DEADLOCK FALSE
INVARIANTS
    OneOfEach
    FeeFirst
    ContextLoggedOnce
    LoggedWasSent
PROPERTY
    EveryPressEnds
