SPECIFICATION FormSpec
CONSTANTS
    Amount = {1, 2}
    Terms = {t1, t2}
    MaxAsked = 4
    t1 = t1
    t2 = t2
CHECK_DEADLOCK FALSE
INVARIANTS
    NoCascade
    SettledFormQuoted
