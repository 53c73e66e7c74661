SPECIFICATION KnsSpec
CONSTANTS
    w1 = w1
    w2 = w2
    r1 = r1
    r2 = r2
    Wallet = {w1, w2}
    Replica = {r1, r2}
    LastDay = 2
    CHUNK_SIZE = 1
SYMMETRY MCSymmetry
INVARIANTS
    AtMostOncePerDay
    CreditsRecorded
    CreditsHaveRows
PROPERTY
    ImplementsAwards
