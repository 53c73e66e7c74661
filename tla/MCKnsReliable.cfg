SPECIFICATION ReliableSpec
CONSTANTS
    w1 = w1
    w2 = w2
    w3 = w3
    r1 = r1
    Wallet = {w1, w2, w3}
    Replica = {r1}
    LastDay = 2
    CHUNK_SIZE = 2
INVARIANTS
    SettledSuccessPaid
    OneRowPerWallet
PROPERTY
    SuccessEventuallyPaid
