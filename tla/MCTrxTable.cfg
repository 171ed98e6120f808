SPECIFICATION Spec
CONSTANTS
    Threads = {t1, t2}
    Shards = {s1, s2}
    Keys = {k1}
    NoThread = NoThread
    NBuckets = 2
    TrxBuf = 1
    Grow = 3
    TrxLimit = 2
    BlkSlots = 3
    TotalSlots = 6
    MaxCalls = 7
SYMMETRY Symm
CHECK_DEADLOCK FALSE
INVARIANTS
    TypeOK
    OneConcluder
    TrxWhole
    ReplayMatches
    NoDangling
