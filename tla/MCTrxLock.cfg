SPECIFICATION FairSpec
CONSTANTS
    Threads = {t1, t2}
    Shards = {s1}
    Keys = {k1}
    NoThread = NoThread
    NBuckets = 2
    TrxBuf = 1
    Grow = 2
    TrxLimit = 3
    BlkSlots = 3
    TotalSlots = 9
    MaxCalls = 5
CHECK_DEADLOCK FALSE
PROPERTY CallsReturn
