SPECIFICATION FairSpec
CONSTANTS
    Threads = {t1, t2, t3}
    NoThread = NoThread
    NBufs = 2
    BufRecs = 2
    MaxTrx = 3
    MaxLsn = 3
CHECK_DEADLOCK FALSE
INVARIANTS
    IInv
    AckedDurable
    NoHole
PROPERTIES
    Refines
    CallsReturn
