SPECIFICATION FairSpec
CONSTANTS
    Threads = {t1, t2, t3}
    NoThread = NoThread
    MaxCounter = 2
    MaxUnaligned = 2
INVARIANTS
    IInv
    SyncedIsStable
PROPERTY CallsReturn
