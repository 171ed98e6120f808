SPECIFICATION Spec
CONSTANTS
    Threads = {t1, t2}
    Keys = {k1, k2}
    Slabs = {s1, s2, s3}
    None = None
    Vdc = TRUE
    Shards <- SmallShards
    LogRecs = 4
    SyncRecs = 2
    BracketMax = 1
    MaxBrackets = 1
    MaxVer = 3
SYMMETRY Symm
INVARIANTS
    TypeOK
    NeededIntact
    OnePlace
    DeallocFits
