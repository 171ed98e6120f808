SPECIFICATION Spec
CONSTANTS
    Threads = {t1, t2}
    Lgwr = Lgwr
    Gc = Gc
    Classes = {c1}
    PerSeg <- MCPerSeg
    NSegs = 2
    FreeLen = 1
    MayFail = {t1, t2, Lgwr}
    None = None
SYMMETRY Symm
INVARIANTS
    TypeOK
    SlabsApart
    CountsExact
    AssertsHold
