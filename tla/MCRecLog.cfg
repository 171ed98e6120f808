SPECIFICATION Spec
CONSTANTS
    Shards <- SmallShards
    PotPages = {p1, p2}
    Debris = Debris
SYMMETRY Symm
CHECK_DEADLOCK FALSE
INVARIANTS
    TypeOK
    AssertsHold
    RecoveredPrefix
    MergesWholeLog
    RevertsOnlyOpen
