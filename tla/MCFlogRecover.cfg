SPECIFICATION Spec
CONSTANTS
    Shards <- FlogShards
CHECK_DEADLOCK FALSE
INVARIANTS
    TypeOK
    AckedRecovered
    NoStaleRecords
    AssertsHold
    RecoveredPrefix
