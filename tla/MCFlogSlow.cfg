SPECIFICATION Spec
CONSTANTS
    Shards <- SlowShard
CHECK_DEADLOCK FALSE
INVARIANT AckedRecovered
