SPECIFICATION FairSpec
CONSTANTS
    Shards <- LiveShard
    PotPages = {p1, p2}
    Debris = Debris
CHECK_DEADLOCK FALSE
PROPERTIES
    SyncReturns
    SlotsReturn
