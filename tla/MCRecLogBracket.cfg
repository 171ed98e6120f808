SPECIFICATION Spec
CONSTANTS
    Shards <- BracketShard
    PotPages = {p1, p2}
    Debris = Debris
SYMMETRY Symm
CHECK_DEADLOCK FALSE
INVARIANTS
    OpenBracketsSaved
