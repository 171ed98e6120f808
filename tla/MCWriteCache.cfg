SPECIFICATION FairSpec
CONSTANTS
    c1 = c1
    c2 = c2
    a1 = a1
    a2 = a2
    k1 = k1
    k2 = k2
    k3 = k3
    None = None
    Clients = {c1, c2}
    Workers = {a1, a2}
    Keys = {k1, k2, k3}
    BucketOf <- TwoSlabs
    NSlabs = 2
    PerSlab = 2
    Shards <- SmallShards
    MaxCommit = 1
INVARIANTS TypeOK CacheCoherent RqstValid NoClash TokensConserved
PROPERTIES OpsReturn
