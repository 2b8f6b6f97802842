SPECIFICATION FairSpec
CONSTANTS
    w1 = w1
    w2 = w2
    NoOwner = NoOwner
    Worker <- MCWorker
    NumShards = 3
    ReplicaCount = 2
    TTL = 2
    StartShard <- MCStartShard
    Backends = {"postgres", "mongo"}
    MaxFaults = 1
INVARIANTS HolderUnique OwnedWithinTarget
PROPERTIES ImplementsFencedLease HandoverIsFenced EventuallyCovered StaleViewEnds
