SPECIFICATION FairSpec
CONSTANTS
    s1 = s1
    k1 = k1
    NoOwner = NoOwner
    OkEvent = {e1}
    BadEvent = {e2}
    Worker = {w1, w2}
    Delivery = {d1, d2}
    Shard <- MCShard
    Event <- MCEvent
    ShardOf <- MCShardOf
    KeyOf <- MCKeyOf
    Kinds <- MCKinds
    Backends = {"postgres", "mongo"}
    MaxRev = 2
    MaxFaults = 1
CHECK_DEADLOCK FALSE
INVARIANTS AtMostOneExecution AckedIsDurable SnapshotQuarantine
PROPERTIES LockedCommitIsFenced EveryEventSettles
