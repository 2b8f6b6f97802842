SPECIFICATION Spec
CONSTANTS
    s1 = s1
    k1 = k1
    NoOwner = NoOwner
    OkEvent = {e1}
    BadEvent = {}
    Worker = {w1, w2}
    Delivery = {d1, d2}
    Shard <- MCShard
    Event <- MCEvent
    ShardOf <- MCShardOf
    KeyOf <- MCKeyOf
    Kinds <- MCKinds
    Backends = {"postgres"}
    MaxRev = 2
    MaxFaults = 1
SYMMETRY Symmetry
CHECK_DEADLOCK FALSE
INVARIANTS QuarantinedIsPermanent
