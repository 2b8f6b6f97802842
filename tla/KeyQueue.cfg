SPECIFICATION FairSpec
CONSTANTS
    Submitter = {p1, p2}
    QWorker = {x1, x2}
    k1 = k1
    k2 = k2
    HotItem = {i1, i2}
    OtherItem = {}
    Key <- MCKey
    Item <- MCItem
    KeyOf <- MCKeyOf
    QueueId = {q1, q2, q3}
    MaxGlobalInFlight = 2
    MaxPerKey = 1
    HotKeyThreshold = 1
    HotKeyCallback = TRUE
    NoQueue = NoQueue
    NoItem = NoItem
CHECK_DEADLOCK FALSE
INVARIANTS QueueConsistent
PROPERTIES ImplementsKeyedFIFO QueueProgresses
