SPECIFICATION FairSpec
CONSTANTS
    w1 = w1
    Others = {w2}
    NoOwner = NoOwner
    Worker <- MCWorker
    FirstOwner <- MCFirstOwner
    NumShards = 1
    PerShard = 2
    FetchBatch = 3
    MaxMoves = 1
    EventType = {1, 2}
    MaxEvents = 1
    MaxFaults = 0
PROPERTIES OwnerHasConsumers
