SPECIFICATION FairSpec
CONSTANTS
    w1 = w1
    Others = {}
    NoOwner = NoOwner
    Worker <- MCWorker
    FirstOwner <- MCFirstOwner
    NumShards = 2
    PerShard = 2
    FetchBatch = 3
    MaxMoves = 3
    EventType = {1, 2}
    MaxEvents = 2
    MaxFaults = 1
PROPERTIES  OwnerHasConsumers EveryMessageConsumed
