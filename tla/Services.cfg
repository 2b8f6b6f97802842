SPECIFICATION MCSpec
CHECK_DEADLOCK FALSE
CONSTANTS
    Source <- MCSource
    Event <- MCEvent
    MaxRulesPerSet = 2
    MaxPredicates = 3
    MaxNestingDepth = 2
    MaxActionsPerSet = 4
    MaxPayloadBytes = 4
    LongID = {"long"}
    ExpFrom = 8
    Request = {x1, x2}
    Document <- MCDocument
    MaxCalls = 4
    WorkflowID = {w}
    Tenant = {t1, t2}
    WorkflowType = {ty}
    WfRequest = {x1, x2}
    MaxWfCalls = 3
    DomainID = {d1}
    ServiceID = {c1, c2}
    ItemName = {n1, n2}
    EventType = {e}
    EndpointURL <- MCURL
    DsRequest = {x1, x2}
    MaxFanOut = 1
    AllowHTTP = FALSE
    MaxDsCalls = 4
    NEntries = 3
    Grouping <- MCGrouping
    BtWorker = {x1, x2}
    MaxBatch = 2
    ListFactor = 2
    MaxManual <- MCMaxManual
    RecordID = {c1, c2, q}
    sourceType <- MCSourceType
    authority <- MCAuthority
    QTenant = {"ta"}
    Unscoped = ""
    Instant = {1, 2}
    SourceFilter = {"any", "effect"}
    PageLimit = 1
    MaxOffset = 3
    RWorker = {x1, x2}
    NumShards = 1
    Subject = {c1, c2}
    Message = {m1, m2}
    Broken = {m2}
    shardOf <- MCShardOf
    hashStart <- MCHash
    WorkerReplicas = 2
    MaxStarts = 2
    RPublisher = {x1, x2}
    RustEffect = {f1}
    RustTimer = {g1}
    RMaxAttempts <- MCMaxAttempts
    RBatchSize = 1
    MaxLapses = 1
    RSetting <- MCSetting
    RNoClaimant = RNoClaimant
    RGone = RGone
    Guard = {x1, x2, x3}
    Limit = 1
    Window = 3
    MaxClock = 4
    MaxRequests = 3
    SdkCaller = {x1, x2}
    SdkSubscriber = {s}
    SdkBatch <- MCSdkBatch
    RoutedRuleSet <- MCRouted
    Contract <- MCContract
    KeyExtractor = ""
    OtherMessage <- MCOther
    SdkMaxRetries = 1
    MaxSdkEvents = 2
    WorkerConfig <- MCWorkerConfig
    DefaultConfig <- MCDefaultConfig
    Actor = {x1, x2}
    Channel = {c1, c2}
SYMMETRY Symmetry
INVARIANTS
    DecisionsCorrect RuntimesAgree ActiveRevisionIsStored NoLostTransition
    SubscriptionsResolve BatchesRunOnce PagedListingIsComplete
    RustSettlesOnce RustOutcomeEarned RedisAdaptersSound
    SdkKeepsEvents RunsOnHeldResources
PROPERTIES
    ActivationsSerialise ReactivatedByRaceOnly FanOutIsComplete RustCommitsFenced RustKeepsClaims
