------------------------------ MODULE MCServices ------------------------------
(***************************************************************************)
(* The rule language, rule activation, workflow instances, tenant domain   *)
(* services, batches, the quarantine store, the Rust worker with its       *)
(* publishers, the Redis adapters, the Go SDK's client and the processes'  *)
(* life cycle, explored side by side: they share no state here, so a       *)
(* behaviour moves the one part it has chosen and leaves the others where  *)
(* they started.                                                           *)
(***************************************************************************)
EXTENDS MCRules, RuleActivation, Workflow, DomainServices, Batches, Quarantine,
        RustWorker, RustPublishers, RedisAdapters, SDKClient, Processes, TLC

VARIABLE part    \* the part that moves

MCDocument == [number : 1 .. 2, content : {"x", "y"}]
MCURL == {[form |-> "absolute", scheme |-> s] : s \in {"https", "http"}}
MCGrouping == {[e \in 1 .. NEntries |-> "a"], [e \in 1 .. NEntries |-> IF e = 2 THEN "b" ELSE "a"]}
\* One manual batch in the accumulating mode, none beside the windows.
MCMaxManual == [mode \in {"accumulate", "window"} |-> IF mode = "accumulate" THEN 1 ELSE 0]
MCShardOf == [m \in Message |-> 0]
MCHash == [w \in RWorker |-> 0]
MCAuthority == [id \in RecordID |-> "ta"]
\* An effect for a domain service, one whose endpoint is refused outside
\* development, and a command of a development worker without a destination.
MCSetting ==
    LET url(public) == [valid |-> TRUE, https |-> TRUE, public |-> public]
        row(type, public) == [i \in RustEffect |-> [type |-> type, valid |-> TRUE, endpoint |-> url(public)]]
    IN  {[local |-> FALSE, url |-> TRUE, effect |-> row("service_event", TRUE)],
         [local |-> FALSE, url |-> TRUE, effect |-> row("service_event", FALSE)],
         [local |-> TRUE, url |-> FALSE, effect |-> row("command", TRUE)]}
MCMaxAttempts == [i \in RustEffect \cup RustTimer |-> 2]
\* One event, two events whose second one only the broker accepts, two whose second
\* one breaks its contract and two whose second one has no partition key.
MCOrder == [ruleSet |-> <<"order">>, fields |-> "Amount" :> "7" @@ "Customer" :> "k",
            marked |-> "Customer", key |-> "", bytes |-> FALSE]
MCPay == [ruleSet |-> <<"pay">>, fields |-> << >>, marked |-> "", key |-> "k", bytes |-> TRUE]
MCSdkBatch == {<<MCPay>>, <<MCPay, MCOrder>>, <<MCPay, [MCOrder EXCEPT !.fields = "Customer" :> "k"]>>,
               <<MCOrder, [MCPay EXCEPT !.key = ""]>>}
MCContract == {[key |-> <<"order", "v1">>, required |-> {"Amount"}],
               [key |-> <<"order", "v2">>, required |-> {"Amount", "Customer"}]}
MCRouted == {<<"order">>}
MCOther == {[tenant |-> "own", type |-> <<"order">>, valid |-> TRUE],
            [tenant |-> "own", type |-> <<"pay">>, valid |-> TRUE],
            [tenant |-> "other", type |-> <<"pay">>, valid |-> FALSE]}
MCDefaultConfig == [inFlight |-> 3, fetch |-> 3]
MCWorkerConfig == [inFlight : {-1, 0, 2}, fetch : {0, 2, 4}]

\* The processes and requests of a part, and its services, subjects or records.
CONSTANTS Actor, Channel
Symmetry == Permutations(Actor) \cup Permutations(Channel)

MCSourceType == [id \in RecordID |-> IF id \in Channel THEN "effect" ELSE "event"]

\* A part that does not move starts with what its properties look at in the
\* initial state, and everything else at 0.
LangStart ==
    IF part = "language" THEN LangInit
    ELSE source = 0 /\ stage = "source" /\ revision = {} /\ event = {}
         /\ decision = Undecided /\ rustDecision = Undecided
ActStart ==
    IF part = "activation" THEN ActInit
    ELSE backend = 0 /\ revisions = 0 /\ activation = {} /\ call = [r \in Request |-> IdleCall]
         /\ calls = 0 /\ overtaken = 0
WfStart ==
    IF part = "workflow" THEN WfInit
    ELSE instances = [w \in WorkflowID |-> {}] /\ wfCall = 0 /\ wfCalls = 0 /\ answeredOk = 0
DsStart ==
    IF part = "domains" THEN DsInit
    ELSE dsBackend = 0 /\ domains = 0 /\ services = [s \in ServiceID |-> {}] /\ issued = 0
         /\ dsCall = 0 /\ dsCalls = 0 /\ fanOut = {} /\ torn = 0
BtStart ==
    IF part = "batches" THEN BtInit
    ELSE btBackend = 0 /\ btMode = "window" /\ group = 0 /\ batchCol = 0 /\ aged = 0
         /\ leaseOf = 0 /\ ownView = 0 /\ tick = 0 /\ executed = {} /\ runs = {}
         /\ disordered = 0 /\ manuals = 0
QuarStart ==
    IF part = "quarantine" THEN QuarInit
    ELSE qtable = 0 /\ cursor = 0 /\ pager = NoPager /\ reshuffled = FALSE
RwStart ==
    IF part = "rust worker" THEN RwInit
    ELSE rlease = 0 /\ rproc = 0 /\ rscan = 0 /\ rheld = 0 /\ rtask = 0 /\ committed = 0
         /\ executions = [m \in Message |-> 0] /\ quarantined = {} /\ acked = {} /\ starts = 0
PubStart ==
    IF part = "rust publishers" THEN PubInit
    ELSE psetting = 0 /\ pstatus = [i \in PubItem |-> "absent"]
         /\ pholder = [i \in PubItem |-> RNoClaimant] /\ plive = [i \in PubItem |-> FALSE]
         /\ ptries = 0 /\ precords = {} /\ pstep = 0 /\ pbatch = 0 /\ pcur = 0 /\ pseen = 0
         /\ delivered = 0 /\ pfails = 0 /\ lapses = 0
LockStart ==
    IF part = "redis lock" THEN LockInit
    ELSE lockKey = 0 /\ aging = 0 /\ holder = [g \in Guard |-> "none"] /\ renewal = 0
         /\ cancelled = 0 /\ stopping = 0 /\ lost = 0 /\ given = 0 /\ expired = FALSE
LimStart ==
    IF part = "rate limiter" THEN LimInit
    ELSE now = 0 /\ asked = 0 /\ window = 0 /\ expires = 0 /\ allowed = {} /\ delay = 0 /\ requests = 0
SdkStart ==
    IF part = "sdk" THEN SdkInit
    ELSE sdkKind = 0 /\ sdkClosed = 0 /\ sdkTransport = "open" /\ sdkCall = 0 /\ sdkSent = 0
         /\ sdkStream = {} /\ sdkLate = 0 /\ sdkOk = {} /\ sdkSub = [s \in SdkSubscriber |-> NoSubscription]
         /\ sdkOther = 0
PsStart ==
    IF part = "processes" THEN PsInit
    ELSE psKind = 0 /\ psConfig = 0 /\ psPhase = 0 /\ psHeld = 0 /\ psSignal = 0
         /\ psLoop = [l \in ProcLoop |-> "off"] /\ psForced = FALSE

MCInit ==
    /\ part \in {"language", "activation", "workflow", "domains", "batches", "quarantine",
                 "rust worker", "rust publishers", "redis lock", "rate limiter", "sdk",
                 "processes"}
    /\ LangStart /\ ActStart /\ WfStart /\ DsStart /\ BtStart /\ QuarStart
    /\ RwStart /\ PubStart /\ LockStart /\ LimStart /\ SdkStart /\ PsStart

LangStays == IF part = "language" THEN TRUE ELSE UNCHANGED langVars
ActStays == IF part = "activation" THEN TRUE ELSE UNCHANGED actVars
WfStays == IF part = "workflow" THEN TRUE ELSE UNCHANGED wfVars
DsStays == IF part = "domains" THEN TRUE ELSE UNCHANGED dsVars
BtStays == IF part = "batches" THEN TRUE ELSE UNCHANGED btVars
QuarStays == IF part = "quarantine" THEN TRUE ELSE UNCHANGED quarVars
RwStays == IF part = "rust worker" THEN TRUE ELSE UNCHANGED rVars
PubStays == IF part = "rust publishers" THEN TRUE ELSE UNCHANGED pubVars
LockStays == IF part = "redis lock" THEN TRUE ELSE UNCHANGED lockVars
LimStays == IF part = "rate limiter" THEN TRUE ELSE UNCHANGED limiterVars
SdkStays == IF part = "sdk" THEN TRUE ELSE UNCHANGED sdkVars
PsStays == IF part = "processes" THEN TRUE ELSE UNCHANGED psVars

MCNext ==
    /\ UNCHANGED part
    /\ LangStays /\ ActStays /\ WfStays /\ DsStays
    /\ BtStays /\ QuarStays /\ RwStays /\ PubStays /\ LockStays
    /\ LimStays /\ SdkStays /\ PsStays
    /\ \/ part = "language" /\ LangNext
       \/ part = "activation" /\ ActNext
       \/ part = "workflow" /\ WfNext
       \/ part = "domains" /\ DsNext
       \/ part = "batches" /\ BtNext
       \/ part = "quarantine" /\ QuarNext
       \/ part = "rust worker" /\ RwNext
       \/ part = "rust publishers" /\ PubNext
       \/ part = "redis lock" /\ LockNext
       \/ part = "rate limiter" /\ LimNext
       \/ part = "sdk" /\ SdkNext
       \/ part = "processes" /\ PsNext

MCVars == <<part, langVars, actVars, wfVars, dsVars, btVars,
            quarVars, rVars, pubVars, lockVars, limiterVars, sdkVars, psVars>>

MCSpec == MCInit /\ [][MCNext]_MCVars
=============================================================================
