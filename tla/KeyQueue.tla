-------------------------------- MODULE KeyQueue --------------------------------
(***************************************************************************)
(* The per-key ordered queue of a worker (internal/runtime/keyqueue/       *)
(* queue.go): goroutines that call Submit, queue workers, the hot-key      *)
(* checker and Stop, over the map of per-key channels and the global       *)
(* semaphore.  Everything done under kq.mu, or by one channel operation,   *)
(* is one step.                                                            *)
(*                                                                         *)
(* A queue object lives in a heap, because a goroutine may hold a          *)
(* reference to a queue that has left the map.                             *)
(***************************************************************************)
EXTENDS Integers, Sequences, FiniteSets

CONSTANTS
    Submitter,          \* goroutines that call Submit
    QWorker,            \* queue workers: 1 .. workerCount
    Key,                \* partition keys
    Item,               \* items; each is submitted at most once
    KeyOf,              \* [Item -> Key]
    QueueId,            \* bound: addresses of queue objects
    MaxGlobalInFlight,  \* capacity of globalSem
    MaxPerKey,          \* capacity of a key's channel
    HotKeyThreshold,    \* depth from which a key is hot
    HotKeyCallback,     \* whether one is configured: without it no checker runs
    NoQueue,            \* a nil *keyQueue
    NoItem              \* a nil *queuedItem

ASSUME KeyQueueAssumption ==
    /\ KeyOf \in [Item -> Key]
    /\ MaxGlobalInFlight \in Nat \ {0}
    /\ MaxPerKey \in Nat \ {0}
    /\ HotKeyThreshold \in Nat \ {0}
    /\ HotKeyCallback \in BOOLEAN
    /\ NoQueue \notin QueueId
    /\ NoItem \notin Item

VARIABLES
    queues,     \* [Key -> QueueId \cup {NoQueue}]: the map
    heap,       \* [QueueId -> QueueObject]
    sem,        \* slots of globalSem in use
    started,
    stop,       \* how far Stop is: "no", "submitters", "workers", "returned"
    ctxDone,    \* the worker's context is cancelled
    submitted,  \* items some Submit was called with
    spc, sitem, squeue,  \* of a submitter: phase, item, registered queue
    wpc, witem, wqueue,  \* of a queue worker: phase, item, selected queue
    hpc, hsnap, htodo,   \* of the checker: phase, snapshot of the map, keys to look at
    hotKeys     \* keys tracked as hot

mapVars == <<queues, heap>>
lifeVars == <<started, stop, ctxDone>>
submitVars == <<submitted, spc, sitem, squeue>>
workerVars == <<wpc, witem, wqueue>>
hotVars == <<hpc, hsnap, htodo, hotKeys>>
vars == <<mapVars, sem, lifeVars, submitVars, workerVars, hotVars>>

QueueObject == [ch : Seq(Item), processing : BOOLEAN, submitters : Nat]
EmptyQueue == [ch |-> <<>>, processing |-> FALSE, submitters |-> 0]

Stopping == stop # "no"          \* stopSubmitting is closed
WorkersStopped == stop \in {"workers", "returned"}  \* stopWorkers is closed

-----------------------------------------------------------------------------
(* Submit.                                                                 *)

\* A queue that is not running refuses; otherwise the submission joins submitWG.
BeginSubmission(p, i) ==
    /\ spc[p] = "idle" /\ i \notin submitted
    /\ submitted' = submitted \cup {i}
    /\ IF started /\ ~Stopping
       THEN spc' = [spc EXCEPT ![p] = "slot"] /\ sitem' = [sitem EXCEPT ![p] = i]
       ELSE UNCHANGED <<spc, sitem>>
    /\ UNCHANGED <<mapVars, sem, lifeVars, squeue, workerVars, hotVars>>

AcquireGlobalSlot(p) ==
    /\ spc[p] = "slot"
    /\ \/ /\ sem < MaxGlobalInFlight
          /\ sem' = sem + 1
          /\ spc' = [spc EXCEPT ![p] = "register"]
          /\ UNCHANGED sitem
       \/ /\ ctxDone \/ Stopping
          /\ spc' = [spc EXCEPT ![p] = "idle"]
          /\ sitem' = [sitem EXCEPT ![p] = NoItem]
          /\ UNCHANGED sem
    /\ UNCHANGED <<mapVars, lifeVars, submitted, squeue, workerVars, hotVars>>

Unreferenced ==
    {q \in QueueId : /\ \A k \in Key : queues[k] # q /\ hsnap[k] # q
                     /\ \A p \in Submitter : squeue[p] # q
                     /\ \A w \in QWorker : wqueue[w] # q}

RegisterQueueSubmitter(p) ==
    /\ spc[p] = "register"
    /\ LET k == KeyOf[sitem[p]]
           q == IF queues[k] # NoQueue THEN queues[k] ELSE CHOOSE r \in Unreferenced : TRUE
           object == IF queues[k] # NoQueue THEN heap[q] ELSE EmptyQueue
       IN  /\ queues[k] # NoQueue \/ Unreferenced # {}
           /\ queues' = [queues EXCEPT ![k] = q]
           /\ heap' = [heap EXCEPT ![q] = [object EXCEPT !.submitters = @ + 1]]
           /\ squeue' = [squeue EXCEPT ![p] = q]
    /\ spc' = [spc EXCEPT ![p] = "enqueue"]
    /\ UNCHANGED <<sem, lifeVars, submitted, sitem, workerVars, hotVars>>

\* A mistake: the send does not watch for cancellation.
EnqueueItemDeaf(p) ==
    /\ spc[p] = "enqueue"
    /\ Len(heap[squeue[p]].ch) < MaxPerKey
    /\ heap' = [heap EXCEPT ![squeue[p]].ch = Append(@, sitem[p])]
    /\ spc' = [spc EXCEPT ![p] = "finish"]
    /\ UNCHANGED <<queues, sem, lifeVars, submitted, sitem, squeue, workerVars, hotVars>>

\* The send, or a cancellation that gives the slot back; select takes either
\* when both are ready.
EnqueueItem(p) ==
    /\ spc[p] = "enqueue"
    /\ \/ /\ Len(heap[squeue[p]].ch) < MaxPerKey
          /\ heap' = [heap EXCEPT ![squeue[p]].ch = Append(@, sitem[p])]
          /\ UNCHANGED sem
       \/ /\ ctxDone \/ Stopping
          /\ sem' = sem - 1
          /\ UNCHANGED heap
    /\ spc' = [spc EXCEPT ![p] = "finish"]
    /\ UNCHANGED <<queues, lifeVars, submitted, sitem, squeue, workerVars, hotVars>>

\* A mistake: the queue of a key that is being processed is dropped.
FinishSubmitDrops(p) ==
    /\ spc[p] = "finish"
    /\ LET q == squeue[p]  k == KeyOf[sitem[p]]
           left == IF heap[q].submitters = 0 THEN 0 ELSE heap[q].submitters - 1
           unused == queues[k] = q /\ left = 0 /\ heap[q].ch = <<>>
       IN  /\ heap' = [heap EXCEPT ![q].submitters = left]
           /\ queues' = [queues EXCEPT ![k] = IF unused THEN NoQueue ELSE @]
    /\ spc' = [spc EXCEPT ![p] = "idle"]
    /\ sitem' = [sitem EXCEPT ![p] = NoItem]
    /\ squeue' = [squeue EXCEPT ![p] = NoQueue]
    /\ UNCHANGED <<sem, lifeVars, submitted, workerVars, hotVars>>

\* finishSubmit, then the deferred submitWG.Done.
FinishSubmit(p) ==
    /\ spc[p] = "finish"
    /\ LET q == squeue[p]  k == KeyOf[sitem[p]]
           left == IF heap[q].submitters = 0 THEN 0 ELSE heap[q].submitters - 1
           unused == queues[k] = q /\ ~heap[q].processing /\ left = 0 /\ heap[q].ch = <<>>
       IN  /\ heap' = [heap EXCEPT ![q].submitters = left]
           /\ queues' = [queues EXCEPT ![k] = IF unused THEN NoQueue ELSE @]
    /\ spc' = [spc EXCEPT ![p] = "idle"]
    /\ sitem' = [sitem EXCEPT ![p] = NoItem]
    /\ squeue' = [squeue EXCEPT ![p] = NoQueue]
    /\ UNCHANGED <<sem, lifeVars, submitted, workerVars, hotVars>>

-----------------------------------------------------------------------------
(* The queue workers.                                                      *)

\* workerShouldContinue.
WorkerCheck(w) ==
    /\ wpc[w] = "check"
    /\ wpc' = [wpc EXCEPT ![w] = IF ctxDone \/ WorkersStopped THEN "exited" ELSE "next"]
    /\ UNCHANGED <<mapVars, sem, lifeVars, submitVars, witem, wqueue, hotVars>>

Ready == {k \in Key : /\ queues[k] # NoQueue
                      /\ ~heap[queues[k]].processing
                      /\ heap[queues[k]].ch # <<>>}

\* A mistake: the queue is not marked while its item is being processed.
NextEventUnmarked(w) ==
    /\ wpc[w] = "next"
    /\ \/ \E k \in Ready :
            /\ wqueue' = [wqueue EXCEPT ![w] = queues[k]]
            /\ wpc' = [wpc EXCEPT ![w] = "receive"]
       \/ Ready = {} /\ wpc' = [wpc EXCEPT ![w] = "check"] /\ UNCHANGED wqueue
    /\ UNCHANGED <<mapVars, sem, lifeVars, submitVars, witem, hotVars>>

\* nextEvent, up to the unlock: any ready queue is marked (the map's iteration
\* order is random); with none the worker waits and starts over.
NextEvent(w) ==
    /\ wpc[w] = "next"
    /\ \/ \E k \in Ready :
            /\ heap' = [heap EXCEPT ![queues[k]].processing = TRUE]
            /\ wqueue' = [wqueue EXCEPT ![w] = queues[k]]
            /\ wpc' = [wpc EXCEPT ![w] = "receive"]
       \/ Ready = {} /\ wpc' = [wpc EXCEPT ![w] = "check"] /\ UNCHANGED <<heap, wqueue>>
    /\ UNCHANGED <<queues, sem, lifeVars, submitVars, witem, hotVars>>

\* nextEvent, after the unlock: the receive, which blocks on an empty channel.
Receive(w) ==
    /\ wpc[w] = "receive"
    /\ heap[wqueue[w]].ch # <<>>
    /\ witem' = [witem EXCEPT ![w] = Head(heap[wqueue[w]].ch)]
    /\ heap' = [heap EXCEPT ![wqueue[w]].ch = Tail(@)]
    /\ wqueue' = [wqueue EXCEPT ![w] = NoQueue]
    /\ wpc' = [wpc EXCEPT ![w] = "process"]
    /\ UNCHANGED <<queues, sem, lifeVars, submitVars, hotVars>>

\* The processor returns, with or without an error.
Processed(w) ==
    /\ wpc[w] = "process"
    /\ wpc' = [wpc EXCEPT ![w] = "finish"]
    /\ UNCHANGED <<mapVars, sem, lifeVars, submitVars, witem, wqueue, hotVars>>

\* finishEvent finds the queue by the item's key.
FinishEvent(w) ==
    /\ wpc[w] = "finish"
    /\ LET k == KeyOf[witem[w]]  q == queues[k] IN
       IF q = NoQueue THEN UNCHANGED mapVars
       ELSE /\ heap' = [heap EXCEPT ![q].processing = FALSE]
            /\ queues' = [queues EXCEPT ![k] =
                            IF heap[q].submitters = 0 /\ heap[q].ch = <<>> THEN NoQueue ELSE @]
    /\ wpc' = [wpc EXCEPT ![w] = "release"]
    /\ UNCHANGED <<sem, lifeVars, submitVars, witem, wqueue, hotVars>>

ReleaseSlot(w) ==
    /\ wpc[w] = "release"
    /\ sem' = sem - 1
    /\ witem' = [witem EXCEPT ![w] = NoItem]
    /\ wpc' = [wpc EXCEPT ![w] = "check"]
    /\ UNCHANGED <<mapVars, lifeVars, submitVars, wqueue, hotVars>>

-----------------------------------------------------------------------------
(* The hot-key checker.                                                    *)

HotSnapshot ==
    /\ hpc = "idle" /\ ~ctxDone /\ ~WorkersStopped
    /\ hsnap' = queues
    /\ htodo' = {k \in Key : queues[k] # NoQueue}
    /\ hpc' = "update"
    /\ UNCHANGED <<mapVars, sem, lifeVars, submitVars, workerVars, hotKeys>>

\* updateHotKeyState looks at the channels without kq.mu, one after the other.
HotUpdate(k) ==
    /\ hpc = "update" /\ k \in htodo
    /\ hotKeys' = IF Len(heap[hsnap[k]].ch) >= HotKeyThreshold
                  THEN hotKeys \cup {k} ELSE hotKeys \ {k}
    /\ htodo' = htodo \ {k}
    /\ UNCHANGED <<mapVars, sem, lifeVars, submitVars, workerVars, hpc, hsnap>>

\* Its last loop, and the notices.
HotPrune ==
    /\ hpc = "update" /\ htodo = {}
    /\ hotKeys' = {k \in hotKeys : hsnap[k] # NoQueue}
    /\ hsnap' = [k \in Key |-> NoQueue]
    /\ hpc' = "idle"
    /\ UNCHANGED <<mapVars, sem, lifeVars, submitVars, workerVars, htodo>>

HotExit ==
    /\ hpc = "idle" /\ (ctxDone \/ WorkersStopped)
    /\ hpc' = "exited"
    /\ UNCHANGED <<mapVars, sem, lifeVars, submitVars, workerVars, hsnap, htodo, hotKeys>>

-----------------------------------------------------------------------------
(* The life of the queue.                                                  *)

Start ==
    /\ ~started /\ ~Stopping
    /\ started' = TRUE
    /\ wpc' = [w \in QWorker |-> "check"]
    /\ hpc' = IF HotKeyCallback THEN "idle" ELSE "off"
    /\ UNCHANGED <<mapVars, sem, stop, ctxDone, submitVars, witem, wqueue, hsnap, htodo, hotKeys>>

CancelContext ==
    /\ ~ctxDone
    /\ ctxDone' = TRUE
    /\ UNCHANGED <<mapVars, sem, started, stop, submitVars, workerVars, hotVars>>

StopSubmitting ==
    /\ stop = "no"
    /\ stop' = "submitters"
    /\ UNCHANGED <<mapVars, sem, started, ctxDone, submitVars, workerVars, hotVars>>

\* submitWG.Wait, then the workers and the checker are told.
StopWorkers ==
    /\ stop = "submitters"
    /\ \A p \in Submitter : spc[p] = "idle"
    /\ stop' = "workers"
    /\ UNCHANGED <<mapVars, sem, started, ctxDone, submitVars, workerVars, hotVars>>

StopReturn ==
    /\ stop = "workers"
    /\ \A w \in QWorker : wpc[w] \in {"off", "exited"}
    /\ hpc \in {"off", "exited"}
    /\ stop' = "returned"
    /\ UNCHANGED <<mapVars, sem, started, ctxDone, submitVars, workerVars, hotVars>>

-----------------------------------------------------------------------------
Init ==
    /\ queues = [k \in Key |-> NoQueue]
    /\ heap = [q \in QueueId |-> EmptyQueue]
    /\ sem = 0
    /\ started = FALSE /\ stop = "no" /\ ctxDone = FALSE
    /\ submitted = {}
    /\ spc = [p \in Submitter |-> "idle"]
    /\ sitem = [p \in Submitter |-> NoItem]
    /\ squeue = [p \in Submitter |-> NoQueue]
    /\ wpc = [w \in QWorker |-> "off"]
    /\ witem = [w \in QWorker |-> NoItem]
    /\ wqueue = [w \in QWorker |-> NoQueue]
    /\ hpc = "off" /\ hsnap = [k \in Key |-> NoQueue] /\ htodo = {}
    /\ hotKeys = {}

SubmitStep(p) ==
    \/ AcquireGlobalSlot(p) \/ RegisterQueueSubmitter(p) \/ EnqueueItem(p) \/ FinishSubmit(p)

WorkerStep(w) ==
    \/ WorkerCheck(w) \/ NextEvent(w) \/ Receive(w)
    \/ Processed(w) \/ FinishEvent(w) \/ ReleaseSlot(w)

HotStep == HotSnapshot \/ (\E k \in Key : HotUpdate(k)) \/ HotPrune \/ HotExit

StopStep == StopWorkers \/ StopReturn

Next ==
    \/ \E p \in Submitter : SubmitStep(p) \/ \E i \in Item : BeginSubmission(p, i)
    \/ \E w \in QWorker : WorkerStep(w)
    \/ HotStep
    \/ Start \/ CancelContext \/ StopSubmitting \/ StopStep

Spec == Init /\ [][Next]_vars

\* The Go scheduler runs every goroutine that can run, and the processor
\* returns: its database calls end with its context.
FairSpec ==
    /\ Spec
    /\ \A p \in Submitter : WF_vars(SubmitStep(p))
    /\ \A w \in QWorker : WF_vars(WorkerStep(w))
    /\ WF_vars(HotStep)
    /\ WF_vars(StopStep)

-----------------------------------------------------------------------------
(* Properties.                                                             *)

TypeOK ==
    /\ queues \in [Key -> QueueId \cup {NoQueue}]
    /\ heap \in [QueueId -> QueueObject]
    /\ sem \in 0 .. MaxGlobalInFlight
    /\ started \in BOOLEAN /\ ctxDone \in BOOLEAN
    /\ stop \in {"no", "submitters", "workers", "returned"}
    /\ submitted \subseteq Item
    /\ spc \in [Submitter -> {"idle", "slot", "register", "enqueue", "finish"}]
    /\ sitem \in [Submitter -> Item \cup {NoItem}]
    /\ squeue \in [Submitter -> QueueId \cup {NoQueue}]
    /\ wpc \in [QWorker -> {"off", "check", "next", "receive", "process", "finish", "release", "exited"}]
    /\ witem \in [QWorker -> Item \cup {NoItem}]
    /\ wqueue \in [QWorker -> QueueId \cup {NoQueue}]
    /\ hpc \in {"off", "idle", "update", "exited"}
    /\ hsnap \in [Key -> QueueId \cup {NoQueue}]
    /\ htodo \subseteq Key /\ hotKeys \subseteq Key

\* Every slot of globalSem belongs to one submission past acquireGlobalSlot,
\* one queued item or one item in a worker's hands: none is leaked and none
\* is given back twice, whichever way Submit and the workers end.
SlotsAccounted ==
    sem = Cardinality({p \in Submitter : spc[p] \in {"register", "enqueue"}})
        + Cardinality({s \in Key \X (1 .. MaxPerKey) :
                          queues[s[1]] # NoQueue /\ s[2] <= Len(heap[queues[s[1]]].ch)})
        + Cardinality({w \in QWorker : wpc[w] \in {"process", "finish", "release"}})

\* A queue that a submitter is registered with, that holds items or whose
\* item is being received is the one the map has for its key: finishSubmit
\* and finishEvent never drop a queue that is in use.
QueueInUseIsMapped ==
    /\ \A p \in Submitter : spc[p] \in {"enqueue", "finish"} => queues[KeyOf[sitem[p]]] = squeue[p]
    /\ \A q \in QueueId : heap[q].ch # <<>> => \E k \in Key : queues[k] = q
    /\ \A w \in QWorker : wpc[w] \in {"process", "finish"} =>
           /\ queues[KeyOf[witem[w]]] # NoQueue
           /\ heap[queues[KeyOf[witem[w]]]].processing

\* nextEvent's receive happens after the locks are released, and still never
\* blocks: nobody else takes from a marked queue.
ReceiveNeverBlocks ==
    \A w \in QWorker : wpc[w] = "receive" => heap[wqueue[w]].ch # <<>>

\* Once Stop has returned nothing runs: no worker has an item, and no Submit
\* is in progress or will put another item into a queue.
StoppedIsQuiet ==
    stop = "returned" =>
        /\ \A w \in QWorker : witem[w] = NoItem
        /\ \A p \in Submitter : spc[p] = "idle"

\* What the locks of queue.go protect, whichever way Submit, the workers and
\* Stop interleave: no slot leaks, no queue in use is dropped from the map, no
\* receive blocks while marked, and nothing runs after Stop.
QueueConsistent ==
    TypeOK /\ SlotsAccounted /\ QueueInUseIsMapped /\ ReceiveNeverBlocks /\ StoppedIsQuiet

fifoOf == [k \in Key |-> IF queues[k] = NoQueue THEN <<>> ELSE heap[queues[k]].ch]
busyOf ==
    [k \in Key |->
        LET W == {w \in QWorker : wpc[w] = "process" /\ KeyOf[witem[w]] = k}
        IN  IF W = {} THEN NoItem ELSE witem[CHOOSE w \in W : TRUE]]
Promise == INSTANCE KeyedFIFO WITH fifo <- fifoOf, busy <- busyOf

\* The queue implements KeyedFIFO: one item of a key at a time, in the order
\* of the sends, and no accepted item disappears.
ImplementsKeyedFIFO == Promise!FIFOSpec

InChannel(i) ==
    \E q \in QueueId : \E n \in 1 .. Len(heap[q].ch) : heap[q].ch[n] = i

\* An accepted item is taken by a worker, unless the queue is shut down first
\* (Stop and a cancelled context leave what is queued to redelivery).
QueuedIsTaken == \A i \in Item : InChannel(i) ~> ~InChannel(i) \/ Stopping \/ ctxDone

\* Submit returns: neither the semaphore nor a full channel holds it forever,
\* also while the queue is being stopped.
SubmitReturns == \A p \in Submitter : spc[p] # "idle" ~> spc[p] = "idle"

\* Stop returns: it waits for submissions and workers, which all end.
StopReturns == Stopping ~> stop = "returned"

\* The queue makes progress: what it has accepted is taken, and the calls that
\* may block, Submit and Stop, return.
QueueProgresses == QueuedIsTaken /\ SubmitReturns /\ StopReturns
=============================================================================
