----------------------------- MODULE KeyQueueProofs -----------------------------
(***************************************************************************)
(* The key queue keeps its books, drops no queue in use, and implements    *)
(* KeyedFIFO, for any number of submitters, workers, keys and items, and   *)
(* any capacities.                                                         *)
(***************************************************************************)
EXTENDS KeyQueue, TLAPS

Registering == {p \in Submitter : spc[p] \in {"register", "enqueue"}}
QueuedSlots == {s \in Key \X (1 .. MaxPerKey) :
                   queues[s[1]] # NoQueue /\ s[2] <= Len(heap[queues[s[1]]].ch)}
Handling == {w \in QWorker : wpc[w] \in {"process", "finish", "release"}}
RegisteredWith(q) == {p \in Submitter : squeue[p] = q}

\* The queue a worker has marked.
HeldQueue(w) == IF wpc[w] = "receive" THEN wqueue[w]
                ELSE IF wpc[w] \in {"process", "finish"} THEN queues[KeyOf[witem[w]]]
                ELSE NoQueue

\* What is used of finite sets; the library's theorems give it (Counting, at the
\* end), so that they need not be at hand in every step of the proofs.
CountingLaws ==
    /\ IsFiniteSet({}) /\ Cardinality({}) = 0
    /\ \A S : IsFiniteSet(S) => Cardinality(S) \in Nat /\ (Cardinality(S) = 0 <=> S = {})
    /\ \A S, x : IsFiniteSet(S) =>
          /\ IsFiniteSet(S \cup {x})
          /\ Cardinality(S \cup {x}) = IF x \in S THEN Cardinality(S) ELSE Cardinality(S) + 1
          /\ IsFiniteSet(S \ {x})
          /\ Cardinality(S \ {x}) = IF x \in S THEN Cardinality(S) - 1 ELSE Cardinality(S)

-----------------------------------------------------------------------------
(* The inductive invariant.                                                *)

\* A submitter has an item while it runs, and the mapped queue of the item's
\* key while it is registered.
SubmittersInv ==
    \A p \in Submitter :
        /\ spc[p] # "idle" => sitem[p] \in Item
        /\ IF spc[p] \in {"enqueue", "finish"}
           THEN squeue[p] \in QueueId /\ queues[KeyOf[sitem[p]]] = squeue[p]
           ELSE squeue[p] = NoQueue

\* A queue's counter counts the submitters registered with it.
CountersInv ==
    \A q \in QueueId : /\ IsFiniteSet(RegisteredWith(q))
                       /\ heap[q].submitters = Cardinality(RegisteredWith(q))

\* A queue is mapped for one key, holds items of that key only, never more
\* than its channel takes, and none once it has left the map.
MapInv ==
    /\ \A j, k \in Key : queues[j] = queues[k] /\ queues[j] # NoQueue => j = k
    /\ \A q \in QueueId : Len(heap[q].ch) <= MaxPerKey
    /\ \A q \in QueueId : heap[q].ch # <<>> => \E k \in Key : queues[k] = q
    /\ \A k \in Key : queues[k] # NoQueue =>
           \A n \in 1 .. Len(heap[queues[k]].ch) : KeyOf[heap[queues[k]].ch[n]] = k

\* The queue a worker holds is mapped and marked, and no other worker holds it.
WorkersInv ==
    \A w \in QWorker :
        /\ IF wpc[w] \in {"process", "finish", "release"} THEN witem[w] \in Item ELSE witem[w] = NoItem
        /\ IF wpc[w] = "receive"
           THEN /\ wqueue[w] \in QueueId
                /\ heap[wqueue[w]].ch # <<>>
                /\ \E k \in Key : queues[k] = wqueue[w]
           ELSE wqueue[w] = NoQueue
        /\ wpc[w] \in {"process", "finish"} => HeldQueue(w) # NoQueue
        /\ HeldQueue(w) # NoQueue => heap[HeldQueue(w)].processing
        /\ \A x \in QWorker : HeldQueue(x) = HeldQueue(w) /\ HeldQueue(w) # NoQueue => x = w

\* The sets that SlotsAccounted counts are finite.
SlotsInv ==
    /\ IsFiniteSet(Registering) /\ IsFiniteSet(QueuedSlots) /\ IsFiniteSet(Handling)
    /\ sem = Cardinality(Registering) + Cardinality(QueuedSlots) + Cardinality(Handling)

\* Workers run only after Start, and Stop waits for everyone in turn.
LifeInv ==
    /\ ~started => \A w \in QWorker : wpc[w] = "off"
    /\ WorkersStopped => \A p \in Submitter : spc[p] = "idle"
    /\ stop = "returned" => \A w \in QWorker : wpc[w] \in {"off", "exited"}

IInv == TypeOK /\ SubmittersInv /\ CountersInv /\ MapInv /\ WorkersInv /\ SlotsInv /\ LifeInv

-----------------------------------------------------------------------------
\* What the type invariant says of the map and the queues, of submitters and of workers.
LEMMA TypeOfQueues ==
    IInv => queues \in [Key -> QueueId \cup {NoQueue}] /\ heap \in [QueueId -> QueueObject]
BY Zenon DEF IInv, TypeOK

LEMMA TypeOfSubmitters ==
    IInv => /\ spc \in [Submitter -> {"idle", "slot", "register", "enqueue", "finish"}]
            /\ sitem \in [Submitter -> Item \cup {NoItem}]
            /\ squeue \in [Submitter -> QueueId \cup {NoQueue}]
BY Zenon DEF IInv, TypeOK

LEMMA TypeOfWorkers ==
    IInv => /\ wpc \in [QWorker -> {"off", "check", "next", "receive", "process", "finish", "release", "exited"}]
            /\ witem \in [QWorker -> Item \cup {NoItem}]
            /\ wqueue \in [QWorker -> QueueId \cup {NoQueue}]
BY Zenon DEF IInv, TypeOK

\* The three sets are the ones SlotsAccounted counts.
LEMMA SlotsAreAccounted == SlotsInv => SlotsAccounted
BY Zenon DEF SlotsInv, SlotsAccounted, Registering, QueuedSlots, Handling

\* The inductive invariant gives what the run checks.
LEMMA InvariantSuffices == IInv => QueueConsistent
<1> SUFFICES ASSUME IInv PROVE QueueConsistent
  BY Zenon
<1>1. TypeOK
  BY Zenon DEF IInv
<1>2. SlotsAccounted
  BY Zenon, SlotsAreAccounted DEF IInv
<1>3. QueueInUseIsMapped
  BY Zenon DEF IInv, QueueInUseIsMapped, SubmittersInv, MapInv, WorkersInv, HeldQueue
<1>4. ReceiveNeverBlocks
  BY Zenon DEF IInv, ReceiveNeverBlocks, WorkersInv
<1>5. StoppedIsQuiet
  BY Zenon DEF IInv, StoppedIsQuiet, LifeInv, WorkersInv, WorkersStopped
<1> QED
  BY Zenon, <1>1, <1>2, <1>3, <1>4, <1>5 DEF QueueConsistent

\* Nothing is in use when the queue is created.
LEMMA InitInvariant == CountingLaws /\ Init => IInv
<1> SUFFICES ASSUME CountingLaws, Init PROVE IInv
  BY Zenon
<1> USE DEF Init
<1>1. TypeOK
  <2>1. EmptyQueue \in QueueObject
    BY DEF EmptyQueue, QueueObject
  <2>2. heap \in [QueueId -> QueueObject] /\ sem \in 0 .. MaxGlobalInFlight
    BY <2>1, KeyQueueAssumption
  <2>3. started \in BOOLEAN /\ ctxDone \in BOOLEAN
    BY Zenon
  <2> QED
    BY Zenon, <2>2, <2>3 DEF TypeOK
<1>2. SubmittersInv
  BY Zenon DEF SubmittersInv
<1>3. CountersInv
  <2> SUFFICES ASSUME NEW q \in QueueId
               PROVE IsFiniteSet(RegisteredWith(q)) /\ heap[q].submitters = Cardinality(RegisteredWith(q))
    BY Zenon DEF CountersInv
  <2>1. RegisteredWith(q) = {}
    BY Zenon, KeyQueueAssumption DEF RegisteredWith
  <2> QED
    BY Zenon, <2>1 DEF CountingLaws, EmptyQueue
<1>4. MapInv
  BY KeyQueueAssumption DEF MapInv, EmptyQueue
<1>5. WorkersInv
  BY Zenon DEF WorkersInv, HeldQueue
<1>6. SlotsInv
  <2>1. Registering = {} /\ QueuedSlots = {} /\ Handling = {}
    BY Zenon DEF Registering, QueuedSlots, Handling
  <2> QED
    BY <2>1 DEF CountingLaws, SlotsInv
<1>7. LifeInv
  BY Zenon DEF LifeInv, WorkersStopped
<1> QED
  BY Zenon, <1>1, <1>2, <1>3, <1>4, <1>5, <1>6, <1>7 DEF IInv

-----------------------------------------------------------------------------
(* A queue object with one field replaced.                                 *)

LEMMA ObjectWithChannel ==
    ASSUME NEW o \in QueueObject, NEW c \in Seq(Item)
    PROVE  /\ [o EXCEPT !.ch = c] \in QueueObject
           /\ [o EXCEPT !.ch = c].ch = c
           /\ [o EXCEPT !.ch = c].processing = o.processing
           /\ [o EXCEPT !.ch = c].submitters = o.submitters
BY Zenon DEF QueueObject

LEMMA ObjectWithMark ==
    ASSUME NEW o \in QueueObject, NEW b \in BOOLEAN
    PROVE  /\ [o EXCEPT !.processing = b] \in QueueObject
           /\ [o EXCEPT !.processing = b].ch = o.ch
           /\ [o EXCEPT !.processing = b].processing = b
           /\ [o EXCEPT !.processing = b].submitters = o.submitters
BY Zenon DEF QueueObject

LEMMA ObjectWithCount ==
    ASSUME NEW o \in QueueObject, NEW n \in Nat
    PROVE  /\ [o EXCEPT !.submitters = n] \in QueueObject
           /\ [o EXCEPT !.submitters = n].ch = o.ch
           /\ [o EXCEPT !.submitters = n].processing = o.processing
           /\ [o EXCEPT !.submitters = n].submitters = n
BY Zenon DEF QueueObject

-----------------------------------------------------------------------------
(* Submit.                                                                 *)

\* beginSubmission touches no queue.
LEMMA BeginPreserves ==
    ASSUME IInv, NEW p \in Submitter, NEW i \in Item, BeginSubmission(p, i)
    PROVE  IInv'
<1> USE DEF BeginSubmission, mapVars, lifeVars, workerVars, hotVars
<1>1. TypeOK'
  BY Zenon DEF IInv, TypeOK
<1>2. SubmittersInv'
  BY Zenon DEF IInv, TypeOK, SubmittersInv
<1>3. CountersInv'
  BY Zenon DEF IInv, CountersInv, RegisteredWith
<1>4. MapInv'
  BY Zenon DEF IInv, MapInv
<1>5. WorkersInv'
  BY DEF IInv, WorkersInv, HeldQueue
<1>6. SlotsInv'
  <2>1. Registering' = Registering /\ QueuedSlots' = QueuedSlots /\ Handling' = Handling
    BY Zenon, KeyQueueAssumption DEF IInv, TypeOK, Registering, QueuedSlots, Handling
  <2> QED
    BY Zenon, <2>1 DEF IInv, SlotsInv
<1>7. LifeInv'
  BY Zenon DEF IInv, TypeOK, LifeInv, WorkersStopped, Stopping
<1> QED
  BY Zenon, <1>1, <1>2, <1>3, <1>4, <1>5, <1>6, <1>7 DEF IInv

\* acquireGlobalSlot: the slot that is taken is the submitter's own.
LEMMA AcquirePreserves ==
    ASSUME CountingLaws, IInv, NEW p \in Submitter, AcquireGlobalSlot(p)
    PROVE  IInv'
<1> USE DEF AcquireGlobalSlot, mapVars, lifeVars, workerVars, hotVars
<1>1. TypeOK'
  BY KeyQueueAssumption DEF IInv, TypeOK
<1>2. SubmittersInv'
  BY Zenon DEF IInv, TypeOK, SubmittersInv
<1>3. CountersInv'
  BY Zenon DEF IInv, CountersInv, RegisteredWith
<1>4. MapInv'
  BY Zenon DEF IInv, MapInv
<1>5. WorkersInv'
  BY DEF IInv, WorkersInv, HeldQueue
<1>6. SlotsInv'
  <2>1. QueuedSlots' = QueuedSlots /\ Handling' = Handling /\ p \notin Registering
    BY Zenon DEF TypeOK, Registering, QueuedSlots, Handling
  <2>2. CASE spc'[p] = "register"
    <3>1. Registering' = Registering \cup {p} /\ sem' = sem + 1
      BY Zenon, <2>2 DEF IInv, TypeOK, Registering
    <3>2. IsFiniteSet(Registering') /\ Cardinality(Registering') = Cardinality(Registering) + 1
      BY Zenon, <2>1, <3>1 DEF CountingLaws, IInv, SlotsInv
    <3>3. Cardinality(Registering) \in Nat /\ Cardinality(QueuedSlots) \in Nat /\ Cardinality(Handling) \in Nat
      BY Zenon DEF CountingLaws, IInv, SlotsInv
    <3> QED
      BY <2>1, <3>1, <3>2, <3>3 DEF IInv, SlotsInv
  <2>3. CASE spc'[p] # "register"
    <3>1. Registering' = Registering /\ sem' = sem
      BY Zenon, <2>3 DEF IInv, TypeOK, Registering
    <3> QED
      BY Zenon, <2>1, <3>1 DEF IInv, SlotsInv
  <2> QED
    BY Zenon, <2>2, <2>3
<1>7. LifeInv'
  BY Zenon DEF IInv, TypeOK, LifeInv, WorkersStopped, Stopping
<1> QED
  BY Zenon, <1>1, <1>2, <1>3, <1>4, <1>5, <1>6, <1>7 DEF IInv

\* registerQueueSubmitter: a new queue object is one that nothing refers to.
LEMMA RegisterPreserves ==
    ASSUME CountingLaws, IInv, NEW p \in Submitter, RegisterQueueSubmitter(p)
    PROVE  IInv'
<1> USE DEF mapVars, lifeVars, workerVars, hotVars
<1>s. sitem[p] \in Item /\ KeyOf[sitem[p]] \in Key
  BY Zenon, KeyQueueAssumption DEF IInv, RegisterQueueSubmitter, SubmittersInv
<1>q. PICK k \in Key, q \in QueueId, object \in QueueObject :
          /\ k = KeyOf[sitem[p]]
          /\ q = IF queues[k] # NoQueue THEN queues[k] ELSE CHOOSE r \in Unreferenced : TRUE
          /\ object = IF queues[k] # NoQueue THEN heap[q] ELSE EmptyQueue
          /\ queues' = [queues EXCEPT ![k] = q]
          /\ heap' = [heap EXCEPT ![q] = [object EXCEPT !.submitters = @ + 1]]
          /\ squeue' = [squeue EXCEPT ![p] = q]
          /\ queues[k] = NoQueue => q \in Unreferenced
  <2> DEFINE k == KeyOf[sitem[p]]
             q == IF queues[k] # NoQueue THEN queues[k] ELSE CHOOSE r \in Unreferenced : TRUE
             object == IF queues[k] # NoQueue THEN heap[q] ELSE EmptyQueue
  <2>1. queues[k] = NoQueue => q \in Unreferenced
    BY Zenon DEF RegisterQueueSubmitter
  <2>2. q \in QueueId
    BY Zenon, <2>1, <1>s, TypeOfQueues DEF Unreferenced
  <2>3. object \in QueueObject
    BY <2>2 DEF IInv, TypeOK, QueueObject, EmptyQueue
  <2> QED
    BY Zenon, <1>s, <2>1, <2>2, <2>3 DEF RegisterQueueSubmitter
<1>a. /\ spc[p] = "register"
      /\ spc' = [spc EXCEPT ![p] = "enqueue"]
      /\ squeue' = [squeue EXCEPT ![p] = q]
      /\ UNCHANGED <<sem, lifeVars, submitted, sitem, workerVars, hotVars>>
  BY Zenon, <1>q DEF RegisterQueueSubmitter
<1>b. sitem[p] \in Item /\ k \in Key /\ k = KeyOf[sitem[p]]
  BY Zenon, <1>s, <1>q
<1>c. q \in QueueId /\ q # NoQueue
  BY Zenon, KeyQueueAssumption DEF IInv
<1>d. queues[k] = NoQueue =>
          /\ \A j \in Key : queues[j] # q
          /\ \A r \in Submitter : squeue[r] # q
          /\ \A w \in QWorker : wqueue[w] # q
  BY Zenon, <1>q DEF Unreferenced
<1>e. /\ queues[k] = NoQueue => object = EmptyQueue
      /\ queues[k] # NoQueue => q = queues[k] /\ object = heap[q]
  BY Zenon, <1>q
<1>f. /\ heap'[q].ch = object.ch /\ heap'[q].processing = object.processing
      /\ heap'[q].submitters = object.submitters + 1
      /\ heap'[q] \in QueueObject
      /\ \A r \in QueueId : r # q => heap'[r] = heap[r]
      /\ heap' \in [QueueId -> QueueObject]
  <2> DEFINE new == [object EXCEPT !.submitters = @ + 1]
  <2>1. /\ new \in QueueObject /\ new.ch = object.ch /\ new.processing = object.processing
        /\ new.submitters = object.submitters + 1
    BY DEF QueueObject
  <2>2. heap \in [QueueId -> QueueObject] /\ heap' = [heap EXCEPT ![q] = new]
    BY Zenon, <1>q, TypeOfQueues, TypeOfSubmitters
  <2> HIDE DEF new
  <2> QED
    BY Zenon, <2>1, <2>2
<1>g. /\ queues'[k] = q /\ \A j \in Key : j # k => queues'[j] = queues[j]
      /\ queues' \in [Key -> QueueId \cup {NoQueue}]
  BY Zenon, <1>q, TypeOfQueues, TypeOfSubmitters
<1>1. TypeOK'
  BY Zenon, <1>a, <1>f, <1>g DEF IInv, TypeOK
<1>h. \A r \in QueueId : heap'[r].ch = heap[r].ch
    BY <1>d, <1>e, <1>f DEF IInv, MapInv, EmptyQueue
<1>2. SubmittersInv'
  <2>1. \A r \in Submitter : r # p => spc'[r] = spc[r] /\ squeue'[r] = squeue[r]
    BY <1>a DEF TypeOK
  <2>2. spc'[p] = "enqueue" /\ squeue'[p] = q
    BY Zenon, <1>a, KeyQueueAssumption DEF IInv, TypeOK
  <2>3. \A j \in Key : queues[j] # NoQueue => queues'[j] = queues[j]
    BY Zenon, <1>e, <1>g
  <2>4. \A r \in Submitter : spc[r] \in {"enqueue", "finish"} =>
            KeyOf[sitem[r]] \in Key /\ queues[KeyOf[sitem[r]]] # NoQueue
    BY Zenon, KeyQueueAssumption DEF IInv, SubmittersInv
  <2> QED
    BY <1>a, <1>b, <1>g, <2>1, <2>2, <2>3, <2>4 DEF IInv, SubmittersInv
<1>3. CountersInv'
  <2> SUFFICES ASSUME NEW r \in QueueId
               PROVE IsFiniteSet(RegisteredWith(r)') /\ heap'[r].submitters = Cardinality(RegisteredWith(r)')
    BY Zenon DEF CountersInv
  <2>1. CASE r # q
    <3>1. RegisteredWith(r)' = RegisteredWith(r)
      BY <2>1, <1>a, KeyQueueAssumption DEF IInv, RegisteredWith, SubmittersInv
    <3> QED
      BY Zenon, <2>1, <3>1, <1>f DEF IInv, CountersInv
  <2>2. CASE r = q
    <3>1. RegisteredWith(q)' = RegisteredWith(q) \cup {p} /\ p \notin RegisteredWith(q)
      BY Zenon, <1>a, <1>c DEF IInv, RegisteredWith, TypeOK, SubmittersInv
    <3>2. IsFiniteSet(RegisteredWith(q)) /\ object.submitters = Cardinality(RegisteredWith(q))
      <4>1. CASE queues[k] # NoQueue
        BY Zenon, <4>1, <1>c, <1>e, KeyQueueAssumption DEF IInv, CountersInv
      <4>2. CASE queues[k] = NoQueue
        <5>1. RegisteredWith(q) = {}
          BY Zenon, <4>2, <1>d DEF RegisteredWith
        <5> QED
          BY <5>1, <4>2, <1>e DEF CountingLaws, EmptyQueue
      <4> QED
        BY Zenon, <4>1, <4>2
    <3>3. IsFiniteSet(RegisteredWith(q)') /\ Cardinality(RegisteredWith(q)') = object.submitters + 1
      BY <3>1, <3>2 DEF CountingLaws
    <3> QED
      BY Zenon, <2>2, <3>3, <1>f
  <2> QED
    BY Zenon, <2>1, <2>2
<1>4. MapInv'
  <2>1. \A i, j \in Key : queues'[i] = queues'[j] /\ queues'[i] # NoQueue => i = j
    BY <1>b, <1>d, <1>e, <1>g DEF IInv, MapInv
  <2>2. \A r \in QueueId : heap'[r].ch # <<>> => \E j \in Key : queues'[j] = r
    BY <1>e, <1>g, <1>h, KeyQueueAssumption DEF IInv, MapInv
  <2>3. \A j \in Key : queues'[j] # NoQueue =>
           \A n \in 1 .. Len(heap'[queues'[j]].ch) : KeyOf[heap'[queues'[j]].ch[n]] = j
    <3> SUFFICES ASSUME NEW j \in Key, queues'[j] # NoQueue, NEW n \in 1 .. Len(heap'[queues'[j]].ch)
                 PROVE KeyOf[heap'[queues'[j]].ch[n]] = j
      BY Zenon
    <3>1. queues'[j] \in QueueId /\ heap'[queues'[j]].ch = heap[queues'[j]].ch
      BY Zenon, <1>1, <1>h DEF TypeOK
    <3>2. CASE queues[j] # NoQueue
      <4>1. queues'[j] = queues[j]
        BY Zenon, <3>2, <1>e, <1>g
      <4> QED
        BY <3>1, <4>1 DEF IInv, MapInv
    <3>3. CASE queues[j] = NoQueue
      <4>1. j = k /\ queues'[j] = q /\ heap[q].ch = <<>>
        BY Zenon, <3>3, <1>d, <1>g DEF IInv, MapInv
      <4> QED
        BY <3>1, <4>1 DEF IInv
    <3> QED
      BY Zenon, <3>2, <3>3
  <2> QED
    BY Zenon, <2>1, <2>2, <2>3, <1>h DEF IInv, MapInv
<1>5. WorkersInv'
  <2>1. \A w \in QWorker : HeldQueue(w)' = HeldQueue(w)
    BY Zenon, <1>a, <1>e, <1>g, KeyQueueAssumption DEF IInv, WorkersInv, HeldQueue
  <2>2. \A w \in QWorker : HeldQueue(w) # NoQueue => heap'[HeldQueue(w)].processing = heap[HeldQueue(w)].processing
    BY <1>d, <1>e, <1>f, KeyQueueAssumption DEF IInv, WorkersInv, HeldQueue, TypeOK
  <2>3. \A w \in QWorker : wpc[w] = "receive" => \E j \in Key : queues'[j] = wqueue[w]
    BY <1>d, <1>e, <1>g, KeyQueueAssumption DEF IInv, WorkersInv
  <2> QED
    BY <2>1, <2>2, <2>3, <1>a, <1>h DEF IInv, WorkersInv
<1>6. SlotsInv'
  <2>1. Registering' = Registering /\ Handling' = Handling
    BY <1>a DEF TypeOK, Registering, Handling
  <2>2. QueuedSlots' = QueuedSlots
    <3>1. ASSUME NEW s \in Key \X (1 .. MaxPerKey)
          PROVE  (queues'[s[1]] # NoQueue /\ s[2] <= Len(heap'[queues'[s[1]]].ch))
                 <=> (queues[s[1]] # NoQueue /\ s[2] <= Len(heap[queues[s[1]]].ch))
      <4>1. s[1] \in Key /\ s[2] \in 1 .. MaxPerKey
        BY Zenon, <3>1
      <4>2. CASE queues[s[1]] # NoQueue
        <5>1. queues'[s[1]] = queues[s[1]] /\ queues[s[1]] \in QueueId
          BY Zenon, <4>1, <4>2, <1>e, <1>g
        <5> QED
          BY Zenon, <5>1, <1>h
      <4>3. CASE queues[s[1]] = NoQueue /\ s[1] # k
        BY Zenon, <4>1, <4>3, <1>g
      <4>4. CASE queues[s[1]] = NoQueue /\ s[1] = k
        <5>1. Len(heap'[queues'[s[1]]].ch) = 0
          BY <4>4, <1>e, <1>f, <1>g DEF EmptyQueue
        <5> QED
          BY <4>1, <4>4, <5>1
      <4> QED
        BY Zenon, <4>2, <4>3, <4>4
    <3> QED
      BY Zenon, <3>1 DEF QueuedSlots
  <2> QED
    BY Zenon, <2>1, <2>2, <1>a DEF IInv, SlotsInv
<1>7. LifeInv'
  BY Zenon, <1>a, KeyQueueAssumption DEF IInv, TypeOK, LifeInv, WorkersStopped, Stopping
<1> QED
  BY Zenon, <1>1, <1>2, <1>3, <1>4, <1>5, <1>6, <1>7, KeyQueueAssumption DEF IInv

\* What a send does to a channel's buffer.
LEMMA AppendLen ==
    ASSUME NEW s \in Seq(Item), NEW x \in Item
    PROVE  Len(Append(s, x)) = Len(s) + 1 /\ Append(s, x) # <<>> /\ Len(s) \in Nat
OBVIOUS

\* What a send or a cancelled send leaves alone.
LEMMA EnqueueFrame ==
    ASSUME IInv, NEW p \in Submitter, EnqueueItem(p)
    PROVE  /\ squeue[p] \in QueueId /\ sitem[p] \in Item /\ KeyOf[sitem[p]] \in Key
           /\ queues[KeyOf[sitem[p]]] = squeue[p]
           /\ spc[p] = "enqueue" /\ spc'[p] = "finish"
           /\ spc' \in [Submitter -> {"idle", "slot", "register", "enqueue", "finish"}]
           /\ \A r \in Submitter : r # p => spc'[r] = spc[r]
           /\ UNCHANGED <<queues, lifeVars, submitted, sitem, squeue, workerVars, hotVars>>
BY Zenon, KeyQueueAssumption DEF IInv, EnqueueItem, SubmittersInv, TypeOK

\* enqueueItem, the send: the submitter's slot becomes the item's.
LEMMA SendPreserves ==
    ASSUME CountingLaws, IInv, NEW p \in Submitter, EnqueueItem(p),
           Len(heap[squeue[p]].ch) < MaxPerKey,
           heap' = [heap EXCEPT ![squeue[p]].ch = Append(@, sitem[p])],
           sem' = sem
    PROVE  IInv'
<1> USE DEF mapVars, lifeVars, workerVars, hotVars
<1>q. PICK k \in Key, q \in QueueId : k = KeyOf[sitem[p]] /\ q = squeue[p] /\ queues[k] = q
  BY Zenon, EnqueueFrame
<1>a. /\ spc[p] = "enqueue" /\ spc'[p] = "finish" /\ sitem[p] \in Item
      /\ spc' \in [Submitter -> {"idle", "slot", "register", "enqueue", "finish"}]
      /\ \A r \in Submitter : r # p => spc'[r] = spc[r]
      /\ UNCHANGED <<queues, sem, lifeVars, submitted, sitem, squeue, workerVars, hotVars>>
  BY Zenon, EnqueueFrame
<1>b. /\ heap' \in [QueueId -> QueueObject]
      /\ heap'[q].ch = Append(heap[q].ch, sitem[p])
      /\ heap[q].ch \in Seq(Item) /\ Len(heap[q].ch) < MaxPerKey
      /\ \A r \in QueueId : r # q => heap'[r] = heap[r]
      /\ \A r \in QueueId : heap'[r].processing = heap[r].processing
                           /\ heap'[r].submitters = heap[r].submitters
  <2> DEFINE new == [heap[q] EXCEPT !.ch = Append(@, sitem[p])]
  <2>1. heap \in [QueueId -> QueueObject] /\ heap' = [heap EXCEPT ![q] = new]
    BY Zenon, <1>q DEF IInv, TypeOK
  <2>2. /\ new \in QueueObject /\ new.ch = Append(heap[q].ch, sitem[p])
        /\ new.processing = heap[q].processing /\ new.submitters = heap[q].submitters
        /\ heap[q].ch \in Seq(Item)
    <3>1. heap[q].ch \in Seq(Item) /\ Append(heap[q].ch, sitem[p]) \in Seq(Item)
      BY <1>a, <2>1 DEF QueueObject
    <3> QED
      BY Zenon, <3>1, <2>1, ObjectWithChannel
  <2>3. Len(heap[q].ch) < MaxPerKey
    BY Zenon, <1>q
  <2> HIDE DEF new
  <2> QED
    BY <2>1, <2>2
<1>c. Len(heap'[q].ch) = Len(heap[q].ch) + 1 /\ heap'[q].ch # <<>> /\ Len(heap[q].ch) \in Nat
  <2>1. /\ Len(Append(heap[q].ch, sitem[p])) = Len(heap[q].ch) + 1
        /\ Append(heap[q].ch, sitem[p]) # <<>> /\ Len(heap[q].ch) \in Nat
    BY Zenon, <1>a, <1>b, AppendLen
  <2>2. heap'[q].ch = Append(heap[q].ch, sitem[p])
    BY Zenon, <1>b
  <2> QED
    BY Zenon, <2>1, <2>2
<1>1. TypeOK'
  BY Zenon, <1>a, <1>b DEF IInv, TypeOK
<1>2. SubmittersInv'
  BY Zenon, <1>a DEF IInv, SubmittersInv
<1>3. CountersInv'
  <2>1. \A r \in QueueId : RegisteredWith(r)' = RegisteredWith(r)
    BY Zenon, <1>a DEF RegisteredWith
  <2> QED
    BY Zenon, <1>b, <2>1 DEF IInv, CountersInv
<1>4. MapInv'
  <2>1. \A r \in QueueId : Len(heap'[r].ch) <= MaxPerKey
    BY <1>b, <1>c, KeyQueueAssumption DEF IInv, MapInv
  <2>2. \A r \in QueueId : heap'[r].ch # <<>> => \E j \in Key : queues'[j] = r
    BY <1>a, <1>b, <1>q DEF IInv, MapInv
  <2>3. ASSUME NEW j \in Key, queues[j] # NoQueue, NEW n \in 1 .. Len(heap'[queues[j]].ch)
        PROVE  KeyOf[heap'[queues[j]].ch[n]] = j
    <3>1. CASE queues[j] # q
      BY <2>3, <3>1, <1>b DEF IInv, MapInv, TypeOK
    <3>2. CASE queues[j] = q
      <4>1. j = k
        BY <3>2, <1>q, <2>3 DEF IInv, MapInv
      <4>2. heap'[q].ch[n] = IF n = Len(heap[q].ch) + 1 THEN sitem[p] ELSE heap[q].ch[n]
        BY <1>a, <1>b, <1>c, <2>3, <3>2
      <4>3. n # Len(heap[q].ch) + 1 => n \in 1 .. Len(heap[q].ch)
        BY <1>c, <2>3, <3>2
      <4> QED
        BY <4>1, <4>2, <4>3, <1>q, <3>2, <2>3 DEF IInv, MapInv
    <3> QED
      BY Zenon, <3>1, <3>2
  <2> QED
    BY <1>a, <2>1, <2>2, <2>3 DEF IInv, MapInv
<1>5. WorkersInv'
  <2>1. \A w \in QWorker : HeldQueue(w)' = HeldQueue(w) /\ (HeldQueue(w) # NoQueue => HeldQueue(w) \in QueueId)
    BY <1>a, KeyQueueAssumption DEF IInv, HeldQueue, WorkersInv, TypeOK
  <2>2. \A r \in QueueId : heap[r].ch # <<>> => heap'[r].ch # <<>>
    BY <1>b, <1>c
  <2> QED
    BY <1>a, <1>b, <2>1, <2>2 DEF IInv, WorkersInv
<1>6. SlotsInv'
  <2>1. Registering' = Registering \ {p} /\ p \in Registering /\ Handling' = Handling
    BY Zenon, <1>a DEF TypeOK, Registering, Handling
  <2> DEFINE new == <<k, Len(heap[q].ch) + 1>>
  <2>2. new \notin QueuedSlots
    BY <1>c, <1>q DEF QueuedSlots
  <2>3. QueuedSlots' = QueuedSlots \cup {new}
    <3>1. new \in QueuedSlots'
      BY <1>a, <1>b, <1>q, KeyQueueAssumption DEF QueuedSlots
    <3>2. ASSUME NEW s \in Key \X (1 .. MaxPerKey), s # new
          PROVE  s \in QueuedSlots' <=> s \in QueuedSlots
      <4>1. s[1] \in Key /\ s[2] \in 1 .. MaxPerKey /\ (s[1] = k => s[2] # Len(heap[q].ch) + 1)
        BY <3>2
      <4>2. CASE s[1] = k
        BY <4>1, <4>2, <1>a, <1>q DEF QueuedSlots
      <4>3. CASE s[1] # k
        <5>1. queues[s[1]] # NoQueue => queues[s[1]] \in QueueId /\ queues[s[1]] # q
          BY <4>3, <1>q DEF IInv, MapInv, TypeOK
        <5> QED
          BY Zenon, <5>1, <1>a, <1>b DEF QueuedSlots
      <4> QED
        BY Zenon, <4>2, <4>3
    <3>3. QueuedSlots \subseteq Key \X (1 .. MaxPerKey) /\ QueuedSlots' \subseteq Key \X (1 .. MaxPerKey)
      BY Zenon DEF QueuedSlots
    <3> HIDE DEF new
    <3> QED
      BY Zenon, <3>1, <3>2, <3>3
  <2> HIDE DEF new
  <2>4. IsFiniteSet(Registering') /\ Cardinality(Registering') = Cardinality(Registering) - 1
    BY Zenon, <2>1 DEF CountingLaws, IInv, SlotsInv
  <2>5. IsFiniteSet(QueuedSlots') /\ Cardinality(QueuedSlots') = Cardinality(QueuedSlots) + 1
    BY Zenon, <2>2, <2>3 DEF CountingLaws, IInv, SlotsInv
  <2>6. Cardinality(Registering) \in Nat /\ Cardinality(QueuedSlots) \in Nat /\ Cardinality(Handling) \in Nat
    BY Zenon DEF CountingLaws, IInv, SlotsInv
  <2> QED
    BY <2>1, <2>4, <2>5, <2>6 DEF IInv, SlotsInv
<1>7. LifeInv'
  BY Zenon, <1>a DEF IInv, LifeInv, WorkersStopped
<1> QED
  BY Zenon, <1>1, <1>2, <1>3, <1>4, <1>5, <1>6, <1>7 DEF IInv

\* enqueueItem, cancelled: the submitter gives its own slot back.
LEMMA CancelPreserves ==
    ASSUME CountingLaws, IInv, NEW p \in Submitter, EnqueueItem(p), heap' = heap, sem' = sem - 1
    PROVE  IInv'
<1> USE DEF mapVars, lifeVars, workerVars, hotVars
<1>a. /\ spc[p] = "enqueue" /\ spc'[p] = "finish" /\ sitem[p] \in Item
      /\ spc' \in [Submitter -> {"idle", "slot", "register", "enqueue", "finish"}]
      /\ \A r \in Submitter : r # p => spc'[r] = spc[r]
      /\ UNCHANGED <<queues, lifeVars, submitted, sitem, squeue, workerVars, hotVars>>
  BY Zenon, EnqueueFrame
<1>1. SlotsInv' /\ sem > 0
  <2>1. Registering' = Registering \ {p} /\ p \in Registering /\ Handling' = Handling /\ QueuedSlots' = QueuedSlots
    BY Zenon, <1>a DEF TypeOK, Registering, Handling, QueuedSlots
  <2>2. IsFiniteSet(Registering') /\ Cardinality(Registering') = Cardinality(Registering) - 1
    BY Zenon, <2>1 DEF CountingLaws, IInv, SlotsInv
  <2>3. /\ Cardinality(Registering) \in Nat /\ Cardinality(QueuedSlots) \in Nat /\ Cardinality(Handling) \in Nat
        /\ Cardinality(Registering') \in Nat
    BY Zenon, <2>2 DEF CountingLaws, IInv, SlotsInv
  <2> QED
    BY <2>1, <2>2, <2>3 DEF IInv, SlotsInv
<1>2. TypeOK'
  BY <1>a, <1>1, KeyQueueAssumption DEF IInv, TypeOK
<1>3. SubmittersInv'
  BY Zenon, <1>a DEF IInv, SubmittersInv
<1>4. CountersInv'
  BY Zenon, <1>a DEF IInv, CountersInv, RegisteredWith
<1>5. MapInv'
  BY Zenon, <1>a DEF IInv, MapInv
<1>6. WorkersInv'
  BY <1>a DEF IInv, WorkersInv, HeldQueue
<1>7. LifeInv'
  BY Zenon, <1>a DEF IInv, LifeInv, WorkersStopped, Stopping
<1> QED
  BY Zenon, <1>1, <1>2, <1>3, <1>4, <1>5, <1>6, <1>7 DEF IInv

\* finishSubmit drops a queue only when nobody is registered with it, no item
\* is in it and no worker has it marked.
LEMMA FinishSubmitPreserves ==
    ASSUME CountingLaws, IInv, NEW p \in Submitter, FinishSubmit(p)
    PROVE  IInv'
<1> USE DEF mapVars, lifeVars, workerVars, hotVars
<1>q. PICK k \in Key, q \in QueueId :
          /\ k = KeyOf[sitem[p]] /\ q = squeue[p] /\ queues[k] = q /\ sitem[p] \in Item
  BY Zenon, KeyQueueAssumption DEF IInv, FinishSubmit, SubmittersInv
<1>r. PICK left \in Nat, unused \in BOOLEAN :
          /\ left = IF heap[q].submitters = 0 THEN 0 ELSE heap[q].submitters - 1
          /\ unused => ~heap[q].processing /\ left = 0 /\ heap[q].ch = <<>>
          /\ heap' = [heap EXCEPT ![q].submitters = left]
          /\ queues' = [queues EXCEPT ![k] = IF unused THEN NoQueue ELSE @]
  <2>1. heap[q] \in QueueObject
    BY Zenon DEF IInv, TypeOK
  <2>2. heap[q].submitters \in Nat
    BY Zenon, <2>1 DEF QueueObject
  <2> DEFINE left == IF heap[q].submitters = 0 THEN 0 ELSE heap[q].submitters - 1
             unused == queues[k] = q /\ ~heap[q].processing /\ left = 0 /\ heap[q].ch = <<>>
  <2>3. left \in Nat
    BY <2>2
  <2>4. /\ heap' = [heap EXCEPT ![q].submitters = left]
        /\ queues' = [queues EXCEPT ![k] = IF unused THEN NoQueue ELSE @]
    BY Zenon, <1>q DEF FinishSubmit
  <2>5. unused \in BOOLEAN
    BY Zenon
  <2>6. unused => ~heap[q].processing /\ left = 0 /\ heap[q].ch = <<>>
    BY Zenon
  <2>7. left = IF heap[q].submitters = 0 THEN 0 ELSE heap[q].submitters - 1
    BY Zenon
  <2> HIDE DEF left, unused
  <2> QED
    BY Zenon, <2>3, <2>4, <2>6, <2>7
<1>a. /\ spc[p] = "finish"
      /\ spc' = [spc EXCEPT ![p] = "idle"]
      /\ sitem' = [sitem EXCEPT ![p] = NoItem]
      /\ squeue' = [squeue EXCEPT ![p] = NoQueue]
      /\ UNCHANGED <<sem, lifeVars, submitted, workerVars, hotVars>>
  BY Zenon DEF FinishSubmit
<1>b. /\ heap' \in [QueueId -> QueueObject]
      /\ heap'[q].submitters = left
      /\ \A r \in QueueId : r # q => heap'[r] = heap[r]
      /\ \A r \in QueueId : heap'[r].processing = heap[r].processing /\ heap'[r].ch = heap[r].ch
  <2> DEFINE new == [heap[q] EXCEPT !.submitters = left]
  <2>1. heap \in [QueueId -> QueueObject] /\ heap' = [heap EXCEPT ![q] = new]
    BY Zenon, <1>r DEF IInv, TypeOK
  <2>2. /\ new \in QueueObject /\ new.ch = heap[q].ch
        /\ new.processing = heap[q].processing /\ new.submitters = left
    BY Zenon, <2>1, ObjectWithCount
  <2> HIDE DEF new
  <2> QED
    BY Zenon, <2>1, <2>2
<1>c. /\ \A r \in Submitter : r # p => /\ spc'[r] = spc[r] /\ sitem'[r] = sitem[r] /\ squeue'[r] = squeue[r]
      /\ spc'[p] = "idle" /\ squeue'[p] = NoQueue
      /\ \A j \in Key : j # k => queues'[j] = queues[j]
      /\ ~unused => queues' = queues
      /\ unused => queues'[k] = NoQueue
      /\ queues' \in [Key -> QueueId \cup {NoQueue}]
  BY Zenon, <1>a, <1>r, TypeOfQueues, TypeOfSubmitters
<1>d. /\ IsFiniteSet(RegisteredWith(q)') /\ left = Cardinality(RegisteredWith(q)')
      /\ RegisteredWith(q)' = RegisteredWith(q) \ {p}
  <2>1. RegisteredWith(q)' = RegisteredWith(q) \ {p} /\ p \in RegisteredWith(q)
    BY <1>c, <1>q, KeyQueueAssumption DEF RegisteredWith
  <2>2. IsFiniteSet(RegisteredWith(q)) /\ heap[q].submitters = Cardinality(RegisteredWith(q))
    BY Zenon DEF IInv, CountersInv
  <2>3. IsFiniteSet(RegisteredWith(q)') /\ Cardinality(RegisteredWith(q)') = heap[q].submitters - 1
    BY <2>1, <2>2, KeyQueueAssumption DEF CountingLaws
  <2>4. Cardinality(RegisteredWith(q)') \in Nat /\ heap[q].submitters \in Nat
    BY <2>2, <2>3 DEF CountingLaws
  <2> QED
    BY <2>1, <2>3, <2>4, <1>r
<1>e. unused => /\ \A r \in Submitter : r # p => squeue[r] # q
                /\ \A w \in QWorker : HeldQueue(w) # q
  <2> SUFFICES ASSUME unused
               PROVE  /\ \A r \in Submitter : r # p => squeue[r] # q
                      /\ \A w \in QWorker : HeldQueue(w) # q
    BY Zenon
  <2>1. RegisteredWith(q) \ {p} = {}
    BY Zenon, <1>d, <1>r DEF CountingLaws
  <2>2. \A w \in QWorker : HeldQueue(w) # q
    BY Zenon, <1>r, KeyQueueAssumption DEF IInv, WorkersInv
  <2> QED
    BY Zenon, <2>1, <2>2 DEF RegisteredWith
<1>1. TypeOK'
  BY Zenon, <1>a, <1>b, <1>c DEF IInv, TypeOK
<1>2. SubmittersInv'
  <2>1. \A r \in Submitter : r # p /\ spc[r] \in {"enqueue", "finish"} =>
            /\ squeue[r] \in QueueId /\ queues[KeyOf[sitem[r]]] = squeue[r] /\ KeyOf[sitem[r]] \in Key
            /\ unused => squeue[r] # q
    BY Zenon, <1>e, KeyQueueAssumption DEF IInv, SubmittersInv
  <2>2. \A r \in Submitter : r # p /\ spc[r] \in {"enqueue", "finish"} =>
            queues'[KeyOf[sitem[r]]] = squeue[r]
    BY <2>1, <1>c, <1>q
  <2> QED
    BY Zenon, <1>c, <2>2, KeyQueueAssumption DEF IInv, SubmittersInv
<1>3. CountersInv'
  <2> SUFFICES ASSUME NEW r \in QueueId, r # q
               PROVE IsFiniteSet(RegisteredWith(r)') /\ heap'[r].submitters = Cardinality(RegisteredWith(r)')
    BY Zenon, <1>b, <1>d DEF IInv, CountersInv
  <2>1. RegisteredWith(r)' = RegisteredWith(r)
    BY Zenon, <1>c, <1>q, KeyQueueAssumption DEF RegisteredWith
  <2> QED
    BY Zenon, <2>1, <1>b DEF IInv, CountersInv
<1>4. MapInv'
  <2>1. \A j \in Key : queues'[j] = queues[j] \/ queues'[j] = NoQueue
    BY Zenon, <1>c
  <2>2. \A r \in QueueId : heap'[r].ch # <<>> => \E j \in Key : queues'[j] = r
    BY <1>q, <1>r DEF IInv, MapInv
  <2>3. \A j \in Key : queues'[j] # NoQueue => queues[j] \in QueueId /\ heap'[queues[j]].ch = heap[queues[j]].ch
    BY <2>1, <1>b DEF IInv, TypeOK
  <2> QED
    BY <1>b, <2>1, <2>2, <2>3 DEF IInv, MapInv
<1>5. WorkersInv'
  <2>1. \A w \in QWorker : HeldQueue(w) # NoQueue => HeldQueue(w) \in QueueId
    BY KeyQueueAssumption DEF IInv, HeldQueue, WorkersInv, TypeOK
  <2>2. \A w \in QWorker : HeldQueue(w)' = HeldQueue(w)
    <3> SUFFICES ASSUME NEW w \in QWorker PROVE HeldQueue(w)' = HeldQueue(w)
      BY Zenon
    <3>1. CASE wpc[w] \in {"process", "finish"}
      <4>1. KeyOf[witem[w]] \in Key /\ HeldQueue(w) = queues[KeyOf[witem[w]]]
        BY Zenon, <3>1, KeyQueueAssumption DEF IInv, WorkersInv, HeldQueue
      <4>2. queues'[KeyOf[witem[w]]] = queues[KeyOf[witem[w]]]
        BY Zenon, <4>1, <1>c, <1>e, <1>q
      <4> QED
        BY Zenon, <4>2, <1>a DEF HeldQueue
    <3>2. CASE wpc[w] \notin {"process", "finish"}
      BY Zenon, <3>2, <1>a DEF HeldQueue
    <3> QED
      BY Zenon, <3>1, <3>2
  <2>3. \A w \in QWorker : wpc[w] = "receive" => \E j \in Key : queues'[j] = wqueue[w]
    BY <1>c, <1>e, <1>q DEF IInv, WorkersInv, HeldQueue
  <2> QED
    BY <1>a, <1>b, <2>1, <2>2, <2>3 DEF IInv, WorkersInv
<1>6. SlotsInv'
  <2>1. Registering' = Registering /\ Handling' = Handling
    BY Zenon, <1>a, <1>c DEF Registering, Handling
  <2>2. QueuedSlots' = QueuedSlots
    <3>1. ASSUME NEW s \in Key \X (1 .. MaxPerKey)
          PROVE  s \in QueuedSlots' <=> s \in QueuedSlots
      <4>1. s[1] \in Key /\ s[2] \in 1 .. MaxPerKey
        BY Zenon, <3>1
      <4>2. CASE s[1] = k /\ unused
        <5>1. Len(heap[queues[s[1]]].ch) = 0 /\ queues'[s[1]] = NoQueue
          BY <4>2, <1>c, <1>q, <1>r
        <5> QED
          BY <4>1, <5>1 DEF QueuedSlots
      <4>3. CASE ~(s[1] = k /\ unused)
        BY <4>3, <1>b, <1>c DEF QueuedSlots
      <4> QED
        BY Zenon, <4>2, <4>3
    <3> QED
      BY Zenon, <3>1 DEF QueuedSlots
  <2> QED
    BY Zenon, <2>1, <2>2, <1>a DEF IInv, SlotsInv
<1>7. LifeInv'
  BY Zenon, <1>a DEF IInv, LifeInv, WorkersStopped
<1> QED
  BY Zenon, <1>1, <1>2, <1>3, <1>4, <1>5, <1>6, <1>7 DEF IInv

-----------------------------------------------------------------------------
(* The queue workers.                                                      *)

\* A worker holds nil or a queue object.
LEMMA HeldQueueType ==
    ASSUME IInv, NEW w \in QWorker
    PROVE  HeldQueue(w) \in QueueId \cup {NoQueue}
BY Zenon, KeyQueueAssumption, TypeOfQueues DEF IInv, WorkersInv, HeldQueue

\* A step that only moves one worker between two phases in which it holds
\* the same queue and counts as handling in both or in neither.
LEMMA PhasePreserves ==
    ASSUME IInv, NEW w \in QWorker, NEW to \in {"check", "next", "finish", "exited"},
           wpc' = [wpc EXCEPT ![w] = to],
           \/ wpc[w] = "check" /\ to \in {"next", "exited"}
           \/ wpc[w] = "next" /\ to = "check"
           \/ wpc[w] = "process" /\ to = "finish",
           UNCHANGED <<mapVars, sem, lifeVars, submitVars, witem, wqueue, hotVars>>
    PROVE  IInv'
<1> USE DEF mapVars, lifeVars, submitVars, hotVars
<1>1. TypeOK'
  BY Zenon DEF IInv, TypeOK
<1>2. SubmittersInv'
  BY Zenon DEF IInv, SubmittersInv
<1>3. CountersInv'
  BY Zenon DEF IInv, CountersInv, RegisteredWith
<1>4. MapInv'
  BY Zenon DEF IInv, MapInv
<1>5. WorkersInv'
  <2>1. \A x \in QWorker : HeldQueue(x)' = HeldQueue(x)
    BY DEF HeldQueue, TypeOK
  <2>2. wpc'[w] = to /\ \A x \in QWorker : x # w => wpc'[x] = wpc[x]
    BY Zenon DEF IInv, TypeOK
  <2> QED
    BY <2>1 DEF IInv, WorkersInv
<1>6. SlotsInv'
  <2>1. Registering' = Registering /\ QueuedSlots' = QueuedSlots /\ Handling' = Handling
    BY DEF TypeOK, Registering, QueuedSlots, Handling
  <2> QED
    BY Zenon, <2>1 DEF IInv, SlotsInv
<1>7. LifeInv'
  BY Zenon DEF IInv, TypeOK, LifeInv, WorkersStopped
<1> QED
  BY Zenon, <1>1, <1>2, <1>3, <1>4, <1>5, <1>6, <1>7 DEF IInv

LEMMA CheckPreserves ==
    ASSUME IInv, NEW w \in QWorker, WorkerCheck(w)
    PROVE  IInv'
BY Zenon, PhasePreserves DEF WorkerCheck

LEMMA ProcessedPreserves ==
    ASSUME IInv, NEW w \in QWorker, Processed(w)
    PROVE  IInv'
BY Zenon, PhasePreserves DEF Processed

\* nextEvent marks a queue that nobody has marked.
LEMMA NextEventPreserves ==
    ASSUME IInv, NEW w \in QWorker, NextEvent(w)
    PROVE  IInv'
<1> USE DEF mapVars, lifeVars, submitVars, hotVars
<1>1. CASE Ready = {} /\ wpc' = [wpc EXCEPT ![w] = "check"] /\ UNCHANGED <<heap, wqueue>>
  BY Zenon, <1>1, PhasePreserves DEF NextEvent
<1>2. CASE \E k \in Ready :
            /\ heap' = [heap EXCEPT ![queues[k]].processing = TRUE]
            /\ wqueue' = [wqueue EXCEPT ![w] = queues[k]]
            /\ wpc' = [wpc EXCEPT ![w] = "receive"]
  <2>q. PICK k \in Key, q \in QueueId :
            /\ queues[k] = q /\ ~heap[q].processing /\ heap[q].ch # <<>>
            /\ heap' = [heap EXCEPT ![q].processing = TRUE]
            /\ wqueue' = [wqueue EXCEPT ![w] = q]
            /\ wpc' = [wpc EXCEPT ![w] = "receive"]
    BY Zenon, <1>2 DEF IInv, Ready, TypeOK
  <2>a. wpc[w] = "next" /\ UNCHANGED <<queues, sem, lifeVars, submitVars, witem, hotVars>>
    BY Zenon DEF NextEvent
  <2>b. /\ heap' \in [QueueId -> QueueObject]
        /\ heap'[q].processing
        /\ \A r \in QueueId : heap'[r].submitters = heap[r].submitters /\ heap'[r].ch = heap[r].ch
        /\ \A r \in QueueId : heap[r].processing => heap'[r].processing
    <3> DEFINE new == [heap[q] EXCEPT !.processing = TRUE]
    <3>1. heap \in [QueueId -> QueueObject] /\ heap' = [heap EXCEPT ![q] = new]
      BY Zenon, <2>q DEF IInv, TypeOK
    <3>2. /\ new \in QueueObject /\ new.ch = heap[q].ch
          /\ new.processing = TRUE /\ new.submitters = heap[q].submitters
      BY Zenon, <3>1, ObjectWithMark
    <3> HIDE DEF new
    <3>3. heap'[q] = new /\ \A r \in QueueId : r # q => heap'[r] = heap[r]
      BY Zenon, <3>1
    <3> QED
      BY Zenon, <3>1, <3>2, <3>3
  <2>c. /\ wpc'[w] = "receive" /\ wqueue'[w] = q
        /\ \A x \in QWorker : x # w => wpc'[x] = wpc[x] /\ wqueue'[x] = wqueue[x]
    BY Zenon, <2>q DEF IInv, TypeOK
  <2>1. TypeOK'
    BY Zenon, <2>a, <2>b, <2>q, KeyQueueAssumption DEF IInv, TypeOK
  <2>2. SubmittersInv'
    BY Zenon, <2>a DEF IInv, SubmittersInv
  <2>3. CountersInv'
    BY Zenon, <2>a, <2>b DEF IInv, CountersInv, RegisteredWith
  <2>4. MapInv'
    BY <2>a, <2>b, TypeOfQueues DEF IInv, MapInv
  <2>5. WorkersInv'
    <3>1. HeldQueue(w)' = q /\ HeldQueue(w) = NoQueue
      BY Zenon, <2>a, <2>c DEF HeldQueue
    <3>2. \A x \in QWorker : x # w => HeldQueue(x)' = HeldQueue(x)
      BY Zenon, <2>a, <2>c DEF HeldQueue
    <3>3. \A x \in QWorker : HeldQueue(x) # q
      BY Zenon, <2>q, KeyQueueAssumption DEF IInv, WorkersInv
    <3>4. ASSUME NEW x \in QWorker, x # w
          PROVE /\ (IF wpc'[x] \in {"process", "finish", "release"} THEN witem'[x] \in Item ELSE witem'[x] = NoItem)
                /\ (IF wpc'[x] = "receive"
                    THEN /\ wqueue'[x] \in QueueId
                         /\ heap'[wqueue'[x]].ch # <<>>
                         /\ \E j \in Key : queues'[j] = wqueue'[x]
                    ELSE wqueue'[x] = NoQueue)
                /\ wpc'[x] \in {"process", "finish"} => HeldQueue(x)' # NoQueue
                /\ HeldQueue(x)' # NoQueue => heap'[HeldQueue(x)'].processing
      BY <3>4, <3>2, <2>a, <2>b, <2>c, HeldQueueType DEF IInv, WorkersInv
    <3>5. /\ (IF wpc'[w] \in {"process", "finish", "release"} THEN witem'[w] \in Item ELSE witem'[w] = NoItem)
          /\ wqueue'[w] \in QueueId /\ heap'[wqueue'[w]].ch # <<>>
          /\ \E j \in Key : queues'[j] = wqueue'[w]
          /\ heap'[HeldQueue(w)'].processing
      BY <3>1, <2>a, <2>b, <2>c, <2>q DEF IInv, WorkersInv
    <3>6. \A x, y \in QWorker : HeldQueue(x)' = HeldQueue(y)' /\ HeldQueue(y)' # NoQueue => x = y
      BY <3>1, <3>2, <3>3, KeyQueueAssumption DEF IInv, WorkersInv
    <3> QED
      BY Zenon, <3>4, <3>5, <3>6, <2>c DEF WorkersInv
  <2>6. SlotsInv'
    <3>1. Registering' = Registering /\ Handling' = Handling
      BY Zenon, <2>a, <2>c DEF Registering, Handling
    <3>2. QueuedSlots' = QueuedSlots
      BY Zenon, <2>a, <2>b, TypeOfQueues DEF QueuedSlots
    <3> QED
      BY Zenon, <2>a, <3>1, <3>2 DEF IInv, SlotsInv
  <2>7. LifeInv'
    BY Zenon, <2>a DEF IInv, LifeInv, WorkersStopped
  <2> QED
    BY Zenon, <2>1, <2>2, <2>3, <2>4, <2>5, <2>6, <2>7 DEF IInv
<1> QED
  BY Zenon, <1>1, <1>2 DEF NextEvent

\* The receive: the item's slot becomes the worker's.
LEMMA ReceivePreserves ==
    ASSUME CountingLaws, IInv, NEW w \in QWorker, Receive(w)
    PROVE  IInv'
<1> USE DEF mapVars, lifeVars, submitVars, hotVars
<1>q. PICK k \in Key, q \in QueueId : queues[k] = q /\ wqueue[w] = q /\ heap[q].ch # <<>> /\ heap[q].processing
  BY KeyQueueAssumption DEF IInv, Receive, WorkersInv, HeldQueue
<1>a. /\ wpc[w] = "receive"
      /\ witem' = [witem EXCEPT ![w] = Head(heap[q].ch)]
      /\ heap' = [heap EXCEPT ![q].ch = Tail(@)]
      /\ wqueue' = [wqueue EXCEPT ![w] = NoQueue]
      /\ wpc' = [wpc EXCEPT ![w] = "process"]
      /\ UNCHANGED <<queues, sem, lifeVars, submitVars, hotVars>>
  BY Zenon, <1>q DEF Receive
<1>t. heap[q] \in QueueObject /\ heap[q].ch \in Seq(Item)
  BY Zenon DEF IInv, TypeOK, QueueObject
<1>p. PICK c \in Seq(Item), t \in Seq(Item), h \in Item :
          c = heap[q].ch /\ t = Tail(c) /\ h = Head(c)
  <2>1. Tail(heap[q].ch) \in Seq(Item) /\ Head(heap[q].ch) \in Item
    BY <1>q, <1>t
  <2> QED
    BY Zenon, <1>t, <2>1
<1>s. /\ Len(c) \in Nat \ {0} /\ Len(t) = Len(c) - 1 /\ c[1] = h
      /\ \A n \in 1 .. Len(t) : t[n] = c[n + 1] /\ n + 1 \in 1 .. Len(c)
  BY <1>p
<1>u. heap[q].ch = c /\ Len(c) <= MaxPerKey
  BY Zenon, <1>p DEF IInv, MapInv
<1>b. /\ heap' \in [QueueId -> QueueObject]
      /\ heap'[q].ch = t
      /\ \A r \in QueueId : r # q => heap'[r] = heap[r]
      /\ \A r \in QueueId : heap'[r].submitters = heap[r].submitters /\ heap'[r].processing = heap[r].processing
  <2> DEFINE new == [heap[q] EXCEPT !.ch = t]
  <2>1. heap \in [QueueId -> QueueObject] /\ heap' = [heap EXCEPT ![q] = new]
    BY Zenon, <1>a, <1>p, TypeOfQueues
  <2>2. /\ new \in QueueObject /\ new.ch = t
        /\ new.processing = heap[q].processing /\ new.submitters = heap[q].submitters
    BY Zenon, <1>t, ObjectWithChannel
  <2> HIDE DEF new
  <2> QED
    BY Zenon, <2>1, <2>2
<1>c. /\ wpc'[w] = "process" /\ wqueue'[w] = NoQueue /\ witem'[w] = h
      /\ \A x \in QWorker : x # w => wpc'[x] = wpc[x] /\ wqueue'[x] = wqueue[x] /\ witem'[x] = witem[x]
      /\ witem' \in [QWorker -> Item \cup {NoItem}]
  BY Zenon, <1>a, <1>p, KeyQueueAssumption DEF IInv, TypeOK
<1>d. KeyOf[h] = k
  BY <1>q, <1>s, <1>u, KeyQueueAssumption DEF IInv, MapInv
<1>1. TypeOK'
  BY Zenon, <1>a, <1>b, <1>c DEF IInv, TypeOK
<1>2. SubmittersInv'
  BY Zenon, <1>a DEF IInv, SubmittersInv
<1>3. CountersInv'
  BY <1>a, KeyQueueAssumption DEF IInv, CountersInv, RegisteredWith
<1>4. MapInv'
  <2>1. \A r \in QueueId : Len(heap'[r].ch) <= MaxPerKey
    BY <1>b, <1>s, <1>u, KeyQueueAssumption DEF IInv, MapInv
  <2>2. \A r \in QueueId : heap'[r].ch # <<>> => \E j \in Key : queues'[j] = r
    BY <1>a DEF IInv, MapInv
  <2>3. ASSUME NEW j \in Key, queues[j] # NoQueue, NEW n \in 1 .. Len(heap'[queues[j]].ch)
        PROVE  KeyOf[heap'[queues[j]].ch[n]] = j
    <3>1. CASE queues[j] # q
      BY <2>3, <3>1, <1>b DEF IInv, MapInv, TypeOK
    <3>2. CASE queues[j] = q
      <4>1. n + 1 \in 1 .. Len(heap[q].ch) /\ heap'[q].ch[n] = heap[q].ch[n + 1]
        BY Zenon, <1>b, <1>s, <1>u, <3>2
      <4>2. \A m \in 1 .. Len(heap[queues[j]].ch) : KeyOf[heap[queues[j]].ch[m]] = j
        BY Zenon, <2>3 DEF IInv, MapInv
      <4>3. KeyOf[heap[q].ch[n + 1]] = j
        BY Zenon, <4>1, <4>2, <3>2
      <4> QED
        BY Zenon, <4>1, <4>3, <3>2
    <3> QED
      BY Zenon, <3>1, <3>2
  <2> QED
    BY <1>a, <2>1, <2>3 DEF IInv, MapInv
<1>5. WorkersInv'
  <2>1. HeldQueue(w)' = q /\ HeldQueue(w) = q
    BY Zenon, <1>a, <1>c, <1>d, <1>q DEF HeldQueue
  <2>2. \A x \in QWorker : HeldQueue(x)' = HeldQueue(x)
    BY Zenon, <1>a, <1>c, <2>1 DEF HeldQueue
  <2>3. \A x \in QWorker : x # w => HeldQueue(x) # q
    BY Zenon, <2>1, KeyQueueAssumption DEF IInv, WorkersInv
  <2>4. ASSUME NEW x \in QWorker, x # w
        PROVE /\ (IF wpc'[x] \in {"process", "finish", "release"} THEN witem'[x] \in Item ELSE witem'[x] = NoItem)
              /\ (IF wpc'[x] = "receive"
                  THEN /\ wqueue'[x] \in QueueId
                       /\ heap'[wqueue'[x]].ch # <<>>
                       /\ \E j \in Key : queues'[j] = wqueue'[x]
                  ELSE wqueue'[x] = NoQueue)
              /\ wpc'[x] \in {"process", "finish"} => HeldQueue(x)' # NoQueue
              /\ HeldQueue(x)' # NoQueue => heap'[HeldQueue(x)'].processing
    <3>1. wpc[x] = "receive" => wqueue[x] # q
      BY Zenon, <2>3, <2>4 DEF HeldQueue
    <3> QED
      BY <2>4, <2>2, <3>1, <1>a, <1>b DEF IInv, WorkersInv
  <2>5. witem'[w] \in Item /\ heap'[HeldQueue(w)'].processing /\ HeldQueue(w)' # NoQueue
    BY Zenon, <2>1, <1>b, <1>c, <1>q, KeyQueueAssumption
  <2> QED
    BY <2>2, <2>4, <2>5, <1>c DEF IInv, WorkersInv
<1>6. SlotsInv'
  <2>1. Registering' = Registering /\ Handling' = Handling \cup {w} /\ w \notin Handling
    BY Zenon, <1>a, <1>c DEF Registering, Handling
  <2> DEFINE old == <<k, Len(c)>>
  <2>2. old \in QueuedSlots
    BY <1>q, <1>u, KeyQueueAssumption DEF QueuedSlots
  <2>3. QueuedSlots' = QueuedSlots \ {old}
    <3>1. old \notin QueuedSlots'
      BY <1>a, <1>b, <1>s, <1>q DEF QueuedSlots
    <3>2. ASSUME NEW s \in Key \X (1 .. MaxPerKey), s # old
          PROVE  s \in QueuedSlots' <=> s \in QueuedSlots
      <4>1. s[1] \in Key /\ s[2] \in 1 .. MaxPerKey /\ (s[1] = k => s[2] # Len(c))
        BY <3>2
      <4>2. CASE s[1] = k
        BY <4>1, <4>2, <1>a, <1>u DEF QueuedSlots
      <4>3. CASE s[1] # k
        <5>1. queues[s[1]] # NoQueue => queues[s[1]] \in QueueId /\ queues[s[1]] # q
          BY <4>3, <1>q, TypeOfQueues DEF IInv, MapInv
        <5> QED
          BY <5>1, <1>a DEF QueuedSlots
      <4> QED
        BY Zenon, <4>2, <4>3
    <3>3. QueuedSlots \subseteq Key \X (1 .. MaxPerKey) /\ QueuedSlots' \subseteq Key \X (1 .. MaxPerKey)
      BY Zenon DEF QueuedSlots
    <3> HIDE DEF old
    <3> QED
      BY Zenon, <3>1, <3>2, <3>3
  <2> HIDE DEF old
  <2>4. IsFiniteSet(Handling') /\ Cardinality(Handling') = Cardinality(Handling) + 1
    BY Zenon, <2>1 DEF CountingLaws, IInv, SlotsInv
  <2>5. IsFiniteSet(QueuedSlots') /\ Cardinality(QueuedSlots') = Cardinality(QueuedSlots) - 1
    BY Zenon, <2>2, <2>3 DEF CountingLaws, IInv, SlotsInv
  <2>6. Cardinality(Registering) \in Nat /\ Cardinality(QueuedSlots) \in Nat /\ Cardinality(Handling) \in Nat
    BY Zenon DEF CountingLaws, IInv, SlotsInv
  <2> QED
    BY <1>a, <2>1, <2>4, <2>5, <2>6 DEF IInv, SlotsInv
<1>7. LifeInv'
  BY Zenon, <1>a DEF IInv, LifeInv, WorkersStopped
<1> QED
  BY Zenon, <1>1, <1>2, <1>3, <1>4, <1>5, <1>6, <1>7 DEF IInv

\* finishEvent unmarks the queue of the worker's own item, and drops it only
\* when no submitter is registered with it and it is empty.
LEMMA FinishEventPreserves ==
    ASSUME CountingLaws, IInv, NEW w \in QWorker, FinishEvent(w)
    PROVE  IInv'
<1> USE DEF mapVars, lifeVars, submitVars, hotVars
<1>q. PICK k \in Key, q \in QueueId :
          k = KeyOf[witem[w]] /\ queues[k] = q /\ HeldQueue(w) = q /\ witem[w] \in Item
  <2>1. wpc[w] = "finish" /\ witem[w] \in Item /\ HeldQueue(w) # NoQueue
    BY Zenon DEF IInv, FinishEvent, WorkersInv
  <2>2. KeyOf[witem[w]] \in Key /\ HeldQueue(w) = queues[KeyOf[witem[w]]]
    BY Zenon, <2>1, KeyQueueAssumption DEF HeldQueue
  <2> QED
    BY Zenon, <2>1, <2>2, HeldQueueType
<1>r. PICK unused \in BOOLEAN :
          /\ unused => heap[q].submitters = 0 /\ heap[q].ch = <<>>
          /\ heap' = [heap EXCEPT ![q].processing = FALSE]
          /\ queues' = [queues EXCEPT ![k] = IF unused THEN NoQueue ELSE @]
  <2> DEFINE unused == heap[q].submitters = 0 /\ heap[q].ch = <<>>
  <2>1. /\ heap' = [heap EXCEPT ![q].processing = FALSE]
        /\ queues' = [queues EXCEPT ![k] = IF unused THEN NoQueue ELSE @]
    BY Zenon, <1>q, KeyQueueAssumption DEF FinishEvent
  <2>2. unused \in BOOLEAN
    BY Zenon
  <2>3. unused => heap[q].submitters = 0 /\ heap[q].ch = <<>>
    BY Zenon
  <2> HIDE DEF unused
  <2> QED
    BY Zenon, <2>1, <2>2, <2>3
<1>a. /\ wpc[w] = "finish" /\ wpc' = [wpc EXCEPT ![w] = "release"]
      /\ UNCHANGED <<sem, lifeVars, submitVars, witem, wqueue, hotVars>>
  BY Zenon DEF FinishEvent
<1>b. /\ heap' \in [QueueId -> QueueObject]
      /\ \A r \in QueueId : r # q => heap'[r] = heap[r]
      /\ \A r \in QueueId : heap'[r].submitters = heap[r].submitters /\ heap'[r].ch = heap[r].ch
  <2> DEFINE new == [heap[q] EXCEPT !.processing = FALSE]
  <2>1. heap \in [QueueId -> QueueObject] /\ heap' = [heap EXCEPT ![q] = new]
    BY Zenon, <1>r DEF IInv, TypeOK
  <2>2. /\ new \in QueueObject /\ new.ch = heap[q].ch /\ new.submitters = heap[q].submitters
    BY Zenon, <2>1, ObjectWithMark
  <2> HIDE DEF new
  <2> QED
    BY Zenon, <2>1, <2>2
<1>c. /\ \A x \in QWorker : x # w => wpc'[x] = wpc[x]
      /\ wpc'[w] = "release"
      /\ \A j \in Key : j # k => queues'[j] = queues[j]
      /\ ~unused => queues' = queues
      /\ unused => queues'[k] = NoQueue
      /\ queues' \in [Key -> QueueId \cup {NoQueue}]
  BY Zenon, <1>a, <1>r, TypeOfQueues, TypeOfWorkers
<1>d. unused => \A r \in Submitter : squeue[r] # q
  <2> SUFFICES ASSUME unused PROVE \A r \in Submitter : squeue[r] # q
    BY Zenon DEF IInv
  <2>1. RegisteredWith(q) = {}
    BY Zenon, <1>r DEF CountingLaws, IInv, CountersInv
  <2> QED
    BY Zenon, <2>1 DEF RegisteredWith
<1>e. \A x \in QWorker : x # w => HeldQueue(x) # q
  BY Zenon, <1>q, KeyQueueAssumption DEF IInv, WorkersInv
<1>1. TypeOK'
  BY Zenon, <1>a, <1>b, <1>c DEF IInv, TypeOK
<1>2. SubmittersInv'
  <2>1. \A r \in Submitter : spc[r] \in {"enqueue", "finish"} =>
            /\ squeue[r] \in QueueId /\ queues[KeyOf[sitem[r]]] = squeue[r] /\ KeyOf[sitem[r]] \in Key
            /\ unused => squeue[r] # q
    BY Zenon, <1>d, KeyQueueAssumption DEF IInv, SubmittersInv
  <2>2. \A r \in Submitter : spc[r] \in {"enqueue", "finish"} => queues'[KeyOf[sitem[r]]] = squeue[r]
    BY <2>1, <1>c, <1>q
  <2> QED
    BY Zenon, <1>a, <2>2 DEF IInv, SubmittersInv
<1>3. CountersInv'
  BY <1>a, <1>b, KeyQueueAssumption DEF IInv, CountersInv, RegisteredWith
<1>4. MapInv'
  <2>1. \A j \in Key : queues'[j] = queues[j] \/ queues'[j] = NoQueue
    BY Zenon, <1>c
  <2>2. \A r \in QueueId : heap'[r].ch # <<>> => \E j \in Key : queues'[j] = r
    BY <1>q, <1>r DEF IInv, MapInv
  <2>3. \A j \in Key : queues'[j] # NoQueue => queues[j] \in QueueId /\ heap'[queues[j]].ch = heap[queues[j]].ch
    BY <2>1, <1>b, TypeOfQueues
  <2> QED
    BY <1>b, <2>1, <2>2, <2>3 DEF IInv, MapInv
<1>5. WorkersInv'
  <2>1. HeldQueue(w)' = NoQueue
    BY Zenon, <1>c DEF HeldQueue
  <2>2. ASSUME NEW x \in QWorker, x # w PROVE HeldQueue(x)' = HeldQueue(x)
    <3>1. CASE wpc[x] \in {"process", "finish"}
      <4>1. KeyOf[witem[x]] \in Key /\ HeldQueue(x) = queues[KeyOf[witem[x]]]
        BY Zenon, <3>1, KeyQueueAssumption DEF IInv, WorkersInv, HeldQueue
      <4>2. queues'[KeyOf[witem[x]]] = queues[KeyOf[witem[x]]]
        BY Zenon, <4>1, <1>c, <1>e, <1>q, <2>2
      <4> QED
        BY <4>2, <1>a, <2>2 DEF HeldQueue
    <3>2. CASE wpc[x] \notin {"process", "finish"}
      BY <3>2, <1>a, <2>2 DEF HeldQueue
    <3> QED
      BY Zenon, <3>1, <3>2
  <2>3. ASSUME NEW x \in QWorker, x # w
        PROVE /\ (IF wpc'[x] \in {"process", "finish", "release"} THEN witem'[x] \in Item ELSE witem'[x] = NoItem)
              /\ (IF wpc'[x] = "receive"
                  THEN /\ wqueue'[x] \in QueueId
                       /\ heap'[wqueue'[x]].ch # <<>>
                       /\ \E j \in Key : queues'[j] = wqueue'[x]
                  ELSE wqueue'[x] = NoQueue)
              /\ wpc'[x] \in {"process", "finish"} => HeldQueue(x)' # NoQueue
              /\ HeldQueue(x)' # NoQueue => heap'[HeldQueue(x)'].processing
    <3>1. wpc[x] = "receive" => \E j \in Key : queues'[j] = wqueue[x]
      BY <2>3, <1>c, <1>q DEF IInv, WorkersInv, HeldQueue
    <3> QED
      BY <2>3, <2>2, <3>1, <1>a, <1>b, <1>e, HeldQueueType DEF IInv, WorkersInv
  <2>4. witem'[w] \in Item /\ wqueue'[w] = NoQueue
    BY Zenon, <1>a DEF IInv, WorkersInv
  <2> QED
    BY <2>1, <2>2, <2>3, <2>4, <1>c DEF IInv, WorkersInv
<1>6. SlotsInv'
  <2>1. Registering' = Registering /\ Handling' = Handling
    BY <1>a DEF Registering, Handling
  <2>2. QueuedSlots' = QueuedSlots
    <3>1. ASSUME NEW s \in Key \X (1 .. MaxPerKey)
          PROVE  s \in QueuedSlots' <=> s \in QueuedSlots
      <4>1. s[1] \in Key /\ s[2] \in 1 .. MaxPerKey
        BY Zenon, <3>1
      <4>2. CASE s[1] = k /\ unused
        <5>1. Len(heap[queues[s[1]]].ch) = 0 /\ queues'[s[1]] = NoQueue
          BY <4>2, <1>c, <1>q, <1>r
        <5> QED
          BY <5>1 DEF QueuedSlots
      <4>3. CASE ~(s[1] = k /\ unused)
        BY <4>3, <1>b, <1>c DEF QueuedSlots
      <4> QED
        BY Zenon, <4>2, <4>3
    <3> QED
      BY Zenon, <3>1 DEF QueuedSlots
  <2> QED
    BY Zenon, <2>1, <2>2, <1>a DEF IInv, SlotsInv
<1>7. LifeInv'
  BY Zenon, <1>a, <1>c, TypeOfQueues DEF IInv, LifeInv, WorkersStopped
<1> QED
  BY Zenon, <1>1, <1>2, <1>3, <1>4, <1>5, <1>6, <1>7 DEF IInv

\* The worker gives back the slot of the item it handled.
LEMMA ReleasePreserves ==
    ASSUME CountingLaws, IInv, NEW w \in QWorker, ReleaseSlot(w)
    PROVE  IInv'
<1> USE DEF ReleaseSlot, mapVars, lifeVars, submitVars, hotVars
<1>1. SlotsInv' /\ sem > 0
  <2>1. Handling' = Handling \ {w} /\ w \in Handling /\ Registering' = Registering /\ QueuedSlots' = QueuedSlots
    BY Zenon, TypeOfWorkers DEF Registering, Handling, QueuedSlots
  <2>2. IsFiniteSet(Handling') /\ Cardinality(Handling') = Cardinality(Handling) - 1
    BY Zenon, <2>1 DEF CountingLaws, IInv, SlotsInv
  <2>3. /\ Cardinality(Registering) \in Nat /\ Cardinality(QueuedSlots) \in Nat /\ Cardinality(Handling) \in Nat
        /\ Cardinality(Handling') \in Nat
    BY Zenon, <2>2 DEF CountingLaws, IInv, SlotsInv
  <2> QED
    BY <2>1, <2>2, <2>3 DEF IInv, SlotsInv
<1>2. TypeOK'
  BY <1>1, KeyQueueAssumption DEF IInv, TypeOK
<1>3. SubmittersInv'
  BY Zenon DEF IInv, SubmittersInv
<1>4. CountersInv'
  BY Zenon DEF IInv, CountersInv, RegisteredWith
<1>5. MapInv'
  BY Zenon DEF IInv, MapInv
<1>6. WorkersInv'
  <2>1. \A x \in QWorker : HeldQueue(x)' = HeldQueue(x)
    BY DEF HeldQueue
  <2>2. wpc'[w] = "check" /\ witem'[w] = NoItem /\ \A x \in QWorker : x # w => wpc'[x] = wpc[x] /\ witem'[x] = witem[x]
    BY Zenon, TypeOfWorkers
  <2> QED
    BY <2>1, <2>2, KeyQueueAssumption DEF IInv, WorkersInv
<1>7. LifeInv'
  BY Zenon, TypeOfSubmitters DEF IInv, LifeInv, WorkersStopped
<1> QED
  BY Zenon, <1>1, <1>2, <1>3, <1>4, <1>5, <1>6, <1>7 DEF IInv

-----------------------------------------------------------------------------
(* The hot-key checker and the life of the queue.                          *)

\* What a step leaves true that touches neither the map, the queues, the
\* semaphore, a submitter nor a worker.
LEMMA OthersPreserve ==
    ASSUME IInv, UNCHANGED <<mapVars, sem, submitVars, workerVars>>
    PROVE  SubmittersInv' /\ CountersInv' /\ MapInv' /\ WorkersInv' /\ SlotsInv'
<1> USE DEF mapVars, submitVars, workerVars
<1>1. SubmittersInv'
  BY Zenon DEF IInv, SubmittersInv
<1>2. CountersInv'
  BY Zenon DEF IInv, CountersInv, RegisteredWith
<1>3. MapInv'
  BY Zenon DEF IInv, MapInv
<1>4. WorkersInv'
  BY DEF IInv, WorkersInv, HeldQueue
<1>5. SlotsInv'
  <2>1. Registering' = Registering /\ QueuedSlots' = QueuedSlots /\ Handling' = Handling
    BY Zenon DEF Registering, QueuedSlots, Handling
  <2> QED
    BY Zenon, <2>1 DEF IInv, SlotsInv
<1> QED
  BY Zenon, <1>1, <1>2, <1>3, <1>4, <1>5

LEMMA HotStepPreserves ==
    ASSUME IInv, HotStep
    PROVE  IInv'
<1>1. UNCHANGED <<mapVars, sem, lifeVars, submitVars, workerVars>>
  BY Zenon DEF HotStep, HotSnapshot, HotUpdate, HotPrune, HotExit
<1>2. TypeOK'
  BY Zenon, <1>1 DEF IInv, TypeOK, HotStep, HotSnapshot, HotUpdate, HotPrune, HotExit, mapVars, lifeVars,
     submitVars, workerVars
<1>3. LifeInv'
  BY Zenon, <1>1 DEF IInv, LifeInv, WorkersStopped, lifeVars, submitVars, workerVars
<1> QED
  BY Zenon, <1>1, <1>2, <1>3, OthersPreserve DEF IInv

\* Stop goes on only when those it waits for are done.
LEMMA StopPreserves ==
    ASSUME IInv, CancelContext \/ StopSubmitting \/ StopStep
    PROVE  IInv'
<1>1. UNCHANGED <<mapVars, sem, started, submitVars, workerVars, hotVars>>
  BY Zenon DEF CancelContext, StopSubmitting, StopStep, StopWorkers, StopReturn
<1>2. TypeOK'
  BY Zenon DEF IInv, TypeOK, CancelContext, StopSubmitting, StopStep, StopWorkers, StopReturn, mapVars,
     submitVars, workerVars, hotVars
<1>3. LifeInv'
  BY Zenon DEF IInv, LifeInv, WorkersStopped, submitVars, workerVars, CancelContext, StopSubmitting, StopStep,
     StopWorkers, StopReturn
<1> QED
  BY Zenon, <1>1, <1>2, <1>3, OthersPreserve DEF IInv

\* Start finds no worker running.
LEMMA StartPreserves ==
    ASSUME IInv, Start
    PROVE  IInv'
<1> USE DEF Start, mapVars, submitVars
<1>a. \A w \in QWorker : wpc[w] = "off" /\ wpc'[w] = "check"
  BY Zenon DEF IInv, LifeInv
<1>1. TypeOK'
  BY Zenon DEF IInv, TypeOK
<1>2. SubmittersInv'
  BY Zenon DEF IInv, SubmittersInv
<1>3. CountersInv'
  BY Zenon DEF IInv, CountersInv, RegisteredWith
<1>4. MapInv'
  BY Zenon DEF IInv, MapInv
<1>5. WorkersInv'
  BY Zenon, <1>a DEF IInv, WorkersInv, HeldQueue
<1>6. SlotsInv'
  <2>1. Registering' = Registering /\ QueuedSlots' = QueuedSlots /\ Handling' = Handling
    BY Zenon, <1>a DEF Registering, QueuedSlots, Handling
  <2> QED
    BY Zenon, <2>1 DEF IInv, SlotsInv
<1>7. LifeInv'
  BY Zenon DEF LifeInv, WorkersStopped, Stopping
<1> QED
  BY Zenon, <1>1, <1>2, <1>3, <1>4, <1>5, <1>6, <1>7 DEF IInv

\* enqueueItem sends or is cancelled.
LEMMA EnqueuePreserves ==
    ASSUME CountingLaws, IInv, NEW p \in Submitter, EnqueueItem(p)
    PROVE  IInv'
BY Zenon, SendPreserves, CancelPreserves DEF EnqueueItem

LEMMA StutterPreserves ==
    ASSUME IInv, UNCHANGED vars
    PROVE  IInv'
<1>1. UNCHANGED <<mapVars, sem, lifeVars, submitVars, workerVars, hotVars>>
  BY Zenon DEF vars
<1>2. TypeOK' /\ LifeInv'
  BY Zenon, <1>1 DEF IInv, TypeOK, LifeInv, WorkersStopped, mapVars, lifeVars, submitVars, workerVars, hotVars
<1> QED
  BY Zenon, <1>1, <1>2, OthersPreserve DEF IInv

\* The invariant is inductive.
LEMMA NextPreserves == CountingLaws /\ IInv /\ [Next]_vars => IInv'
<1> SUFFICES ASSUME CountingLaws, IInv, [Next]_vars PROVE IInv'
  BY Zenon
<1>1. CASE UNCHANGED vars
  BY Zenon, <1>1, StutterPreserves
<1>2. ASSUME NEW p \in Submitter, NEW i \in Item, BeginSubmission(p, i) PROVE IInv'
  BY Zenon, <1>2, BeginPreserves
<1>3. ASSUME NEW p \in Submitter, SubmitStep(p) PROVE IInv'
  BY Zenon, <1>3, AcquirePreserves, RegisterPreserves, EnqueuePreserves, FinishSubmitPreserves DEF SubmitStep
<1>4. ASSUME NEW w \in QWorker, WorkerStep(w) PROVE IInv'
  BY Zenon, <1>4, CheckPreserves, NextEventPreserves, ReceivePreserves, ProcessedPreserves,
     FinishEventPreserves, ReleasePreserves DEF WorkerStep
<1>5. CASE HotStep
  BY Zenon, <1>5, HotStepPreserves
<1>6. CASE Start
  BY Zenon, <1>6, StartPreserves
<1>7. CASE CancelContext \/ StopSubmitting \/ StopStep
  BY Zenon, <1>7, StopPreserves
<1> QED
  BY Zenon, <1>1, <1>2, <1>3, <1>4, <1>5, <1>6, <1>7 DEF Next

-----------------------------------------------------------------------------
(* The queue implements KeyedFIFO: the send is Accept, the receive is Take, *)
(* the processor's return is Complete, and every other step is a stutter.  *)

Processing(k) == {w \in QWorker : wpc[w] = "process" /\ KeyOf[witem[w]] = k}

LEMMA FifoValue ==
    ASSUME NEW k \in Key
    PROVE  fifoOf[k] = IF queues[k] = NoQueue THEN <<>> ELSE heap[queues[k]].ch
BY Zenon DEF fifoOf

LEMMA MappingsAreFunctions ==
    /\ busyOf = [k \in Key |-> busyOf[k]] /\ busyOf' = [k \in Key |-> busyOf'[k]]
    /\ fifoOf = [k \in Key |-> fifoOf[k]] /\ fifoOf' = [k \in Key |-> fifoOf'[k]]
BY DEF busyOf, fifoOf

\* At most one worker processes an item of a key, and its item is the busy one.
LEMMA BusyValue ==
    ASSUME IInv, NEW k \in Key
    PROVE  /\ Processing(k) = {} => busyOf[k] = NoItem
           /\ \A w \in Processing(k) : busyOf[k] = witem[w] /\ busyOf[k] # NoItem
<1>1. busyOf[k] = IF Processing(k) = {} THEN NoItem ELSE witem[CHOOSE w \in Processing(k) : TRUE]
  BY Zenon DEF busyOf, Processing
<1>2. ASSUME NEW w \in Processing(k), NEW x \in Processing(k) PROVE w = x
  <2>1. /\ w \in QWorker /\ wpc[w] = "process" /\ KeyOf[witem[w]] = k
        /\ x \in QWorker /\ wpc[x] = "process" /\ KeyOf[witem[x]] = k
    BY Zenon DEF Processing
  <2>2. HeldQueue(w) = queues[k] /\ HeldQueue(x) = queues[k] /\ HeldQueue(w) # NoQueue
    BY Zenon, <2>1 DEF HeldQueue, IInv, WorkersInv
  <2> QED
    BY Zenon, <2>1, <2>2 DEF IInv, WorkersInv
<1>3. ASSUME NEW w \in Processing(k) PROVE witem[w] \in Item /\ (CHOOSE x \in Processing(k) : TRUE) = w
  BY Zenon, <1>2 DEF Processing, IInv, WorkersInv
<1> QED
  BY Zenon, <1>1, <1>3, KeyQueueAssumption

\* A step that starts or ends no processing changes no busy item.
LEMMA BusyFrame ==
    ASSUME \A w \in QWorker : (wpc'[w] = "process") <=> (wpc[w] = "process"),
           \A w \in QWorker : wpc[w] = "process" => witem'[w] = witem[w]
    PROVE  busyOf' = busyOf
<1> SUFFICES ASSUME NEW k \in Key PROVE busyOf'[k] = busyOf[k]
  BY Zenon DEF busyOf
<1>1. busyOf[k] = IF Processing(k) = {} THEN NoItem ELSE witem[CHOOSE w \in Processing(k) : TRUE]
  BY Zenon DEF busyOf, Processing
<1>2. busyOf'[k] = IF Processing(k)' = {} THEN NoItem ELSE witem'[CHOOSE w \in Processing(k)' : TRUE]
  BY Zenon DEF busyOf, Processing
<1>3. Processing(k)' = Processing(k)
  BY Zenon DEF Processing
<1>4. Processing(k) # {} => witem'[CHOOSE w \in Processing(k) : TRUE] = witem[CHOOSE w \in Processing(k) : TRUE]
  <2>1. \A w \in Processing(k) : witem'[w] = witem[w]
    BY Zenon DEF Processing
  <2> QED
    BY Zenon, <2>1
<1> QED
  BY <1>1, <1>2, <1>3, <1>4

LEMMA FifoFrame ==
    ASSUME \A k \in Key : fifoOf'[k] = fifoOf[k]
    PROVE  fifoOf' = fifoOf
BY Zenon DEF fifoOf

\* A step that leaves the map and the channels of mapped queues alone.
LEMMA FifoUntouched ==
    ASSUME IInv, queues' = queues, \A q \in QueueId : heap'[q].ch = heap[q].ch
    PROVE  fifoOf' = fifoOf
<1>1. ASSUME NEW k \in Key PROVE fifoOf'[k] = fifoOf[k]
  BY Zenon, TypeOfQueues DEF fifoOf
<1> QED
  BY Zenon, <1>1, FifoFrame

LEMMA SendAccepts ==
    ASSUME IInv, NEW p \in Submitter, EnqueueItem(p),
           heap' = [heap EXCEPT ![squeue[p]].ch = Append(@, sitem[p])]
    PROVE  Promise!Accept(sitem[p])
<1>1. PICK k \in Key, q \in QueueId : k = KeyOf[sitem[p]] /\ q = squeue[p] /\ queues[k] = q
  BY Zenon, EnqueueFrame
<1>2. UNCHANGED <<queues, workerVars>>
  BY Zenon, EnqueueFrame
<1>3. /\ heap'[q].ch = Append(heap[q].ch, sitem[p])
      /\ \A r \in QueueId : r # q => heap'[r] = heap[r]
  <2>1. heap \in [QueueId -> QueueObject] /\ heap' = [heap EXCEPT ![q].ch = Append(@, sitem[p])]
    BY Zenon, <1>1, TypeOfQueues
  <2>2. heap'[q] = [heap[q] EXCEPT !.ch = Append(@, sitem[p])] /\ heap[q] \in QueueObject
    BY Zenon, <2>1
  <2> QED
    BY <2>2 DEF QueueObject
<1>4. busyOf' = busyOf
  BY Zenon, <1>2, BusyFrame DEF workerVars
<1>5. fifoOf'[k] = Append(fifoOf[k], sitem[p])
  BY Zenon, <1>1, <1>2, <1>3, KeyQueueAssumption DEF fifoOf
<1>6. ASSUME NEW j \in Key, j # k PROVE fifoOf'[j] = fifoOf[j]
  <2>1. queues[j] # NoQueue => queues[j] \in QueueId /\ queues[j] # q
    BY <1>1, <1>6 DEF IInv, TypeOK, MapInv
  <2> QED
    BY <2>1, <1>2, <1>3 DEF fifoOf
<1>7. fifoOf' = [fifoOf EXCEPT ![k] = Append(@, sitem[p])]
  BY Zenon, <1>5, <1>6, KeyQueueAssumption DEF fifoOf
<1> QED
  BY Zenon, <1>1, <1>4, <1>7 DEF Promise!Accept

LEMMA ReceiveTakes ==
    ASSUME IInv, IInv', NEW w \in QWorker, Receive(w)
    PROVE  \E k \in Key : Promise!Take(k)
<1>1. PICK k \in Key, q \in QueueId :
          /\ queues[k] = q /\ wqueue[w] = q /\ heap[q].ch # <<>> /\ heap[q].processing
          /\ HeldQueue(w) = q
  <2>1. wpc[w] = "receive" /\ HeldQueue(w) = wqueue[w]
    BY Zenon DEF Receive, HeldQueue
  <2>2. wqueue[w] \in QueueId /\ heap[wqueue[w]].ch # <<>> /\ \E k \in Key : queues[k] = wqueue[w]
    BY Zenon, <2>1 DEF IInv, WorkersInv
  <2>3. heap[wqueue[w]].processing
    BY Zenon, <2>1, KeyQueueAssumption DEF IInv, WorkersInv
  <2> QED
    BY Zenon, <2>1, <2>2, <2>3
<1>2. /\ wpc[w] = "receive" /\ witem' = [witem EXCEPT ![w] = Head(heap[q].ch)]
      /\ heap' = [heap EXCEPT ![q].ch = Tail(@)]
      /\ wpc' = [wpc EXCEPT ![w] = "process"]
      /\ queues' = queues
  BY Zenon, <1>1 DEF Receive
<1>3. /\ heap'[q].ch = Tail(heap[q].ch) /\ \A r \in QueueId : r # q => heap'[r] = heap[r]
      /\ heap[q].ch \in Seq(Item)
  <2>1. heap \in [QueueId -> QueueObject]
    BY Zenon, TypeOfQueues
  <2>2. heap'[q] = [heap[q] EXCEPT !.ch = Tail(@)] /\ heap[q] \in QueueObject
    BY Zenon, <2>1, <1>2
  <2> QED
    BY <2>2, <1>2 DEF QueueObject
<1>4. KeyOf[Head(heap[q].ch)] = k
  <2>1. 1 \in 1 .. Len(heap[q].ch) /\ Head(heap[q].ch) = heap[q].ch[1]
    BY <1>1
  <2>2. KeyOf[heap[q].ch[1]] = k
    BY <1>1, KeyQueueAssumption DEF IInv, MapInv
  <2> QED
    BY <2>2
<1>5. /\ wpc'[w] = "process" /\ witem'[w] = Head(heap[q].ch)
      /\ \A x \in QWorker : x # w => wpc'[x] = wpc[x] /\ witem'[x] = witem[x]
  BY Zenon, <1>2, TypeOfWorkers
<1>6. Processing(k) = {} /\ w \in Processing(k)'
  <2>1. w \in Processing(k)'
    BY Zenon, <1>4, <1>5 DEF Processing
  <2>2. ASSUME NEW x \in Processing(k) PROVE FALSE
    <3>1. x \in QWorker /\ HeldQueue(x) = q
      BY Zenon, <1>1 DEF Processing, HeldQueue
    <3>2. x = w
      BY Zenon, <3>1, <1>1, KeyQueueAssumption DEF IInv, WorkersInv
    <3> QED
      BY Zenon, <3>2, <1>2 DEF Processing
  <2> QED
    BY Zenon, <2>1, <2>2
<1>7. busyOf[k] = NoItem
  BY Zenon, <1>6, BusyValue
<1>8. busyOf'[k] = Head(heap[q].ch)
  <2>1. \A x \in Processing(k)' : busyOf'[k] = witem'[x]
    <3>1. busyOf'[k] = IF Processing(k)' = {} THEN NoItem ELSE witem'[CHOOSE x \in Processing(k)' : TRUE]
      BY Zenon DEF busyOf, Processing
    <3>2. Processing(k)' = {w}
      BY <1>5, <1>6 DEF Processing
    <3> QED
      BY Zenon, <3>1, <3>2
  <2> QED
    BY Zenon, <2>1, <1>5, <1>6
<1>9. ASSUME NEW j \in Key, j # k PROVE busyOf'[j] = busyOf[j]
  <2>1. Processing(j)' = Processing(j) /\ \A x \in Processing(j) : witem'[x] = witem[x]
    BY <1>2, <1>4, <1>5, <1>9 DEF Processing
  <2>2. busyOf[j] = IF Processing(j) = {} THEN NoItem ELSE witem[CHOOSE x \in Processing(j) : TRUE]
    BY Zenon DEF busyOf, Processing
  <2>3. busyOf'[j] = IF Processing(j)' = {} THEN NoItem ELSE witem'[CHOOSE x \in Processing(j)' : TRUE]
    BY Zenon DEF busyOf, Processing
  <2> QED
    BY Zenon, <2>1, <2>2, <2>3
<1>10. fifoOf[k] = heap[q].ch /\ fifoOf'[k] = Tail(fifoOf[k])
  BY Zenon, <1>1, <1>2, <1>3, KeyQueueAssumption DEF fifoOf
<1>11. ASSUME NEW j \in Key, j # k PROVE fifoOf'[j] = fifoOf[j]
  <2>1. queues[j] # NoQueue => queues[j] \in QueueId /\ queues[j] # q
    BY <1>1, <1>11, TypeOfQueues DEF IInv, MapInv
  <2> QED
    BY <2>1, <1>2, <1>3, KeyQueueAssumption DEF fifoOf
<1>12. fifoOf' = [fifoOf EXCEPT ![k] = Tail(@)]
  BY Zenon, <1>10, <1>11 DEF fifoOf
<1>13. busyOf' = [busyOf EXCEPT ![k] = Head(fifoOf[k])]
  BY Zenon, <1>8, <1>9, <1>10, MappingsAreFunctions
<1>14. Promise!Take(k)
  BY Zenon, <1>1, <1>7, <1>10, <1>12, <1>13 DEF Promise!Take
<1> QED
  BY Zenon, <1>14

LEMMA ProcessedCompletes ==
    ASSUME IInv, NEW w \in QWorker, Processed(w)
    PROVE  \E k \in Key : Promise!Complete(k)
<1>1. PICK k \in Key : w \in Processing(k)
  BY Zenon, KeyQueueAssumption DEF Processed, IInv, WorkersInv, Processing
<1>2. /\ busyOf[k] # NoItem /\ \A x \in Processing(k) : x = w
  <2>1. busyOf[k] # NoItem
    BY Zenon, <1>1, BusyValue
  <2>2. ASSUME NEW x \in Processing(k) PROVE x = w
    <3>1. HeldQueue(w) = queues[k] /\ HeldQueue(x) = queues[k] /\ HeldQueue(w) # NoQueue /\ x \in QWorker
      BY Zenon, <1>1 DEF Processing, HeldQueue, IInv, WorkersInv
    <3> QED
      BY Zenon, <3>1 DEF IInv, WorkersInv
  <2> QED
    BY Zenon, <2>1, <2>2
<1>3. /\ wpc'[w] = "finish" /\ UNCHANGED <<queues, heap, witem>>
      /\ \A x \in QWorker : x # w => wpc'[x] = wpc[x]
  BY Zenon DEF Processed, IInv, TypeOK, mapVars
<1>4. busyOf'[k] = NoItem
  <2>1. Processing(k)' = {}
    BY <1>2, <1>3 DEF Processing
  <2> QED
    BY Zenon, <2>1 DEF busyOf, Processing
<1>5. ASSUME NEW j \in Key, j # k PROVE busyOf'[j] = busyOf[j]
  <2>1. Processing(j)' = Processing(j)
    BY Zenon, <1>1, <1>3, <1>5 DEF Processing
  <2>2. busyOf[j] = IF Processing(j) = {} THEN NoItem ELSE witem[CHOOSE x \in Processing(j) : TRUE]
    BY Zenon DEF busyOf, Processing
  <2>3. busyOf'[j] = IF Processing(j)' = {} THEN NoItem ELSE witem'[CHOOSE x \in Processing(j)' : TRUE]
    BY Zenon DEF busyOf, Processing
  <2> QED
    BY Zenon, <2>1, <2>2, <2>3, <1>3
<1>6. busyOf' = [busyOf EXCEPT ![k] = NoItem]
  BY Zenon, <1>4, <1>5, MappingsAreFunctions
<1>7. fifoOf' = fifoOf
  BY Zenon, <1>3, FifoUntouched
<1> QED
  BY Zenon, <1>2, <1>6, <1>7 DEF Promise!Complete

\* registerQueueSubmitter adds at most an empty queue to the map.
LEMMA RegisterIsQuiet ==
    ASSUME IInv, NEW p \in Submitter, RegisterQueueSubmitter(p)
    PROVE  fifoOf' = fifoOf
<1>1. KeyOf[sitem[p]] \in Key
  BY Zenon, KeyQueueAssumption DEF RegisterQueueSubmitter, IInv, SubmittersInv
<1> DEFINE k == KeyOf[sitem[p]]
           q == IF queues[k] # NoQueue THEN queues[k] ELSE CHOOSE r \in Unreferenced : TRUE
           object == IF queues[k] # NoQueue THEN heap[q] ELSE EmptyQueue
<1>2. /\ queues[k] = NoQueue => q \in Unreferenced
      /\ queues' = [queues EXCEPT ![k] = q]
      /\ heap' = [heap EXCEPT ![q] = [object EXCEPT !.submitters = @ + 1]]
  BY Zenon DEF RegisterQueueSubmitter
<1>3. q \in QueueId /\ (queues[k] = NoQueue => \A j \in Key : queues[j] # q)
  BY Zenon, <1>1, <1>2, KeyQueueAssumption, TypeOfQueues DEF IInv, Unreferenced
<1>4. object \in QueueObject /\ (queues[k] = NoQueue => object.ch = <<>>) /\ (queues[k] # NoQueue => q = queues[k] /\ object = heap[q])
  BY <1>3, TypeOfQueues DEF QueueObject, EmptyQueue
<1>5. [object EXCEPT !.submitters = @ + 1].ch = object.ch
  OBVIOUS
<1>6. heap'[q].ch = object.ch /\ \A r \in QueueId : r # q => heap'[r] = heap[r]
  BY <1>2, <1>3 DEF IInv, TypeOK
<1>7. queues'[k] = q /\ \A j \in Key : j # k => queues'[j] = queues[j]
  BY Zenon, <1>1, <1>2, TypeOfQueues
<1> HIDE DEF k, q, object
<1>8. ASSUME NEW j \in Key PROVE fifoOf'[j] = fifoOf[j]
  <2>1. CASE j = k
    BY Zenon, <2>1, <1>4, <1>6, <1>7 DEF fifoOf
  <2>2. CASE j # k
    <3>1. queues[j] # NoQueue => queues[j] \in QueueId /\ queues[j] # q
      BY <2>2, <1>1, <1>3, <1>4 DEF IInv, TypeOK, MapInv, k
    <3> QED
      BY Zenon, <2>2, <3>1, <1>6, <1>7 DEF fifoOf
  <2> QED
    BY Zenon, <2>1, <2>2
<1> QED
  BY Zenon, <1>8, FifoFrame

\* finishSubmit and finishEvent take at most an empty queue out of the map.
LEMMA DropIsQuiet ==
    ASSUME IInv, NEW k \in Key, NEW unused \in BOOLEAN,
           unused => queues[k] # NoQueue /\ heap[queues[k]].ch = <<>>,
           queues' = [queues EXCEPT ![k] = IF unused THEN NoQueue ELSE @],
           \A q \in QueueId : heap'[q].ch = heap[q].ch
    PROVE  fifoOf' = fifoOf
<1>1. ASSUME NEW j \in Key PROVE fifoOf'[j] = fifoOf[j]
  <2>1. queues[j] # NoQueue => queues[j] \in QueueId
    BY Zenon, TypeOfQueues
  <2>2. queues'[j] = IF unused /\ j = k THEN NoQueue ELSE queues[j]
    BY Zenon, TypeOfQueues
  <2> QED
    BY Zenon, <2>1, <2>2 DEF fifoOf
<1> QED
  BY Zenon, <1>1, FifoFrame

LEMMA FinishSubmitIsQuiet ==
    ASSUME IInv, NEW p \in Submitter, FinishSubmit(p)
    PROVE  fifoOf' = fifoOf
<1>1. PICK k \in Key, q \in QueueId : k = KeyOf[sitem[p]] /\ q = squeue[p] /\ queues[k] = q
  BY Zenon, KeyQueueAssumption DEF FinishSubmit, IInv, SubmittersInv
<1> DEFINE left == IF heap[q].submitters = 0 THEN 0 ELSE heap[q].submitters - 1
           unused == queues[k] = q /\ ~heap[q].processing /\ left = 0 /\ heap[q].ch = <<>>
<1>2. /\ heap' = [heap EXCEPT ![q].submitters = left]
      /\ queues' = [queues EXCEPT ![k] = IF unused THEN NoQueue ELSE @]
  BY Zenon, <1>1 DEF FinishSubmit
<1>3. unused \in BOOLEAN /\ (unused => queues[k] # NoQueue /\ heap[queues[k]].ch = <<>>)
  BY Zenon, KeyQueueAssumption
<1>4. \A r \in QueueId : heap'[r].ch = heap[r].ch
  <2>1. heap[q] \in QueueObject /\ heap \in [QueueId -> QueueObject]
    BY Zenon, TypeOfQueues
  <2>2. [heap[q] EXCEPT !.submitters = left].ch = heap[q].ch
    OBVIOUS
  <2> HIDE DEF left
  <2> QED
    BY <1>2
<1> HIDE DEF unused
<1> QED
  BY Zenon, <1>2, <1>3, <1>4, DropIsQuiet

LEMMA FinishEventIsQuiet ==
    ASSUME IInv, NEW w \in QWorker, FinishEvent(w)
    PROVE  fifoOf' = fifoOf
<1>1. PICK k \in Key : k = KeyOf[witem[w]]
  BY Zenon, KeyQueueAssumption DEF FinishEvent, IInv, WorkersInv
<1>2. CASE queues[k] = NoQueue
  BY Zenon, <1>1, <1>2, FifoUntouched DEF FinishEvent, mapVars
<1>3. CASE queues[k] # NoQueue
  <2>1. PICK q \in QueueId : q = queues[k]
    BY Zenon, <1>3, TypeOfQueues
  <2> DEFINE unused == heap[q].submitters = 0 /\ heap[q].ch = <<>>
  <2>2. /\ heap' = [heap EXCEPT ![q].processing = FALSE]
        /\ queues' = [queues EXCEPT ![k] = IF unused THEN NoQueue ELSE @]
    BY Zenon, <1>1, <1>3, <2>1 DEF FinishEvent
  <2>3. unused \in BOOLEAN /\ (unused => queues[k] # NoQueue /\ heap[queues[k]].ch = <<>>)
    BY Zenon, <2>1, KeyQueueAssumption
  <2>4. \A r \in QueueId : heap'[r].ch = heap[r].ch
    <3>1. heap[q] \in QueueObject /\ heap \in [QueueId -> QueueObject]
      BY Zenon, TypeOfQueues
    <3>2. [heap[q] EXCEPT !.processing = FALSE].ch = heap[q].ch
      BY Zenon, <3>1 DEF QueueObject
    <3> QED
      BY Zenon, <3>1, <3>2, <2>2
  <2> HIDE DEF unused
  <2> QED
    BY Zenon, <2>2, <2>3, <2>4, DropIsQuiet
<1> QED
  BY Zenon, <1>2, <1>3

LEMMA NextEventIsQuiet ==
    ASSUME IInv, NEW w \in QWorker, NextEvent(w)
    PROVE  fifoOf' = fifoOf
<1>1. queues' = queues
  BY Zenon DEF NextEvent
<1>2. ASSUME NEW r \in QueueId PROVE heap'[r].ch = heap[r].ch
  <2>1. heap[r] \in QueueObject /\ heap \in [QueueId -> QueueObject]
    BY Zenon DEF IInv, TypeOK
  <2>2. [heap[r] EXCEPT !.processing = TRUE].ch = heap[r].ch
    OBVIOUS
  <2>3. heap'[r] = heap[r] \/ heap'[r] = [heap[r] EXCEPT !.processing = TRUE]
    BY Zenon, <2>1 DEF NextEvent
  <2> QED
    BY Zenon, <2>2, <2>3
<1> QED
  BY Zenon, <1>1, <1>2, FifoUntouched

\* No other step of a worker starts or ends processing.
LEMMA WorkerBusyFrame ==
    ASSUME IInv, NEW w \in QWorker,
           WorkerCheck(w) \/ NextEvent(w) \/ FinishEvent(w) \/ ReleaseSlot(w)
    PROVE  busyOf' = busyOf
<1>1. ASSUME NEW x \in QWorker
      PROVE  /\ (wpc'[x] = "process") <=> (wpc[x] = "process")
             /\ wpc[x] = "process" => witem'[x] = witem[x]
  BY Zenon, TypeOfWorkers DEF WorkerCheck, NextEvent, FinishEvent, ReleaseSlot
<1> QED
  BY Zenon, <1>1, BusyFrame

\* Every step of the queue is a step of KeyedFIFO or leaves it unchanged.
LEMMA StepSimulates == IInv /\ IInv' /\ [Next]_vars => [Promise!FIFONext]_<<fifoOf, busyOf>>
<1> SUFFICES ASSUME IInv, IInv', [Next]_vars
             PROVE  Promise!FIFONext \/ UNCHANGED <<fifoOf, busyOf>>
  BY Zenon
<1> USE DEF mapVars, lifeVars, submitVars, workerVars, hotVars
<1>a. ASSUME UNCHANGED <<queues, heap, wpc, witem>> PROVE UNCHANGED <<fifoOf, busyOf>>
  BY Zenon, <1>a, FifoUntouched, BusyFrame
<1>1. CASE UNCHANGED vars
  BY Zenon, <1>1, <1>a DEF vars
<1>2. ASSUME NEW p \in Submitter, NEW i \in Item, BeginSubmission(p, i) PROVE UNCHANGED <<fifoOf, busyOf>>
  BY Zenon, <1>2, <1>a DEF BeginSubmission
<1>3. ASSUME NEW p \in Submitter, SubmitStep(p) PROVE Promise!FIFONext \/ UNCHANGED <<fifoOf, busyOf>>
  <2>1. busyOf' = busyOf
    BY Zenon, <1>3, BusyFrame DEF SubmitStep, AcquireGlobalSlot, RegisterQueueSubmitter, EnqueueItem,
       FinishSubmit
  <2>2. CASE AcquireGlobalSlot(p)
    BY Zenon, <2>2, <1>a DEF AcquireGlobalSlot
  <2>3. CASE RegisterQueueSubmitter(p)
    BY Zenon, <2>1, <2>3, RegisterIsQuiet
  <2>4. CASE EnqueueItem(p) /\ heap' = heap
    BY Zenon, <2>4, <1>a, EnqueueFrame
  <2>5. CASE EnqueueItem(p) /\ heap' = [heap EXCEPT ![squeue[p]].ch = Append(@, sitem[p])]
    <3>1. Promise!Accept(sitem[p]) /\ sitem[p] \in Item
      BY Zenon, <2>5, SendAccepts, EnqueueFrame
    <3> QED
      BY Zenon, <3>1 DEF Promise!FIFONext
  <2>6. CASE FinishSubmit(p)
    BY Zenon, <2>1, <2>6, FinishSubmitIsQuiet
  <2>7. EnqueueItem(p) => heap' = heap \/ heap' = [heap EXCEPT ![squeue[p]].ch = Append(@, sitem[p])]
    BY Zenon DEF EnqueueItem
  <2> QED
    BY Zenon, <1>3, <2>2, <2>3, <2>4, <2>5, <2>6, <2>7 DEF SubmitStep
<1>4. ASSUME NEW w \in QWorker, WorkerStep(w) PROVE Promise!FIFONext \/ UNCHANGED <<fifoOf, busyOf>>
  <2>1. CASE Receive(w)
    BY Zenon, <2>1, ReceiveTakes DEF Promise!FIFONext
  <2>2. CASE Processed(w)
    BY Zenon, <2>2, ProcessedCompletes DEF Promise!FIFONext
  <2>3. CASE WorkerCheck(w) \/ ReleaseSlot(w)
    <3>1. UNCHANGED <<queues, heap>>
      BY Zenon, <2>3 DEF WorkerCheck, ReleaseSlot
    <3> QED
      BY Zenon, <2>3, <3>1, WorkerBusyFrame, FifoUntouched
  <2>4. CASE NextEvent(w)
    BY Zenon, <2>4, WorkerBusyFrame, NextEventIsQuiet
  <2>5. CASE FinishEvent(w)
    BY Zenon, <2>5, WorkerBusyFrame, FinishEventIsQuiet
  <2> QED
    BY Zenon, <1>4, <2>1, <2>2, <2>3, <2>4, <2>5 DEF WorkerStep
<1>5. CASE HotStep
  BY Zenon, <1>5, <1>a DEF HotStep, HotSnapshot, HotUpdate, HotPrune, HotExit
<1>6. CASE Start
  <2>1. \A w \in QWorker : wpc[w] = "off" /\ wpc'[w] = "check"
    BY Zenon, <1>6 DEF Start, IInv, LifeInv
  <2>2. busyOf' = busyOf
    BY Zenon, <2>1, BusyFrame
  <2> QED
    BY Zenon, <1>6, <2>2, FifoUntouched DEF Start
<1>7. CASE CancelContext \/ StopSubmitting \/ StopStep
  BY Zenon, <1>7, <1>a DEF CancelContext, StopSubmitting, StopStep, StopWorkers, StopReturn
<1> QED
  BY Zenon, <1>1, <1>2, <1>3, <1>4, <1>5, <1>6, <1>7 DEF Next

LEMMA InitSimulates == Init => Promise!FIFOInit
<1> SUFFICES ASSUME Init PROVE Promise!FIFOInit
  BY Zenon
<1>1. fifoOf = [k \in Key |-> <<>>]
  BY Zenon DEF Init, fifoOf
<1>2. busyOf = [k \in Key |-> NoItem]
  <2>1. \A k \in Key : Processing(k) = {}
    BY Zenon DEF Init, Processing
  <2> QED
    BY Zenon, <2>1 DEF busyOf, Processing
<1> QED
  BY Zenon, <1>1, <1>2 DEF Promise!FIFOInit

-----------------------------------------------------------------------------
INSTANCE FiniteSetTheorems

LEMMA Counting == CountingLaws
  BY Zenon, FS_CardinalityType, FS_EmptySet, FS_AddElement, FS_RemoveElement DEF CountingLaws

LEMMA InvariantHolds == Spec => []IInv
<1>1. QED
  BY Counting, InitInvariant, NextPreserves, PTL DEF Spec

\* However Submit, the queue workers, the hot-key checker and Stop interleave,
\* the semaphore, the map of queues and the marks agree, a marked queue has
\* something to receive, and nothing runs once Stop has returned (queue.go).
THEOREM Consistent == Spec => []QueueConsistent
<1>1. QED
  BY InvariantHolds, InvariantSuffices, PTL

\* The key queue implements KeyedFIFO, for every number of submitters, workers
\* and keys: the items of a key are processed one at a time and in the order
\* in which enqueueItem accepted them, and none is dropped or taken twice.
THEOREM KeyQueueRefinement == Spec => ImplementsKeyedFIFO
<1>1. Init => Promise!FIFOInit
  BY Zenon, InitSimulates
<1>2. IInv /\ IInv' /\ [Next]_vars => [Promise!FIFONext]_<<fifoOf, busyOf>>
  BY Zenon, StepSimulates
<1> QED
  BY <1>1, <1>2, InvariantHolds, PTL DEF Spec, ImplementsKeyedFIFO, Promise!FIFOSpec, Promise!fifoVars
=============================================================================
