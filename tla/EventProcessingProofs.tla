------------------------- MODULE EventProcessingProofs -------------------------
(***************************************************************************)
(* Proofs about EventProcessing, for any workers, shards, events, number   *)
(* of deliveries, faults and revisions, and about the fenced leases they   *)
(* rest on.                                                                *)
(***************************************************************************)
EXTENDS EventProcessing, TLAPS

-----------------------------------------------------------------------------
(* The fenced lease.                                                       *)

\* The lease variables keep their types.
LEMMA LeaseTypeStep == LeaseTypeOK /\ [LeaseNext]_leaseVars => LeaseTypeOK'
<1> SUFFICES ASSUME LeaseTypeOK, [LeaseNext]_leaseVars PROVE LeaseTypeOK'
  BY Zenon
<1> USE DEF LeaseTypeOK
<1>1. ASSUME NEW w \in Worker, NEW s \in Shard, Claim(w, s) PROVE LeaseTypeOK'
  BY <1>1 DEF Claim
<1>2. ASSUME NEW w \in Worker, NEW s \in Shard, Learn(w, s) PROVE LeaseTypeOK'
  BY Zenon, <1>2 DEF Learn
<1>3. ASSUME NEW S \in SUBSET Shard, Lapse(S) PROVE LeaseTypeOK'
  BY Zenon, <1>3 DEF Lapse
<1>4. ASSUME NEW w \in Worker, NEW S \in SUBSET Shard, Forget(w, S) PROVE LeaseTypeOK'
  BY Zenon, <1>4 DEF Forget
<1>5. CASE UNCHANGED leaseVars
  BY Zenon, <1>5 DEF leaseVars
<1> QED
  BY Zenon, <1>1, <1>2, <1>3, <1>4, <1>5 DEF LeaseNext

\* A local token stays at or below the row's, and names the row's owner when
\* it is the row's: a claim raises the token above every local copy.
LEMMA HeldStep ==
    LeaseTypeOK /\ HeldIsOwners /\ [LeaseNext]_leaseVars => HeldIsOwners'
<1> SUFFICES ASSUME LeaseTypeOK, HeldIsOwners, [LeaseNext]_leaseVars PROVE HeldIsOwners'
  BY Zenon
<1> USE DEF LeaseTypeOK, HeldIsOwners
<1>1. ASSUME NEW w \in Worker, NEW s \in Shard, Claim(w, s) PROVE HeldIsOwners'
  BY <1>1 DEF Claim
<1>2. ASSUME NEW w \in Worker, NEW s \in Shard, Learn(w, s) PROVE HeldIsOwners'
  BY <1>2 DEF Learn
<1>3. ASSUME NEW S \in SUBSET Shard, Lapse(S) PROVE HeldIsOwners'
  BY Zenon, <1>3 DEF Lapse
<1>4. ASSUME NEW w \in Worker, NEW S \in SUBSET Shard, Forget(w, S) PROVE HeldIsOwners'
  BY <1>4 DEF Forget
<1>5. CASE UNCHANGED leaseVars
  BY Zenon, <1>5 DEF leaseVars
<1> QED
  BY Zenon, <1>1, <1>2, <1>3, <1>4, <1>5 DEF LeaseNext

LEMMA LeaseInitial == LeaseInit => LeaseTypeOK /\ HeldIsOwners
  BY DEF LeaseInit, LeaseTypeOK, HeldIsOwners

\* Whoever holds a row's current token is the worker the row names, in every
\* behaviour the lease subsystem promises.
THEOREM HeldCorrect == LeaseSpec => [](LeaseTypeOK /\ HeldIsOwners)
<1>1. LeaseInit => LeaseTypeOK /\ HeldIsOwners
  BY Zenon, LeaseInitial
<1>2. LeaseTypeOK /\ HeldIsOwners /\ [LeaseNext]_leaseVars => (LeaseTypeOK /\ HeldIsOwners)'
  BY Zenon, LeaseTypeStep, HeldStep
<1> QED
  BY <1>1, <1>2, PTL DEF LeaseSpec

-----------------------------------------------------------------------------
USE EventAssumption, NoOwnerAssumption

(* What an action does to the deliveries.                                  *)

LEMMA NoJobType == NoJob \in Job /\ NoJob.phase = "free" /\ NoJob.seen = FALSE
<1>1. (CHOOSE e \in Event : TRUE) \in Event /\ (CHOOSE w \in Worker : TRUE) \in Worker
  BY Zenon
<1> QED
  BY Zenon, <1>1 DEF NoJob, Job, Phase, InTx, Asserted, Inserted

\* The records the steps of a delivery make are jobs again.
LEMMA QueuedJob ==
    ASSUME NEW j \in Job, NEW ph \in Phase, NEW n \in Nat
    PROVE  [j EXCEPT !.phase = ph, !.token = n] \in Job
  BY Zenon DEF Job

LEMMA BegunJob ==
    ASSUME NEW j \in Job, NEW ph \in Phase, NEW b \in BOOLEAN, NEW n \in Nat
    PROVE  [j EXCEPT !.phase = ph, !.sawLive = b, !.sawToken = n] \in Job
  BY Zenon DEF Job

LEMMA AssertedJob ==
    ASSUME NEW j \in Job, NEW ph \in Phase, NEW n \in Nat, NEW b \in BOOLEAN
    PROVE  [j EXCEPT !.phase = ph, !.rev = n, !.seen = b] \in Job
  BY Zenon DEF Job

LEMMA LoadedJob ==
    ASSUME NEW j \in Job, NEW ph \in Phase, NEW n \in Nat
    PROVE  [j EXCEPT !.phase = ph, !.rev = n] \in Job
  BY Zenon DEF Job

LEMMA FetchedJob ==
    ASSUME NEW j \in Job, NEW ph \in Phase, NEW e \in Event, NEW w \in Worker
    PROVE  [j EXCEPT !.phase = ph, !.event = e, !.worker = w] \in Job
  BY Zenon DEF Job

LEMMA JobUpdate ==
    ASSUME TypeOK, NEW d \in Delivery, NEW j \in Job, job' = [job EXCEPT ![d] = j]
    PROVE  /\ job' \in [Delivery -> Job]
           /\ job'[d] = j
           /\ \A c \in Delivery \ {d} : job'[c] = job[c]
  BY Zenon DEF TypeOK

\* A delivery that only moves on keeps everything but its phase.
LEMMA GotoJob ==
    ASSUME TypeOK, NEW d \in Delivery, NEW ph \in Phase, Goto(d, ph)
    PROVE  /\ job' \in [Delivery -> Job]
           /\ job'[d] = [job[d] EXCEPT !.phase = ph]
           /\ \A c \in Delivery \ {d} : job'[c] = job[c]
  BY DEF TypeOK, Goto, Job

LEMMA FinishJob ==
    ASSUME TypeOK, NEW d \in Delivery, Finish(d)
    PROVE  /\ job' \in [Delivery -> Job]
           /\ job'[d] = NoJob
           /\ \A c \in Delivery \ {d} : job'[c] = job[c]
  BY Zenon, NoJobType DEF TypeOK, Finish

-----------------------------------------------------------------------------
(* Type correctness.                                                       *)

LEMMA TypeInit == Init => TypeOK
  BY NoJobType, LeaseInitial DEF Init, TypeOK

LEMMA FaultyType == TypeOK /\ Faulty => faults' \in 0 .. MaxFaults /\ UNCHANGED <<backend, kind>>
  BY DEF TypeOK, Faulty

\* Commit adds an execution of the delivery's event.
LEMMA PersistType ==
    ASSUME TypeOK, NEW d \in Delivery, Persist(d)
    PROVE  executions' \subseteq [event : Event, rev : Nat]
<1>1. job[d].event \in Event /\ job[d].rev \in Nat
  BY Zenon DEF TypeOK, Job
<1> QED
  BY <1>1 DEF TypeOK, Persist

LEMMA TypeStep == TypeOK /\ [Next]_vars => TypeOK'
<1> SUFFICES ASSUME TypeOK, [Next]_vars PROVE TypeOK'
  BY Zenon
<1> USE DEF Phase, InTx, Asserted, Inserted
<1>0. \A d \in Delivery : job[d] \in Job /\ JobShard(d) \in Shard /\ job[d].worker \in Worker
  BY Zenon DEF TypeOK, Job, JobShard
<1>1. ASSUME NEW d \in Delivery, Route(d) PROVE TypeOK'
  <2>1. job' \in [Delivery -> Job]
    BY Zenon, <1>1, GotoJob, FinishJob DEF Route
  <2>2. msg' \in [Event -> {"ready", "inflight", "acked"}]
    BY Zenon, <1>0, <1>1 DEF TypeOK, Route, Redeliver
  <2> QED
    BY Zenon, <1>1, <2>1, <2>2 DEF TypeOK, LeaseTypeOK, leaseVars, ruleVars, Route
<1>2. ASSUME NEW d \in Delivery, Submit(d) PROVE TypeOK'
  <2>1. held[job[d].worker][JobShard(d)] \in Nat
    BY <1>0 DEF TypeOK, LeaseTypeOK
  <2>2. job' \in [Delivery -> Job]
    BY Zenon, <1>0, <1>2, <2>1, QueuedJob, JobUpdate DEF Submit
  <2> QED
    BY Zenon, <1>2, <2>2 DEF TypeOK, LeaseTypeOK, leaseVars, ruleVars, Submit
<1>3. ASSUME NEW d \in Delivery, Begin(d) PROVE TypeOK'
  <2>1. live[JobShard(d)] \in BOOLEAN /\ token[JobShard(d)] \in Nat
    BY Zenon, <1>0 DEF TypeOK, LeaseTypeOK
  <2>2. job' \in [Delivery -> Job]
    BY Zenon, <1>0, <1>3, <2>1, BegunJob, JobUpdate, GotoJob DEF Begin
  <2> QED
    BY Zenon, <1>3, <2>2 DEF TypeOK, LeaseTypeOK, leaseVars, ruleVars, Begin
<1>4. ASSUME NEW d \in Delivery, AssertHeld(d) PROVE TypeOK'
  <2>1. active \in Nat /\ Executed(job[d].event) \in BOOLEAN
    BY DEF TypeOK, Executed
  <2>2. job' \in [Delivery -> Job]
    BY Zenon, <1>0, <1>4, <2>1, AssertedJob, JobUpdate, GotoJob DEF AssertHeld
  <2> QED
    BY Zenon, <1>4, <2>2 DEF TypeOK, LeaseTypeOK, leaseVars, ruleVars, AssertHeld
<1>5. ASSUME NEW d \in Delivery, CheckInbox(d) PROVE TypeOK'
  BY Zenon, <1>5, GotoJob DEF TypeOK, LeaseTypeOK, leaseVars, ruleVars, CheckInbox
<1>6. ASSUME NEW d \in Delivery, InsertInbox(d) PROVE TypeOK'
  BY Zenon, <1>6, GotoJob DEF TypeOK, LeaseTypeOK, leaseVars, ruleVars, InsertInbox
<1>7. ASSUME NEW d \in Delivery, LoadActivation(d) PROVE TypeOK'
  BY Zenon, <1>7, GotoJob DEF TypeOK, LeaseTypeOK, leaseVars, ruleVars, LoadActivation
<1>8. ASSUME NEW d \in Delivery, LoadRevision(d) PROVE TypeOK'
  <2>1. ReadActive(d) \in Nat
    BY <1>0 DEF TypeOK, ReadActive, Job
  <2>2. job' \in [Delivery -> Job]
    BY Zenon, <1>0, <1>8, <2>1, LoadedJob, JobUpdate DEF LoadRevision
  <2> QED
    BY Zenon, <1>8, <2>2 DEF TypeOK, LeaseTypeOK, leaseVars, ruleVars, LoadRevision
<1>9. ASSUME NEW d \in Delivery, Commit(d) PROVE TypeOK'
  <2>1. job' \in [Delivery -> Job]
    BY Zenon, <1>9, GotoJob DEF Commit
  <2> QED
    BY Zenon, <1>9, <2>1, PersistType DEF TypeOK, LeaseTypeOK, leaseVars, ruleVars, Commit
<1>10. ASSUME NEW d \in Delivery, Ack(d) PROVE TypeOK'
  <2>1. job' \in [Delivery -> Job]
    BY Zenon, <1>10, FinishJob DEF Ack
  <2> QED
    BY Zenon, <1>10, <2>1, <1>0 DEF TypeOK, LeaseTypeOK, leaseVars, ruleVars, Ack, Acknowledge, Job
<1>11. ASSUME NEW d \in Delivery, Retry(d) PROVE TypeOK'
  <2>1. job' \in [Delivery -> Job]
    BY Zenon, <1>11, FinishJob DEF Retry
  <2> QED
    BY Zenon, <1>11, <2>1, <1>0 DEF TypeOK, LeaseTypeOK, leaseVars, ruleVars, Retry, Redeliver, Job
<1>12. ASSUME NEW d \in Delivery, QuarantineEvent(d) PROVE TypeOK'
  <2>1. job' \in [Delivery -> Job]
    BY Zenon, <1>12, GotoJob DEF QuarantineEvent
  <2> QED
    BY <1>12, <2>1, <1>0 DEF TypeOK, LeaseTypeOK, leaseVars, ruleVars, QuarantineEvent, Job
<1>13. ASSUME NEW d \in Delivery, SubmitError(d) PROVE TypeOK'
  <2>1. job' \in [Delivery -> Job]
    BY Zenon, <1>13, FinishJob DEF SubmitError
  <2> QED
    BY Zenon, <1>13, <2>1, <1>0, FaultyType DEF TypeOK, LeaseTypeOK, leaseVars, ruleVars, SubmitError, Redeliver, Job
<1>14. ASSUME NEW d \in Delivery, CommitUnknown(d) PROVE TypeOK'
  <2>1. job' \in [Delivery -> Job]
    BY Zenon, <1>14, GotoJob DEF CommitUnknown
  <2> QED
    BY Zenon, <1>14, <2>1, PersistType, FaultyType DEF TypeOK, LeaseTypeOK, leaseVars, ruleVars, CommitUnknown
<1>15. ASSUME NEW d \in Delivery, TxError(d) PROVE TypeOK'
  <2>1. job' \in [Delivery -> Job]
    BY Zenon, <1>15, GotoJob DEF TxError
  <2> QED
    BY Zenon, <1>15, <2>1, FaultyType DEF TypeOK, LeaseTypeOK, leaseVars, ruleVars, TxError
<1>16. ASSUME NEW d \in Delivery, QuarantineError(d) PROVE TypeOK'
  <2>1. job' \in [Delivery -> Job]
    BY Zenon, <1>16, GotoJob DEF QuarantineError
  <2> QED
    BY Zenon, <1>16, <2>1, FaultyType DEF TypeOK, LeaseTypeOK, leaseVars, ruleVars, QuarantineError
<1>17. ASSUME NEW d \in Delivery, SettleError(d) PROVE TypeOK'
  <2>1. job' \in [Delivery -> Job]
    BY Zenon, <1>17, FinishJob DEF SettleError
  <2> QED
    BY Zenon, <1>17, <2>1, FaultyType DEF TypeOK, LeaseTypeOK, leaseVars, ruleVars, SettleError
<1>18. ASSUME NEW w \in Worker, NEW e \in Event, NEW d \in Delivery, Fetch(w, e, d) PROVE TypeOK'
  BY Zenon, <1>18, NoJobType, FetchedJob, JobUpdate DEF TypeOK, LeaseTypeOK, leaseVars, ruleVars, Fetch
<1>19. ASSUME NEW e \in Event, AckWaitLost(e) \/ AckWaitSlow(e) PROVE TypeOK'
  BY <1>19 DEF TypeOK, LeaseTypeOK, leaseVars, ruleVars, AckWaitLost, AckWaitSlow, AckWait, Faulty
<1>20. ASSUME Activate \/ Deactivate PROVE TypeOK'
  BY <1>20 DEF TypeOK, LeaseTypeOK, leaseVars, ruleVars, procVars, Activate, Deactivate
<1>21. ASSUME NEW w \in Worker, NEW s \in Shard, LeaseStep(w, s) \/ MongoRenewRead(w, s) PROVE TypeOK'
  <2>1. CASE Acquire(w, s)
    BY <2>1 DEF TypeOK, LeaseTypeOK, leaseVars, ruleVars, procVars, Acquire, Claim
  <2>2. CASE Adopt(w, s)
    BY Zenon, <2>2 DEF TypeOK, LeaseTypeOK, leaseVars, ruleVars, procVars, Adopt, Learn
  <2>3. CASE MongoAcquire(w, s)
    BY <2>3 DEF TypeOK, LeaseTypeOK, leaseVars, ruleVars, procVars, MongoAcquire
  <2>4. CASE LoseLease(w, s)
    BY <2>4 DEF TypeOK, LeaseTypeOK, leaseVars, ruleVars, procVars, LoseLease, Forget
  <2>5. CASE MongoRenewRead(w, s)
    BY Zenon, <2>5 DEF TypeOK, LeaseTypeOK, leaseVars, ruleVars, procVars, MongoRenewRead
  <2> QED
    BY Zenon, <1>21, <2>1, <2>2, <2>3, <2>4, <2>5 DEF LeaseStep
<1>22. ASSUME NEW s \in Shard, LapseLease(s) PROVE TypeOK'
  BY <1>22 DEF TypeOK, LeaseTypeOK, leaseVars, ruleVars, procVars, LapseLease, Lapse, Faulty
<1>23. ASSUME NEW w \in Worker, Crash(w) PROVE TypeOK'
  BY <1>23, NoJobType DEF TypeOK, LeaseTypeOK, leaseVars, ruleVars, Crash, Forget, Faulty
<1>24. CASE UNCHANGED vars
  BY Zenon, <1>24 DEF TypeOK, LeaseTypeOK, leaseVars, ruleVars, procVars, vars
<1> QED
  BY Zenon, <1>1, <1>2, <1>3, <1>4, <1>5, <1>6, <1>7, <1>8, <1>9, <1>10, <1>11, <1>12, <1>13, <1>14,
     <1>15, <1>16, <1>17, <1>18, <1>19, <1>20, <1>21, <1>22, <1>23, <1>24
  DEF Next, Step, StepError, Fault

\* Every variable of the event processor keeps its type.
THEOREM TypeCorrect == Spec => []TypeOK
  BY TypeInit, TypeStep, PTL DEF Spec

-----------------------------------------------------------------------------
(* Deduplication and settlement.  The inductive invariant adds to the two  *)
(* properties what the transactions in progress know.                      *)

\* A transaction with an uncommitted inbox row is the only one of its event,
\* and the event has no execution yet.
InsertedIsNew ==
    \A d \in Delivery : job[d].phase \in Inserted =>
        /\ ~Executed(job[d].event)
        /\ \A c \in Delivery \ {d} : job[c].phase \in Inserted => job[c].event # job[d].event

\* What is about to be acknowledged is durable.
SettledIsDurable ==
    \A d \in Delivery :
        /\ job[d].phase = "done" \/ job[d].seen => Executed(job[d].event)
        /\ job[d].phase = "ackq" => job[d].event \in quarantined

DurableInv ==
    InsertedIsNew /\ SettledIsDurable /\ AtMostOneExecution /\ AckedIsDurable

LEMMA DurableInit == Init => DurableInv
  BY Zenon, NoJobType
  DEF Init, DurableInv, InsertedIsNew, SettledIsDurable, AtMostOneExecution, AckedIsDurable,
      Executed, Inserted

\* A delivery that ends, or begins anew, in a state that claims nothing.
Fresh(c) == job'[c].phase \notin Inserted \cup {"done", "ackq"} /\ ~job'[c].seen

\* A delivery that moves on and claims only what is so.
Moves(c) ==
    /\ job'[c].event = job[c].event
    /\ job'[c].phase \in Inserted => job[c].phase \in Inserted
    /\ job'[c].phase = "done" => Executed(job[c].event)
    /\ job'[c].phase = "ackq" => job[c].event \in quarantined'
    /\ job'[c].seen => job[c].seen \/ Executed(job[c].event)

\* A step that commits nothing and takes no new inbox row keeps the invariant.
LEMMA QuietStep ==
    ASSUME DurableInv,
           executions' = executions,
           quarantined \subseteq quarantined',
           \A c \in Delivery : job'[c] = job[c] \/ Fresh(c) \/ Moves(c),
           \A e \in Event : msg'[e] = "acked" => msg[e] = "acked" \/ Executed(e) \/ e \in quarantined
    PROVE  DurableInv'
<1>1. \A e : Executed(e)' <=> Executed(e)
  BY Zenon DEF Executed
<1>2. InsertedIsNew'
  <2> SUFFICES ASSUME NEW d \in Delivery, job'[d].phase \in Inserted
               PROVE  /\ ~Executed(job'[d].event)
                      /\ \A c \in Delivery \ {d} :
                            job'[c].phase \in Inserted => job'[c].event # job'[d].event
    BY Zenon, <1>1 DEF InsertedIsNew, Executed
  <2>1. \A c \in Delivery : job'[c].phase \in Inserted =>
            job[c].phase \in Inserted /\ job'[c].event = job[c].event
    BY Zenon DEF Fresh, Moves
  <2> QED
    BY Zenon, <2>1 DEF DurableInv, InsertedIsNew
<1>3. SettledIsDurable'
  <2> SUFFICES ASSUME NEW d \in Delivery
               PROVE  /\ job'[d].phase = "done" \/ job'[d].seen => Executed(job'[d].event)
                      /\ job'[d].phase = "ackq" => job'[d].event \in quarantined'
    BY Zenon DEF SettledIsDurable, Executed
  <2> QED
    BY Zenon DEF DurableInv, SettledIsDurable, Fresh, Moves
<1>4. AtMostOneExecution'
  BY Zenon DEF DurableInv, AtMostOneExecution
<1>5. AckedIsDurable'
  BY Zenon, <1>1 DEF DurableInv, AckedIsDurable
<1> QED
  BY Zenon, <1>2, <1>3, <1>4, <1>5 DEF DurableInv

\* The fields of a job after Goto.
LEMMA GotoFields ==
    ASSUME TypeOK, NEW d \in Delivery, NEW ph \in Phase, Goto(d, ph)
    PROVE  /\ job'[d].phase = ph
           /\ job'[d].event = job[d].event
           /\ job'[d].seen = job[d].seen
           /\ \A c \in Delivery \ {d} : job'[c] = job[c]
<1>1. \A j \in Job : LET i == [j EXCEPT !.phase = ph]
                    IN  i.phase = ph /\ i.event = j.event /\ i.seen = j.seen
  BY Zenon DEF Job
<1>2. job[d] \in Job
  BY Zenon DEF TypeOK
<1> QED
  BY <1>1, <1>2, GotoJob

\* A finished delivery claims nothing; the others are untouched.
LEMMA FinishFresh ==
    ASSUME TypeOK, NEW d \in Delivery, Finish(d)
    PROVE  \A c \in Delivery : job'[c] = job[c] \/ Fresh(c)
  BY Zenon, FinishJob, NoJobType DEF Fresh, Inserted

\* The commit of d's transaction.
LEMMA PersistStep ==
    ASSUME TypeOK, DurableInv, NEW d \in Delivery, job[d].phase = "loaded", Persist(d),
           NEW ph \in {"done", "retry"}, Goto(d, ph), UNCHANGED <<msg, quarantined>>
    PROVE  DurableInv'
<1> DEFINE x == [event |-> job[d].event, rev |-> job[d].rev]
<1>1. executions' = executions \cup {x} /\ x.event = job[d].event
  BY Zenon DEF Persist
<1>2. \A e : Executed(e)' <=> Executed(e) \/ e = job[d].event
  BY Zenon, <1>1 DEF Executed
<1>3. /\ job'[d].phase = ph
      /\ job'[d].event = job[d].event
      /\ job'[d].seen = job[d].seen
      /\ \A c \in Delivery \ {d} : job'[c] = job[c]
  BY Zenon, GotoFields DEF Phase
<1>4. /\ ~Executed(job[d].event)
      /\ \A c \in Delivery \ {d} : job[c].phase \in Inserted => job[c].event # job[d].event
  BY Zenon DEF DurableInv, InsertedIsNew, Inserted
<1>5. InsertedIsNew'
  <2> SUFFICES ASSUME NEW c \in Delivery, job'[c].phase \in Inserted
               PROVE  /\ ~(Executed(job[c].event)')
                      /\ c # d
                      /\ \A b \in Delivery \ {c} :
                            job'[b].phase \in Inserted => job'[b].event # job'[c].event
    BY Zenon, <1>3 DEF InsertedIsNew, Executed
  <2>1. c # d
    BY Zenon, <1>3 DEF Inserted
  <2> QED
    BY <1>2, <1>3, <1>4, <2>1 DEF DurableInv, InsertedIsNew, Inserted
<1>6. SettledIsDurable'
  <2> SUFFICES ASSUME NEW c \in Delivery
               PROVE  /\ job'[c].phase = "done" \/ job'[c].seen => Executed(job[c].event)'
                      /\ job'[c].phase = "ackq" => job'[c].event \in quarantined'
    BY Zenon DEF SettledIsDurable, Executed
  <2> QED
    BY Zenon, <1>2, <1>3 DEF DurableInv, SettledIsDurable
<1>7. AtMostOneExecution'
  BY <1>1, <1>4 DEF DurableInv, AtMostOneExecution, Executed
<1>8. AckedIsDurable'
  BY Zenon, <1>2 DEF DurableInv, AckedIsDurable
<1> QED
  BY Zenon, <1>5, <1>6, <1>7, <1>8 DEF DurableInv

\* The insert of d's inbox row: nobody else has one for the event.
LEMMA InsertStep ==
    ASSUME TypeOK, DurableInv, NEW d \in Delivery, Goto(d, "inserted"),
           ~InsertPending(d), ~Executed(job[d].event), UNCHANGED <<msg, executions, quarantined>>
    PROVE  DurableInv'
<1>1. /\ job'[d].phase = "inserted"
      /\ job'[d].event = job[d].event
      /\ job'[d].seen = job[d].seen
      /\ \A c \in Delivery \ {d} : job'[c] = job[c]
  BY Zenon, GotoFields DEF Phase, InTx, Asserted, Inserted
<1>2. \A e : Executed(e)' <=> Executed(e)
  BY Zenon DEF Executed
<1>3. InsertedIsNew'
  <2> SUFFICES ASSUME NEW c \in Delivery, job'[c].phase \in Inserted
               PROVE  /\ ~Executed(job'[c].event)
                      /\ \A b \in Delivery \ {c} :
                            job'[b].phase \in Inserted => job'[b].event # job'[c].event
    BY Zenon DEF InsertedIsNew, Executed
  <2> QED
    BY <1>1 DEF DurableInv, InsertedIsNew, InsertPending
<1>4. SettledIsDurable'
  <2> SUFFICES ASSUME NEW c \in Delivery
               PROVE  /\ job'[c].phase = "done" \/ job'[c].seen => Executed(job'[c].event)
                      /\ job'[c].phase = "ackq" => job'[c].event \in quarantined'
    BY Zenon DEF SettledIsDurable, Executed
  <2> QED
    BY Zenon, <1>1 DEF DurableInv, SettledIsDurable
<1>5. AtMostOneExecution' /\ AckedIsDurable'
  BY Zenon, <1>2 DEF DurableInv, AtMostOneExecution, AckedIsDurable
<1> QED
  BY Zenon, <1>3, <1>4, <1>5 DEF DurableInv

\* No step loses the invariant.
LEMMA DurableStep == TypeOK /\ DurableInv /\ [Next]_vars => DurableInv'
<1> SUFFICES ASSUME TypeOK, DurableInv, [Next]_vars PROVE DurableInv'
  BY Zenon
<1> USE DEF Phase, InTx, Asserted, Inserted
<1>0. \A d \in Delivery : job[d] \in Job /\ job[d].event \in Event
  BY Zenon DEF TypeOK, Job
<1>1. ASSUME NEW d \in Delivery, Route(d) PROVE DurableInv'
  <2>1. \A c \in Delivery : job'[c] = job[c] \/ Fresh(c) \/ Moves(c)
    BY <1>1, GotoFields, FinishFresh DEF Route, Moves
  <2>2. \A e \in Event : msg'[e] = "acked" => msg[e] = "acked" \/ Executed(e) \/ e \in quarantined
    BY Zenon, <1>0, <1>1 DEF TypeOK, Route, Redeliver
  <2> QED
    BY Zenon, <1>1, <2>1, <2>2, QuietStep DEF Route
<1>2. ASSUME NEW d \in Delivery, Submit(d) PROVE DurableInv'
  <2>1. \A c \in Delivery : job'[c] = job[c] \/ Fresh(c) \/ Moves(c)
    <3>1. /\ job'[d].phase = "queued" /\ job'[d].event = job[d].event /\ job'[d].seen = job[d].seen
          /\ \A c \in Delivery \ {d} : job'[c] = job[c]
      BY <1>0, <1>2 DEF TypeOK, Submit, Job
    <3> QED
      BY Zenon, <3>1 DEF Moves
  <2> QED
    BY Zenon, <1>2, <2>1, QuietStep DEF Submit
<1>3. ASSUME NEW d \in Delivery, Begin(d) PROVE DurableInv'
  <2>1. \A c \in Delivery : job'[c] = job[c] \/ Fresh(c) \/ Moves(c)
    <3>1. /\ job'[d].phase \in {"begun", "reject", "retry"}
          /\ job'[d].event = job[d].event /\ job'[d].seen = job[d].seen
          /\ \A c \in Delivery \ {d} : job'[c] = job[c]
      <4>1. CASE Goto(d, "reject") \/ Goto(d, "retry")
        BY Zenon, <4>1, GotoFields
      <4>2. CASE job' = [job EXCEPT ![d] = [@ EXCEPT !.phase = "begun",
                                                     !.sawLive = live[JobShard(d)],
                                                     !.sawToken = token[JobShard(d)]]]
        BY <1>0, <4>2 DEF TypeOK, Job
      <4> QED
        BY Zenon, <1>3, <4>1, <4>2 DEF Begin
    <3> QED
      BY Zenon, <3>1 DEF Moves
  <2> QED
    BY Zenon, <1>3, <2>1, QuietStep DEF Begin
<1>4. ASSUME NEW d \in Delivery, AssertHeld(d) PROVE DurableInv'
  <2>1. \A c \in Delivery : job'[c] = job[c] \/ Fresh(c) \/ Moves(c)
    <3>1. /\ job'[d].phase \in {"asserted", "retry"} /\ job'[d].event = job[d].event
          /\ job'[d].seen => job[d].seen \/ Executed(job[d].event)
          /\ \A c \in Delivery \ {d} : job'[c] = job[c]
      <4>1. CASE Goto(d, "retry")
        BY Zenon, <4>1, GotoFields
      <4>2. CASE job' = [job EXCEPT ![d] = [@ EXCEPT !.phase = "asserted",
                                                     !.rev = active,
                                                     !.seen = Executed(job[d].event)]]
        BY <1>0, <4>2 DEF TypeOK, Job
      <4> QED
        BY Zenon, <1>4, <4>1, <4>2 DEF AssertHeld
    <3> QED
      BY Zenon, <3>1 DEF Moves
  <2> QED
    BY Zenon, <1>4, <2>1, QuietStep DEF AssertHeld
<1>5. ASSUME NEW d \in Delivery, CheckInbox(d) PROVE DurableInv'
  <2>1. \A c \in Delivery : job'[c] = job[c] \/ Fresh(c) \/ Moves(c)
    <3>1. ReadExecuted(d) => Executed(job[d].event)
      BY Zenon DEF ReadExecuted, DurableInv, SettledIsDurable
    <3> QED
      BY <1>5, <3>1, GotoFields DEF CheckInbox, Moves
  <2> QED
    BY Zenon, <1>5, <2>1, QuietStep DEF CheckInbox
<1>6. ASSUME NEW d \in Delivery, InsertInbox(d) PROVE DurableInv'
  <2>1. CASE Goto(d, "inserted") /\ ~InsertPending(d) /\ ~Executed(job[d].event)
    BY Zenon, <1>6, <2>1, InsertStep DEF InsertInbox
  <2>2. CASE \/ Goto(d, "retry")
             \/ Goto(d, "done") /\ Executed(job[d].event)
    <3>1. \A c \in Delivery : job'[c] = job[c] \/ Fresh(c) \/ Moves(c)
      BY <2>2, GotoFields DEF Moves
    <3> QED
      BY Zenon, <1>6, <3>1, QuietStep DEF InsertInbox
  <2> QED
    BY Zenon, <1>6, <2>1, <2>2 DEF InsertInbox
<1>7. ASSUME NEW d \in Delivery, LoadActivation(d) PROVE DurableInv'
  <2>1. \A c \in Delivery : job'[c] = job[c] \/ Fresh(c) \/ Moves(c)
    BY <1>7, GotoFields DEF LoadActivation, Moves
  <2> QED
    BY Zenon, <1>7, <2>1, QuietStep DEF LoadActivation
<1>8. ASSUME NEW d \in Delivery, LoadRevision(d) PROVE DurableInv'
  <2>1. \A c \in Delivery : job'[c] = job[c] \/ Fresh(c) \/ Moves(c)
    <3>1. /\ job'[d].phase \in {"loaded", "reject"}
          /\ job'[d].event = job[d].event /\ job'[d].seen = job[d].seen
          /\ \A c \in Delivery \ {d} : job'[c] = job[c]
      BY <1>0, <1>8 DEF TypeOK, LoadRevision, Job
    <3> QED
      BY Zenon, <1>8, <3>1 DEF LoadRevision, Moves
  <2> QED
    BY Zenon, <1>8, <2>1, QuietStep DEF LoadRevision
<1>9. ASSUME NEW d \in Delivery, Commit(d) PROVE DurableInv'
  BY Zenon, <1>9, PersistStep DEF Commit
<1>10. ASSUME NEW d \in Delivery, Ack(d) PROVE DurableInv'
  <2>1. \A c \in Delivery : job'[c] = job[c] \/ Fresh(c) \/ Moves(c)
    BY Zenon, <1>10, FinishFresh DEF Ack
  <2>2. \A e \in Event : msg'[e] = "acked" => msg[e] = "acked" \/ Executed(e) \/ e \in quarantined
    BY Zenon, <1>0, <1>10 DEF TypeOK, Ack, Acknowledge, DurableInv, SettledIsDurable
  <2> QED
    BY Zenon, <1>10, <2>1, <2>2, QuietStep DEF Ack
<1>11. ASSUME NEW d \in Delivery, Retry(d) PROVE DurableInv'
  <2>1. \A c \in Delivery : job'[c] = job[c] \/ Fresh(c) \/ Moves(c)
    BY Zenon, <1>11, FinishFresh DEF Retry
  <2>2. \A e \in Event : msg'[e] = "acked" => msg[e] = "acked" \/ Executed(e) \/ e \in quarantined
    BY Zenon, <1>0, <1>11 DEF TypeOK, Retry, Redeliver
  <2> QED
    BY Zenon, <1>11, <2>1, <2>2, QuietStep DEF Retry
<1>12. ASSUME NEW d \in Delivery, QuarantineEvent(d) PROVE DurableInv'
  <2>1. \A c \in Delivery : job'[c] = job[c] \/ Fresh(c) \/ Moves(c)
    BY <1>12, GotoFields DEF QuarantineEvent, Moves
  <2> QED
    BY Zenon, <1>12, <2>1, QuietStep DEF QuarantineEvent
<1>13. ASSUME NEW d \in Delivery, SubmitError(d) PROVE DurableInv'
  <2>1. \A c \in Delivery : job'[c] = job[c] \/ Fresh(c) \/ Moves(c)
    BY Zenon, <1>13, FinishFresh DEF SubmitError
  <2>2. \A e \in Event : msg'[e] = "acked" => msg[e] = "acked" \/ Executed(e) \/ e \in quarantined
    BY Zenon, <1>0, <1>13 DEF TypeOK, SubmitError, Redeliver
  <2> QED
    BY Zenon, <1>13, <2>1, <2>2, QuietStep DEF SubmitError
<1>14. ASSUME NEW d \in Delivery, CommitUnknown(d) PROVE DurableInv'
  BY Zenon, <1>14, PersistStep DEF CommitUnknown
<1>15. ASSUME NEW d \in Delivery, TxError(d) PROVE DurableInv'
  <2>1. \A c \in Delivery : job'[c] = job[c] \/ Fresh(c) \/ Moves(c)
    BY <1>15, GotoFields DEF TxError, Moves
  <2> QED
    BY Zenon, <1>15, <2>1, QuietStep DEF TxError
<1>16. ASSUME NEW d \in Delivery, QuarantineError(d) PROVE DurableInv'
  <2>1. \A c \in Delivery : job'[c] = job[c] \/ Fresh(c) \/ Moves(c)
    BY <1>16, GotoFields DEF QuarantineError, Moves
  <2> QED
    BY Zenon, <1>16, <2>1, QuietStep DEF QuarantineError
<1>17. ASSUME NEW d \in Delivery, SettleError(d) PROVE DurableInv'
  <2>1. \A c \in Delivery : job'[c] = job[c] \/ Fresh(c) \/ Moves(c)
    BY Zenon, <1>17, FinishFresh DEF SettleError
  <2> QED
    BY Zenon, <1>17, <2>1, QuietStep DEF SettleError
<1>18. ASSUME NEW w \in Worker, NEW e \in Event, NEW d \in Delivery, Fetch(w, e, d) PROVE DurableInv'
  <2>1. \A c \in Delivery : job'[c] = job[c] \/ Fresh(c) \/ Moves(c)
    BY Zenon, <1>18, NoJobType DEF TypeOK, Fetch, Fresh, Job
  <2>2. \A f \in Event : msg'[f] = "acked" => msg[f] = "acked"
    BY Zenon, <1>18 DEF TypeOK, Fetch
  <2> QED
    BY Zenon, <1>18, <2>1, <2>2, QuietStep DEF Fetch
<1>19. ASSUME NEW e \in Event, AckWaitLost(e) \/ AckWaitSlow(e) PROVE DurableInv'
  <2>1. \A f \in Event : msg'[f] = "acked" => msg[f] = "acked"
    BY Zenon, <1>19 DEF TypeOK, AckWaitLost, AckWaitSlow, AckWait
  <2> QED
    BY Zenon, <1>19, <2>1, QuietStep DEF AckWaitLost, AckWaitSlow, AckWait
<1>20. CASE UNCHANGED procVars
  BY Zenon, <1>20, QuietStep DEF procVars
<1>21. ASSUME NEW w \in Worker, Crash(w) PROVE DurableInv'
  <2>1. \A c \in Delivery : job'[c] = job[c] \/ Fresh(c) \/ Moves(c)
    BY Zenon, <1>21, NoJobType DEF Crash, Fresh
  <2> QED
    BY Zenon, <1>21, <2>1, QuietStep DEF Crash
<1>22. ASSUME NEW w \in Worker, NEW s \in Shard, LeaseStep(w, s) \/ MongoRenewRead(w, s)
       PROVE  DurableInv'
  BY Zenon, <1>20, <1>22 DEF LeaseStep, Acquire, Adopt, MongoAcquire, LoseLease, MongoRenewRead
<1>23. CASE UNCHANGED vars
  BY Zenon, <1>20, <1>23 DEF vars
<1>24. CASE Activate \/ Deactivate
  BY Zenon, <1>20, <1>24 DEF Activate, Deactivate
<1>25. ASSUME NEW s \in Shard, LapseLease(s) PROVE DurableInv'
  BY Zenon, <1>20, <1>25 DEF LapseLease
<1> QED
  BY Zenon, <1>1, <1>2, <1>3, <1>4, <1>5, <1>6, <1>7, <1>8, <1>9, <1>10, <1>11, <1>12, <1>13, <1>14,
     <1>15, <1>16, <1>17, <1>18, <1>19, <1>21, <1>22, <1>23, <1>24, <1>25
  DEF Next, Step, StepError, Fault

LEMMA DurableCorrect == Spec => [](TypeOK /\ DurableInv)
  BY TypeInit, TypeStep, DurableInit, DurableStep, PTL DEF Spec

\* However often, by however many workers and under whichever revisions an
\* event is delivered, deduplicateEvent lets one execution of it commit, on
\* either backend.
THEOREM Deduplicated == Spec => []AtMostOneExecution
  BY DurableCorrect, PTL DEF DurableInv

\* The worker acknowledges a message only when its event has an execution or a
\* quarantine record, on either backend.
THEOREM NothingLost == Spec => []AckedIsDurable
  BY DurableCorrect, PTL DEF DurableInv

-----------------------------------------------------------------------------
(* Fencing over PostgreSQL.                                                *)

\* A delivery that does not pass AssertHeld in this step.
NotAsserting(c) ==
    job'[c].phase \in Asserted =>
        /\ job[c].phase \in Asserted
        /\ job'[c].event = job[c].event
        /\ job'[c].worker = job[c].worker
        /\ job'[c].token = job[c].token

LEMMA GotoLease ==
    ASSUME TypeOK, NEW d \in Delivery, NEW ph \in Phase, Goto(d, ph),
           ph \in Asserted => job[d].phase \in Asserted
    PROVE  \A c \in Delivery : NotAsserting(c)
<1>1. \A j \in Job : LET i == [j EXCEPT !.phase = ph]
                    IN  i.phase = ph /\ i.event = j.event /\ i.worker = j.worker /\ i.token = j.token
  BY Zenon DEF Job
<1>2. job[d] \in Job
  BY Zenon DEF TypeOK
<1>3. job'[d] = [job[d] EXCEPT !.phase = ph] /\ \A c \in Delivery \ {d} : job'[c] = job[c]
  BY Zenon, GotoJob
<1>4. NotAsserting(d)
  BY Zenon, <1>1, <1>2, <1>3 DEF NotAsserting
<1> QED
  BY Zenon, <1>3, <1>4 DEF NotAsserting

LEMMA FinishLease ==
    ASSUME TypeOK, NEW d \in Delivery, Finish(d)
    PROVE  \A c \in Delivery : NotAsserting(c)
  BY Zenon, FinishJob, NoJobType DEF NotAsserting, Asserted, Inserted

\* While the row stands still, so does what was asserted of it.
LEMMA RowKept ==
    ASSUME AssertedIsCurrent, UNCHANGED <<owner, token>>, \A c \in Delivery : NotAsserting(c)
    PROVE  AssertedIsCurrent'
  BY Zenon DEF AssertedIsCurrent, NotAsserting, JobShard, JobToken

\* The store and the events' contents are given.
LEMMA GivenKept == [Next]_vars => UNCHANGED <<backend, kind>>
<1> SUFFICES ASSUME [Next]_vars PROVE UNCHANGED <<backend, kind>>
  BY Zenon
<1>1. ASSUME NEW d \in Delivery, Step(d) PROVE UNCHANGED <<backend, kind>>
  BY Zenon, <1>1 DEF Step, Route, Submit, Begin, AssertHeld, CheckInbox, InsertInbox, LoadActivation,
      LoadRevision, Commit, Ack, Retry, QuarantineEvent
<1>2. ASSUME NEW d \in Delivery, StepError(d) PROVE UNCHANGED <<backend, kind>>
  BY Zenon, <1>2 DEF StepError, SubmitError, CommitUnknown, TxError, QuarantineError, SettleError, Faulty
<1>3. ASSUME NEW w \in Worker, NEW s \in Shard, LeaseStep(w, s) \/ MongoRenewRead(w, s)
      PROVE  UNCHANGED <<backend, kind>>
  BY Zenon, <1>3 DEF LeaseStep, Acquire, Adopt, MongoAcquire, LoseLease, MongoRenewRead
<1> QED
  BY Zenon, <1>1, <1>2, <1>3 DEF Next, Fault, Fetch, AckWaitLost, AckWaitSlow, Activate, Deactivate,
      LapseLease, Crash, Faulty, vars

LEMMA FenceStep ==
    ASSUME backend = "postgres", TypeOK, AssertedIsCurrent, [Next]_vars
    PROVE  AssertedIsCurrent'
<1> USE DEF Phase, InTx, Asserted, Inserted
<1>0. \A d \in Delivery : job[d] \in Job
  BY Zenon DEF TypeOK
<1>1. ASSUME NEW d \in Delivery, Route(d) PROVE AssertedIsCurrent'
  <2>1. \A c \in Delivery : NotAsserting(c)
    BY Zenon, <1>1, GotoLease, FinishLease DEF Route
  <2> QED
    BY Zenon, <1>1, <2>1, RowKept DEF Route, leaseVars
<1>2. ASSUME NEW d \in Delivery, Submit(d) PROVE AssertedIsCurrent'
  <2>1. \A c \in Delivery : NotAsserting(c)
    BY <1>0, <1>2 DEF TypeOK, Submit, Job, NotAsserting
  <2> QED
    BY Zenon, <1>2, <2>1, RowKept DEF Submit, leaseVars
<1>3. ASSUME NEW d \in Delivery, Begin(d) PROVE AssertedIsCurrent'
  <2>1. \A c \in Delivery : NotAsserting(c)
    <3>1. CASE Goto(d, "reject") \/ Goto(d, "retry")
      BY Zenon, <3>1, GotoLease
    <3>2. CASE job' = [job EXCEPT ![d] = [@ EXCEPT !.phase = "begun",
                                                   !.sawLive = live[JobShard(d)],
                                                   !.sawToken = token[JobShard(d)]]]
      BY <1>0, <3>2 DEF TypeOK, Job, NotAsserting
    <3> QED
      BY Zenon, <1>3, <3>1, <3>2 DEF Begin
  <2> QED
    BY Zenon, <1>3, <2>1, RowKept DEF Begin, leaseVars
<1>4. ASSUME NEW d \in Delivery, AssertHeld(d) PROVE AssertedIsCurrent'
  <2>1. CASE Goto(d, "retry")
    <3>1. \A c \in Delivery : NotAsserting(c)
      BY Zenon, <2>1, GotoLease
    <3> QED
      BY Zenon, <1>4, <3>1, RowKept DEF AssertHeld, leaseVars
  <2>2. CASE /\ PgAssertHeld(d)
             /\ job' = [job EXCEPT ![d] = [@ EXCEPT !.phase = "asserted",
                                                    !.rev = active,
                                                    !.seen = Executed(job[d].event)]]
    <3>1. /\ job'[d].event = job[d].event /\ job'[d].worker = job[d].worker
          /\ job'[d].token = job[d].token
          /\ \A c \in Delivery \ {d} : job'[c] = job[c]
      BY <1>0, <2>2 DEF TypeOK, Job
    <3>2. UNCHANGED <<owner, token>>
      BY Zenon, <1>4 DEF AssertHeld, leaseVars
    <3> QED
      BY <2>2, <3>1, <3>2 DEF AssertedIsCurrent, PgAssertHeld, JobShard, JobToken
  <2> QED
    BY Zenon, <1>4, <2>1, <2>2 DEF AssertHeld
<1>5. ASSUME NEW d \in Delivery, CheckInbox(d) PROVE AssertedIsCurrent'
  <2>1. \A c \in Delivery : NotAsserting(c)
    BY Zenon, <1>5, GotoLease DEF CheckInbox
  <2> QED
    BY Zenon, <1>5, <2>1, RowKept DEF CheckInbox, leaseVars
<1>6. ASSUME NEW d \in Delivery, InsertInbox(d) PROVE AssertedIsCurrent'
  <2>1. \A c \in Delivery : NotAsserting(c)
    BY Zenon, <1>6, GotoLease DEF InsertInbox
  <2> QED
    BY Zenon, <1>6, <2>1, RowKept DEF InsertInbox, leaseVars
<1>7. ASSUME NEW d \in Delivery, LoadActivation(d) PROVE AssertedIsCurrent'
  <2>1. \A c \in Delivery : NotAsserting(c)
    BY Zenon, <1>7, GotoLease DEF LoadActivation
  <2> QED
    BY Zenon, <1>7, <2>1, RowKept DEF LoadActivation, leaseVars
<1>8. ASSUME NEW d \in Delivery, LoadRevision(d) PROVE AssertedIsCurrent'
  <2>1. \A c \in Delivery : NotAsserting(c)
    BY <1>0, <1>8 DEF TypeOK, LoadRevision, Job, NotAsserting
  <2> QED
    BY Zenon, <1>8, <2>1, RowKept DEF LoadRevision, leaseVars
<1>9. ASSUME NEW d \in Delivery, Commit(d) PROVE AssertedIsCurrent'
  <2>1. \A c \in Delivery : NotAsserting(c)
    BY Zenon, <1>9, GotoLease DEF Commit
  <2> QED
    BY Zenon, <1>9, <2>1, RowKept DEF Commit, leaseVars
<1>10. ASSUME NEW d \in Delivery, Ack(d) PROVE AssertedIsCurrent'
  <2>1. \A c \in Delivery : NotAsserting(c)
    BY Zenon, <1>10, FinishLease DEF Ack
  <2> QED
    BY Zenon, <1>10, <2>1, RowKept DEF Ack, leaseVars
<1>11. ASSUME NEW d \in Delivery, Retry(d) PROVE AssertedIsCurrent'
  <2>1. \A c \in Delivery : NotAsserting(c)
    BY Zenon, <1>11, FinishLease DEF Retry
  <2> QED
    BY Zenon, <1>11, <2>1, RowKept DEF Retry, leaseVars
<1>12. ASSUME NEW d \in Delivery, QuarantineEvent(d) PROVE AssertedIsCurrent'
  <2>1. \A c \in Delivery : NotAsserting(c)
    BY Zenon, <1>12, GotoLease DEF QuarantineEvent
  <2> QED
    BY Zenon, <1>12, <2>1, RowKept DEF QuarantineEvent, leaseVars
<1>13. ASSUME NEW d \in Delivery, SubmitError(d) PROVE AssertedIsCurrent'
  <2>1. \A c \in Delivery : NotAsserting(c)
    BY Zenon, <1>13, FinishLease DEF SubmitError
  <2> QED
    BY Zenon, <1>13, <2>1, RowKept DEF SubmitError, leaseVars
<1>14. ASSUME NEW d \in Delivery, CommitUnknown(d) PROVE AssertedIsCurrent'
  <2>1. \A c \in Delivery : NotAsserting(c)
    BY Zenon, <1>14, GotoLease DEF CommitUnknown
  <2> QED
    BY Zenon, <1>14, <2>1, RowKept DEF CommitUnknown, leaseVars
<1>15. ASSUME NEW d \in Delivery, TxError(d) PROVE AssertedIsCurrent'
  <2>1. \A c \in Delivery : NotAsserting(c)
    BY Zenon, <1>15, GotoLease DEF TxError
  <2> QED
    BY Zenon, <1>15, <2>1, RowKept DEF TxError, leaseVars
<1>16. ASSUME NEW d \in Delivery, QuarantineError(d) PROVE AssertedIsCurrent'
  <2>1. \A c \in Delivery : NotAsserting(c)
    BY Zenon, <1>16, GotoLease DEF QuarantineError
  <2> QED
    BY Zenon, <1>16, <2>1, RowKept DEF QuarantineError, leaseVars
<1>17. ASSUME NEW d \in Delivery, SettleError(d) PROVE AssertedIsCurrent'
  <2>1. \A c \in Delivery : NotAsserting(c)
    BY Zenon, <1>17, FinishLease DEF SettleError
  <2> QED
    BY Zenon, <1>17, <2>1, RowKept DEF SettleError, leaseVars
<1>18. ASSUME NEW w \in Worker, NEW e \in Event, NEW d \in Delivery, Fetch(w, e, d)
       PROVE  AssertedIsCurrent'
  <2>1. \A c \in Delivery : NotAsserting(c)
    BY Zenon, <1>18, NoJobType DEF TypeOK, Fetch, Job, NotAsserting
  <2> QED
    BY Zenon, <1>18, <2>1, RowKept DEF Fetch, leaseVars
<1>19. CASE UNCHANGED <<owner, token, job>>
  BY Zenon, <1>19, RowKept DEF NotAsserting
<1>20. ASSUME NEW w \in Worker, NEW s \in Shard, Acquire(w, s) PROVE AssertedIsCurrent'
  <2>1. \A d \in Delivery : job[d].phase \in Asserted => JobShard(d) # s
    BY Zenon, <1>20 DEF Acquire, RowLocked
  <2>2. \A t \in Shard \ {s} : owner'[t] = owner[t] /\ token'[t] = token[t]
    BY Zenon, <1>20 DEF TypeOK, LeaseTypeOK, Acquire, Claim
  <2>3. \A d \in Delivery : JobShard(d) \in Shard
    BY Zenon, <1>0 DEF Job, JobShard
  <2>4. job' = job
    BY Zenon, <1>20 DEF Acquire, procVars
  <2> QED
    BY Zenon, <2>1, <2>2, <2>3, <2>4 DEF AssertedIsCurrent, JobShard, JobToken
<1>21. ASSUME NEW w \in Worker, Crash(w) PROVE AssertedIsCurrent'
  <2>1. \A c \in Delivery : NotAsserting(c)
    BY Zenon, <1>21, NoJobType DEF Crash, NotAsserting
  <2> QED
    BY Zenon, <1>21, <2>1, RowKept DEF Crash, Forget
<1>22. ASSUME NEW w \in Worker, NEW s \in Shard, LeaseStep(w, s) \/ MongoRenewRead(w, s)
       PROVE  AssertedIsCurrent'
  BY Zenon, <1>19, <1>20, <1>22
  DEF LeaseStep, Adopt, Learn, MongoAcquire, LoseLease, Forget, MongoRenewRead, procVars
<1>23. ASSUME NEW s \in Shard, LapseLease(s) PROVE AssertedIsCurrent'
  BY Zenon, <1>19, <1>23 DEF LapseLease, Lapse, procVars
<1>24. ASSUME NEW e \in Event, AckWaitLost(e) \/ AckWaitSlow(e) PROVE AssertedIsCurrent'
  BY Zenon, <1>19, <1>24 DEF AckWaitLost, AckWaitSlow, AckWait, leaseVars
<1>25. CASE Activate \/ Deactivate \/ UNCHANGED vars
  BY Zenon, <1>19, <1>25 DEF Activate, Deactivate, vars, leaseVars, procVars
<1> QED
  BY Zenon, <1>1, <1>2, <1>3, <1>4, <1>5, <1>6, <1>7, <1>8, <1>9, <1>10, <1>11, <1>12, <1>13, <1>14,
     <1>15, <1>16, <1>17, <1>18, <1>21, <1>22, <1>23, <1>24, <1>25
  DEF Next, Step, StepError, Fault

\* A transaction past AssertHeld runs under the row's owner and token until it
\* ends, over PostgreSQL: the share lock keeps Acquire out.
THEOREM Fenced == Spec => [](backend = "postgres" => AssertedIsCurrent)
<1>1. Init => AssertedIsCurrent
  BY Zenon, NoJobType DEF Init, AssertedIsCurrent, Asserted, Inserted
<1>2. TypeOK /\ (backend = "postgres" => AssertedIsCurrent) /\ [Next]_vars =>
        (backend = "postgres" => AssertedIsCurrent)'
  BY Zenon, FenceStep, GivenKept
<1> QED
  BY <1>1, <1>2, TypeCorrect, PTL DEF Spec

\* Only Commit and its lost answer add an execution.
LEMMA OnlyCommits ==
    ASSUME TypeOK, [Next]_vars, executions' # executions
    PROVE  \E d \in Delivery : job[d].phase = "loaded" /\ job'[d].phase # "loaded"
<1>1. ASSUME NEW d \in Delivery, Step(d) \/ StepError(d)
      PROVE  \E c \in Delivery : job[c].phase = "loaded" /\ job'[c].phase # "loaded"
  <2>1. job[d].phase = "loaded" /\ (Goto(d, "done") \/ Goto(d, "retry"))
    BY Zenon, <1>1 DEF Step, StepError, Route, Submit, Begin, AssertHeld, CheckInbox, InsertInbox,
        LoadActivation, LoadRevision, Commit, Ack, Retry, QuarantineEvent, SubmitError,
        CommitUnknown, TxError, QuarantineError, SettleError
  <2> QED
    BY <2>1, GotoFields DEF Phase
<1>2. ASSUME NEW w \in Worker, NEW s \in Shard, LeaseStep(w, s) \/ MongoRenewRead(w, s) PROVE FALSE
  BY Zenon, <1>2 DEF LeaseStep, Acquire, Adopt, MongoAcquire, LoseLease, MongoRenewRead, procVars
<1> QED
  BY Zenon, <1>1, <1>2 DEF Next, Fault, Fetch, AckWaitLost, AckWaitSlow, AckWait, Activate, Deactivate,
      LapseLease, Crash, vars, procVars

\* Over PostgreSQL no stale holder commits: an execution is added only by a
\* delivery whose worker has the row, with the row's fencing token.
THEOREM CommitsAreFenced == Spec => LockedCommitIsFenced
<1>1. TypeOK /\ (backend = "postgres" => AssertedIsCurrent) /\ [Next]_vars =>
        [backend = "postgres" /\ executions' # executions => CommitByHolder]_vars
  BY SMTT(30), OnlyCommits DEF AssertedIsCurrent, Asserted, Inserted, CommitByHolder
<1> QED
  BY <1>1, TypeCorrect, Fenced, PTL DEF Spec, LockedCommitIsFenced

-----------------------------------------------------------------------------
(* Quarantine over MongoDB.                                                *)

\* What the snapshot adds: a delivery that found an activation still has its
\* revision, so a rejected event is a permanent one.
Justified(c) ==
    /\ job[c].phase = "activated" => job[c].rev # 0
    /\ job[c].phase = "reject" => kind[job[c].event] # "ok"

SnapshotInv == QuarantinedIsPermanent /\ \A c \in Delivery : Justified(c)

LEMMA MoveJustified ==
    ASSUME TypeOK, SnapshotInv, NEW d \in Delivery, NEW j \in Job,
           job' = [job EXCEPT ![d] = j], UNCHANGED kind,
           j.phase = "activated" => j.rev # 0,
           j.phase = "reject" => kind[j.event] # "ok"
    PROVE  \A c \in Delivery : Justified(c)'
<1>1. job'[d] = j /\ \A c \in Delivery \ {d} : job'[c] = job[c]
  BY Zenon, JobUpdate
<1>2. \A c \in Delivery \ {d} : Justified(c)'
  BY <1>1 DEF SnapshotInv, Justified
<1>3. Justified(d)'
  BY Zenon, <1>1 DEF Justified
<1> QED
  BY Zenon, <1>2, <1>3

LEMMA GotoJustified ==
    ASSUME TypeOK, SnapshotInv, NEW d \in Delivery, NEW ph \in Phase, Goto(d, ph), UNCHANGED kind,
           ph = "activated" => job[d].rev # 0,
           ph = "reject" => kind[job[d].event] # "ok"
    PROVE  \A c \in Delivery : Justified(c)'
<1>1. job[d] \in Job
  BY Zenon DEF TypeOK
<1> DEFINE j == [job[d] EXCEPT !.phase = ph]
<1>2. j \in Job /\ j.phase = ph /\ j.rev = job[d].rev /\ j.event = job[d].event
  BY Zenon, <1>1 DEF Job
<1>3. job' = [job EXCEPT ![d] = j]
  BY Zenon DEF Goto
<1> QED
  BY Zenon, <1>2, <1>3, MoveJustified

LEMMA FinishJustified ==
    ASSUME TypeOK, SnapshotInv, NEW d \in Delivery, Finish(d), UNCHANGED kind
    PROVE  \A c \in Delivery : Justified(c)'
  BY Zenon, NoJobType, MoveJustified DEF Finish

LEMMA SnapshotStep ==
    ASSUME backend = "mongo", TypeOK, SnapshotInv, [Next]_vars
    PROVE  SnapshotInv'
<1> USE DEF Phase, InTx, Asserted, Inserted
<1>k. UNCHANGED kind
  BY Zenon, GivenKept
<1>j. \A d \in Delivery : job[d] \in Job
  BY Zenon DEF TypeOK
<1>0. ASSUME \A c \in Delivery : Justified(c)', UNCHANGED quarantined PROVE SnapshotInv'
  BY Zenon, <1>0, <1>k DEF SnapshotInv, QuarantinedIsPermanent
<1>1. ASSUME NEW d \in Delivery, Route(d) PROVE SnapshotInv'
  BY Zenon, <1>0, <1>1, <1>k, GotoJustified, FinishJustified DEF Route
<1>2. ASSUME NEW d \in Delivery, Submit(d) PROVE SnapshotInv'
  <2> DEFINE n == held[job[d].worker][JobShard(d)]
             j == [job[d] EXCEPT !.phase = "queued", !.token = n]
  <2>1. n \in Nat
    BY <1>j DEF TypeOK, LeaseTypeOK, Job, JobShard
  <2> HIDE DEF n
  <2>2. j \in Job /\ j.phase = "queued"
    <3>1. j \in Job
      BY Zenon, <1>j, <2>1, QueuedJob
    <3>2. j.phase = "queued"
      BY Zenon, <1>j DEF Job
    <3> QED
      BY Zenon, <3>1, <3>2
  <2>3. job' = [job EXCEPT ![d] = j] /\ UNCHANGED quarantined
    BY Zenon, <1>2 DEF Submit, n
  <2> HIDE DEF j
  <2> QED
    BY Zenon, <1>0, <1>k, <2>2, <2>3, MoveJustified
<1>3. ASSUME NEW d \in Delivery, Begin(d) PROVE SnapshotInv'
  <2> DEFINE l == live[JobShard(d)]
             t == token[JobShard(d)]
             j == [job[d] EXCEPT !.phase = "begun", !.sawLive = l, !.sawToken = t]
  <2>1. l \in BOOLEAN /\ t \in Nat
    BY Zenon, <1>j DEF TypeOK, LeaseTypeOK, Job, JobShard
  <2> HIDE DEF l, t
  <2>2. j \in Job /\ j.phase = "begun"
    <3>1. j \in Job
      BY Zenon, <1>j, <2>1, BegunJob
    <3>2. j.phase = "begun"
      BY Zenon, <1>j DEF Job
    <3> QED
      BY Zenon, <3>1, <3>2
  <2>3. CASE Goto(d, "reject") /\ kind[job[d].event] = "invalid"
    BY Zenon, <1>0, <1>3, <1>k, <2>3, GotoJustified DEF Begin
  <2>4. CASE Goto(d, "retry")
    BY Zenon, <1>0, <1>3, <1>k, <2>4, GotoJustified DEF Begin
  <2>5. CASE job' = [job EXCEPT ![d] = j]
    <3> HIDE DEF j
    <3> QED
      BY Zenon, <1>0, <1>3, <1>k, <2>2, <2>5, MoveJustified DEF Begin
  <2> QED
    BY Zenon, <1>3, <2>3, <2>4, <2>5 DEF Begin, l, t
<1>4. ASSUME NEW d \in Delivery, AssertHeld(d) PROVE SnapshotInv'
  <2> DEFINE x == Executed(job[d].event)
             j == [job[d] EXCEPT !.phase = "asserted", !.rev = active, !.seen = x]
  <2>1. active \in Nat /\ x \in BOOLEAN
    BY DEF TypeOK, Executed
  <2> HIDE DEF x
  <2>2. j \in Job /\ j.phase = "asserted"
    <3>1. j \in Job
      BY Zenon, <1>j, <2>1, AssertedJob
    <3>2. j.phase = "asserted"
      BY Zenon, <1>j DEF Job
    <3> QED
      BY Zenon, <3>1, <3>2
  <2>3. CASE Goto(d, "retry")
    BY Zenon, <1>0, <1>4, <1>k, <2>3, GotoJustified DEF AssertHeld
  <2>4. CASE job' = [job EXCEPT ![d] = j]
    <3> HIDE DEF j
    <3> QED
      BY Zenon, <1>0, <1>4, <1>k, <2>2, <2>4, MoveJustified DEF AssertHeld
  <2> QED
    BY Zenon, <1>4, <2>3, <2>4 DEF AssertHeld, x
<1>5. ASSUME NEW d \in Delivery, CheckInbox(d) \/ InsertInbox(d) PROVE SnapshotInv'
  BY Zenon, <1>0, <1>5, <1>k, GotoJustified DEF CheckInbox, InsertInbox
<1>6. ASSUME NEW d \in Delivery, LoadActivation(d) PROVE SnapshotInv'
  BY Zenon, <1>0, <1>6, <1>k, GotoJustified DEF LoadActivation, ReadActive
<1>7. ASSUME NEW d \in Delivery, LoadRevision(d) PROVE SnapshotInv'
  <2> DEFINE found == ReadActive(d) # 0 /\ kind[job[d].event] # "fails"
             ph == IF found THEN "loaded" ELSE "reject"
             j == [job[d] EXCEPT !.phase = ph, !.rev = ReadActive(d)]
  <2>1. ReadActive(d) = job[d].rev /\ job[d].rev # 0 /\ job[d].rev \in Nat
    BY Zenon, <1>j, <1>7 DEF LoadRevision, ReadActive, SnapshotInv, Justified, Job
  <2>2. ph \in {"loaded", "reject"} /\ (ph = "reject" => kind[job[d].event] # "ok")
    BY Zenon, <2>1
  <2>3. job' = [job EXCEPT ![d] = j] /\ UNCHANGED quarantined
    BY Zenon, <1>7 DEF LoadRevision
  <2> HIDE DEF ph
  <2>4. j \in Job /\ j.phase = ph /\ j.event = job[d].event
    <3>1. ph \in Phase /\ ReadActive(d) \in Nat
      BY Zenon, <2>1, <2>2
    <3>2. j \in Job
      BY Zenon, <1>j, <3>1, LoadedJob
    <3>3. j.phase = ph /\ j.event = job[d].event
      BY Zenon, <1>j DEF Job
    <3> QED
      BY Zenon, <3>2, <3>3
  <2> HIDE DEF j
  <2> QED
    BY Zenon, <1>0, <1>k, <2>2, <2>3, <2>4, MoveJustified
<1>8. ASSUME NEW d \in Delivery, Commit(d) \/ CommitUnknown(d) \/ TxError(d) \/ QuarantineError(d)
      PROVE  SnapshotInv'
  BY Zenon, <1>0, <1>8, <1>k, GotoJustified DEF Commit, CommitUnknown, TxError, QuarantineError
<1>9. ASSUME NEW d \in Delivery, Ack(d) \/ Retry(d) \/ SubmitError(d) \/ SettleError(d)
      PROVE  SnapshotInv'
  BY Zenon, <1>0, <1>9, <1>k, FinishJustified DEF Ack, Retry, SubmitError, SettleError
<1>10. ASSUME NEW d \in Delivery, QuarantineEvent(d) PROVE SnapshotInv'
  <2>1. \A c \in Delivery : Justified(c)'
    BY Zenon, <1>10, <1>k, GotoJustified DEF QuarantineEvent
  <2>2. QuarantinedIsPermanent'
    BY Zenon, <1>10, <1>k DEF QuarantineEvent, SnapshotInv, Justified, QuarantinedIsPermanent
  <2> QED
    BY Zenon, <2>1, <2>2 DEF SnapshotInv
<1>11. ASSUME NEW w \in Worker, NEW e \in Event, NEW d \in Delivery, Fetch(w, e, d)
       PROVE  SnapshotInv'
  <2> DEFINE j == [NoJob EXCEPT !.phase = "fetched", !.event = e, !.worker = w]
  <2>1. j \in Job /\ j.phase = "fetched"
    BY Zenon, NoJobType, FetchedJob DEF Job
  <2>2. job' = [job EXCEPT ![d] = j] /\ UNCHANGED quarantined
    BY Zenon, <1>11 DEF Fetch
  <2> HIDE DEF j
  <2> QED
    BY Zenon, <1>0, <1>k, <2>1, <2>2, MoveJustified
<1>12. ASSUME NEW w \in Worker, Crash(w) PROVE SnapshotInv'
  BY Zenon, <1>0, <1>12, <1>k, NoJobType DEF Crash, SnapshotInv, Justified
<1>13. ASSUME UNCHANGED <<job, quarantined>> PROVE SnapshotInv'
  BY Zenon, <1>13, <1>k DEF SnapshotInv, Justified, QuarantinedIsPermanent
<1>14. ASSUME NEW w \in Worker, NEW s \in Shard, LeaseStep(w, s) \/ MongoRenewRead(w, s)
       PROVE  SnapshotInv'
  BY Zenon, <1>13, <1>14 DEF LeaseStep, Acquire, Adopt, MongoAcquire, LoseLease, MongoRenewRead, procVars
<1>15. CASE \/ \E e \in Event : AckWaitLost(e) \/ AckWaitSlow(e)
            \/ \E s \in Shard : LapseLease(s)
            \/ Activate \/ Deactivate \/ UNCHANGED vars
  BY Zenon, <1>13, <1>15 DEF AckWaitLost, AckWaitSlow, AckWait, LapseLease, Activate, Deactivate, vars, procVars
<1> QED
  BY Zenon, <1>1, <1>2, <1>3, <1>4, <1>5, <1>6, <1>7, <1>8, <1>9, <1>10, <1>11, <1>12, <1>14, <1>15
  DEF Next, Step, StepError, Fault

\* Over MongoDB only events that can never be processed are quarantined, for
\* any schedule of activations and deactivations: the second read of the rule
\* sees what the first one saw.
THEOREM QuarantineIsPermanent == Spec => []SnapshotQuarantine
<1> DEFINE Inv == backend = "mongo" => SnapshotInv
<1>1. Init => Inv
  BY Zenon, NoJobType DEF Init, SnapshotInv, Justified, QuarantinedIsPermanent
<1>2. TypeOK /\ Inv /\ [Next]_vars => Inv'
  BY Zenon, SnapshotStep, GivenKept
<1>3. Inv => SnapshotQuarantine
  BY Zenon DEF SnapshotInv, SnapshotQuarantine
<1> QED
  BY <1>1, <1>2, <1>3, TypeCorrect, PTL DEF Spec
=============================================================================
