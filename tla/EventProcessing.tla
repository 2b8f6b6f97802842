---------------------------- MODULE EventProcessing ----------------------------
(***************************************************************************)
(* The path of an event from a broker delivery to a committed execution:   *)
(* the worker's routing and settlement (internal/application/              *)
(* worker_delivery.go), the transactional processor (internal/services/    *)
(* events/service.go) and the inbox, lease and rule reads it makes, over   *)
(* the fenced leases of FencedLease.  The broker redelivers until a        *)
(* message is acknowledged, so several deliveries of one event may be in   *)
(* progress, at one worker or at two.                                      *)
(*                                                                         *)
(* Every database statement of a transaction is one step.  PostgreSQL runs *)
(* READ COMMITTED: each statement reads what is committed, NOW() is the    *)
(* start of the transaction, AssertHeld keeps a FOR SHARE lock on the      *)
(* lease row until the transaction ends, and INSERT .. ON CONFLICT waits   *)
(* for a concurrent insert of the same key.  MongoDB reads from the        *)
(* snapshot of the transaction's first operation, takes no lock for a      *)
(* read, and refuses an insert that conflicts with another transaction.    *)
(* What the transaction writes (execution, outbox effects, inbox status)   *)
(* becomes visible at the commit, as one step.                             *)
(***************************************************************************)
EXTENDS FencedLease, FiniteSets

CONSTANTS
    Event,       \* events in the stream, all of one rule set
    Delivery,    \* bound: deliveries that can be in progress at once
    ShardOf,     \* [Event -> Shard]: VirtualShardForEvent
    KeyOf,       \* [Event -> partition key]
    Kinds,       \* what the events can be: a subset of [Event -> EventKind]
    Backends,    \* the stores considered: "postgres", "mongo" or both
    MaxRev,      \* bound: rule revisions that get activated
    MaxFaults    \* bound: crashes, lost calls, database errors, lapses, redeliveries

\* "ok" evaluates; "malformed" does not parse, "invalid" fails Validate,
\* "fails" is an evaluation error: these three are permanent.
EventKind == {"ok", "malformed", "invalid", "fails"}

ASSUME EventAssumption ==
    /\ ShardOf \in [Event -> Shard]
    /\ Kinds \subseteq [Event -> EventKind]
    /\ Backends \subseteq {"postgres", "mongo"}
    /\ MaxRev \in Nat
    /\ MaxFaults \in Nat
    /\ Event # {} /\ Worker # {}

VARIABLES
    msg,          \* [Event -> {"ready", "inflight", "acked"}]: the broker's view
    job,          \* [Delivery -> Job]: deliveries in the workers' hands
    executions,   \* committed executions, with their outbox effects and inbox rows
    quarantined,  \* events with a quarantine record
    active,       \* the active revision of the rule set; 0 for no activation
    lastRev,      \* revisions created so far
    faults,       \* faults spent so far
    backend,      \* the store of this deployment, chosen once
    kind          \* [Event -> EventKind]: what each event of the stream is, chosen once

procVars == <<msg, job, executions, quarantined>>
ruleVars == <<active, lastRev>>
vars == <<leaseVars, procVars, ruleVars, faults, backend, kind>>

\* Phases in which the PostgreSQL transaction has the FOR SHARE lock, and
\* those in which it has an uncommitted inbox row.
Inserted == {"inserted", "activated", "loaded"}
Asserted == {"asserted", "insert"} \cup Inserted
InTx == {"begun"} \cup Asserted
Phase == {"free", "fetched", "owned", "queued", "done", "retry", "reject", "ackq"} \cup InTx

\* token is the fencing token Submit recorded; sawLive and sawToken are the
\* lease at NOW(), the start of the transaction; rev and seen are what the
\* transaction has read: the revision, and (MongoDB) whether its snapshot
\* holds an execution of the event.
Job == [phase : Phase, event : Event, worker : Worker, token : Nat,
        sawLive : BOOLEAN, sawToken : Nat, rev : Nat, seen : BOOLEAN]

\* A mistake AtMostOneExecution must notice: looking for the execution id,
\* which contains the revision, instead of the inbox row.
ExecutedUnderActive(e) == \E x \in executions : x.event = e /\ x.rev = active
Executed(e) == \E x \in executions : x.event = e
JobShard(d) == ShardOf[job[d].event]
JobToken(d) == job[d].token
Busy(d) == job[d].phase # "free"

NoJob == [phase |-> "free", event |-> CHOOSE e \in Event : TRUE, worker |-> CHOOSE w \in Worker : TRUE,
          token |-> 0, sawLive |-> FALSE, sawToken |-> 0, rev |-> 0, seen |-> FALSE]

Faulty == faults < MaxFaults /\ faults' = faults + 1 /\ UNCHANGED <<backend, kind>>
Goto(d, ph) == job' = [job EXCEPT ![d].phase = ph]
Finish(d) == job' = [job EXCEPT ![d] = NoJob]

-----------------------------------------------------------------------------
(* The broker: an unacknowledged message comes back after a Nak, a Retry   *)
(* or AckWait.                                                             *)

Fetch(w, e, d) ==
    /\ msg[e] = "ready" /\ ~Busy(d)
    /\ held[w][ShardOf[e]] # 0
    /\ msg' = [msg EXCEPT ![e] = "inflight"]
    /\ job' = [job EXCEPT ![d] = [NoJob EXCEPT !.phase = "fetched", !.event = e, !.worker = w]]
    /\ UNCHANGED <<leaseVars, executions, quarantined, ruleVars, faults, backend, kind>>

InProgress(e) == \E d \in Delivery : Busy(d) /\ job[d].event = e

AckWait(e) ==
    /\ msg[e] = "inflight"
    /\ msg' = [msg EXCEPT ![e] = "ready"]
    /\ UNCHANGED <<leaseVars, job, executions, quarantined, ruleVars>>

\* AckWait ends with no delivery of the message in progress, or with one: the
\* worker, or the queue in front of it, is slow.
AckWaitLost(e) == AckWait(e) /\ ~InProgress(e) /\ UNCHANGED <<faults, backend, kind>>
AckWaitSlow(e) == AckWait(e) /\ InProgress(e) /\ Faulty

Acknowledge(d) == msg' = [msg EXCEPT ![job[d].event] = "acked"]
Redeliver(d) ==
    msg' = [msg EXCEPT ![job[d].event] = IF @ = "acked" THEN @ ELSE "ready"]

-----------------------------------------------------------------------------
(* The worker, before and after Process.                                   *)

\* processSingleDelivery: quarantine what does not parse, Nak what this
\* worker does not own (any more).
Route(d) ==
    /\ job[d].phase = "fetched"
    /\ IF kind[job[d].event] = "malformed"
       THEN Goto(d, "reject") /\ UNCHANGED msg
       ELSE IF held[job[d].worker][JobShard(d)] = 0
            THEN Finish(d) /\ Redeliver(d)
            ELSE Goto(d, "owned") /\ UNCHANGED msg
    /\ UNCHANGED <<leaseVars, executions, quarantined, ruleVars, faults, backend, kind>>

\* submitOwnedDelivery reads the token in a second look at ownedShards: 0 if
\* the shard was lost since.
Submit(d) ==
    /\ job[d].phase = "owned"
    /\ job' = [job EXCEPT ![d] = [@ EXCEPT !.phase = "queued",
                                           !.token = held[job[d].worker][JobShard(d)]]]
    /\ UNCHANGED <<leaseVars, msg, executions, quarantined, ruleVars, faults, backend, kind>>

\* Submit fails (a stopping queue, a cancelled context): Nak.
SubmitError(d) ==
    /\ job[d].phase = "owned"
    /\ Faulty
    /\ Finish(d) /\ Redeliver(d)
    /\ UNCHANGED <<leaseVars, executions, quarantined, ruleVars>>

\* settleEventResult after success, and the Ack after a quarantine record.
Ack(d) ==
    /\ job[d].phase \in {"done", "ackq"}
    /\ Acknowledge(d) /\ Finish(d)
    /\ UNCHANGED <<leaseVars, executions, quarantined, ruleVars, faults, backend, kind>>

\* handleEventProcessingFailure for an error that is not permanent.
Retry(d) ==
    /\ job[d].phase = "retry"
    /\ Redeliver(d) /\ Finish(d)
    /\ UNCHANGED <<leaseVars, executions, quarantined, ruleVars, faults, backend, kind>>

\* quarantinePermanentEvent, quarantineInvalidDelivery: the record first, then
\* the Ack; if the record cannot be saved the message is retried.
QuarantineEvent(d) ==
    /\ job[d].phase = "reject"
    /\ quarantined' = quarantined \cup {job[d].event}
    /\ Goto(d, "ackq")
    /\ UNCHANGED <<leaseVars, msg, executions, ruleVars, faults, backend, kind>>

QuarantineErrorAcked(d) ==
    /\ job[d].phase = "reject"
    /\ Faulty
    /\ Goto(d, "ackq")
    /\ UNCHANGED <<leaseVars, msg, executions, quarantined, ruleVars>>

QuarantineError(d) ==
    /\ job[d].phase = "reject"
    /\ Faulty
    /\ Goto(d, "retry")
    /\ UNCHANGED <<leaseVars, msg, executions, quarantined, ruleVars>>

\* The Ack or the Retry does not reach the broker.
SettleError(d) ==
    /\ job[d].phase \in {"done", "ackq", "retry"}
    /\ Faulty
    /\ Finish(d)
    /\ UNCHANGED <<leaseVars, msg, executions, quarantined, ruleVars>>

-----------------------------------------------------------------------------
(* Process and its transaction.                                            *)

\* Validate and the token check come first; then the transaction begins.  The
\* key queue runs one delivery of a partition key at a time in each worker.
Begin(d) ==
    /\ job[d].phase = "queued"
    /\ ~ \E c \in Delivery :
           /\ job[c].phase \in InTx \cup {"done", "retry", "reject", "ackq"}
           /\ job[c].worker = job[d].worker /\ KeyOf[job[c].event] = KeyOf[job[d].event]
    /\ IF kind[job[d].event] = "invalid"
       THEN Goto(d, "reject")
       ELSE IF JobToken(d) = 0
            THEN Goto(d, "retry")
            ELSE job' = [job EXCEPT ![d] = [@ EXCEPT !.phase = "begun",
                                                     !.sawLive = live[JobShard(d)],
                                                     !.sawToken = token[JobShard(d)]]]
    /\ UNCHANGED <<leaseVars, msg, executions, quarantined, ruleVars, faults, backend, kind>>

\* SELECT .. WHERE virtual_shard AND owner FOR SHARE.  expires_at > NOW() is
\* judged at the start of the transaction: a lease that was live then, or that
\* was claimed since, passes.
PgAssertHeld(d) ==
    LET s == JobShard(d) IN
    /\ owner[s] = job[d].worker
    /\ token[s] = JobToken(d)
    /\ job[d].sawLive \/ token[s] # job[d].sawToken

\* FindOne on owner, token and expires_at > now; nothing is locked.
MongoAssertHeld(d) ==
    LET s == JobShard(d) IN
    owner[s] = job[d].worker /\ token[s] = JobToken(d) /\ live[s]

AssertHeld(d) ==
    /\ job[d].phase = "begun"
    /\ IF IF backend = "postgres" THEN PgAssertHeld(d) ELSE MongoAssertHeld(d)
       THEN job' = [job EXCEPT ![d] = [@ EXCEPT !.phase = "asserted",
                                                !.rev = active,
                                                !.seen = Executed(job[d].event)]]
       ELSE Goto(d, "retry")
    /\ UNCHANGED <<leaseVars, msg, executions, quarantined, ruleVars, faults, backend, kind>>

\* What a statement of d's transaction reads: the committed state, or the
\* snapshot taken with the first operation.
ReadExecuted(d) == IF backend = "postgres" THEN Executed(job[d].event) ELSE job[d].seen
ReadActive(d) == IF backend = "postgres" THEN active ELSE job[d].rev

\* deduplicateEvent, first half: an inbox row leads to its execution.
CheckInbox(d) ==
    /\ job[d].phase = "asserted"
    /\ Goto(d, IF ReadExecuted(d) THEN "done" ELSE "insert")
    /\ UNCHANGED <<leaseVars, msg, executions, quarantined, ruleVars, faults, backend, kind>>

\* Another transaction has inserted the event's inbox row and not ended.
InsertPending(d) ==
    \E c \in Delivery \ {d} : job[c].phase \in Inserted /\ job[c].event = job[d].event

\* deduplicateEvent, second half.  PostgreSQL waits for the other insert; a
\* row that is there by now leads to its execution.  MongoDB fails the
\* transaction instead.
InsertInbox(d) ==
    /\ job[d].phase = "insert"
    /\ \/ /\ backend = "postgres" /\ ~InsertPending(d)
          /\ Goto(d, IF Executed(job[d].event) THEN "done" ELSE "inserted")
       \/ /\ backend = "mongo"
          /\ Goto(d, IF InsertPending(d) \/ Executed(job[d].event) THEN "retry" ELSE "inserted")
    /\ UNCHANGED <<leaseVars, msg, executions, quarantined, ruleVars, faults, backend, kind>>

LoadActivationOrReject(d) ==
    /\ job[d].phase = "inserted"
    /\ Goto(d, IF ReadActive(d) = 0 THEN "reject" ELSE "activated")
    /\ UNCHANGED <<leaseVars, msg, executions, quarantined, ruleVars, faults, backend, kind>>

\* loadActiveRevision reads the activation: none is ErrRuleNotReady, transient.
LoadActivation(d) ==
    /\ job[d].phase = "inserted"
    /\ Goto(d, IF ReadActive(d) = 0 THEN "retry" ELSE "activated")
    /\ UNCHANGED <<leaseVars, msg, executions, quarantined, ruleVars, faults, backend, kind>>

\* Then, in a second statement, the active revision: none is ErrRuleNotFound,
\* permanent.  Evaluation follows, without I/O.
LoadRevision(d) ==
    /\ job[d].phase = "activated"
    /\ LET found == ReadActive(d) # 0 /\ kind[job[d].event] # "fails"
       IN  job' = [job EXCEPT ![d] = [@ EXCEPT !.phase = IF found THEN "loaded" ELSE "reject",
                                               !.rev = ReadActive(d)]]
    /\ UNCHANGED <<leaseVars, msg, executions, quarantined, ruleVars, faults, backend, kind>>

\* persistExecutionAndOutbox and Commit.
Persist(d) ==
    executions' = executions \cup {[event |-> job[d].event, rev |-> job[d].rev]}

Commit(d) ==
    /\ job[d].phase = "loaded"
    /\ Persist(d) /\ Goto(d, "done")
    /\ UNCHANGED <<leaseVars, msg, quarantined, ruleVars, faults, backend, kind>>

\* The commit takes effect but its answer is lost: Process reports an error.
CommitUnknown(d) ==
    /\ job[d].phase = "loaded"
    /\ Faulty
    /\ Persist(d) /\ Goto(d, "retry")
    /\ UNCHANGED <<leaseVars, msg, quarantined, ruleVars>>

\* Any statement fails; the deferred Rollback undoes the transaction.
TxError(d) ==
    /\ job[d].phase \in InTx
    /\ Faulty
    /\ Goto(d, "retry")
    /\ UNCHANGED <<leaseVars, msg, executions, quarantined, ruleVars>>

-----------------------------------------------------------------------------
(* Rules come and go (internal/services/rules/service.go).                 *)

Activate ==
    /\ lastRev < MaxRev
    /\ lastRev' = lastRev + 1
    /\ active' = lastRev'
    /\ UNCHANGED <<leaseVars, procVars, faults, backend, kind>>

Deactivate ==
    /\ active # 0
    /\ active' = 0
    /\ UNCHANGED <<leaseVars, procVars, lastRev, faults, backend, kind>>

-----------------------------------------------------------------------------
(* Leases: FencedLease's steps, as the lease managers take them.           *)

\* Mistakes: AssertHeld without FOR SHARE, a lost lease that is kept.
RowNeverLocked(s) == FALSE
LoseNothing(w, s) == FALSE

\* A transaction between AssertHeld and its end has the row locked.
RowLocked(s) ==
    backend = "postgres" /\ \E d \in Delivery : job[d].phase \in Asserted /\ JobShard(d) = s

\* Acquire over PostgreSQL: the upsert and, in a second statement, GetOwner.
Acquire(w, s) ==
    /\ backend = "postgres"
    /\ held[w][s] = 0
    /\ ~RowLocked(s)
    /\ Claim(w, s)
    /\ UNCHANGED <<procVars, ruleVars, faults, backend, kind>>

Adopt(w, s) ==
    /\ backend = "postgres"
    /\ held[w][s] = 0
    /\ Learn(w, s)
    /\ UNCHANGED <<procVars, ruleVars, faults, backend, kind>>

\* Acquire over MongoDB: one operation, which also matches the worker's own
\* live row and moves the token on in both cases.
MongoAcquire(w, s) ==
    /\ backend = "mongo"
    /\ held[w][s] = 0
    /\ ~live[s] \/ owner[s] = w
    /\ owner' = [owner EXCEPT ![s] = w]
    /\ token' = [token EXCEPT ![s] = @ + 1]
    /\ live' = [live EXCEPT ![s] = TRUE]
    /\ held' = [held EXCEPT ![w][s] = token[s] + 1]
    /\ UNCHANGED <<procVars, ruleVars, faults, backend, kind>>

\* Renew over MongoDB ends with GetOwner, whose row, whoever owns it, becomes
\* the local lease.
MongoRenewRead(w, s) ==
    /\ backend = "mongo"
    /\ held[w][s] \notin {0, token[s]}
    /\ held' = [held EXCEPT ![w][s] = token[s]]
    /\ UNCHANGED <<owner, token, live, procVars, ruleVars, faults, backend, kind>>

\* A lease lapses when its worker is late with the renewal, or is down for
\* longer than the lease.
LapseLease(s) == live[s] /\ Faulty /\ Lapse({s}) /\ UNCHANGED <<procVars, ruleVars>>

\* The renewal no longer matches: the shard leaves ownedShards.
LoseLease(w, s) ==
    /\ held[w][s] # 0
    /\ owner[s] # w \/ token[s] # held[w][s] \/ ~live[s]
    /\ Forget(w, {s})
    /\ UNCHANGED <<procVars, ruleVars, faults, backend, kind>>

\* The process dies: its transactions roll back, its deliveries are abandoned.
Crash(w) ==
    /\ Faulty
    /\ Forget(w, Shard)
    /\ job' = [d \in Delivery |-> IF job[d].worker = w THEN NoJob ELSE job[d]]
    /\ UNCHANGED <<msg, executions, quarantined, ruleVars>>

-----------------------------------------------------------------------------
Step(d) ==
    \/ Route(d) \/ Submit(d) \/ Begin(d) \/ AssertHeld(d) \/ CheckInbox(d) \/ InsertInbox(d)
    \/ LoadActivation(d) \/ LoadRevision(d) \/ Commit(d)
    \/ Ack(d) \/ Retry(d) \/ QuarantineEvent(d)

StepError(d) ==
    \/ SubmitError(d) \/ CommitUnknown(d) \/ TxError(d)
    \/ QuarantineError(d) \/ SettleError(d)

LeaseStep(w, s) ==
    Acquire(w, s) \/ Adopt(w, s) \/ MongoAcquire(w, s) \/ LoseLease(w, s)

Init ==
    /\ LeaseInit
    /\ msg = [e \in Event |-> "ready"]
    /\ job = [d \in Delivery |-> NoJob]
    /\ executions = {}
    /\ quarantined = {}
    /\ active = 0
    /\ lastRev = 0
    /\ faults = 0
    /\ backend \in Backends
    /\ kind \in Kinds

Fault ==
    \/ \E d \in Delivery : StepError(d)
    \/ \E e \in Event : AckWaitSlow(e)
    \/ \E s \in Shard : LapseLease(s)
    \/ \E w \in Worker : Crash(w)

Next ==
    \/ \E e \in Event : AckWaitLost(e) \/ \E w \in Worker, d \in Delivery : Fetch(w, e, d)
    \/ \E d \in Delivery : Step(d)
    \/ Activate \/ Deactivate
    \/ \E w \in Worker, s \in Shard : LeaseStep(w, s) \/ MongoRenewRead(w, s)
    \/ Fault

Spec == Init /\ [][Next]_vars

\* Workers, their lease managers and the broker keep running.
FairSpec ==
    /\ Spec
    /\ \A d \in Delivery : WF_vars(Step(d))
    /\ \A e \in Event : WF_vars(AckWaitLost(e))
    /\ \A e \in Event : WF_vars(\E w \in Worker, d \in Delivery : Fetch(w, e, d))
    /\ \A w \in Worker, s \in Shard : WF_vars(LeaseStep(w, s))

-----------------------------------------------------------------------------
(* Properties.                                                             *)

TypeOK ==
    /\ LeaseTypeOK
    /\ msg \in [Event -> {"ready", "inflight", "acked"}]
    /\ job \in [Delivery -> Job]
    /\ executions \subseteq [event : Event, rev : Nat]
    /\ quarantined \subseteq Event
    /\ active \in 0 .. MaxRev
    /\ lastRev \in 0 .. MaxRev
    /\ faults \in 0 .. MaxFaults
    /\ backend \in Backends
    /\ kind \in Kinds

\* However often an event is delivered, by however many workers and under
\* whichever rule revisions, at most one execution (and one set of outbox
\* effects) is committed for it: deduplicateEvent.
AtMostOneExecution ==
    \A x, y \in executions : x.event = y.event => x = y

\* A message is acknowledged only once its event has a committed execution or
\* a quarantine record, so that nothing the broker forgets is lost.
AckedIsDurable ==
    \A e \in Event : msg[e] = "acked" => Executed(e) \/ e \in quarantined

\* A transaction past AssertHeld runs under the row's current owner and token
\* until it ends.  Over PostgreSQL the FOR SHARE lock sees to it: a competitor's
\* Acquire waits.
AssertedIsCurrent ==
    \A d \in Delivery : job[d].phase \in Asserted =>
        owner[JobShard(d)] = job[d].worker /\ token[JobShard(d)] = JobToken(d)

\* A delivery that ends its transaction while its worker owns the shard, with
\* the shard's current fencing token.
CommitByHolder ==
    \E d \in Delivery :
        /\ job[d].phase = "loaded" /\ job'[d].phase # "loaded"
        /\ owner[JobShard(d)] = job[d].worker
        /\ token[JobShard(d)] = JobToken(d)

\* The step that commits an execution is one of a delivery whose worker owns
\* the shard, with the shard's current fencing token: a stale holder never
\* commits.
FencedCommit == [][executions' # executions => CommitByHolder]_vars

\* FencedCommit where AssertHeld locks the lease row: over PostgreSQL.
LockedCommitIsFenced ==
    [][backend = "postgres" /\ executions' # executions => CommitByHolder]_vars

\* Only events that can never be processed are quarantined: a rule set that
\* is not active yet, or not any more, is a reason to retry.
QuarantinedIsPermanent == \A e \in quarantined : kind[e] # "ok"

\* QuarantinedIsPermanent where the activation and the revision are read from
\* one snapshot: over MongoDB.
SnapshotQuarantine == backend = "mongo" => QuarantinedIsPermanent

\* If the rule set is active from some time on, every event is settled: it is
\* acknowledged, with what AckedIsDurable says of it.
EveryEventSettles ==
    <>[](active # 0) => \A e \in Event : <>(msg[e] = "acked")
=============================================================================
