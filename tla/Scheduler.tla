------------------------------- MODULE Scheduler -------------------------------
(***************************************************************************)
(* The schedulers (internal/runtime/scheduler/scheduler.go) over the       *)
(* scheduled_events table (internal/adapters/postgres/scheduled.go; the    *)
(* MongoDB adapter makes the same conditional updates, row by row) and the *)
(* broker, together with the API's Save and Cancel.  A tick reads what is  *)
(* due, claims it under a new claimant id, and publishes and settles one   *)
(* event after the other; each statement and each publish is one step.     *)
(* A row's holder is the scheduler whose current tick claimed it, or Gone  *)
(* when that tick has ended.  The two stores differ in how they read a row *)
(* whose last_error was never written.                                     *)
(***************************************************************************)
EXTENDS Integers

CONSTANTS
    SchedEvent,   \* scheduled events
    Ticker,       \* scheduler processes
    MaxAttempts,  \* maxScheduledEventAttempts
    MaxFaults,    \* bound: crashes, failed statements, claims that lapse under way
    NoClaimant, Gone

ASSUME SchedulerAssumption ==
    /\ MaxAttempts \in Nat \ {0}
    /\ MaxFaults \in Nat
    /\ NoClaimant # Gone
    /\ NoClaimant \notin Ticker /\ Gone \notin Ticker

VARIABLES
    store,       \* "postgres" or "mongo"
    status, holder, live,  \* the rows: status, claimant, claim_expires_at > now
    due,         \* retry_at, or without one scheduled_at, has passed
    retryCount,  \* the retry_count column
    pc,          \* [Ticker -> Phase]
    batch,       \* [Ticker -> SUBSET SchedEvent]: read as due; then claimed and not yet published
    cur,         \* [Ticker -> SUBSET SchedEvent]: the one being settled
    seen,        \* [Ticker -> [SchedEvent -> Nat]]: retry_count as the claim returned it
    published,   \* events that have reached the stream
    fails,       \* [SchedEvent -> Nat]: publishes that reported an error
    faults

Terminal == {"released", "failed", "cancelled"}
Work == INSTANCE ClaimedWork WITH Task <- SchedEvent, Claimant <- Ticker

rows == <<status, holder, live, due, retryCount>>
locals == <<pc, batch, cur, seen>>
vars == <<store, rows, locals, published, fails, faults>>

Phase == {"idle", "claim", "loop", "mark", "retry", "fail"}

Faulty == faults < MaxFaults /\ faults' = faults + 1
Goto(c, ph) == pc' = [pc EXCEPT ![c] = ph]

-----------------------------------------------------------------------------
(* The API and the clock.                                                  *)

Save(e) == Work!Add(e) /\ UNCHANGED <<store, due, retryCount, locals, published, fails, faults>>

Cancel(e) ==
    /\ Work!Withdraw(e, "cancelled")
    /\ UNCHANGED <<store, due, retryCount, locals, published, fails, faults>>

BecomeDue(e) ==
    /\ status[e] = "pending" /\ ~due[e]
    /\ due' = [due EXCEPT ![e] = TRUE]
    /\ UNCHANGED <<store, status, holder, live, retryCount, locals, published, fails, faults>>

\* The claim's five minutes are over: on a claim nobody works on, or (a fault)
\* under a slow scheduler.
ExpireGone(e) ==
    /\ holder[e] = Gone
    /\ Work!Expire(e)
    /\ UNCHANGED <<store, due, retryCount, locals, published, fails, faults>>

ExpireSlow(e) ==
    /\ holder[e] \in Ticker
    /\ Work!Expire(e)
    /\ Faulty
    /\ UNCHANGED <<store, due, retryCount, locals, published, fails>>

\* A Rust worker on the same table has claimed the event, reported its publish as
\* failed and scheduled the retry (RustPublishers has the steps in between).
RustRetry(e) ==
    /\ store = "postgres"
    /\ status[e] = "pending" /\ due[e] /\ retryCount[e] + 1 < MaxAttempts
    /\ due' = [due EXCEPT ![e] = FALSE]
    /\ retryCount' = [retryCount EXCEPT ![e] = @ + 1]
    /\ fails' = [fails EXCEPT ![e] = @ + 1]
    /\ UNCHANGED published \/ published' = published \cup {e}
    /\ UNCHANGED <<store, status, holder, live, locals, faults>>

-----------------------------------------------------------------------------
(* A tick.                                                                 *)

\* A mistake: a claim that has lapsed is not due.
DuePending == {e \in SchedEvent : status[e] = "pending" /\ due[e]}

\* The condition GetDue and Claim share.
Due == {e \in SchedEvent : (status[e] = "pending" /\ due[e]) \/ (status[e] = "claimed" /\ ~live[e])}

Holds(c, e) == status[e] = "claimed" /\ holder[e] = c /\ live[e]

\* last_error is NULL until ScheduleRetry or MarkFailed writes it, with the
\* retry_count.  The PostgreSQL adapter scans it into a string, which a NULL fails.
Readable(S) == store = "mongo" \/ \A e \in S : retryCount[e] > 0

\* A row that cannot be read fails the whole call, and the tick ends.  Claim reads
\* the same column, of the rows that were readable here.
GetDue(c) ==
    /\ pc[c] = "idle"
    /\ Due # {} /\ Readable(Due)
    /\ batch' = [batch EXCEPT ![c] = Due]
    /\ Goto(c, "claim")
    /\ UNCHANGED <<store, rows, cur, seen, published, fails, faults>>

TakeClaim(c, S) ==
    /\ status' = [e \in SchedEvent |-> IF e \in S THEN "claimed" ELSE status[e]]
    /\ holder' = [e \in SchedEvent |-> IF e \in S THEN c ELSE holder[e]]
    /\ live' = [e \in SchedEvent |-> IF e \in S THEN TRUE ELSE live[e]]
    /\ UNCHANGED <<due, retryCount>>

\* A mistake: the claim trusts what GetDue read.
ClaimUnchecked(c) ==
    /\ pc[c] = "claim"
    /\ TakeClaim(c, batch[c])
    /\ seen' = [seen EXCEPT ![c] = retryCount]
    /\ Goto(c, "loop")
    /\ UNCHANGED <<store, batch, cur, published, fails, faults>>

\* Claim looks again: others may have claimed, cancelled or released since.
Claim(c) ==
    /\ pc[c] = "claim"
    /\ TakeClaim(c, batch[c] \cap Due)
    /\ batch' = [batch EXCEPT ![c] = @ \cap Due]
    /\ seen' = [seen EXCEPT ![c] = retryCount]
    /\ Goto(c, "loop")
    /\ UNCHANGED <<store, cur, published, fails, faults>>

\* The claim is made, wholly or (MongoDB claims row by row) in part, and then
\* an error is returned: the tick ends.
ClaimError(c) ==
    /\ pc[c] = "claim"
    /\ Faulty
    /\ \E S \in SUBSET (batch[c] \cap Due) : TakeClaim(Gone, S)
    /\ batch' = [batch EXCEPT ![c] = {}]
    /\ Goto(c, "idle")
    /\ UNCHANGED <<store, cur, seen, published, fails>>

ReleaseOk(c, e) ==
    /\ pc[c] = "loop" /\ e \in batch[c]
    /\ published' = published \cup {e}
    /\ batch' = [batch EXCEPT ![c] = @ \ {e}]
    /\ cur' = [cur EXCEPT ![c] = {e}]
    /\ Goto(c, "mark")
    /\ UNCHANGED <<store, rows, seen, fails, faults>>

\* A mistake: the first failure is final.
ReleaseFailsFinal(c, e) ==
    /\ pc[c] = "loop" /\ e \in batch[c]
    /\ UNCHANGED published
    /\ fails' = [fails EXCEPT ![e] = @ + 1]
    /\ batch' = [batch EXCEPT ![c] = @ \ {e}]
    /\ cur' = [cur EXCEPT ![c] = {e}]
    /\ Goto(c, "fail")
    /\ UNCHANGED <<store, rows, seen, faults>>

\* The broker refuses, or it stores the event and its answer does not arrive.
ReleaseFails(c, e) ==
    /\ pc[c] = "loop" /\ e \in batch[c]
    /\ published' = published \/ published' = published \cup {e}
    /\ fails' = [fails EXCEPT ![e] = @ + 1]
    /\ batch' = [batch EXCEPT ![c] = @ \ {e}]
    /\ cur' = [cur EXCEPT ![c] = {e}]
    /\ Goto(c, IF seen[c][e] + 1 >= MaxAttempts THEN "fail" ELSE "retry")
    /\ UNCHANGED <<store, rows, seen, faults>>

\* One conditional update settles the row, if the claim still holds; otherwise
\* the error is logged.
SettleTo(c, s, d, more) ==
    /\ \E e \in cur[c] :
          IF Holds(c, e)
          THEN /\ status' = [status EXCEPT ![e] = s]
               /\ holder' = [holder EXCEPT ![e] = NoClaimant]
               /\ live' = [live EXCEPT ![e] = FALSE]
               /\ due' = [due EXCEPT ![e] = d]
               /\ retryCount' = [retryCount EXCEPT ![e] = @ + more]
          ELSE UNCHANGED rows
    /\ cur' = [cur EXCEPT ![c] = {}]
    /\ Goto(c, "loop")
    /\ UNCHANGED <<store, batch, seen, published, fails, faults>>

MarkReleased(c) == pc[c] = "mark" /\ SettleTo(c, "released", FALSE, 0)
ScheduleRetry(c) == pc[c] = "retry" /\ SettleTo(c, "pending", FALSE, 1)
MarkFailed(c) == pc[c] = "fail" /\ SettleTo(c, "failed", FALSE, 1)

StatementError(c) ==
    /\ pc[c] \in {"mark", "retry", "fail"}
    /\ Faulty
    /\ cur' = [cur EXCEPT ![c] = {}]
    /\ Goto(c, "loop")
    /\ UNCHANGED <<store, rows, batch, seen, published, fails>>

\* The tick ends, or the process dies: its claimant id matches no row any more.
Return(c) ==
    /\ Work!Abandon(c)
    /\ pc' = [pc EXCEPT ![c] = "idle"]
    /\ batch' = [batch EXCEPT ![c] = {}]
    /\ cur' = [cur EXCEPT ![c] = {}]
    /\ seen' = [seen EXCEPT ![c] = [e \in SchedEvent |-> 0]]
    /\ UNCHANGED <<store, due, retryCount, published, fails>>

TickDone(c) == pc[c] = "loop" /\ batch[c] = {} /\ Return(c) /\ UNCHANGED faults
Crash(c) == pc[c] # "idle" /\ Return(c) /\ Faulty

-----------------------------------------------------------------------------
Init ==
    /\ store \in {"postgres", "mongo"}
    /\ Work!WorkInit
    /\ due = [e \in SchedEvent |-> FALSE]
    /\ retryCount = [e \in SchedEvent |-> 0]
    /\ pc = [c \in Ticker |-> "idle"]
    /\ batch = [c \in Ticker |-> {}]
    /\ cur = [c \in Ticker |-> {}]
    /\ seen = [c \in Ticker |-> [e \in SchedEvent |-> 0]]
    /\ published = {}
    /\ fails = [e \in SchedEvent |-> 0]
    /\ faults = 0

Tick(c) ==
    \/ GetDue(c) \/ Claim(c) \/ MarkReleased(c) \/ ScheduleRetry(c) \/ MarkFailed(c) \/ TickDone(c)
    \/ \E e \in SchedEvent : ReleaseOk(c, e) \/ ReleaseFails(c, e)

Fault ==
    \/ \E c \in Ticker : ClaimError(c) \/ StatementError(c) \/ Crash(c)
    \/ \E e \in SchedEvent : ExpireSlow(e)

Next ==
    \/ \E e \in SchedEvent : Save(e) \/ Cancel(e) \/ BecomeDue(e) \/ ExpireGone(e) \/ RustRetry(e)
    \/ \E c \in Ticker : Tick(c)
    \/ Fault

Spec == Init /\ [][Next]_vars

\* Every scheduler keeps polling, and time passes.
FairSpec ==
    /\ Spec
    /\ \A c \in Ticker : WF_vars(Tick(c))
    /\ \A e \in SchedEvent : WF_vars(BecomeDue(e)) /\ WF_vars(ExpireGone(e))

-----------------------------------------------------------------------------
(* Properties.                                                             *)

TypeOK ==
    /\ store \in {"postgres", "mongo"}
    /\ Work!WorkTypeOK
    /\ due \in [SchedEvent -> BOOLEAN]
    /\ retryCount \in [SchedEvent -> 0 .. MaxAttempts]
    /\ pc \in [Ticker -> Phase]
    /\ batch \in [Ticker -> SUBSET SchedEvent]
    /\ cur \in [Ticker -> SUBSET SchedEvent]
    /\ seen \in [Ticker -> [SchedEvent -> Nat]]
    /\ published \subseteq SchedEvent
    /\ fails \in [SchedEvent -> Nat]
    /\ faults \in 0 .. MaxFaults

\* The schedulers keep the claim protocol: whatever changed between GetDue and
\* Claim, and however late a stale scheduler settles, a row has one claimant,
\* only its unexpired claim settles it, and a released, failed or cancelled
\* row is never taken up again.
ImplementsClaimedWork == Work!WorkSpec

\* Outcomes are earned, whatever crashes, lost claims and cancellations came
\* before: a released event is in the stream, a failed one has used up its
\* attempts (handleReleaseFailure, and TestTickSchedulesRetryForPublishFailure;
\* docs/operations.md:160 still says that a publish error fails an event at once),
\* and a cancelled one is in the stream only if the broker stored a publish and
\* the scheduler was told that it had failed.
OutcomeEarned ==
    \A e \in SchedEvent :
        /\ status[e] = "released" => e \in published
        /\ status[e] = "failed" => fails[e] >= MaxAttempts
        /\ status[e] = "cancelled" /\ e \in published => fails[e] > 0

\* The rows of scheduled_events tell the truth: columns in range, outcomes earned.
OutcomesCorrect == TypeOK /\ OutcomeEarned

\* Over MongoDB every saved event is released, given up or cancelled in the end.
EveryEventEnds ==
    \A e \in SchedEvent : store = "mongo" /\ status[e] = "pending" ~> status[e] \in Terminal

\* "The scheduler claims due scheduled events and publishes them to the same
\* subject family" (docs/operations.md:101), over either store.
DueIsClaimed == \A e \in SchedEvent : status[e] = "pending" /\ due[e] ~> status[e] # "pending"
=============================================================================
