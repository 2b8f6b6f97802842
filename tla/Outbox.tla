--------------------------------- MODULE Outbox ---------------------------------
(***************************************************************************)
(* The outbox publishers (internal/services/effects/service.go) over the   *)
(* outbox table (internal/adapters/postgres/outbox.go; the MongoDB adapter *)
(* has the same statements) and the quarantine table.  Every worker runs   *)
(* PublishBatch in a loop; each statement and each send is one step.       *)
(*                                                                         *)
(* PublishBatch draws a new claim token every time.  A row's holder is the *)
(* publisher whose current call claimed it; once that call has ended the   *)
(* token matches nobody any more and the holder is Gone.                   *)
(***************************************************************************)
EXTENDS Integers, FiniteSets

CONSTANTS
    Effect,       \* outbox effects
    Publisher,    \* workers that run PublishBatch
    MaxAttempts,  \* max_attempts of an effect
    BatchSize,    \* effects claimed at once
    MaxFaults,    \* bound: crashes, failed statements, claims that lapse under way
    NoClaimant, Gone

ASSUME OutboxAssumption ==
    /\ MaxAttempts \in Nat \ {0}
    /\ BatchSize \in Nat \ {0}
    /\ MaxFaults \in Nat
    /\ NoClaimant # Gone
    /\ NoClaimant \notin Publisher /\ Gone \notin Publisher
    /\ IsFiniteSet(Publisher)

VARIABLES
    status, holder, live,  \* the rows: status, claimed_by, claim_expires_at > NOW()
    due,       \* available_at <= NOW()
    attempts,  \* the attempts column
    records,   \* [Effect -> Nat]: quarantine records of the effect, each with its own id
    pc,        \* [Publisher -> Phase]
    batch,     \* [Publisher -> SUBSET Effect]: claimed and not yet sent
    cur,       \* [Publisher -> SUBSET Effect]: the one being settled
    seen,      \* [Publisher -> [Effect -> Nat]]: attempts as the claim returned them
    sent,      \* effects that have reached their destination
    fails,     \* [Effect -> Nat]: sends that reported an error
    unsure,    \* effects whose Quarantine took effect and reported an error
    faults

Work == INSTANCE ClaimedWork WITH
            Task <- Effect, Claimant <- Publisher, Terminal <- {"delivered", "quarantined"}

rows == <<status, holder, live, due, attempts>>
locals == <<pc, batch, cur, seen>>
history == <<sent, fails, unsure>>
vars == <<rows, records, locals, history, faults>>

Phase == {"idle", "loop", "mark", "retry", "record", "quarantine", "cleanup"}

Faulty == faults < MaxFaults /\ faults' = faults + 1
Goto(p, ph) == pc' = [pc EXCEPT ![p] = ph]

-----------------------------------------------------------------------------
(* The rows.                                                               *)

\* Insert, in the transaction that commits the execution; a second insert of
\* the id does nothing.
Insert(e) ==
    /\ Work!Add(e)
    /\ due' = [due EXCEPT ![e] = TRUE]
    /\ UNCHANGED <<attempts, records, locals, history, faults>>

BecomeDue(e) ==
    /\ status[e] = "pending" /\ ~due[e]
    /\ due' = [due EXCEPT ![e] = TRUE]
    /\ UNCHANGED <<status, holder, live, attempts, records, locals, history, faults>>

\* The claim TTL runs out: on a claim nobody works on, or (a fault) under a
\* slow publisher.
ExpireGone(e) ==
    /\ holder[e] = Gone
    /\ Work!Expire(e)
    /\ UNCHANGED <<due, attempts, records, locals, history, faults>>

ExpireSlow(e) ==
    /\ holder[e] \in Publisher
    /\ Work!Expire(e)
    /\ Faulty
    /\ UNCHANGED <<due, attempts, records, locals, history>>

\* Mistakes: lapsed claims are never taken over; a settlement looks at the
\* claimed_by column only.
ClaimablePending == {e \in Effect : status[e] = "pending" /\ due[e]}
HoldsExpired(p, e) == status[e] = "claimed" /\ holder[e] = p

Claimable == {e \in Effect : Work!Claimable(e) /\ (status[e] = "pending" => due[e])}

\* status = 'claimed' AND claimed_by = $1 AND claim_expires_at > NOW().
Holds(p, e) == status[e] = "claimed" /\ holder[e] = p /\ live[e]

\* The candidates, oldest first, up to the limit.
Candidates ==
    {S \in SUBSET Claimable :
        /\ S # {}
        /\ Cardinality(S) = IF Cardinality(Claimable) <= BatchSize
                            THEN Cardinality(Claimable) ELSE BatchSize}

TakeClaim(c, S) ==
    /\ status' = [e \in Effect |-> IF e \in S THEN "claimed" ELSE status[e]]
    /\ holder' = [e \in Effect |-> IF e \in S THEN c ELSE holder[e]]
    /\ live' = [e \in Effect |-> IF e \in S THEN TRUE ELSE live[e]]
    /\ UNCHANGED <<due, attempts>>

SettleTo(e, s, d, a) ==
    /\ status' = [status EXCEPT ![e] = s]
    /\ holder' = [holder EXCEPT ![e] = NoClaimant]
    /\ live' = [live EXCEPT ![e] = FALSE]
    /\ due' = [due EXCEPT ![e] = d]
    /\ attempts' = [attempts EXCEPT ![e] = a]

-----------------------------------------------------------------------------
(* PublishBatch.                                                           *)

ClaimPending(p) ==
    /\ pc[p] = "idle"
    /\ \E S \in Candidates : TakeClaim(p, S) /\ batch' = [batch EXCEPT ![p] = S]
    /\ seen' = [seen EXCEPT ![p] = attempts]
    /\ Goto(p, "loop")
    /\ UNCHANGED <<records, cur, history, faults>>

\* The claim is made, wholly or (MongoDB claims row by row) in part, and then
\* an error is returned: the token is lost with it.
ClaimError(p) ==
    /\ pc[p] = "idle"
    /\ Faulty
    /\ \E C \in Candidates : \E S \in SUBSET C \ {{}} : TakeClaim(Gone, S)
    /\ UNCHANGED <<records, locals, history>>

SendOk(p, e) ==
    /\ pc[p] = "loop" /\ e \in batch[p]
    /\ sent' = sent \cup {e}
    /\ batch' = [batch EXCEPT ![p] = @ \ {e}]
    /\ cur' = [cur EXCEPT ![p] = {e}]
    /\ Goto(p, "mark")
    /\ UNCHANGED <<rows, records, seen, fails, unsure, faults>>

\* The destination refuses, or it accepts and the answer does not arrive.
SendFails(p, e) ==
    /\ pc[p] = "loop" /\ e \in batch[p]
    /\ sent' = sent \/ sent' = sent \cup {e}
    /\ fails' = [fails EXCEPT ![e] = @ + 1]
    /\ batch' = [batch EXCEPT ![p] = @ \ {e}]
    /\ cur' = [cur EXCEPT ![p] = {e}]
    /\ Goto(p, IF seen[p][e] + 1 >= MaxAttempts THEN "record" ELSE "retry")
    /\ UNCHANGED <<rows, records, seen, unsure, faults>>

\* A settlement that matches no row is ErrOutboxClaimLost: reported, and the
\* loop goes on.
MarkDelivered(p) ==
    /\ pc[p] = "mark"
    /\ \E e \in cur[p] :
          IF Holds(p, e) THEN SettleTo(e, "delivered", due[e], attempts[e]) ELSE UNCHANGED rows
    /\ Goto(p, "loop")
    /\ cur' = [cur EXCEPT ![p] = {}]
    /\ UNCHANGED <<records, batch, seen, history, faults>>

ScheduleRetry(p) ==
    /\ pc[p] = "retry"
    /\ \E e \in cur[p] :
          IF Holds(p, e) THEN SettleTo(e, "pending", FALSE, seen[p][e] + 1) ELSE UNCHANGED rows
    /\ Goto(p, "loop")
    /\ cur' = [cur EXCEPT ![p] = {}]
    /\ UNCHANGED <<records, batch, seen, history, faults>>

\* Out of attempts: first the quarantine record, then the row.
SaveRecord(p) ==
    /\ pc[p] = "record"
    /\ \E e \in cur[p] : records' = [records EXCEPT ![e] = @ + 1]
    /\ Goto(p, "quarantine")
    /\ UNCHANGED <<rows, batch, cur, seen, history, faults>>

Quarantine(p) ==
    /\ pc[p] = "quarantine"
    /\ \E e \in cur[p] :
          IF Holds(p, e)
          THEN /\ SettleTo(e, "quarantined", due[e], attempts[e])
               /\ Goto(p, "loop")
               /\ cur' = [cur EXCEPT ![p] = {}]
          ELSE UNCHANGED rows /\ Goto(p, "cleanup") /\ UNCHANGED cur
    /\ UNCHANGED <<records, batch, seen, history, faults>>

\* A mistake: one record id for all claims of an effect.
DeleteRecordShared(p) ==
    /\ pc[p] = "cleanup"
    /\ \E e \in cur[p] : records' = [records EXCEPT ![e] = 0]
    /\ Goto(p, "loop")
    /\ cur' = [cur EXCEPT ![p] = {}]
    /\ UNCHANGED <<rows, batch, seen, history, faults>>

DeleteRecord(p) ==
    /\ pc[p] = "cleanup"
    /\ \E e \in cur[p] : records' = [records EXCEPT ![e] = @ - 1]
    /\ Goto(p, "loop")
    /\ cur' = [cur EXCEPT ![p] = {}]
    /\ UNCHANGED <<rows, batch, seen, history, faults>>

\* A statement fails: an unmarked row keeps its claim until that lapses; after
\* a failed Quarantine the record is removed; a failed Delete leaves it.
StatementError(p) ==
    /\ pc[p] \in {"mark", "retry", "record", "quarantine", "cleanup"}
    /\ Faulty
    /\ Goto(p, IF pc[p] = "quarantine" THEN "cleanup" ELSE "loop")
    /\ cur' = [cur EXCEPT ![p] = IF pc[p] = "quarantine" THEN @ ELSE {}]
    /\ UNCHANGED <<rows, records, batch, seen, history>>

\* Save or Quarantine takes effect and reports an error.
AnswerLost(p) ==
    /\ Faulty
    /\ \E e \in cur[p] :
          \/ /\ pc[p] = "record"
             /\ records' = [records EXCEPT ![e] = @ + 1]
             /\ Goto(p, "loop")
             /\ cur' = [cur EXCEPT ![p] = {}]
             /\ UNCHANGED <<rows, unsure>>
          \/ /\ pc[p] = "quarantine" /\ Holds(p, e)
             /\ SettleTo(e, "quarantined", due[e], attempts[e])
             /\ Goto(p, "cleanup")
             /\ unsure' = unsure \cup {e}
             /\ UNCHANGED <<records, cur>>
    /\ UNCHANGED <<batch, seen, sent, fails>>

\* The call ends: the token of p matches no row any more.
Return(p) ==
    /\ Work!Abandon(p)
    /\ pc' = [pc EXCEPT ![p] = "idle"]
    /\ batch' = [batch EXCEPT ![p] = {}]
    /\ cur' = [cur EXCEPT ![p] = {}]
    /\ seen' = [seen EXCEPT ![p] = [e \in Effect |-> 0]]
    /\ UNCHANGED <<due, attempts, records, history>>

BatchDone(p) == pc[p] = "loop" /\ batch[p] = {} /\ Return(p) /\ UNCHANGED faults
Crash(p) == pc[p] # "idle" /\ Return(p) /\ Faulty

-----------------------------------------------------------------------------
Init ==
    /\ Work!WorkInit
    /\ due = [e \in Effect |-> FALSE]
    /\ attempts = [e \in Effect |-> 0]
    /\ records = [e \in Effect |-> 0]
    /\ pc = [p \in Publisher |-> "idle"]
    /\ batch = [p \in Publisher |-> {}]
    /\ cur = [p \in Publisher |-> {}]
    /\ seen = [p \in Publisher |-> [e \in Effect |-> 0]]
    /\ sent = {}
    /\ fails = [e \in Effect |-> 0]
    /\ unsure = {}
    /\ faults = 0

Publish(p) ==
    \/ ClaimPending(p) \/ MarkDelivered(p) \/ ScheduleRetry(p)
    \/ SaveRecord(p) \/ Quarantine(p) \/ DeleteRecord(p) \/ BatchDone(p)
    \/ \E e \in Effect : SendOk(p, e) \/ SendFails(p, e)

Fault ==
    \/ \E p \in Publisher : ClaimError(p) \/ StatementError(p) \/ AnswerLost(p) \/ Crash(p)
    \/ \E e \in Effect : ExpireSlow(e)

Next ==
    \/ \E e \in Effect : Insert(e) \/ BecomeDue(e) \/ ExpireGone(e)
    \/ \E p \in Publisher : Publish(p)
    \/ Fault

Spec == Init /\ [][Next]_vars

\* Every worker's publish loop keeps ticking, and time passes.
FairSpec ==
    /\ Spec
    /\ \A p \in Publisher : WF_vars(Publish(p))
    /\ \A e \in Effect : WF_vars(BecomeDue(e)) /\ WF_vars(ExpireGone(e))

-----------------------------------------------------------------------------
(* Properties.                                                             *)

TypeOK ==
    /\ Work!WorkTypeOK
    /\ due \in [Effect -> BOOLEAN]
    /\ attempts \in [Effect -> 0 .. MaxAttempts - 1]
    /\ records \in [Effect -> Nat]
    /\ pc \in [Publisher -> Phase]
    /\ batch \in [Publisher -> SUBSET Effect]
    /\ cur \in [Publisher -> SUBSET Effect]
    /\ seen \in [Publisher -> [Effect -> Nat]]
    /\ sent \subseteq Effect
    /\ fails \in [Effect -> Nat]
    /\ unsure \subseteq Effect
    /\ faults \in 0 .. MaxFaults

\* The outbox keeps the claim protocol: a row is settled by the publisher
\* whose claim on it has not lapsed and by nobody else, however late a stale
\* publisher's settlement arrives, and a settled row stays settled.
ImplementsClaimedWork == Work!WorkSpec

\* Outcomes are earned, also when publishers crash, lose their claims or settle
\* late: a delivered effect has reached its destination, and an effect is
\* quarantined only after max_attempts sends have failed.
OutcomeEarned ==
    \A e \in Effect :
        /\ status[e] = "delivered" => e \in sent
        /\ status[e] = "quarantined" => fails[e] >= MaxAttempts

\* A stale publisher never removes the quarantine record of a newer one
\* (service.go:90-92): a quarantined effect lacks its record only when the call
\* that quarantined it was told that it had failed, and took its own record
\* for an orphan (service.go:107-110).
MissingRecordWasUnsure ==
    \A e \in Effect : status[e] = "quarantined" /\ records[e] = 0 => e \in unsure

\* The rows of the outbox tell the truth: columns in range, outcomes earned,
\* quarantine records where they belong (PublishBatch over claims that lapse).
OutcomesCorrect == TypeOK /\ OutcomeEarned /\ MissingRecordWasUnsure

\* Every inserted effect is delivered or quarantined in the end: lapsed claims
\* become claimable again and attempts run out.
EveryEffectSettles ==
    \A e \in Effect : status[e] = "pending" ~> status[e] \in {"delivered", "quarantined"}
=============================================================================
