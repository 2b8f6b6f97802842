----------------------------- MODULE RustPublishers -----------------------------
(***************************************************************************)
(* The outbox and scheduler loops of the Rust worker over the same tables  *)
(* the Go loops use.  Each tick draws a new claim token, claims what is    *)
(* due or has a lapsed claim, and publishes and settles the rows one after *)
(* the other.  An error that leaves a loop ends the whole worker process;  *)
(* a stopped worker, and one whose next tick has not come, are both        *)
(* "idle" here.  A row in backoff is due at some later time: pending rows  *)
(* are claimable whenever that has passed.                                 *)
(***************************************************************************)
EXTENDS Integers, FiniteSets

CONSTANTS
    RPublisher,  \* worker processes
    RustEffect,  \* rows of outbox_effects
    RustTimer,   \* rows of scheduled_events
    RMaxAttempts,\* per row: max_attempts of an effect, 8 for a scheduled event
    RBatchSize,
    MaxLapses,   \* bound: claims that lapse
    RSetting,    \* configurations with the effects' columns, see psetting
    RNoClaimant, RGone

\* Two tables, and a column that counts.
ASSUME PublishersAssumption ==
    /\ RustEffect \cap RustTimer = {}
    /\ RMaxAttempts \in [RustEffect \cup RustTimer -> Nat]

VARIABLES
    psetting,   \* [local: development or test environment, url: a destination URL is set,
                \*  effect: per effect its [type, valid, endpoint]]
    pstatus, pholder, plive, ptries,  \* the rows: status, claimant, unexpired, attempts
    precords,   \* effects with a quarantine record (its id is a hash of the effect)
    pstep,      \* per loop: "idle", "loop", "ok" or "failed"
    pbatch,     \* per loop: rows claimed and still to process
    pcur,       \* per loop: the row being settled
    pseen,      \* per loop: attempts as the claim returned them
    delivered,  \* rows that reach their destination or the stream, at once or late
    pfails,     \* per row: sends that failed
    lapses      \* claims that have lapsed (the bound)

pubVars == <<psetting, pstatus, pholder, plive, ptries, precords, pstep, pbatch, pcur, pseen, delivered, pfails, lapses>>

PubItem == RustEffect \cup RustTimer
Loop == RPublisher \X {"outbox", "scheduler"}
Mine(l) == IF l[2] = "outbox" THEN RustEffect ELSE RustTimer

EffectWork == INSTANCE ClaimedWork WITH
    Task <- RustEffect, Claimant <- RPublisher, Terminal <- {"delivered", "quarantined"},
    NoClaimant <- RNoClaimant, Gone <- RGone,
    status <- [i \in RustEffect |-> pstatus[i]], holder <- [i \in RustEffect |-> pholder[i]],
    live <- [i \in RustEffect |-> plive[i]]

TimerWork == INSTANCE ClaimedWork WITH
    Task <- RustTimer, Claimant <- RPublisher, Terminal <- {"released", "failed"},
    NoClaimant <- RNoClaimant, Gone <- RGone,
    status <- [i \in RustTimer |-> pstatus[i]], holder <- [i \in RustTimer |-> pholder[i]],
    live <- [i \in RustTimer |-> plive[i]]

PubInit ==
    /\ psetting \in RSetting
    /\ pstatus = [i \in PubItem |-> "absent"]
    /\ pholder = [i \in PubItem |-> RNoClaimant]
    /\ plive = [i \in PubItem |-> FALSE]
    /\ ptries = [i \in PubItem |-> 0]
    /\ precords = {}
    /\ pstep = [l \in Loop |-> "idle"]
    /\ pbatch = [l \in Loop |-> {}]
    /\ pcur = [l \in Loop |-> {}]
    /\ pseen = [l \in Loop |-> [i \in PubItem |-> 0]]
    /\ delivered = {}
    /\ pfails = [i \in PubItem |-> 0]
    /\ lapses = 0

prows == <<pstatus, pholder, plive, ptries>>
plocals == <<pstep, pbatch, pcur, pseen>>

-----------------------------------------------------------------------------
\* The rows.

\* The transaction that commits an execution, or the API, inserts the row.
Insert(i) ==
    /\ pstatus[i] = "absent"
    /\ pstatus' = [pstatus EXCEPT ![i] = "pending"]
    /\ UNCHANGED <<pholder, plive, ptries, precords, plocals, delivered, pfails, lapses>>

ClaimLapses(i) ==
    /\ plive[i] /\ lapses < MaxLapses
    /\ lapses' = lapses + 1
    /\ plive' = [plive EXCEPT ![i] = FALSE]
    /\ UNCHANGED <<pstatus, pholder, ptries, precords, plocals, delivered, pfails>>

Claimable(l) == {i \in Mine(l) : pstatus[i] = "pending" \/ (pstatus[i] = "claimed" /\ ~plive[i])}

\* A mistake: a settlement looks at the claimant and not at the expiry.
HoldsLapsed(l, i) == pstatus[i] = "claimed" /\ pholder[i] = l[1]
HoldsClaim(l, i) == pstatus[i] = "claimed" /\ pholder[i] = l[1] /\ plive[i]

Settle(i, s, a) ==
    /\ pstatus' = [pstatus EXCEPT ![i] = s]
    /\ pholder' = [pholder EXCEPT ![i] = RNoClaimant]
    /\ plive' = [plive EXCEPT ![i] = FALSE]
    /\ ptries' = [ptries EXCEPT ![i] = a]

\* The tokens of the worker's loops L match no row any more.
AbandonLoops(L) ==
    /\ pholder' = [i \in PubItem |-> IF \E l \in L : i \in Mine(l) /\ pholder[i] = l[1] THEN RGone ELSE pholder[i]]
    /\ pstep' = [l \in Loop |-> IF l \in L THEN "idle" ELSE pstep[l]]
    /\ pbatch' = [l \in Loop |-> IF l \in L THEN {} ELSE pbatch[l]]
    /\ pcur' = [l \in Loop |-> IF l \in L THEN {} ELSE pcur[l]]
    /\ pseen' = [l \in Loop |-> IF l \in L THEN [i \in PubItem |-> 0] ELSE pseen[l]]

\* Both loops of worker w end: a crash, a statement that fails, or a bail.
Stop(w) ==
    /\ AbandonLoops({w} \X {"outbox", "scheduler"})
    /\ UNCHANGED <<pstatus, plive, ptries, precords, delivered, pfails, lapses>>

-----------------------------------------------------------------------------
\* A tick of loop l.

claim_batch(l) ==
    /\ pstep[l] = "idle"
    /\ \E S \in SUBSET Claimable(l) :
         /\ S # {}
         /\ Cardinality(S) = RBatchSize \/ (Cardinality(S) < RBatchSize /\ S = Claimable(l))
         /\ pstatus' = [i \in PubItem |-> IF i \in S THEN "claimed" ELSE pstatus[i]]
         /\ pholder' = [i \in PubItem |-> IF i \in S THEN l[1] ELSE pholder[i]]
         /\ plive' = [i \in PubItem |-> IF i \in S THEN TRUE ELSE plive[i]]
         /\ pbatch' = [pbatch EXCEPT ![l] = S]
    /\ pseen' = [pseen EXCEPT ![l] = ptries]
    /\ pstep' = [pstep EXCEPT ![l] = "loop"]
    /\ UNCHANGED <<ptries, precords, pcur, delivered, pfails, lapses>>

-----------------------------------------------------------------------------
\* The destinations.  A send arrives or not, and reports success or an error.

Refused  == [arrived |-> FALSE, ok |-> FALSE]
Accepted == [arrived |-> FALSE, ok |-> TRUE]

\* An HTTP call: its answer is awaited, and one that reports an error may have
\* arrived all the same.
Posted == [arrived : BOOLEAN, ok : BOOLEAN] \ {Accepted}

\* A publication to the stream: publish hands the message to the connection, and
\* the future of the stream's acknowledgement is dropped.
Streamed == [arrived : BOOLEAN, ok : BOOLEAN]

\* Without a destination URL a development worker only logs a command.
accept_development_effect == ~psetting.url /\ psetting.local

send_external_effect ==
    IF accept_development_effect THEN {Accepted}
    ELSE IF psetting.url THEN Posted ELSE {Refused}

\* Outside development only HTTPS, and no address that is not public.
validate_service_endpoint(u) == u.valid /\ (psetting.local \/ (u.https /\ u.public))

\* A service that is not active is an error as well: Posted has Refused.
send_domain_service_effect(u) == IF validate_service_endpoint(u) THEN Posted ELSE {Refused}

\* An event whose destination or payload cannot be decoded is not published.
send_effect(row) ==
    CASE row.type \in {"emit", "emit_event"} -> IF row.valid THEN Streamed ELSE {Refused}
      [] row.type = "command"       -> send_external_effect
      [] row.type = "service_event" -> send_domain_service_effect(row.endpoint)
      [] OTHER                      -> {Refused}

publish_scheduled_event == Streamed

\* The next row is sent: an effect to its destination, a scheduled event to the
\* stream.
send(l, i) ==
    /\ pstep[l] = "loop" /\ i \in pbatch[l]
    /\ pbatch' = [pbatch EXCEPT ![l] = @ \ {i}]
    /\ pcur' = [pcur EXCEPT ![l] = {i}]
    /\ \E sent \in IF i \in RustEffect THEN send_effect(psetting.effect[i])
                                        ELSE publish_scheduled_event :
         /\ pstep' = [pstep EXCEPT ![l] = IF sent.ok THEN "ok" ELSE "failed"]
         /\ delivered' = IF sent.arrived THEN delivered \cup {i} ELSE delivered
         /\ pfails' = [pfails EXCEPT ![i] = IF ~sent.ok /\ @ < RMaxAttempts[i] THEN @ + 1 ELSE @]
    /\ UNCHANGED <<prows, precords, pseen, lapses>>

LastTry(l, i) == pseen[l][i] + 1 >= RMaxAttempts[i]

NextRow(l) ==
    /\ pstep' = [pstep EXCEPT ![l] = "loop"]
    /\ pcur' = [pcur EXCEPT ![l] = {}]
    /\ UNCHANGED <<pbatch, pseen>>

\* mark_effect_delivered warns, and mark_released is silent, when no row matched.
mark_sent(l) ==
    /\ pstep[l] = "ok"
    /\ \E i \in pcur[l] :
         IF HoldsClaim(l, i)
         THEN Settle(i, IF i \in RustEffect THEN "delivered" ELSE "released", ptries[i])
         ELSE UNCHANGED prows
    /\ NextRow(l)
    /\ UNCHANGED <<precords, delivered, pfails, lapses>>

\* For an effect a lost claim bails out of the loop and ends the worker.
schedule_effect_retry(l) ==
    /\ pstep[l] = "failed" /\ l[2] = "outbox"
    /\ \E i \in pcur[l] :
         /\ ~LastTry(l, i)
         /\ IF HoldsClaim(l, i)
            THEN /\ Settle(i, "pending", pseen[l][i] + 1) /\ NextRow(l)
                 /\ UNCHANGED <<precords, delivered, pfails, lapses>>
            ELSE Stop(l[1])

\* A mistake: the record is inserted outside the transaction of the update.
QuarantineSeparately(l) ==
    /\ pstep[l] = "failed" /\ l[2] = "outbox"
    /\ \E i \in pcur[l] :
         /\ LastTry(l, i) /\ precords' = precords \cup {i}
         /\ IF HoldsClaim(l, i)
            THEN Settle(i, "quarantined", pseen[l][i] + 1) /\ NextRow(l)
            ELSE AbandonLoops({l[1]} \X {"outbox", "scheduler"}) /\ UNCHANGED <<pstatus, plive, ptries>>
    /\ UNCHANGED <<delivered, pfails, lapses>>

\* Record and row change together; a lost claim rolls the record back and bails.
quarantine_effect_atomically(l) ==
    /\ pstep[l] = "failed" /\ l[2] = "outbox"
    /\ \E i \in pcur[l] :
         /\ LastTry(l, i)
         /\ IF HoldsClaim(l, i)
            THEN /\ Settle(i, "quarantined", pseen[l][i] + 1) /\ NextRow(l)
                 /\ precords' = precords \cup {i}
                 /\ UNCHANGED <<delivered, pfails, lapses>>
            ELSE Stop(l[1])

\* mark_failed and schedule_retry; a lost claim goes unnoticed.
record_publish_failure(l) ==
    /\ pstep[l] = "failed" /\ l[2] = "scheduler"
    /\ \E i \in pcur[l] :
         IF HoldsClaim(l, i)
         THEN Settle(i, IF LastTry(l, i) THEN "failed" ELSE "pending", pseen[l][i] + 1)
         ELSE UNCHANGED prows
    /\ NextRow(l)
    /\ UNCHANGED <<precords, delivered, pfails, lapses>>

TickEnds(l) ==
    /\ pstep[l] = "loop" /\ pbatch[l] = {}
    /\ AbandonLoops({l})
    /\ UNCHANGED <<pstatus, plive, ptries, precords, delivered, pfails, lapses>>

Steps ==
    \/ \E i \in PubItem : Insert(i) \/ ClaimLapses(i)
    \/ \E l \in Loop :
         \/ claim_batch(l) \/ mark_sent(l) \/ TickEnds(l)
         \/ schedule_effect_retry(l) \/ quarantine_effect_atomically(l) \/ record_publish_failure(l)
         \/ \E i \in PubItem : send(l, i)
    \/ \E w \in RPublisher : (\E k \in {"outbox", "scheduler"} : pstep[<<w, k>>] # "idle") /\ Stop(w)

PubNext == Steps /\ UNCHANGED psetting

PubSpec == PubInit /\ [][PubNext]_pubVars

-----------------------------------------------------------------------------
\* Both loops keep the claim protocol of the Go loops: a row is settled by the
\* worker whose claim on it has not lapsed and by nobody else, and stays settled.
ClaimInit == EffectWork!WorkInit /\ TimerWork!WorkInit
ClaimStep ==
    \/ UNCHANGED <<pstatus, pholder, plive>>
    \/ /\ [EffectWork!WorkNext]_(EffectWork!workVars)
       /\ [TimerWork!WorkNext]_(TimerWork!workVars)

RustKeepsClaims == ClaimInit /\ [][ClaimStep]_pubVars

\* Effects that leave as an HTTP call, whose answer is awaited.
Answered(i) == i \in RustEffect /\ psetting.effect[i].type \in {"command", "service_event"}

Earned(i) ==
    Answered(i) => i \in delivered \/ (psetting.effect[i].type = "command" /\ accept_development_effect)

\* Outcomes are earned whatever crashes, lapses or arrives late: a command or a
\* service event that is marked delivered was, or is a command a development
\* worker only logs; a row is given up only after all its attempts failed; and
\* (what quarantine_effect_atomically is for) an effect has a quarantine record
\* exactly when its row is quarantined: no stale publisher leaves one behind.
\* Of an emit, an emit_event or a scheduled event marked sent nothing is claimed:
\* the loops do not wait for the stream's acknowledgement of those.
RustOutcomeEarned ==
    /\ \A i \in PubItem :
          /\ pstatus[i] \in {"delivered", "released"} => Earned(i)
          /\ pstatus[i] \in {"quarantined", "failed"} => pfails[i] = RMaxAttempts[i]
    /\ precords = {i \in RustEffect : pstatus[i] = "quarantined"}
=============================================================================
