----------------------------- MODULE OutboxProofs -----------------------------
(***************************************************************************)
(* Proofs about the outbox publishers: for any number of effects,          *)
(* publishers, attempts and faults they keep the claim protocol, outcomes  *)
(* are earned, and a quarantined effect keeps its record unless Quarantine *)
(* took effect and reported an error.                                      *)
(***************************************************************************)
EXTENDS Outbox, FiniteSetTheorems, TLAPS

\* The one effect in hand between a send and the return to the loop.
Settling == {"mark", "retry", "record", "quarantine", "cleanup"}

CurrentOne ==
    \A p \in Publisher : /\ pc[p] \in Settling => \E e \in Effect : cur[p] = {e}
                         /\ pc[p] \notin Settling => cur[p] = {}

\* Failures are counted before they are recorded.
FailsCounted ==
    \A e \in Effect : attempts[e] <= fails[e] /\ \A p \in Publisher : seen[p][e] <= fails[e]

\* What a publisher is about to record has happened.
CurrentEarned ==
    \A p \in Publisher : \A e \in cur[p] :
        /\ pc[p] = "mark" => e \in sent
        /\ pc[p] = "retry" => seen[p][e] + 1 < MaxAttempts /\ seen[p][e] + 1 <= fails[e]
        /\ pc[p] \in {"record", "quarantine", "cleanup"} => MaxAttempts <= fails[e]

\* Publishers that have stored a quarantine record of e and not yet settled it.
Recorders(e) == {p \in Publisher : pc[p] \in {"quarantine", "cleanup"} /\ e \in cur[p]}

\* The row's own record, counted once Quarantine has succeeded.
Kept(e) == IF status[e] = "quarantined" /\ e \notin unsure THEN 1 ELSE 0

\* Every recorder has a record of its own, and so has the quarantined row.
RecordsSuffice == \A e \in Effect : Cardinality(Recorders(e)) + Kept(e) <= records[e]

IInv ==
    TypeOK /\ OutcomeEarned /\ CurrentOne /\ FailsCounted /\ CurrentEarned /\ RecordsSuffice

-----------------------------------------------------------------------------
(* Counting records.                                                       *)

LEMMA CountSubset ==
    ASSUME NEW R, NEW Q, IsFiniteSet(R), Q \subseteq R
    PROVE  Cardinality(Q) <= Cardinality(R)
  BY Zenon, FS_Subset

LEMMA CountWithout ==
    ASSUME NEW R, NEW Q, NEW p \in R, IsFiniteSet(R), Q \subseteq R \ {p}
    PROVE  Cardinality(Q) + 1 <= Cardinality(R)
<1>1. IsFiniteSet(R \ {p}) /\ Cardinality(R \ {p}) = Cardinality(R) - 1
  BY Zenon, FS_RemoveElement
<1>2. Cardinality(Q) <= Cardinality(R \ {p})
  BY Zenon, <1>1, CountSubset
<1>3. IsFiniteSet(Q)
  BY Zenon, <1>1, FS_Subset
<1>. QED
  BY <1>1, <1>2, <1>3, FS_CardinalityType

LEMMA CountWith ==
    ASSUME NEW R, NEW Q, NEW p, IsFiniteSet(R), Q \subseteq R \cup {p}
    PROVE  Cardinality(Q) <= Cardinality(R) + 1
<1>1. IsFiniteSet(R \cup {p})
      /\ (Cardinality(R \cup {p}) = Cardinality(R) \/ Cardinality(R \cup {p}) = Cardinality(R) + 1)
  BY Zenon, FS_AddElement
<1>2. Cardinality(Q) <= Cardinality(R \cup {p})
  BY Zenon, <1>1, CountSubset
<1>3. IsFiniteSet(Q)
  BY Zenon, <1>1, FS_Subset
<1>. QED
  BY <1>1, <1>2, <1>3, FS_CardinalityType

LEMMA RecordersFinite ==
    \A e \in Effect : /\ IsFiniteSet(Recorders(e)) /\ Cardinality(Recorders(e)) \in Nat
                      /\ Kept(e) \in {0, 1}
<1>1. \A e \in Effect : Recorders(e) \in SUBSET Publisher
  BY Zenon DEF Recorders
<1>2. \A e \in Effect : IsFiniteSet(Recorders(e))
  BY Zenon, <1>1, OutboxAssumption, FS_Subset
<1>. QED
  BY Zenon, <1>2, FS_CardinalityType DEF Kept

LEMMA RecordersFinitePrime ==
    \A e \in Effect : /\ IsFiniteSet(Recorders(e)') /\ Cardinality(Recorders(e)') \in Nat
                      /\ Kept(e)' \in {0, 1}
<1>1. \A e \in Effect : Recorders(e)' \in SUBSET Publisher
  BY Zenon DEF Recorders
<1>2. \A e \in Effect : IsFiniteSet(Recorders(e)')
  BY Zenon, <1>1, OutboxAssumption, FS_Subset
<1>. QED
  BY Zenon, <1>2, FS_CardinalityType DEF Kept

\* Enough that for each effect the recorders grow by less than the records.
LEMMA RecordsByCounting ==
    ASSUME IInv, TypeOK',
           \A e \in Effect :
               \/ /\ Recorders(e)' \subseteq Recorders(e)
                  /\ Kept(e)' <= Kept(e) /\ records[e] <= records'[e]
               \/ /\ \E p \in Recorders(e) : Recorders(e)' \subseteq Recorders(e) \ {p}
                  /\ Kept(e)' <= Kept(e) + 1 /\ records'[e] = records[e]
               \/ /\ \E p \in Recorders(e) : Recorders(e)' \subseteq Recorders(e) \ {p}
                  /\ Kept(e)' <= Kept(e) /\ records'[e] = records[e] - 1
               \/ /\ \E p \in Publisher : Recorders(e)' \subseteq Recorders(e) \cup {p}
                  /\ Kept(e)' <= Kept(e) /\ records'[e] = records[e] + 1
    PROVE  RecordsSuffice'
<1>1. SUFFICES ASSUME NEW e \in Effect
               PROVE  Cardinality(Recorders(e)') + Kept(e)' <= records'[e]
  BY Zenon DEF RecordsSuffice
<1>. DEFINE R == Recorders(e)
            Q == Recorders(e)'
<1>2. /\ IsFiniteSet(R) /\ Cardinality(R) \in Nat /\ IsFiniteSet(Q) /\ Cardinality(Q) \in Nat
      /\ Kept(e) \in Nat /\ Kept(e)' \in Nat /\ records[e] \in Nat /\ records'[e] \in Nat
      /\ Cardinality(R) + Kept(e) <= records[e]
  <2>1. IsFiniteSet(R) /\ Cardinality(R) \in Nat /\ Kept(e) \in Nat
    BY RecordersFinite
  <2>2. IsFiniteSet(Q) /\ Cardinality(Q) \in Nat /\ Kept(e)' \in Nat
    BY RecordersFinitePrime
  <2>3. records[e] \in Nat
    BY Zenon DEF IInv, TypeOK
  <2>4. records'[e] \in Nat
    BY Zenon DEF TypeOK
  <2>5. Cardinality(R) + Kept(e) <= records[e]
    BY Zenon DEF IInv, RecordsSuffice
  <2>. QED
    BY Zenon, <2>1, <2>2, <2>3, <2>4, <2>5
<1>3. Q \subseteq R => Cardinality(Q) <= Cardinality(R)
  BY Zenon, <1>2, CountSubset
<1>4. ASSUME NEW p \in R, Q \subseteq R \ {p}
      PROVE  Cardinality(Q) + 1 <= Cardinality(R)
  BY Zenon, <1>2, <1>4, CountWithout
<1>5. ASSUME NEW p, Q \subseteq R \cup {p}
      PROVE  Cardinality(Q) <= Cardinality(R) + 1
  BY Zenon, <1>2, <1>5, CountWith
<1>. DEFINE q  == Cardinality(Q)
            r  == Cardinality(R)
            k  == Kept(e)
            k1 == Kept(e)'
            n  == records[e]
            n1 == records'[e]
<1>6. \/ q <= r /\ k1 <= k /\ n <= n1
      \/ q + 1 <= r /\ k1 <= k + 1 /\ n1 = n
      \/ q + 1 <= r /\ k1 <= k /\ n1 = n - 1
      \/ q <= r + 1 /\ k1 <= k /\ n1 = n + 1
  BY Zenon, <1>3, <1>4, <1>5
<1>7. /\ q \in Nat /\ r \in Nat /\ k \in Nat /\ k1 \in Nat /\ n \in Nat /\ n1 \in Nat
      /\ r + k <= n
  BY Zenon, <1>2
<1>. HIDE DEF q, r, k, k1, n, n1
<1>8. q + k1 <= n1
  BY <1>6, <1>7
<1>. QED
  BY Zenon, <1>8 DEF q, k1, n1

-----------------------------------------------------------------------------
(* Rows and claims.                                                        *)

LEMMA FaultyType ==
    ASSUME IInv, Faulty
    PROVE  faults' \in 0 .. MaxFaults
  BY OutboxAssumption DEF IInv, TypeOK, Faulty

\* Insert, the clock and claims move rows between states that are not final.
LEMMA RowsKeep ==
    ASSUME IInv, Work!WorkTypeOK', due' \in [Effect -> BOOLEAN], faults' \in 0 .. MaxFaults,
           \A e \in Effect : status'[e] \notin {"delivered", "quarantined"} \/ status'[e] = status[e],
           UNCHANGED <<attempts, records, pc, cur, history>>,
           batch' \in [Publisher -> SUBSET Effect], seen' \in [Publisher -> [Effect -> Nat]],
           \A p \in Publisher, e \in Effect : seen'[p][e] <= fails[e],
           \A p \in Publisher : pc[p] \in Settling => seen'[p] = seen[p]
    PROVE  IInv'
<1>1. TypeOK'
  BY Zenon DEF IInv, TypeOK, history
<1>2. OutcomeEarned'
  BY Zenon DEF IInv, OutcomeEarned, history
<1>3. CurrentOne' /\ FailsCounted'
  BY Zenon DEF IInv, CurrentOne, FailsCounted, history
<1>4. CurrentEarned'
  BY Zenon DEF IInv, CurrentEarned, history, Settling
<1>5. RecordsSuffice'
  <2>1. \A e \in Effect : Recorders(e)' = Recorders(e)
    BY Zenon DEF Recorders
  <2>2. \A e \in Effect : Kept(e)' <= Kept(e) /\ records[e] <= records'[e]
    BY DEF Kept, history, IInv, TypeOK
  <2>. QED
    BY Zenon, <1>1, <2>1, <2>2, RecordsByCounting
<1>. QED
  BY Zenon, <1>1, <1>2, <1>3, <1>4, <1>5 DEF IInv

\* A claim takes rows that are claimable.
LEMMA TakeClaimFacts ==
    ASSUME IInv, NEW c \in Publisher \cup {Gone}, NEW S \in SUBSET Claimable, TakeClaim(c, S)
    PROVE  /\ Work!WorkTypeOK' /\ due' = due /\ attempts' = attempts
           /\ \A e \in Effect : status'[e] \notin {"delivered", "quarantined"} \/ status'[e] = status[e]
           /\ Work!Claim(c, S) /\ S \in SUBSET Effect
<1>1. S \in SUBSET Effect /\ \A e \in S : Work!Claimable(e)
  BY Zenon DEF Claimable
<1>2. Work!WorkTypeOK'
  BY Zenon, <1>1 DEF IInv, TypeOK, Work!WorkTypeOK, TakeClaim
<1>3. \A e \in Effect : status'[e] = "claimed" \/ status'[e] = status[e]
  BY Zenon DEF TakeClaim
<1>4. Work!Claim(c, S)
  BY Zenon, <1>1 DEF TakeClaim, Work!Claim
<1>. QED
  BY Zenon, <1>1, <1>2, <1>3, <1>4 DEF TakeClaim

LEMMA ClaimPendingKeeps ==
    ASSUME IInv, NEW p \in Publisher, ClaimPending(p)
    PROVE  IInv'
<1>1. PICK S \in Candidates : TakeClaim(p, S) /\ batch' = [batch EXCEPT ![p] = S]
  BY Zenon DEF ClaimPending
<1>2. S \in SUBSET Claimable /\ S \in SUBSET Effect
  BY Zenon DEF Candidates, Claimable
<1>3. /\ pc[p] = "idle" /\ pc' = [pc EXCEPT ![p] = "loop"] /\ seen' = [seen EXCEPT ![p] = attempts]
      /\ UNCHANGED <<records, cur, history, faults>>
  BY Zenon DEF ClaimPending, Goto
<1>4. attempts \in [Effect -> Nat] /\ fails \in [Effect -> Nat] /\ seen \in [Publisher -> [Effect -> Nat]]
  BY OutboxAssumption DEF IInv, TypeOK
<1>5. /\ Work!WorkTypeOK' /\ due' = due /\ attempts' = attempts
      /\ \A e \in Effect : status'[e] \notin {"delivered", "quarantined"} \/ status'[e] = status[e]
  BY Zenon, <1>1, <1>2, TakeClaimFacts
<1>6. TypeOK'
  BY Zenon, <1>1, <1>2, <1>3, <1>4, <1>5 DEF IInv, TypeOK, Phase, history
<1>7. \A q \in Publisher : /\ pc'[q] = IF q = p THEN "loop" ELSE pc[q]
                           /\ seen'[q] = IF q = p THEN attempts ELSE seen[q]
  BY Zenon, <1>3, <1>4 DEF IInv, TypeOK
<1>8. OutcomeEarned'
  BY Zenon, <1>3, <1>5 DEF IInv, OutcomeEarned, history
<1>9. CurrentOne' /\ FailsCounted'
  BY <1>3, <1>5, <1>7 DEF IInv, CurrentOne, FailsCounted, history, Settling
<1>10. CurrentEarned'
  BY <1>3, <1>7 DEF IInv, CurrentEarned, history
<1>11. RecordsSuffice'
  <2>1. \A e \in Effect : Recorders(e)' = Recorders(e)
    BY <1>3, <1>7 DEF Recorders
  <2>2. \A e \in Effect : Kept(e)' <= Kept(e) /\ records[e] <= records'[e]
    BY <1>3, <1>5 DEF Kept, history, IInv, TypeOK
  <2>. QED
    BY Zenon, <1>6, <2>1, <2>2, RecordsByCounting
<1>. QED
  BY Zenon, <1>6, <1>8, <1>9, <1>10, <1>11 DEF IInv

\* Sending moves an effect from the batch to be settled, and what the
\* destination answered decides how.
LEMMA SendKeeps ==
    ASSUME IInv, NEW p \in Publisher, NEW e \in Effect, SendOk(p, e) \/ SendFails(p, e)
    PROVE  IInv'
<1>1. /\ pc[p] = "loop" /\ e \in batch[p] /\ UNCHANGED <<rows, records, seen, unsure, faults>>
      /\ batch' = [batch EXCEPT ![p] = @ \ {e}] /\ cur' = [cur EXCEPT ![p] = {e}]
  BY Zenon DEF SendOk, SendFails
<1>2. PICK ph \in {"mark", "retry", "record"} :
         /\ pc' = [pc EXCEPT ![p] = ph]
         /\ ph = "mark" => sent' = sent \cup {e} /\ fails' = fails
         /\ ph # "mark" => /\ sent' = sent \/ sent' = sent \cup {e}
                           /\ fails' = [fails EXCEPT ![e] = @ + 1]
         /\ ph = "retry" => ~(seen[p][e] + 1 >= MaxAttempts)
         /\ ph = "record" => seen[p][e] + 1 >= MaxAttempts
  BY Zenon DEF SendOk, SendFails, Goto
<1>3. /\ seen \in [Publisher -> [Effect -> Nat]] /\ fails \in [Effect -> Nat]
      /\ attempts \in [Effect -> Nat] /\ MaxAttempts \in Nat /\ seen[p][e] \in Nat
  BY OutboxAssumption DEF IInv, TypeOK
<1>4. fails' \in [Effect -> Nat] /\ \A f \in Effect : fails[f] <= fails'[f]
  BY <1>2, <1>3
<1>5. TypeOK'
  BY <1>1, <1>2, <1>4 DEF IInv, TypeOK, Work!WorkTypeOK, rows, Phase
<1>6. /\ \A q \in Publisher : pc'[q] = IF q = p THEN ph ELSE pc[q]
      /\ \A q \in Publisher : cur'[q] = IF q = p THEN {e} ELSE cur[q]
  BY Zenon, <1>1, <1>2 DEF IInv, TypeOK
<1>7. sent \subseteq sent'
  BY Zenon, <1>2
<1>8. OutcomeEarned'
  BY <1>1, <1>3, <1>4, <1>7 DEF IInv, OutcomeEarned, rows
<1>9. CurrentOne'
  BY Zenon, <1>6 DEF IInv, CurrentOne, Settling
<1>10. FailsCounted'
  BY <1>1, <1>3, <1>4 DEF IInv, FailsCounted, rows
<1>11. CurrentEarned'
  <2>1. ASSUME NEW q \in Publisher, NEW f \in cur'[q], q # p
        PROVE  /\ pc'[q] = "mark" => f \in sent'
               /\ pc'[q] = "retry" => seen'[q][f] + 1 < MaxAttempts /\ seen'[q][f] + 1 <= fails'[f]
               /\ pc'[q] \in {"record", "quarantine", "cleanup"} => MaxAttempts <= fails'[f]
    <3>1. f \in cur[q] /\ f \in Effect /\ pc'[q] = pc[q] /\ seen' = seen
      BY Zenon, <1>1, <1>6, <2>1 DEF IInv, TypeOK
    <3>2. seen[q][f] \in Nat /\ fails[f] \in Nat /\ fails'[f] \in Nat /\ fails[f] <= fails'[f]
      BY Zenon, <1>3, <1>4, <3>1
    <3>. QED
      BY <1>3, <1>7, <3>1, <3>2 DEF IInv, CurrentEarned
  <2>2. ph # "mark" => seen[p][e] + 1 <= fails'[e]
    <3>1. ph # "mark" => fails'[e] = fails[e] + 1
      BY Zenon, <1>2, <1>3
    <3>2. seen[p][e] <= fails[e] /\ fails[e] \in Nat
      BY Zenon, <1>3 DEF IInv, FailsCounted
    <3>. QED
      BY <1>3, <3>1, <3>2
  <2>3. /\ ph = "mark" => e \in sent'
        /\ ph = "retry" => seen[p][e] + 1 < MaxAttempts /\ seen[p][e] + 1 <= fails'[e]
        /\ ph = "record" => MaxAttempts <= fails'[e]
    BY <1>2, <1>3, <1>4, <2>2
  <2>. QED
    BY <1>1, <1>2, <1>6, <2>1, <2>3 DEF CurrentEarned
<1>12. RecordsSuffice'
  <2>1. \A f \in Effect : Recorders(f)' \subseteq Recorders(f)
    BY Zenon, <1>2, <1>6 DEF Recorders
  <2>2. \A f \in Effect : Kept(f)' <= Kept(f) /\ records[f] <= records'[f]
    BY <1>1 DEF Kept, rows, IInv, TypeOK
  <2>. QED
    BY Zenon, <1>5, <2>1, <2>2, RecordsByCounting
<1>. QED
  BY Zenon, <1>5, <1>8, <1>9, <1>10, <1>11, <1>12 DEF IInv

-----------------------------------------------------------------------------
(* Settling.                                                               *)

\* What the steps after a send share: the effect in hand is dropped, or kept
\* from the record to the quarantine and the clean-up.
LEMMA MoveKeeps ==
    ASSUME IInv, NEW p \in Publisher, NEW ph \in Phase, NEW C \in SUBSET Effect,
           pc' = [pc EXCEPT ![p] = ph], cur' = [cur EXCEPT ![p] = C],
           \/ ph = "loop" /\ C = {}
           \/ pc[p] \in {"record", "quarantine"} /\ ph \in {"quarantine", "cleanup"} /\ C = cur[p],
           UNCHANGED <<batch, seen, sent, fails>>, faults' \in 0 .. MaxFaults,
           Work!WorkTypeOK', due' \in [Effect -> BOOLEAN], records' \in [Effect -> Nat],
           attempts' \in [Effect -> 0 .. MaxAttempts - 1], unsure' \subseteq Effect,
           \A e \in Effect : attempts'[e] <= fails[e],
           \A e \in Effect : \/ status'[e] = status[e]
                             \/ status'[e] = "delivered" /\ e \in sent
                             \/ status'[e] = "quarantined" /\ MaxAttempts <= fails[e]
                             \/ status'[e] = "pending",
           RecordsSuffice'
    PROVE  IInv'
<1>1. TypeOK'
  BY Zenon DEF IInv, TypeOK
<1>2. \A q \in Publisher : /\ pc'[q] = IF q = p THEN ph ELSE pc[q]
                           /\ cur'[q] = IF q = p THEN C ELSE cur[q]
  BY Zenon DEF IInv, TypeOK
<1>3. fails \in [Effect -> Nat] /\ MaxAttempts \in Nat
  BY Zenon, OutboxAssumption DEF IInv, TypeOK
<1>4. OutcomeEarned'
  BY Zenon, <1>3 DEF IInv, OutcomeEarned
<1>5. CurrentOne'
  BY <1>2 DEF IInv, CurrentOne, Settling
<1>6. FailsCounted'
  BY Zenon DEF IInv, FailsCounted
<1>7. CurrentEarned'
  BY <1>2 DEF IInv, CurrentEarned
<1>. QED
  BY Zenon, <1>1, <1>4, <1>5, <1>6, <1>7 DEF IInv

\* The types the rows and the histories have, for steps that leave them alone.
LEMMA Types ==
    ASSUME IInv
    PROVE  /\ Work!WorkTypeOK /\ due \in [Effect -> BOOLEAN] /\ records \in [Effect -> Nat]
           /\ attempts \in [Effect -> 0 .. MaxAttempts - 1] /\ unsure \subseteq Effect
           /\ cur \in [Publisher -> SUBSET Effect] /\ fails \in [Effect -> Nat]
           /\ faults \in 0 .. MaxFaults /\ \A e \in Effect : attempts[e] <= fails[e]
           /\ MaxAttempts \in Nat \ {0} /\ seen \in [Publisher -> [Effect -> Nat]]
           /\ \A p \in Publisher : pc[p] \in Phase /\ cur[p] \in SUBSET Effect
  BY Zenon, OutboxAssumption DEF IInv, TypeOK, FailsCounted

\* A settlement by the claim that holds.
LEMMA SettleToFacts ==
    ASSUME IInv, NEW e \in Effect, NEW s \in {"delivered", "quarantined", "pending"},
           NEW d \in BOOLEAN, NEW a \in 0 .. MaxAttempts - 1, a <= fails[e],
           SettleTo(e, s, d, a)
    PROVE  /\ Work!WorkTypeOK' /\ due' \in [Effect -> BOOLEAN]
           /\ attempts' \in [Effect -> 0 .. MaxAttempts - 1]
           /\ \A f \in Effect : attempts'[f] <= fails[f]
           /\ \A f \in Effect : status'[f] = IF f = e THEN s ELSE status[f]
<1>1. Work!WorkTypeOK' /\ due' \in [Effect -> BOOLEAN] /\ attempts' \in [Effect -> 0 .. MaxAttempts - 1]
  BY Zenon, Types DEF SettleTo, Work!WorkTypeOK
<1>2. \A f \in Effect : attempts'[f] = IF f = e THEN a ELSE attempts[f]
  BY Zenon, Types DEF SettleTo
<1>3. \A f \in Effect : status'[f] = IF f = e THEN s ELSE status[f]
  BY Zenon, Types DEF SettleTo, Work!WorkTypeOK
<1>. QED
  BY Zenon, <1>1, <1>2, <1>3, Types

\* MarkDelivered and ScheduleRetry.
LEMMA MarkKeeps ==
    ASSUME IInv, NEW p \in Publisher, MarkDelivered(p) \/ ScheduleRetry(p)
    PROVE  IInv'
<1>1. /\ pc[p] \in {"mark", "retry"} /\ pc' = [pc EXCEPT ![p] = "loop"] /\ cur' = [cur EXCEPT ![p] = {}]
      /\ UNCHANGED <<records, batch, seen, sent, fails, unsure, faults>>
  BY Zenon DEF MarkDelivered, ScheduleRetry, Goto, history
<1>2. /\ Work!WorkTypeOK' /\ due' \in [Effect -> BOOLEAN]
      /\ attempts' \in [Effect -> 0 .. MaxAttempts - 1]
      /\ \A f \in Effect : attempts'[f] <= fails[f]
      /\ \A f \in Effect : \/ status'[f] = status[f]
                           \/ status'[f] = "delivered" /\ f \in sent
                           \/ status'[f] = "pending"
  <2>1. CASE UNCHANGED rows
    BY Zenon, <2>1, Types DEF rows, Work!WorkTypeOK
  <2>2. ASSUME NEW e \in cur[p], pc[p] = "mark", SettleTo(e, "delivered", due[e], attempts[e])
        PROVE  <1>2!:
    <3>1. e \in Effect /\ e \in sent /\ due[e] \in BOOLEAN /\ attempts[e] \in 0 .. MaxAttempts - 1
          /\ attempts[e] <= fails[e]
      BY Zenon, <2>2, Types DEF IInv, CurrentEarned
    <3>. QED
      BY <2>2, <3>1, SettleToFacts
  <2>3. ASSUME NEW e \in cur[p], pc[p] = "retry", SettleTo(e, "pending", FALSE, seen[p][e] + 1)
        PROVE  <1>2!:
    <3>1. e \in Effect /\ seen[p][e] \in Nat /\ seen[p][e] + 1 < MaxAttempts /\ seen[p][e] + 1 <= fails[e]
      BY Zenon, <2>3, Types DEF IInv, CurrentEarned
    <3>2. seen[p][e] + 1 \in 0 .. MaxAttempts - 1
      BY <3>1, Types
    <3>. QED
      BY <2>3, <3>1, <3>2, SettleToFacts
  <2>. QED
    BY Zenon, <2>1, <2>2, <2>3 DEF MarkDelivered, ScheduleRetry
<1>3. TypeOK'
  BY Zenon, <1>1, <1>2 DEF IInv, TypeOK, Phase
<1>4. RecordsSuffice'
  <2>1. \A f \in Effect : Recorders(f)' \subseteq Recorders(f)
    BY Zenon, <1>1 DEF Recorders, IInv, TypeOK
  <2>2. \A f \in Effect : Kept(f)' <= Kept(f) /\ records[f] <= records'[f]
    BY <1>1, <1>2, Types DEF Kept
  <2>. QED
    BY Zenon, <1>3, <2>1, <2>2, RecordsByCounting
<1>5. "loop" \in Phase /\ {} \in SUBSET Effect
  BY Zenon DEF Phase
<1>. QED
  BY Zenon, <1>1, <1>2, <1>4, <1>5, Types, MoveKeeps

\* A step that leaves the rows and the records alone.
LEMMA DropKeeps ==
    ASSUME IInv, NEW p \in Publisher, NEW ph \in {"loop", "cleanup"}, NEW C \in SUBSET Effect,
           pc' = [pc EXCEPT ![p] = ph], cur' = [cur EXCEPT ![p] = C],
           ph = "loop" => C = {},
           ph = "cleanup" => pc[p] = "quarantine" /\ C = cur[p],
           UNCHANGED <<rows, records, batch, seen, sent, fails, unsure>>, faults' \in 0 .. MaxFaults
    PROVE  IInv'
<1>1. ph \in Phase
  BY Zenon DEF Phase
<1>2. TypeOK'
  BY Zenon, <1>1 DEF IInv, TypeOK, Work!WorkTypeOK, rows
<1>3. RecordsSuffice'
  <2>1. \A f \in Effect : Recorders(f)' \subseteq Recorders(f)
    BY Zenon DEF Recorders, IInv, TypeOK
  <2>2. \A f \in Effect : Kept(f)' <= Kept(f) /\ records[f] <= records'[f]
    BY Types DEF Kept, rows
  <2>. QED
    BY Zenon, <1>2, <2>1, <2>2, RecordsByCounting
<1>4. /\ Work!WorkTypeOK' /\ due' = due /\ attempts' = attempts /\ status' = status
  BY Zenon, Types DEF rows, Work!WorkTypeOK
<1>. QED
  BY Zenon, <1>1, <1>3, <1>4, Types, MoveKeeps

\* Quarantine under a claim that holds gives the row the record of its recorder;
\* when the answer is lost the recorder goes on to remove it.
LEMMA QuarantineHeldKeeps ==
    ASSUME IInv, NEW p \in Publisher, NEW e \in cur[p], pc[p] = "quarantine",
           SettleTo(e, "quarantined", due[e], attempts[e]),
           UNCHANGED <<records, batch, seen, sent, fails>>, faults' \in 0 .. MaxFaults,
           \/ /\ pc' = [pc EXCEPT ![p] = "loop"] /\ cur' = [cur EXCEPT ![p] = {}] /\ unsure' = unsure
           \/ /\ pc' = [pc EXCEPT ![p] = "cleanup"] /\ cur' = cur /\ unsure' = unsure \cup {e}
    PROVE  IInv'
<1>1. e \in Effect /\ due[e] \in BOOLEAN /\ attempts[e] \in 0 .. MaxAttempts - 1
      /\ attempts[e] <= fails[e] /\ MaxAttempts <= fails[e]
  BY Zenon, Types DEF IInv, CurrentEarned
<1>2. /\ Work!WorkTypeOK' /\ due' \in [Effect -> BOOLEAN]
      /\ attempts' \in [Effect -> 0 .. MaxAttempts - 1]
      /\ \A f \in Effect : attempts'[f] <= fails[f]
      /\ \A f \in Effect : status'[f] = IF f = e THEN "quarantined" ELSE status[f]
  BY <1>1, SettleToFacts
<1>3. PICK ph \in {"loop", "cleanup"}, C \in SUBSET Effect :
         /\ pc' = [pc EXCEPT ![p] = ph] /\ cur' = [cur EXCEPT ![p] = C]
         /\ ph = "loop" => C = {} /\ unsure' = unsure
         /\ ph = "cleanup" => C = cur[p] /\ unsure' = unsure \cup {e}
  <2>1. CASE pc' = [pc EXCEPT ![p] = "loop"] /\ cur' = [cur EXCEPT ![p] = {}] /\ unsure' = unsure
    <3>1. "loop" \in {"loop", "cleanup"} /\ {} \in SUBSET Effect /\ "loop" # "cleanup"
      BY Zenon
    <3>. WITNESS "loop" \in {"loop", "cleanup"}, {} \in SUBSET Effect
    <3>. QED
      BY Zenon, <2>1, <3>1
  <2>2. CASE pc' = [pc EXCEPT ![p] = "cleanup"] /\ cur' = cur /\ unsure' = unsure \cup {e}
    <3>1. cur' = [cur EXCEPT ![p] = cur[p]] /\ cur[p] \in SUBSET Effect
      BY Zenon, <2>2, Types
    <3>. QED
      BY Zenon, <2>2, <3>1
  <2>. QED
    BY Zenon, <2>1, <2>2
<1>4. ph \in Phase
  BY Zenon DEF Phase
<1>5. TypeOK'
  BY Zenon, <1>1, <1>2, <1>3, <1>4 DEF IInv, TypeOK
<1>6. \A q \in Publisher : /\ pc'[q] = IF q = p THEN ph ELSE pc[q]
                           /\ cur'[q] = IF q = p THEN C ELSE cur[q]
  BY Zenon, <1>3 DEF IInv, TypeOK
<1>7. p \in Recorders(e)
  BY Zenon DEF Recorders
<1>8. RecordsSuffice'
  <2>1. \A f \in Effect : Recorders(f)' \subseteq Recorders(f)
    BY Zenon, <1>3, <1>6 DEF Recorders
  <2>2. \A f \in Effect : f # e => Kept(f)' <= Kept(f) /\ records[f] <= records'[f]
    BY <1>2, <1>3, Types DEF Kept
  <2>3. CASE ph = "loop"
    <3>1. Recorders(e)' \subseteq Recorders(e) \ {p} /\ Kept(e)' <= Kept(e) + 1 /\ records'[e] = records[e]
      BY <1>3, <1>6, <2>3 DEF Recorders, Kept
    <3>. QED
      BY Zenon, <1>5, <1>7, <2>1, <2>2, <3>1, RecordsByCounting
  <2>4. CASE ph = "cleanup"
    <3>1. Kept(e)' <= Kept(e) /\ records[e] <= records'[e]
      BY <1>1, <1>3, <2>4, Types DEF Kept
    <3>. QED
      BY Zenon, <1>5, <2>1, <2>2, <3>1, RecordsByCounting
  <2>. QED
    BY Zenon, <2>3, <2>4
<1>9. unsure' \subseteq Effect
  BY Zenon, <1>1, <1>3, Types
<1>. QED
  BY Zenon, <1>1, <1>2, <1>3, <1>4, <1>8, <1>9, Types, MoveKeeps

LEMMA QuarantineKeeps ==
    ASSUME IInv, NEW p \in Publisher, Quarantine(p)
    PROVE  IInv'
<1>1. /\ pc[p] = "quarantine"
      /\ UNCHANGED <<records, batch, seen, sent, fails, unsure, faults>> /\ faults' \in 0 .. MaxFaults
  BY Zenon, Types DEF Quarantine, history
<1>2. CASE UNCHANGED rows /\ Goto(p, "cleanup") /\ UNCHANGED cur
  <2>1. cur' = [cur EXCEPT ![p] = cur[p]] /\ cur[p] \in SUBSET Effect
    BY Zenon, <1>2, Types
  <2>. QED
    BY Zenon, <1>1, <1>2, <2>1, DropKeeps DEF Goto
<1>3. ASSUME NEW e \in cur[p], SettleTo(e, "quarantined", due[e], attempts[e]),
             Goto(p, "loop"), cur' = [cur EXCEPT ![p] = {}]
      PROVE  IInv'
  BY Zenon, <1>1, <1>3, QuarantineHeldKeeps DEF Goto
<1>. QED
  BY Zenon, <1>2, <1>3 DEF Quarantine

\* SaveRecord, and the save whose answer is lost.
LEMMA SaveKeeps ==
    ASSUME IInv, NEW p \in Publisher, NEW e \in cur[p], pc[p] = "record",
           records' = [records EXCEPT ![e] = @ + 1],
           UNCHANGED <<rows, batch, seen, sent, fails, unsure>>, faults' \in 0 .. MaxFaults,
           \/ pc' = [pc EXCEPT ![p] = "quarantine"] /\ cur' = cur
           \/ pc' = [pc EXCEPT ![p] = "loop"] /\ cur' = [cur EXCEPT ![p] = {}]
    PROVE  IInv'
<1>1. e \in Effect /\ cur[p] = {e} /\ cur[p] \in SUBSET Effect
  BY Types DEF IInv, CurrentOne, Settling
<1>2. /\ records' \in [Effect -> Nat]
      /\ \A f \in Effect : records'[f] = IF f = e THEN records[e] + 1 ELSE records[f]
  BY <1>1, Types
<1>3. /\ Work!WorkTypeOK' /\ due' = due /\ attempts' = attempts /\ status' = status
  BY Zenon, Types DEF rows, Work!WorkTypeOK
<1>4. "quarantine" \in Phase /\ "loop" \in Phase /\ {} \in SUBSET Effect
      /\ cur = [cur EXCEPT ![p] = cur[p]]
  BY Zenon, Types DEF Phase
<1>5. TypeOK'
  <2>1. pc' \in [Publisher -> Phase] /\ cur' \in [Publisher -> SUBSET Effect]
    BY <1>4 DEF IInv, TypeOK
  <2>. QED
    BY Zenon, <1>2, <1>3, <2>1 DEF IInv, TypeOK
<1>6. RecordsSuffice'
  <2>1. \A f \in Effect : Kept(f)' <= Kept(f)
    BY <1>3 DEF Kept
  <2>2. \A f \in Effect : f # e => Recorders(f)' \subseteq Recorders(f)
    BY <1>1 DEF Recorders, IInv, TypeOK
  <2>3. Recorders(e)' \subseteq Recorders(e) \cup {p}
    BY Zenon DEF Recorders, IInv, TypeOK
  <2>4. \A f \in Effect : f # e => records[f] <= records'[f]
    BY <1>2, Types
  <2>. QED
    BY Zenon, <1>1, <1>2, <1>5, <2>1, <2>2, <2>3, <2>4, RecordsByCounting
<1>. QED
  BY Zenon, <1>1, <1>2, <1>3, <1>4, <1>6, Types, MoveKeeps

\* The clean-up removes the publisher's own record.
LEMMA DeleteKeeps ==
    ASSUME IInv, NEW p \in Publisher, DeleteRecord(p)
    PROVE  IInv'
<1>1. /\ pc[p] = "cleanup" /\ pc' = [pc EXCEPT ![p] = "loop"] /\ cur' = [cur EXCEPT ![p] = {}]
      /\ UNCHANGED <<rows, batch, seen, sent, fails, unsure, faults>>
  BY Zenon DEF DeleteRecord, Goto, history
<1>2. PICK e \in cur[p] : records' = [records EXCEPT ![e] = @ - 1]
  BY Zenon DEF DeleteRecord
<1>3. e \in Effect /\ p \in Recorders(e)
  BY Zenon, <1>1, Types DEF Recorders
<1>4. records[e] - 1 \in Nat
  <2>1. Cardinality(Recorders(e)) >= 1
    <3>1. {} \subseteq Recorders(e) \ {p} /\ IsFiniteSet(Recorders(e))
      BY Zenon, <1>3, RecordersFinite
    <3>2. Cardinality({}) + 1 <= Cardinality(Recorders(e))
      BY Zenon, <1>3, <3>1, CountWithout
    <3>. QED
      BY <1>3, <3>2, FS_EmptySet, RecordersFinite
  <2>2. Cardinality(Recorders(e)) + Kept(e) <= records[e] /\ Kept(e) \in {0, 1}
        /\ records[e] \in Nat /\ Cardinality(Recorders(e)) \in Nat
    BY Zenon, <1>3, Types, RecordersFinite DEF IInv, RecordsSuffice
  <2>. QED
    BY <2>1, <2>2
<1>5. /\ records' \in [Effect -> Nat]
      /\ \A f \in Effect : records'[f] = IF f = e THEN records[e] - 1 ELSE records[f]
  BY Zenon, <1>2, <1>3, <1>4, Types
<1>6. /\ Work!WorkTypeOK' /\ due' = due /\ attempts' = attempts /\ status' = status
  BY Zenon, <1>1, Types DEF rows, Work!WorkTypeOK
<1>7. "loop" \in Phase /\ {} \in SUBSET Effect
  BY Zenon DEF Phase
<1>8. TypeOK'
  BY Zenon, <1>1, <1>5, <1>6, <1>7 DEF IInv, TypeOK
<1>9. RecordsSuffice'
  <2>1. \A f \in Effect : Kept(f)' <= Kept(f)
    BY <1>1, <1>6 DEF Kept
  <2>2. \A f \in Effect : Recorders(f)' \subseteq Recorders(f)
    BY Zenon, <1>1 DEF Recorders, IInv, TypeOK
  <2>3. Recorders(e)' \subseteq Recorders(e) \ {p}
    BY Zenon, <1>1 DEF Recorders, IInv, TypeOK
  <2>4. \A f \in Effect : f # e => records[f] <= records'[f]
    BY <1>5, Types
  <2>. QED
    BY Zenon, <1>3, <1>5, <1>8, <2>1, <2>2, <2>3, <2>4, RecordsByCounting
<1>. QED
  BY Zenon, <1>1, <1>5, <1>6, <1>7, <1>9, Types, MoveKeeps

LEMMA FaultKeeps ==
    ASSUME IInv, NEW p \in Publisher, StatementError(p) \/ AnswerLost(p)
    PROVE  IInv'
<1>0. faults' \in 0 .. MaxFaults
  BY Zenon, FaultyType DEF StatementError, AnswerLost
<1>1. CASE StatementError(p)
  <2>1. UNCHANGED <<rows, records, batch, seen, sent, fails, unsure>>
    BY Zenon, <1>1 DEF StatementError, history
  <2>2. CASE pc[p] = "quarantine"
    <3>1. pc' = [pc EXCEPT ![p] = "cleanup"] /\ cur' = [cur EXCEPT ![p] = cur[p]]
          /\ cur[p] \in SUBSET Effect
      BY Zenon, <1>1, <2>2, Types DEF StatementError, Goto
    <3>. QED
      BY Zenon, <1>0, <2>1, <2>2, <3>1, DropKeeps
  <2>3. CASE pc[p] # "quarantine"
    <3>1. pc' = [pc EXCEPT ![p] = "loop"] /\ cur' = [cur EXCEPT ![p] = {}] /\ {} \in SUBSET Effect
      BY Zenon, <1>1, <2>3 DEF StatementError, Goto
    <3>. QED
      BY Zenon, <1>0, <2>1, <3>1, DropKeeps
  <2>. QED
    BY Zenon, <2>2, <2>3
<1>2. CASE AnswerLost(p)
  <2>1. UNCHANGED <<batch, seen, sent, fails>>
    BY Zenon, <1>2 DEF AnswerLost
  <2>2. ASSUME NEW e \in cur[p], pc[p] = "record", records' = [records EXCEPT ![e] = @ + 1],
               Goto(p, "loop"), cur' = [cur EXCEPT ![p] = {}], UNCHANGED <<rows, unsure>>
        PROVE  IInv'
    BY Zenon, <1>0, <2>1, <2>2, SaveKeeps DEF Goto
  <2>3. ASSUME NEW e \in cur[p], pc[p] = "quarantine", SettleTo(e, "quarantined", due[e], attempts[e]),
               Goto(p, "cleanup"), unsure' = unsure \cup {e}, UNCHANGED <<records, cur>>
        PROVE  IInv'
    BY Zenon, <1>0, <2>1, <2>3, QuarantineHeldKeeps DEF Goto
  <2>. QED
    BY Zenon, <1>2, <2>2, <2>3 DEF AnswerLost
<1>. QED
  BY Zenon, <1>1, <1>2

LEMMA ReturnKeeps ==
    ASSUME IInv, NEW p \in Publisher, Return(p), faults' \in 0 .. MaxFaults
    PROVE  IInv'
<1>1. /\ UNCHANGED <<status, live, due, attempts, records, sent, fails, unsure>>
      /\ holder' = [e \in Effect |-> IF holder[e] = p THEN Gone ELSE holder[e]]
      /\ pc' = [pc EXCEPT ![p] = "idle"] /\ batch' = [batch EXCEPT ![p] = {}]
      /\ cur' = [cur EXCEPT ![p] = {}] /\ seen' = [seen EXCEPT ![p] = [e \in Effect |-> 0]]
  BY Zenon DEF Return, Work!Abandon, history
<1>2. /\ \A q \in Publisher : /\ pc'[q] = IF q = p THEN "idle" ELSE pc[q]
                              /\ cur'[q] = IF q = p THEN {} ELSE cur[q]
                              /\ seen'[q] = IF q = p THEN [e \in Effect |-> 0] ELSE seen[q]
      /\ fails \in [Effect -> Nat]
  BY Zenon, <1>1 DEF IInv, TypeOK
<1>3. TypeOK'
  <2>1. Work!WorkTypeOK'
    BY Zenon, <1>1 DEF IInv, TypeOK, Work!WorkTypeOK
  <2>. QED
    BY Zenon, <1>1, <2>1 DEF IInv, TypeOK, Phase
<1>4. OutcomeEarned'
  BY Zenon, <1>1 DEF IInv, OutcomeEarned
<1>5. CurrentOne' /\ CurrentEarned'
  BY <1>1, <1>2 DEF IInv, CurrentOne, CurrentEarned, Settling
<1>6. FailsCounted'
  BY <1>1, <1>2 DEF IInv, FailsCounted
<1>7. RecordsSuffice'
  <2>1. \A e \in Effect : Recorders(e)' \subseteq Recorders(e)
    BY Zenon, <1>2 DEF Recorders
  <2>2. \A e \in Effect : Kept(e)' <= Kept(e) /\ records[e] <= records'[e]
    BY <1>1, Types DEF Kept
  <2>. QED
    BY Zenon, <1>3, <2>1, <2>2, RecordsByCounting
<1>. QED
  BY Zenon, <1>3, <1>4, <1>5, <1>6, <1>7 DEF IInv

-----------------------------------------------------------------------------
LEMMA InitIInv == Init => IInv
<1>. SUFFICES ASSUME Init PROVE IInv
  BY Zenon
<1>1. TypeOK
  BY OutboxAssumption DEF Init, Work!WorkInit, TypeOK, Work!WorkTypeOK, Phase
<1>2. OutcomeEarned /\ CurrentOne /\ CurrentEarned
  BY Zenon DEF Init, Work!WorkInit, OutcomeEarned, CurrentOne, CurrentEarned, Settling
<1>3. FailsCounted
  BY DEF Init, FailsCounted
<1>4. RecordsSuffice
  <2>1. \A e \in Effect : Recorders(e) = {} /\ Kept(e) = 0 /\ records[e] = 0
    BY Zenon DEF Init, Work!WorkInit, Recorders, Kept
  <2>. QED
    BY <2>1, FS_EmptySet DEF RecordsSuffice
<1>. QED
  BY Zenon, <1>1, <1>2, <1>3, <1>4 DEF IInv

LEMMA StepKeeps == IInv /\ [Next]_vars => IInv'
<1>. SUFFICES ASSUME IInv, [Next]_vars PROVE IInv'
  BY Zenon
<1>0. /\ Work!WorkTypeOK /\ due \in [Effect -> BOOLEAN] /\ faults \in 0 .. MaxFaults
      /\ batch \in [Publisher -> SUBSET Effect] /\ seen \in [Publisher -> [Effect -> Nat]]
      /\ \A p \in Publisher, e \in Effect : seen[p][e] <= fails[e]
  BY Zenon DEF IInv, TypeOK, FailsCounted
<1>1. ASSUME NEW e \in Effect, Insert(e) \/ BecomeDue(e) \/ ExpireGone(e) \/ ExpireSlow(e)
      PROVE  IInv'
  <2>1. faults' \in 0 .. MaxFaults
    BY Zenon, <1>0, <1>1, FaultyType DEF Insert, BecomeDue, ExpireGone, ExpireSlow
  <2>2. UNCHANGED <<attempts, records, pc, cur, history, batch, seen>>
    BY Zenon, <1>1 DEF Insert, BecomeDue, ExpireGone, ExpireSlow, locals
  <2>3. /\ Work!WorkTypeOK' /\ due' \in [Effect -> BOOLEAN]
        /\ \A f \in Effect : status'[f] \notin {"delivered", "quarantined"} \/ status'[f] = status[f]
    <3>1. CASE Insert(e)
      BY Zenon, <1>0, <3>1 DEF Insert, Work!Add, Work!WorkTypeOK
    <3>2. CASE BecomeDue(e)
      BY Zenon, <1>0, <3>2 DEF BecomeDue, Work!WorkTypeOK
    <3>3. CASE ExpireGone(e) \/ ExpireSlow(e)
      BY Zenon, <1>0, <3>3 DEF ExpireGone, ExpireSlow, Work!Expire, Work!WorkTypeOK
    <3>. QED
      BY Zenon, <1>1, <3>1, <3>2, <3>3
  <2>. QED
    BY Zenon, <1>0, <2>1, <2>2, <2>3, RowsKeep
<1>2. ASSUME NEW p \in Publisher, ClaimError(p)
      PROVE  IInv'
  <2>1. PICK S \in SUBSET Claimable : TakeClaim(Gone, S)
    BY Zenon, <1>2 DEF ClaimError, Candidates
  <2>2. UNCHANGED <<records, pc, cur, history, batch, seen>> /\ faults' \in 0 .. MaxFaults
    BY Zenon, <1>2, FaultyType DEF ClaimError, locals
  <2>3. /\ Work!WorkTypeOK' /\ due' = due /\ attempts' = attempts
        /\ \A f \in Effect : status'[f] \notin {"delivered", "quarantined"} \/ status'[f] = status[f]
    BY Zenon, <2>1, TakeClaimFacts
  <2>. QED
    BY Zenon, <1>0, <2>2, <2>3, RowsKeep
<1>3. ASSUME NEW p \in Publisher, Publish(p)
      PROVE  IInv'
  <2>1. CASE SaveRecord(p)
    <3>1. PICK e \in cur[p] : records' = [records EXCEPT ![e] = @ + 1]
      BY Zenon, <2>1 DEF SaveRecord
    <3>2. /\ pc[p] = "record" /\ pc' = [pc EXCEPT ![p] = "quarantine"]
          /\ UNCHANGED <<rows, batch, cur, seen, sent, fails, unsure, faults>>
      BY Zenon, <2>1 DEF SaveRecord, Goto, history
    <3>. QED
      BY Zenon, <1>0, <3>1, <3>2, SaveKeeps
  <2>2. CASE BatchDone(p)
    BY Zenon, <1>0, <2>2, ReturnKeeps DEF BatchDone
  <2>. QED
    BY Zenon, <1>3, <2>1, <2>2, ClaimPendingKeeps, MarkKeeps, QuarantineKeeps, DeleteKeeps, SendKeeps DEF Publish
<1>4. ASSUME NEW p \in Publisher, StatementError(p) \/ AnswerLost(p) \/ Crash(p)
      PROVE  IInv'
  BY Zenon, <1>4, FaultKeeps, FaultyType, ReturnKeeps DEF Crash
<1>5. CASE UNCHANGED vars
  BY Zenon, <1>0, <1>5, RowsKeep DEF vars, rows, locals, Work!WorkTypeOK
<1>. QED
  BY Zenon, <1>1, <1>2, <1>3, <1>4, <1>5 DEF Next, Fault

LEMMA Inductive == Spec => []IInv
  BY InitIInv, StepKeeps, PTL DEF Spec

\* Whatever crashes, lapsed claims and late settlements do to the publishers, a
\* delivered effect has been sent, a quarantined one has failed max_attempts
\* times, and it lacks a quarantine record only if Quarantine took effect and
\* reported an error.
THEOREM OutcomesHold == Spec => []OutcomesCorrect
<1>1. ASSUME IInv PROVE MissingRecordWasUnsure
  <2>1. SUFFICES ASSUME NEW e \in Effect, status[e] = "quarantined", records[e] = 0, e \notin unsure
                 PROVE  FALSE
    BY Zenon DEF MissingRecordWasUnsure
  <2>2. Cardinality(Recorders(e)) + Kept(e) <= 0 /\ Cardinality(Recorders(e)) \in Nat
    BY Zenon, <1>1, <2>1, RecordersFinite DEF IInv, RecordsSuffice
  <2>3. Kept(e) = 1
    BY Zenon, <2>1 DEF Kept
  <2>. QED
    BY <2>2, <2>3
<1>2. IInv => OutcomesCorrect
  BY Zenon, <1>1 DEF IInv, OutcomesCorrect
<1>. QED
  BY <1>2, Inductive, PTL

\* Every step of PublishBatch, Insert and the clock is a step of the claim
\* protocol, or changes no row.
LEMMA StepRefines == IInv /\ [Next]_vars => [Work!WorkNext]_(Work!workVars)
<1>. SUFFICES ASSUME IInv, [Next]_vars PROVE [Work!WorkNext]_(Work!workVars)
  BY Zenon
<1>0. UNCHANGED rows => UNCHANGED Work!workVars
  BY Zenon DEF rows, Work!workVars
<1>1. ASSUME NEW e \in Effect, Insert(e) \/ BecomeDue(e) \/ ExpireGone(e) \/ ExpireSlow(e)
      PROVE  [Work!WorkNext]_(Work!workVars)
  <2>1. CASE Insert(e) \/ ExpireGone(e) \/ ExpireSlow(e)
    BY Zenon, <2>1 DEF Insert, ExpireGone, ExpireSlow, Work!WorkNext
  <2>2. CASE BecomeDue(e)
    BY Zenon, <2>2 DEF BecomeDue, Work!workVars
  <2>. QED
    BY Zenon, <1>1, <2>1, <2>2
<1>2. ASSUME NEW p \in Publisher, ClaimPending(p) \/ ClaimError(p)
      PROVE  [Work!WorkNext]_(Work!workVars)
  <2>1. PICK c \in Publisher \cup {Gone}, S \in SUBSET Claimable : TakeClaim(c, S)
    BY Zenon, <1>2 DEF ClaimPending, ClaimError, Candidates
  <2>2. Work!Claim(c, S) /\ S \in SUBSET Effect
    BY Zenon, <2>1, TakeClaimFacts
  <2>. QED
    BY Zenon, <2>2 DEF Work!WorkNext
<1>3. ASSUME NEW p \in Publisher, NEW e \in cur[p], Holds(p, e),
             NEW s \in {"pending", "delivered", "quarantined"},
             status' = [status EXCEPT ![e] = s], holder' = [holder EXCEPT ![e] = NoClaimant],
             live' = [live EXCEPT ![e] = FALSE]
      PROVE  [Work!WorkNext]_(Work!workVars)
  <2>1. e \in Effect /\ s \in {"pending"} \cup {"delivered", "quarantined"}
    BY Zenon, Types
  <2>2. Work!Settle(p, e, s)
    BY Zenon, <1>3 DEF Holds, Work!Settle, Work!Holds
  <2>. QED
    BY Zenon, <2>1, <2>2 DEF Work!WorkNext
<1>4. ASSUME NEW p \in Publisher, MarkDelivered(p) \/ ScheduleRetry(p) \/ Quarantine(p) \/ AnswerLost(p)
      PROVE  [Work!WorkNext]_(Work!workVars)
  <2>1. \/ UNCHANGED rows
        \/ \E e \in cur[p] : /\ Holds(p, e)
                             /\ \/ SettleTo(e, "delivered", due[e], attempts[e])
                                \/ SettleTo(e, "pending", FALSE, seen[p][e] + 1)
                                \/ SettleTo(e, "quarantined", due[e], attempts[e])
    BY Zenon, <1>4 DEF MarkDelivered, ScheduleRetry, Quarantine, AnswerLost
  <2>. QED
    BY Zenon, <1>0, <1>3, <2>1 DEF SettleTo
<1>5. ASSUME NEW p \in Publisher, BatchDone(p) \/ Crash(p)
      PROVE  [Work!WorkNext]_(Work!workVars)
  BY Zenon, <1>5 DEF BatchDone, Crash, Return, Work!WorkNext
<1>6. ASSUME NEW p \in Publisher,
             \/ SaveRecord(p) \/ DeleteRecord(p) \/ StatementError(p)
             \/ \E e \in Effect : SendOk(p, e) \/ SendFails(p, e)
      PROVE  [Work!WorkNext]_(Work!workVars)
  <2>1. UNCHANGED rows
    BY Zenon, <1>6 DEF SaveRecord, DeleteRecord, StatementError, SendOk, SendFails
  <2>. QED
    BY Zenon, <1>0, <2>1
<1>7. CASE UNCHANGED vars
  BY Zenon, <1>0, <1>7 DEF vars
<1>. QED
  BY Zenon, <1>1, <1>2, <1>4, <1>5, <1>6, <1>7 DEF Next, Fault, Publish

\* The outbox implements the claim protocol: a row has one claimant, only its
\* unexpired claim settles it, and a settled row is never taken up again.
THEOREM Refinement == Spec => ImplementsClaimedWork
<1>1. Init => Work!WorkInit
  BY Zenon DEF Init
<1>. QED
  BY <1>1, Inductive, StepRefines, PTL DEF Spec, ImplementsClaimedWork, Work!WorkSpec
=============================================================================
