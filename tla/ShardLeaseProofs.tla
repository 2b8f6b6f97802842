--------------------------- MODULE ShardLeaseProofs ---------------------------
(***************************************************************************)
(* Proofs about ShardLease, for any number of workers, shards, replicas,   *)
(* faults and any lease duration.                                          *)
(***************************************************************************)
EXTENDS ShardLease, WellFoundedInduction, FiniteSetTheorems, TLAPS

USE ShardLeaseAssumption

-----------------------------------------------------------------------------
(* Type correctness.                                                       *)

\* A set of shards that is not empty has a least one.
LEMMA LeastType ==
    ASSUME NEW S \in SUBSET Shard, S # {}
    PROVE  Least(S) \in S
<1>1. S \subseteq Nat
  BY DEF Shard
<1> DEFINE R == {p \in Nat \X Nat : p[1] < p[2]}
<1>2. OpToRel(<, Nat) = R
  BY Zenon DEF OpToRel
<1>3. PICK x \in S : \A y \in S : ~(<<y, x>> \in R)
  <2> HIDE DEF R
  <2> QED
    BY Zenon, <1>1, <1>2, NatLessThanWellFounded, WFMin
<1>4. \A y \in S : x <= y
  <2>1. \A a, b \in Nat : <<a, b>> \in R \/ b <= a
    OBVIOUS
  <2> HIDE DEF R
  <2> QED
    BY <1>1, <1>3, <2>1, Zenon
<1> QED
  BY Zenon, <1>4 DEF Least

\* The loop index is a shard where it is used as one, a statement is
\* outstanding only in the loops that have two, and leases are renewed one by
\* one only over MongoDB.
CursorInShard ==
    \A w \in Worker :
        /\ pc[w] = "scan" => cursor[w] \in Shard
        /\ pc[w] = "renew" => backend = "mongo"
        /\ reading[w] => \/ pc[w] = "renew" /\ cursor[w] \in Shard
                         \/ backend = "postgres" /\ Acquiring(w)

TypeInv == TypeOK /\ CursorInShard

LEMMA TypeInit == Init => TypeInv
  BY DEF Init, TypeInv, TypeOK, CursorInShard, Phase

\* A manager's own control state after a step of it.
ControlKept(w) ==
    /\ pc' \in [Worker -> Phase] /\ cursor' \in [Worker -> Nat]
    /\ \A v \in Worker \ {w} : pc'[v] = pc[v] /\ cursor'[v] = cursor[v]
    /\ \/ pc'[w] \in {"start", "idle"}
       \/ pc'[w] = "scan" /\ cursor'[w] \in Shard

LEMMA ControlSet ==
    ASSUME TypeInv, NEW w \in Worker, NEW p \in Phase, NEW n \in Nat,
           pc' = [pc EXCEPT ![w] = p], cursor' = [cursor EXCEPT ![w] = n]
    PROVE  /\ pc' \in [Worker -> Phase] /\ cursor' \in [Worker -> Nat]
           /\ \A v \in Worker \ {w} : pc'[v] = pc[v] /\ cursor'[v] = cursor[v]
           /\ pc'[w] = p /\ cursor'[w] = n
  BY Zenon DEF TypeInv, TypeOK

LEMMA RebalanceControl ==
    ASSUME TypeInv, NEW w \in Worker, NEW own, NEW c, RebalanceIfNeeded(own, w, c)
    PROVE  ControlKept(w)
<1> DEFINE S == ScanFrom(own, w, c)
<1>1. S \subseteq Shard
  BY Zenon DEF ScanFrom
<1>2. CASE S = {}
  <2>1. pc' = [pc EXCEPT ![w] = "idle"] /\ cursor' = [cursor EXCEPT ![w] = 0]
    BY Zenon, <1>2 DEF RebalanceIfNeeded
  <2> QED
    BY Zenon, <2>1, ControlSet DEF ControlKept, Phase
<1>3. CASE S # {}
  <2>1. Least(S) \in Shard /\ Least(S) \in Nat
    BY <1>1, <1>3, LeastType DEF Shard
  <2> HIDE DEF S
  <2>2. pc' = [pc EXCEPT ![w] = "scan"] /\ cursor' = [cursor EXCEPT ![w] = Least(S)]
    BY Zenon, <1>3 DEF RebalanceIfNeeded, S
  <2> QED
    BY <2>1, <2>2, ControlSet DEF ControlKept, Phase
<1> QED
  BY Zenon, <1>2, <1>3

LEMMA NextCandidateControl ==
    ASSUME TypeInv, NEW w \in Worker, NEW own, NextCandidate(own, w)
    PROVE  ControlKept(w)
<1>1. CASE pc[w] = "start"
  <2>1. PICK p \in {"start", "idle"}, n \in Nat :
            pc' = [pc EXCEPT ![w] = p] /\ cursor' = [cursor EXCEPT ![w] = n]
    <3>1. CASE cursor[w] + 1 < TargetOwnedShards
      BY SMTT(30), <1>1, <3>1 DEF NextCandidate, TypeInv, TypeOK
    <3>2. CASE ~(cursor[w] + 1 < TargetOwnedShards)
      BY Zenon, <1>1, <3>2 DEF NextCandidate
    <3> QED
      BY Zenon, <3>1, <3>2
  <2> QED
    BY Zenon, <2>1, ControlSet DEF ControlKept, Phase
<1>2. CASE pc[w] # "start"
  BY Zenon, <1>2, RebalanceControl DEF NextCandidate
<1> QED
  BY Zenon, <1>1, <1>2

LEMMA CandidateInShard ==
    ASSUME TypeInv, NEW w \in Worker, Acquiring(w)
    PROVE  Candidate(w) \in Shard
<1>1. StartShard[w] \in Nat /\ cursor[w] \in Nat
  BY DEF TypeInv, TypeOK, Shard
<1>2. (StartShard[w] + cursor[w]) % NumShards \in Shard
  BY <1>1 DEF Shard
<1> QED
  BY Zenon, <1>2 DEF TypeInv, CursorInShard, Candidate, Acquiring

\* The rows keep their types under every statement.
RowsOK ==
    /\ owner \in [Shard -> Worker \cup {NoOwner}]
    /\ token \in [Shard -> Nat]
    /\ left \in [Shard -> -1 .. TTL]

LEMMA RowsKept ==
    ASSUME TypeInv, UNCHANGED table
    PROVE  RowsOK'
  BY Zenon DEF TypeInv, TypeOK, RowsOK, table

LEMMA RowsSet ==
    ASSUME TypeInv, NEW s \in Shard, NEW o \in Worker \cup {NoOwner}, NEW n \in Nat,
           NEW l \in -1 .. TTL, SetRow(s, o, n, l)
    PROVE  RowsOK'
  BY Zenon DEF TypeInv, TypeOK, RowsOK, SetRow

LEMMA RowsExtended ==
    ASSUME TypeInv, NEW S, Extend(S)
    PROVE  RowsOK'
  BY DEF TypeInv, TypeOK, RowsOK, Extend

LEMMA RowsAcquired ==
    ASSUME TypeInv, NEW w \in Worker, NEW s \in Shard, PgAcquire(w, s) \/ MongoAcquire(w, s)
    PROVE  RowsOK'
<1>1. token[s] + 1 \in Nat /\ TTL \in -1 .. TTL
  BY DEF TypeInv, TypeOK
<1> QED
  BY Zenon, <1>1, RowsSet, RowsKept DEF PgAcquire, MongoAcquire

LEMMA RowsReleased ==
    ASSUME TypeInv, NEW w \in Worker, NEW s \in Shard, PgRelease(w, s) \/ MongoRelease(w, s)
    PROVE  RowsOK'
<1>1. token[s] \in Nat /\ -1 \in -1 .. TTL /\ 0 \in -1 .. TTL
  BY DEF TypeInv, TypeOK
<1> QED
  BY Zenon, <1>1, RowsSet, RowsKept DEF PgRelease, MongoRelease

LEMMA OwnedSet ==
    ASSUME TypeOK, NEW w \in Worker, NEW s \in Shard, NEW n \in Nat
    PROVE  [owned EXCEPT ![w][s] = n] \in [Worker -> [Shard -> Nat]]
  BY Zenon DEF TypeOK

\* No step spoils a type or the use of the loop index.
LEMMA TypeStep == TypeInv /\ [Next]_vars => TypeInv'
<1> SUFFICES ASSUME TypeInv, [Next]_vars PROVE TypeInv'
  BY Zenon
<1> DEFINE Rest == /\ owned' \in [Worker -> [Shard -> Nat]]
                      /\ reading' \in [Worker -> BOOLEAN]
                      /\ pending' \in [Worker -> SUBSET Shard]
                      /\ faults' \in 0 .. MaxFaults
                      /\ backend' \in Backends
                      /\ pc' \in [Worker -> Phase]
                      /\ cursor' \in [Worker -> Nat]
<1>0. ASSUME RowsOK', Rest, CursorInShard' PROVE TypeInv'
  BY Zenon, <1>0 DEF TypeInv, TypeOK, RowsOK
<1>f. Faulty => faults' \in 0 .. MaxFaults /\ UNCHANGED backend
  BY DEF Faulty, TypeInv, TypeOK
<1> USE DEF TypeInv, TypeOK, Acquiring
<1>1. ASSUME NEW w \in Worker, Start(w) PROVE TypeInv'
  <2>1. RowsOK'
    BY Zenon, <1>1, RowsKept DEF Start, table
  <2>2. Rest
    BY Zenon, <1>1, <1>f DEF Start, Phase
  <2>3. CursorInShard'
    BY Zenon, <1>1, <1>f DEF Start, CursorInShard
  <2> QED
    BY Zenon, <1>0, <2>1, <2>2, <2>3
<1>2. ASSUME NEW w \in Worker, AcquireUpsert(w) PROVE TypeInv'
  <2>1. RowsOK'
    BY Zenon, <1>2, RowsAcquired, CandidateInShard DEF AcquireUpsert
  <2>2. Rest
    BY Zenon, <1>2, <1>f DEF AcquireUpsert
  <2>3. CursorInShard'
    BY Zenon, <1>2, <1>f DEF AcquireUpsert, CursorInShard
  <2> QED
    BY Zenon, <1>0, <2>1, <2>2, <2>3
<1>3. ASSUME NEW w \in Worker, AcquireRead(w) PROVE TypeInv'
  <2>1. RowsOK'
    BY Zenon, <1>3, RowsKept DEF AcquireRead, table
  <2>2. Rest
    BY <1>3, CandidateInShard, NextCandidateControl DEF AcquireRead, ControlKept
  <2>3. CursorInShard'
    BY <1>3, NextCandidateControl DEF AcquireRead, ControlKept, CursorInShard
  <2> QED
    BY Zenon, <1>0, <2>1, <2>2, <2>3
<1>4. ASSUME NEW w \in Worker, AcquireAtomic(w) PROVE TypeInv'
  <2>1. RowsOK'
    BY Zenon, <1>4, RowsAcquired, RowsKept, CandidateInShard DEF AcquireAtomic, table
  <2>2. Rest
    <3>1. Candidate(w) \in Shard
      BY Zenon, <1>4, CandidateInShard DEF AcquireAtomic
    <3>2. owned' \in [Worker -> [Shard -> Nat]]
      <4>1. token[Candidate(w)] + 1 \in Nat
        BY <3>1
      <4>2. [owned EXCEPT ![w][Candidate(w)] = token[Candidate(w)] + 1] \in [Worker -> [Shard -> Nat]]
        BY Zenon, <3>1, <4>1, OwnedSet
      <4> QED
        BY Zenon, <1>4, <4>2 DEF AcquireAtomic
    <3>3. ControlKept(w)
      BY Zenon, <1>4, NextCandidateControl DEF AcquireAtomic
    <3> QED
      BY Zenon, <1>4, <3>2, <3>3 DEF AcquireAtomic, ControlKept
  <2>3. CursorInShard'
    BY Zenon, <1>4, NextCandidateControl DEF AcquireAtomic, ControlKept, CursorInShard
  <2> QED
    BY Zenon, <1>0, <2>1, <2>2, <2>3
<1>5. ASSUME NEW w \in Worker, AcquireError(w) PROVE TypeInv'
  <2>1. RowsOK'
    BY Zenon, <1>5, RowsAcquired, RowsKept, CandidateInShard DEF AcquireError, table
  <2>2. Rest
    BY Zenon, <1>5, <1>f, NextCandidateControl DEF AcquireError, ControlKept
  <2>3. CursorInShard'
    BY <1>5, <1>f, NextCandidateControl DEF AcquireError, ControlKept, CursorInShard
  <2> QED
    BY Zenon, <1>0, <2>1, <2>2, <2>3
<1>6. ASSUME NEW w \in Worker, RenewOwned(w) PROVE TypeInv'
  <2>1. RowsOK'
    BY Zenon, <1>6, RowsExtended DEF RenewOwned
  <2>2. Rest
    BY Zenon, <1>6, <1>f DEF RenewOwned, Renewable, OwnedShards, OwnedBy, Phase
  <2>3. CursorInShard'
    BY Zenon, <1>6, <1>f DEF RenewOwned, CursorInShard
  <2> QED
    BY Zenon, <1>0, <2>1, <2>2, <2>3
<1>7. ASSUME NEW w \in Worker, ApplyBatchRenewals(w) PROVE TypeInv'
  <2>1. RowsOK'
    BY Zenon, <1>7, RowsKept DEF ApplyBatchRenewals, table
  <2>2. Rest
    BY <1>7, RebalanceControl DEF ApplyBatchRenewals, ControlKept
  <2>3. CursorInShard'
    BY SMTT(30), <1>7, RebalanceControl DEF ApplyBatchRenewals, ControlKept, CursorInShard
  <2> QED
    BY Zenon, <1>0, <2>1, <2>2, <2>3
<1>8. ASSUME NEW w \in Worker, RenewOwnedError(w) PROVE TypeInv'
  <2>1. RowsOK'
    BY Zenon, <1>8, RowsKept DEF RenewOwnedError, table
  <2>2. Rest
    BY Zenon, <1>8, <1>f DEF RenewOwnedError, Phase
  <2>3. CursorInShard'
    BY Zenon, <1>8, <1>f DEF RenewOwnedError, CursorInShard
  <2> QED
    BY Zenon, <1>0, <2>1, <2>2, <2>3
<1>9. ASSUME NEW w \in Worker, RenewIndividually(w) PROVE TypeInv'
  <2>1. RowsOK'
    BY Zenon, <1>9, RowsKept DEF RenewIndividually, table
  <2>2. Rest
    BY Zenon, <1>9, <1>f DEF RenewIndividually, OwnedShards, OwnedBy, Phase
  <2>3. CursorInShard'
    BY Zenon, <1>9, <1>f DEF RenewIndividually, CursorInShard
  <2> QED
    BY Zenon, <1>0, <2>1, <2>2, <2>3
<1>10. ASSUME NEW w \in Worker, NEW s \in Shard, RenewOne(w, s) PROVE TypeInv'
  <2>1. RowsOK'
    BY Zenon, <1>10, RowsExtended, RowsKept DEF RenewOne, table
  <2>2. Rest
    <3>1. s \in Nat
      BY DEF Shard
    <3>2. owned' \in [Worker -> [Shard -> Nat]] /\ cursor' \in [Worker -> Nat]
      <4>1. [owned EXCEPT ![w][s] = 0] \in [Worker -> [Shard -> Nat]]
        BY Zenon, OwnedSet
      <4>2. CASE s \in Renewable(w)
        BY <1>10, <3>1, <4>2 DEF RenewOne
      <4>3. CASE s \notin Renewable(w)
        BY Zenon, <1>10, <4>1, <4>3 DEF RenewOne
      <4> QED
        BY Zenon, <4>2, <4>3
    <3> QED
      BY Zenon, <1>10, <3>2 DEF RenewOne
  <2>3. CursorInShard'
    BY <1>10, <1>f DEF RenewOne, CursorInShard
  <2> QED
    BY Zenon, <1>0, <2>1, <2>2, <2>3
<1>11. ASSUME NEW w \in Worker, RenewOneRead(w) PROVE TypeInv'
  <2>1. RowsOK'
    BY Zenon, <1>11, RowsKept DEF RenewOneRead, table
  <2>2. Rest
    BY Zenon, <1>11, <1>f DEF RenewOneRead, CursorInShard
  <2>3. CursorInShard'
    BY Zenon, <1>11, <1>f DEF RenewOneRead, CursorInShard
  <2> QED
    BY Zenon, <1>0, <2>1, <2>2, <2>3
<1>12. ASSUME NEW w \in Worker, RenewOneError(w) PROVE TypeInv'
  <2>1. RowsOK'
    BY Zenon, <1>12, RowsKept DEF RenewOneError, table
  <2>2. Rest
    <3>1. pending' \in [Worker -> SUBSET Shard]
      <4>1. CASE UNCHANGED pending
        BY Zenon, <4>1
      <4>2. CASE \E s \in pending[w] : pending' = [pending EXCEPT ![w] = @ \ {s}]
        BY <4>2
      <4> QED
        BY Zenon, <1>12, <4>1, <4>2 DEF RenewOneError
    <3> QED
      BY Zenon, <1>12, <1>f, <3>1 DEF RenewOneError
  <2>3. CursorInShard'
    BY Zenon, <1>12, <1>f DEF RenewOneError, CursorInShard
  <2> QED
    BY Zenon, <1>0, <2>1, <2>2, <2>3
<1>13. ASSUME NEW w \in Worker, RenewPassDone(w) PROVE TypeInv'
  <2>1. RowsOK'
    BY Zenon, <1>13, RowsKept DEF RenewPassDone, table
  <2>2. Rest
    BY Zenon, <1>13, RebalanceControl DEF RenewPassDone, ControlKept
  <2>3. CursorInShard'
    BY SMTT(30), <1>13, RebalanceControl DEF RenewPassDone, ControlKept, CursorInShard
  <2> QED
    BY Zenon, <1>0, <2>1, <2>2, <2>3
<1>14. ASSUME NEW w \in Worker, Stop(w) PROVE TypeInv'
  <2>1. RowsOK'
    BY Zenon, <1>14, RowsKept DEF Stop, table
  <2>2. Rest
    BY Zenon, <1>14, <1>f DEF Stop, OwnedShards, OwnedBy, Phase
  <2>3. CursorInShard'
    BY Zenon, <1>14, <1>f DEF Stop, CursorInShard
  <2> QED
    BY Zenon, <1>0, <2>1, <2>2, <2>3
<1>15. ASSUME NEW w \in Worker, NEW s \in Shard, Release(w, s) PROVE TypeInv'
  <2>1. RowsOK'
    BY Zenon, <1>15, RowsReleased DEF Release
  <2>2. Rest
    BY Zenon, <1>15, <1>f DEF Release, Released, Phase
  <2>3. CursorInShard'
    BY Zenon, <1>15, <1>f DEF Release, Released, CursorInShard
  <2> QED
    BY Zenon, <1>0, <2>1, <2>2, <2>3
<1>16. ASSUME NEW w \in Worker, NEW s \in Shard, ReleaseError(w, s) PROVE TypeInv'
  <2>1. RowsOK'
    BY Zenon, <1>16, RowsKept DEF ReleaseError, table
  <2>2. Rest
    BY Zenon, <1>16, <1>f DEF ReleaseError, Released, Phase
  <2>3. CursorInShard'
    BY Zenon, <1>16, <1>f DEF ReleaseError, Released, CursorInShard
  <2> QED
    BY Zenon, <1>0, <2>1, <2>2, <2>3
<1>17. ASSUME NEW w \in Worker, Crash(w) PROVE TypeInv'
  <2>1. RowsOK'
    BY Zenon, <1>17, RowsKept DEF Crash, table
  <2>2. Rest
    BY Zenon, <1>17, <1>f DEF Crash, Phase
  <2>3. CursorInShard'
    BY Zenon, <1>17, <1>f DEF Crash, CursorInShard
  <2> QED
    BY Zenon, <1>0, <2>1, <2>2, <2>3
<1>18. CASE Tick
  BY <1>f, <1>18 DEF Tick, CursorInShard
<1>19. CASE UNCHANGED vars
  BY Zenon, <1>19 DEF vars, CursorInShard
<1> QED
  BY ZenonT(30), <1>1, <1>2, <1>3, <1>4, <1>5, <1>6, <1>7, <1>8, <1>9, <1>10, <1>11, <1>12, <1>13, <1>14,
     <1>15, <1>16, <1>17, <1>18, <1>19
  DEF Next, Manager, Fault

\* Every variable of the lease manager keeps its type, on either backend.
THEOREM TypeCorrect == Spec => []TypeOK
<1>1. Spec => []TypeInv
  BY TypeInit, TypeStep, PTL DEF Spec
<1> QED
  BY <1>1, PTL DEF TypeInv

-----------------------------------------------------------------------------
(* Over PostgreSQL the manager implements FencedLease.                     *)

Live == [s \in Shard |-> left[s] >= 0]

LEMMA Stutters ==
    ASSUME UNCHANGED <<owner, token, owned>>, Live' = Live
    PROVE  UNCHANGED Lease!leaseVars
  BY Zenon DEF Live, Lease!leaseVars

\* The upsert of an expired row is a claim.
LEMMA Claims ==
    ASSUME TypeOK, NEW w \in Worker, NEW s \in Shard, left[s] < 0,
           SetRow(s, w, token[s] + 1, TTL), UNCHANGED owned
    PROVE  Lease!LeaseNext
<1>1. \A t \in Shard : left'[t] >= 0 <=> t = s \/ left[t] >= 0
  BY DEF TypeOK, SetRow
<1>2. \A t \in Shard :
        (left'[t] >= 0) = [[u \in Shard |-> left[u] >= 0] EXCEPT ![s] = TRUE][t]
  <2> TAKE t \in Shard
  <2>1. CASE t = s
    <3>1. left'[t] >= 0
      BY Zenon, <1>1, <2>1
    <3>2. [[u \in Shard |-> left[u] >= 0] EXCEPT ![s] = TRUE][t]
      BY Zenon, <2>1
    <3> QED
      BY Zenon, <3>1, <3>2
  <2>2. CASE t # s
    <3>1. (left'[t] >= 0) = (left[t] >= 0)
      BY <1>1, <2>2
    <3>2. [[u \in Shard |-> left[u] >= 0] EXCEPT ![s] = TRUE][t] = (left[t] >= 0)
      BY Zenon, <2>2
    <3> QED
      BY Zenon, <3>1, <3>2
  <2> QED
    BY Zenon, <2>1, <2>2
<1>3. [t \in Shard |-> left'[t] >= 0] = [[t \in Shard |-> left[t] >= 0] EXCEPT ![s] = TRUE]
  BY Zenon, <1>2
<1>4. ~[t \in Shard |-> left[t] >= 0][s]
  <2>1. ~(left[s] >= 0)
    BY DEF TypeOK
  <2> QED
    BY Zenon, <2>1
<1>5. Lease!Claim(w, s)
  BY Zenon, <1>3, <1>4 DEF SetRow, Lease!Claim
<1> QED
  BY Zenon, <1>5 DEF Lease!LeaseNext

\* What a worker drops from ownedShards it forgets.
LEMMA Forgets ==
    ASSUME NEW w \in Worker, NEW S \in SUBSET Shard, UNCHANGED table,
           owned' = [owned EXCEPT ![w] = [s \in Shard |-> IF s \in S THEN 0 ELSE @[s]]]
    PROVE  Lease!LeaseNext
<1>1. Lease!Forget(w, S)
  BY Zenon DEF Lease!Forget, table
<1> QED
  BY Zenon, <1>1 DEF Lease!LeaseNext

LEMMA Lapses ==
    ASSUME NEW S \in SUBSET Shard, UNCHANGED <<owner, token, owned>>,
           \A s \in Shard : left'[s] >= 0 <=> left[s] >= 0 /\ s \notin S
    PROVE  Lease!LeaseNext
<1>1. Lease!Lapse(S)
  <2>1. [s \in Shard |-> left'[s] >= 0] =
            [s \in Shard |-> [t \in Shard |-> left[t] >= 0][s] /\ s \notin S]
    <3>1. \A s \in Shard : [t \in Shard |-> left[t] >= 0][s] <=> left[s] >= 0
      BY Zenon
    <3>2. \A s \in Shard :
            (left'[s] >= 0) = ([t \in Shard |-> left[t] >= 0][s] /\ s \notin S)
      BY <3>1
    <3> QED
      BY Zenon, <3>2
  <2> QED
    BY Zenon, <2>1 DEF Lease!Lapse
<1> QED
  BY Zenon, <1>1 DEF Lease!LeaseNext

\* Every step of a manager, and of time, is a step of FencedLease or changes
\* nothing that FencedLease sees.
LEMMA LeaseSimulation ==
    ASSUME backend = "postgres", TypeInv, [Next]_vars
    PROVE  LeaseStep
<1> USE DEF TypeInv, TypeOK
<1>1. ASSUME NEW w \in Worker, AcquireUpsert(w) PROVE Lease!LeaseNext \/ UNCHANGED Lease!leaseVars
  <2>1. PICK s \in Shard : PgAcquire(w, s) /\ UNCHANGED owned
    BY Zenon, <1>1, CandidateInShard DEF AcquireUpsert
  <2>2. CASE left[s] < 0
    BY Zenon, <2>1, <2>2, Claims DEF PgAcquire
  <2>3. CASE ~(left[s] < 0)
    BY Zenon, <2>1, <2>3, Stutters DEF PgAcquire, table, Live
  <2> QED
    BY Zenon, <2>2, <2>3
<1>2. ASSUME NEW w \in Worker, AcquireRead(w) PROVE Lease!LeaseNext \/ UNCHANGED Lease!leaseVars
  <2>1. PICK s \in Shard :
            /\ UNCHANGED table
            /\ owned' = IF owner[s] = w THEN [owned EXCEPT ![w][s] = token[s]] ELSE owned
    BY Zenon, <1>2, CandidateInShard DEF AcquireRead
  <2>2. CASE owner[s] = w
    <3>1. Lease!Learn(w, s)
      BY Zenon, <2>1, <2>2 DEF Lease!Learn, table
    <3> QED
      BY Zenon, <3>1 DEF Lease!LeaseNext
  <2>3. CASE owner[s] # w
    BY Zenon, <2>1, <2>3, Stutters DEF table, Live
  <2> QED
    BY Zenon, <2>2, <2>3
<1>3. ASSUME NEW w \in Worker, RenewOwned(w) PROVE UNCHANGED Lease!leaseVars
  <2>1. \A s \in Shard : left'[s] >= 0 <=> left[s] >= 0
    BY <1>3 DEF RenewOwned, Extend, Renewable
  <2>2. Live' = Live
    BY <2>1 DEF Live
  <2> QED
    BY Zenon, <1>3, <2>2, Stutters DEF RenewOwned, Extend
<1>4. ASSUME NEW w \in Worker, ApplyBatchRenewals(w) PROVE Lease!LeaseNext
  <2> DEFINE S == Shard \ pending[w]
  <2>1. owned' = [owned EXCEPT ![w] = [s \in Shard |-> IF s \in S THEN 0 ELSE @[s]]]
    BY Zenon, <1>4 DEF ApplyBatchRenewals
  <2>2. UNCHANGED table /\ S \in SUBSET Shard
    BY Zenon, <1>4 DEF ApplyBatchRenewals
  <2> HIDE DEF S
  <2> QED
    BY <2>1, <2>2, Forgets, Zenon
<1>5. ASSUME NEW w \in Worker, Stop(w) \/ Crash(w) PROVE Lease!LeaseNext
  <2>1. owned' = [owned EXCEPT ![w] = [s \in Shard |-> IF s \in Shard THEN 0 ELSE @[s]]]
    BY <1>5 DEF Stop, Crash
  <2> QED
    BY Zenon, <1>5, <2>1, Forgets DEF Stop, Crash
<1>6. ASSUME NEW w \in Worker, NEW s \in Shard, Release(w, s)
      PROVE  Lease!LeaseNext \/ UNCHANGED Lease!leaseVars
  <2>1. CASE owner[s] = w
    <3>1. SetRow(s, w, token[s], -1) /\ UNCHANGED owned
      BY Zenon, <1>6, <2>1 DEF Release, Released, PgRelease
    <3>2. UNCHANGED <<owner, token>>
      BY Zenon, <2>1, <3>1 DEF SetRow
    <3>3. \A t \in Shard : left'[t] >= 0 <=> left[t] >= 0 /\ t \notin {s}
      BY <3>1 DEF SetRow
    <3> QED
      BY Zenon, <3>1, <3>2, <3>3, Lapses
  <2>2. CASE owner[s] # w
    BY Zenon, <1>6, <2>2, Stutters DEF Release, Released, PgRelease, table, Live
  <2> QED
    BY Zenon, <2>1, <2>2
<1>7. CASE Tick
  <2> DEFINE S == {s \in Shard : left[s] = 0}
  <2>1. \A s \in Shard : left'[s] >= 0 <=> left[s] >= 0 /\ s \notin S
    BY <1>7 DEF Tick
  <2>2. UNCHANGED <<owner, token, owned>> /\ S \in SUBSET Shard
    BY Zenon, <1>7 DEF Tick
  <2> HIDE DEF S
  <2> QED
    BY <2>1, <2>2, Lapses, Zenon DEF LeaseStep
<1>8. ASSUME NEW w \in Worker, NEW s \in Shard,
             \/ Start(w) \/ AcquireError(w) \/ RenewOwnedError(w)
             \/ RenewOneError(w) \/ RenewPassDone(w) \/ ReleaseError(w, s)
      PROVE  UNCHANGED Lease!leaseVars
  BY Zenon, <1>8, Stutters DEF Start, AcquireError, RenewOwnedError, RenewOneError,
      RenewPassDone, ReleaseError, Released, table, Live
<1>9. ASSUME NEW w \in Worker, NEW s \in Shard,
             AcquireAtomic(w) \/ RenewIndividually(w) \/ RenewOne(w, s) \/ RenewOneRead(w)
      PROVE  FALSE
  BY Zenon, <1>9 DEF AcquireAtomic, RenewIndividually, RenewOne, RenewOneRead, CursorInShard
<1>10. CASE UNCHANGED vars
  <2>1. UNCHANGED <<owner, token, owned>> /\ left' = left
    BY Zenon, <1>10 DEF vars
  <2>2. Live' = Live
    BY Zenon, <2>1 DEF Live
  <2> QED
    BY Zenon, <2>1, <2>2, Stutters DEF LeaseStep
<1> QED
  BY Zenon, <1>1, <1>2, <1>3, <1>4, <1>5, <1>6, <1>7, <1>8, <1>9, <1>10
  DEF Next, Manager, Fault, LeaseStep

\* The store is chosen once.
LEMMA BackendKept == [Next]_vars => UNCHANGED backend
<1> SUFFICES ASSUME [Next]_vars PROVE UNCHANGED backend
  BY Zenon
<1>1. ASSUME NEW w \in Worker, Manager(w) PROVE UNCHANGED backend
  BY Zenon, <1>1 DEF Manager, Start, AcquireUpsert, AcquireRead, AcquireAtomic, RenewOwned,
      ApplyBatchRenewals, RenewIndividually, RenewOne, RenewOneRead,
      RenewPassDone, Release, Released
<1>2. ASSUME NEW w \in Worker, Fault(w) PROVE UNCHANGED backend
  BY Zenon, <1>2 DEF Fault, AcquireError, RenewOwnedError, RenewOneError, Stop,
      ReleaseError, Released, Crash, Faulty
<1> QED
  BY Zenon, <1>1, <1>2 DEF Next, Tick, Faulty, vars

\* Over PostgreSQL the lease manager implements the abstract fenced lease, for
\* every number of workers, shards and faults.
THEOREM Refinement == Spec => ImplementsFencedLease
<1>1. Init => Lease!LeaseInit
  <2> SUFFICES ASSUME Init PROVE Lease!LeaseInit
    BY Zenon
  <2>1. \A s \in Shard : (left[s] >= 0) = FALSE
    BY DEF Init
  <2> QED
    BY Zenon, <2>1 DEF Init, Lease!LeaseInit
<1>2. Spec => []TypeInv
  BY TypeInit, TypeStep, PTL DEF Spec
<1>3. TypeInv /\ [Next]_vars => [backend = "postgres" => LeaseStep]_vars
  BY Zenon, LeaseSimulation
<1> QED
  BY <1>1, <1>2, <1>3, PTL DEF Spec, ImplementsFencedLease

\* What a worker keeps in ownedShards never runs ahead of the row, and the
\* row names whoever keeps its current token.
OwnedIsOwners ==
    \A w \in Worker, s \in Shard :
        /\ owned[w][s] <= token[s]
        /\ owned[w][s] = token[s] /\ token[s] > 0 => owner[s] = w

HolderInv == OwnedIsOwners /\ HolderUnique

LEMMA HolderStep ==
    ASSUME TypeOK, HolderInv, backend = "postgres", LeaseStep
    PROVE  HolderInv'
<1> USE DEF TypeOK, HolderInv, OwnedIsOwners, HolderUnique
<1>1. ASSUME NEW w \in Worker, NEW s \in Shard, Lease!Claim(w, s) PROVE HolderInv'
  BY <1>1 DEF Lease!Claim
<1>2. ASSUME NEW w \in Worker, NEW s \in Shard, Lease!Learn(w, s) PROVE HolderInv'
  <2>1. /\ UNCHANGED <<owner, token>>
        /\ owner[s] = w
        /\ \A v \in Worker, t \in Shard :
              owned'[v][t] = IF v = w /\ t = s THEN token[s] ELSE owned[v][t]
    BY Zenon, <1>2 DEF Lease!Learn
  <2>2. OwnedIsOwners'
    BY SMTT(30), <2>1
  <2>3. HolderUnique'
    BY SMTT(30), <2>1
  <2> QED
    BY Zenon, <2>2, <2>3
<1>3. ASSUME NEW S \in SUBSET Shard, Lease!Lapse(S) PROVE HolderInv'
  BY <1>3 DEF Lease!Lapse
<1>4. ASSUME NEW w \in Worker, NEW S \in SUBSET Shard, Lease!Forget(w, S) PROVE HolderInv'
  <2>1. /\ UNCHANGED <<owner, token>>
        /\ \A v \in Worker, t \in Shard :
              owned'[v][t] = IF v = w /\ t \in S THEN 0 ELSE owned[v][t]
    BY Zenon, <1>4 DEF Lease!Forget
  <2>2. OwnedIsOwners'
    BY <2>1
  <2>3. HolderUnique'
    BY <2>1
  <2> QED
    BY Zenon, <2>2, <2>3
<1>5. CASE UNCHANGED Lease!leaseVars
  BY <1>5 DEF Lease!leaseVars
<1> QED
  BY Zenon, <1>1, <1>2, <1>3, <1>4, <1>5 DEF Lease!LeaseNext, LeaseStep

\* Over PostgreSQL no two workers ever keep the same fencing token of a shard.
THEOREM HoldersDiffer == Spec => []HolderUnique
<1> DEFINE Inv == TypeInv /\ (backend = "postgres" => HolderInv)
<1>1. Init => Inv
  BY TypeInit DEF Init, HolderInv, OwnedIsOwners, HolderUnique
<1>2. Inv /\ [Next]_vars => Inv'
  BY Zenon, TypeStep, BackendKept, LeaseSimulation, HolderStep DEF TypeInv
<1>3. Inv => HolderUnique
  BY Zenon DEF HolderInv, HolderUnique
<1> QED
  BY <1>1, <1>2, <1>3, PTL DEF Spec

\* On either backend a fencing token never goes back, and a row passes from
\* one worker to another only after the lease has lapsed and with a larger token.
THEOREM HandoversAreFenced == Spec => HandoverIsFenced
<1> DEFINE Handover ==
        \A s \in Shard :
            /\ token'[s] >= token[s]
            /\ owner'[s] # owner[s] /\ owner'[s] \in Worker =>
                   left[s] < 0 /\ token'[s] > token[s]
<1>1. ASSUME TypeInv, Next PROVE Handover
  <2> USE DEF TypeInv, TypeOK
  <2>1. ASSUME UNCHANGED <<owner, token>> PROVE Handover
    BY <1>1, <2>1
  <2>2. ASSUME NEW w \in Worker, NEW s \in Shard,
               PgAcquire(w, s) \/ (MongoAcquirable(w, s) /\ MongoAcquire(w, s))
        PROVE  Handover
    BY <1>1, <2>2 DEF PgAcquire, MongoAcquire, MongoAcquirable, SetRow, table
  <2>3. ASSUME NEW w \in Worker, NEW s \in Shard, PgRelease(w, s) \/ MongoRelease(w, s)
        PROVE  Handover
    BY <1>1, <2>3, ShardLeaseAssumption DEF PgRelease, MongoRelease, SetRow, table
  <2>4. CASE \E w \in Worker : AcquireUpsert(w) \/ AcquireAtomic(w) \/ AcquireError(w)
    BY Zenon, <1>1, <2>1, <2>2, <2>4, CandidateInShard DEF AcquireUpsert, AcquireAtomic, AcquireError, table
  <2>5. CASE \E w \in Worker, s \in Shard : Release(w, s)
    BY SMTT(30), <2>1, <2>3, <2>5 DEF Release
  <2>6. CASE Tick \/ \E w \in Worker : RenewOwned(w) \/ RenewOwnedError(w)
    <3>1. UNCHANGED <<owner, token>>
      BY Zenon, <2>6 DEF Tick, RenewOwned, RenewOwnedError, Extend, table
    <3> QED
      BY Zenon, <2>1, <3>1
  <2>7. CASE \E w \in Worker, s \in Shard :
                RenewOne(w, s) \/ RenewOneRead(w) \/ RenewOneError(w) \/ RenewPassDone(w)
    <3>1. UNCHANGED <<owner, token>>
      BY <2>7 DEF RenewOne, RenewOneRead, RenewOneError, RenewPassDone, Extend, table
    <3> QED
      BY Zenon, <2>1, <3>1
  <2>8. CASE \E w \in Worker : \/ Start(w) \/ AcquireRead(w) \/ ApplyBatchRenewals(w)
                               \/ RenewIndividually(w)
    <3>1. UNCHANGED <<owner, token>>
      BY Zenon, <2>8 DEF Start, AcquireRead, ApplyBatchRenewals, RenewIndividually, table
    <3> QED
      BY Zenon, <2>1, <3>1
  <2>9. CASE \E w \in Worker, s \in Shard : Stop(w) \/ ReleaseError(w, s) \/ Crash(w)
    <3>1. UNCHANGED <<owner, token>>
      BY Zenon, <2>9 DEF Stop, ReleaseError, Crash, table
    <3> QED
      BY Zenon, <2>1, <3>1
  <2> QED
    BY ZenonT(30), <1>1, <2>4, <2>5, <2>6, <2>7, <2>8, <2>9 DEF Next, Manager, Fault
<1>2. Spec => []TypeInv
  BY TypeInit, TypeStep, PTL DEF Spec
<1>3. TypeInv /\ [Next]_vars => [Handover]_vars
  BY Zenon, <1>1
<1> QED
  BY <1>2, <1>3, PTL DEF Spec, HandoverIsFenced

-----------------------------------------------------------------------------
(* A manager never holds more than its target.                             *)

\* The initial loop has looked at `cursor' shards before the current one, the
\* rebalance loop runs only below the target, a renewal only rewrites a lease
\* the manager has, and a process that is down has none.
WithinTarget(w) ==
    /\ Cardinality(OwnedShards(w)) <= TargetOwnedShards
    /\ pc[w] \in {"down", "release"} => OwnedShards(w) = {}
    /\ pc[w] = "start" => Cardinality(OwnedShards(w)) <= cursor[w] /\ cursor[w] < TargetOwnedShards
    /\ pc[w] = "scan" => Cardinality(OwnedShards(w)) < TargetOwnedShards
    /\ pc[w] = "renew" /\ reading[w] => cursor[w] \in OwnedShards(w)

TargetInv == \A w \in Worker : WithinTarget(w)

LEMMA TargetPositive == TargetOwnedShards \in Nat \ {0}
<1> DEFINE q == NumShards \div ReplicaCount
           r == NumShards % ReplicaCount
<1>1. q \in Nat /\ r \in Nat /\ NumShards = ReplicaCount * q + r
  OBVIOUS
<1>2. q = 0 => r # 0
  <2> SUFFICES ASSUME q = 0 PROVE r # 0
    BY Zenon
  <2>1. ReplicaCount * q = 0
    OBVIOUS
  <2> QED
    BY <1>1, <2>1
<1>3. TargetOwnedShards = IF r # 0 THEN q + 1 ELSE q
  BY Zenon DEF TargetOwnedShards
<1> HIDE DEF q, r
<1> QED
  BY <1>1, <1>2, <1>3

LEMMA ShardsFinite ==
    ASSUME NEW S \in SUBSET Shard
    PROVE  IsFiniteSet(S) /\ Cardinality(S) \in Nat
<1>1. IsFiniteSet(Shard)
  BY FS_Interval DEF Shard
<1> QED
  BY Zenon, <1>1, FS_Subset, FS_CardinalityType

LEMMA FewerShards ==
    ASSUME NEW S \in SUBSET Shard, NEW T \in SUBSET S
    PROVE  Cardinality(T) <= Cardinality(S)
BY Zenon, ShardsFinite, FS_Subset

LEMMA OneMoreShard ==
    ASSUME NEW S \in SUBSET Shard, NEW s \in Shard, NEW T \in SUBSET (S \cup {s})
    PROVE  Cardinality(T) <= Cardinality(S) + 1
<1>1. Cardinality(S \cup {s}) <= Cardinality(S) + 1
  BY ShardsFinite, FS_AddElement
<1>2. Cardinality(T) <= Cardinality(S \cup {s})
  BY Zenon, FewerShards
<1>3. Cardinality(T) \in Nat /\ Cardinality(S) \in Nat /\ Cardinality(S \cup {s}) \in Nat
  BY Zenon, ShardsFinite
<1> QED
  BY <1>1, <1>2, <1>3

\* rebalanceIfNeeded goes on scanning only below the target.
LEMMA RebalanceWithin ==
    ASSUME TypeInv, NEW w \in Worker, NEW c, NEW own, RebalanceIfNeeded(own, w, c),
           own = owned', Cardinality(OwnedShards(w)') <= TargetOwnedShards
    PROVE  WithinTarget(w)'
<1>0. OwnedBy(own, w) = OwnedShards(w)'
  BY Zenon DEF OwnedBy, OwnedShards
<1>c. Cardinality(OwnedShards(w)') \in Nat
  BY Zenon, ShardsFinite DEF OwnedShards, OwnedBy
<1>1. CASE pc' = [pc EXCEPT ![w] = "idle"]
  BY Zenon, <1>1 DEF WithinTarget, TypeInv, TypeOK
<1>2. CASE pc' = [pc EXCEPT ![w] = "scan"] /\ ScanFrom(own, w, c) # {}
  <2>1. ~(Cardinality(OwnedShards(w)') >= TargetOwnedShards)
    BY Zenon, <1>0, <1>2 DEF ScanFrom
  <2>2. Cardinality(OwnedShards(w)') < TargetOwnedShards
    BY <2>1, <1>c, TargetPositive
  <2>3. pc'[w] = "scan"
    BY Zenon, <1>2 DEF TypeInv, TypeOK
  <2> QED
    BY Zenon, <2>2, <2>3 DEF WithinTarget
<1> QED
  BY Zenon, <1>1, <1>2 DEF RebalanceIfNeeded

\* The acquire loops add one shard at a time and stop at the target.
LEMMA CandidateWithin ==
    ASSUME TypeInv, NEW w \in Worker, WithinTarget(w), Acquiring(w),
           NEW own, NextCandidate(own, w), own = owned',
           NEW s \in Shard, OwnedShards(w)' \subseteq OwnedShards(w) \cup {s}
    PROVE  WithinTarget(w)'
<1>0. /\ Cardinality(OwnedShards(w)') <= Cardinality(OwnedShards(w)) + 1
      /\ Cardinality(OwnedShards(w)') \in Nat /\ Cardinality(OwnedShards(w)) \in Nat
  <2>1. OwnedShards(w) \in SUBSET Shard /\ OwnedShards(w)' \in SUBSET Shard
    BY Zenon DEF OwnedShards, OwnedBy
  <2> QED
    BY Zenon, <2>1, ShardsFinite, OneMoreShard
<1>1. CASE pc[w] = "start"
  <2>0. cursor[w] \in Nat /\ cursor \in [Worker -> Nat] /\ pc \in [Worker -> Phase]
    BY Zenon DEF TypeInv, TypeOK
  <2>1. Cardinality(OwnedShards(w)) <= cursor[w] /\ cursor[w] < TargetOwnedShards
    BY Zenon, <1>1 DEF WithinTarget
  <2>2. Cardinality(OwnedShards(w)') <= TargetOwnedShards
    BY <1>0, <2>0, <2>1, TargetPositive
  <2>3. CASE cursor[w] + 1 < TargetOwnedShards
    <3>1. pc'[w] = "start" /\ cursor'[w] = cursor[w] + 1
      BY Zenon, <1>1, <2>0, <2>3 DEF NextCandidate
    <3>2. Cardinality(OwnedShards(w)') <= cursor'[w] /\ cursor'[w] < TargetOwnedShards
      BY <1>0, <2>0, <2>1, <2>3, <3>1
    <3> QED
      BY Zenon, <2>2, <3>1, <3>2 DEF WithinTarget
  <2>4. CASE ~(cursor[w] + 1 < TargetOwnedShards)
    <3>1. pc'[w] = "idle"
      BY Zenon, <1>1, <2>0, <2>4 DEF NextCandidate
    <3> QED
      BY Zenon, <2>2, <3>1 DEF WithinTarget
  <2> QED
    BY Zenon, <2>3, <2>4
<1>2. CASE pc[w] = "scan"
  <2>1. Cardinality(OwnedShards(w)') <= TargetOwnedShards
    BY <1>0, <1>2, TargetPositive DEF WithinTarget
  <2>2. RebalanceIfNeeded(own, w, cursor[w] + 1)
    BY Zenon, <1>2 DEF NextCandidate
  <2> QED
    BY Zenon, <2>1, <2>2, RebalanceWithin
<1> QED
  BY Zenon, <1>1, <1>2 DEF Acquiring

\* What a step of one worker leaves alone of the others.
LEMMA OthersWithin ==
    ASSUME TargetInv, NEW w \in Worker, WithinTarget(w)',
           \A v \in Worker : v # w => owned'[v] = owned[v] /\ pc'[v] = pc[v]
                                     /\ cursor'[v] = cursor[v] /\ reading'[v] = reading[v]
    PROVE  TargetInv'
<1> SUFFICES ASSUME NEW v \in Worker, v # w PROVE WithinTarget(v)'
  BY Zenon DEF TargetInv
<1>1. OwnedShards(v)' = OwnedShards(v)
  BY Zenon DEF OwnedShards, OwnedBy
<1>2. WithinTarget(v)
  BY Zenon DEF TargetInv
<1> QED
  BY Zenon, <1>1, <1>2 DEF WithinTarget

\* A step that leaves a worker's leases or shrinks them, outside the loops.
LEMMA ShrinkWithin ==
    ASSUME TypeInv, NEW w \in Worker, WithinTarget(w),
           OwnedShards(w)' \subseteq OwnedShards(w)
    PROVE  /\ Cardinality(OwnedShards(w)') <= TargetOwnedShards
           /\ Cardinality(OwnedShards(w)') <= Cardinality(OwnedShards(w))
<1>1. OwnedShards(w) \in SUBSET Shard /\ OwnedShards(w)' \in SUBSET Shard
  BY Zenon DEF OwnedShards, OwnedBy
<1>2. Cardinality(OwnedShards(w)') <= Cardinality(OwnedShards(w))
  BY Zenon, <1>1, FewerShards
<1>3. Cardinality(OwnedShards(w)') \in Nat /\ Cardinality(OwnedShards(w)) \in Nat
  BY Zenon, <1>1, ShardsFinite
<1> QED
  BY <1>2, <1>3, TargetPositive DEF WithinTarget

\* The worker's own loop index and phase are all a step changes of them.
LEMMA OthersKeep ==
    ASSUME TypeInv, TypeInv', NEW w \in Worker, Manager(w) \/ Fault(w)
    PROVE  \A v \in Worker : v # w => owned'[v] = owned[v] /\ pc'[v] = pc[v]
                                     /\ cursor'[v] = cursor[v] /\ reading'[v] = reading[v]
<1> SUFFICES ASSUME NEW v \in Worker, v # w
             PROVE  owned'[v] = owned[v] /\ pc'[v] = pc[v] /\ cursor'[v] = cursor[v] /\ reading'[v] = reading[v]
  BY Zenon
<1> USE DEF TypeInv, TypeOK
<1>1. ASSUME NEW own, NEW c, RebalanceIfNeeded(own, w, c) PROVE pc'[v] = pc[v] /\ cursor'[v] = cursor[v]
  BY Zenon, <1>1 DEF RebalanceIfNeeded
<1>2. ASSUME NEW own, NextCandidate(own, w) PROVE pc'[v] = pc[v] /\ cursor'[v] = cursor[v]
  BY Zenon, <1>1, <1>2 DEF NextCandidate
<1>3. CASE Start(w) \/ AcquireUpsert(w) \/ RenewOwned(w) \/ RenewIndividually(w)
  BY Zenon, <1>3 DEF Start, AcquireUpsert, RenewOwned, RenewIndividually
<1>4. CASE AcquireRead(w)
  BY Zenon, <1>2, <1>4 DEF AcquireRead
<1>5. CASE AcquireAtomic(w)
  BY Zenon, <1>2, <1>5 DEF AcquireAtomic
<1>6. CASE ApplyBatchRenewals(w)
  BY Zenon, <1>1, <1>6 DEF ApplyBatchRenewals
<1>7. CASE RenewOneRead(w) \/ RenewOneError(w) \/ RenewOwnedError(w)
  BY Zenon, <1>7 DEF RenewOneRead, RenewOneError, RenewOwnedError
<1>8. CASE RenewPassDone(w)
  BY Zenon, <1>1, <1>8 DEF RenewPassDone
<1>9. ASSUME NEW s \in Shard, RenewOne(w, s) PROVE owned'[v] = owned[v] /\ pc'[v] = pc[v] /\ cursor'[v] = cursor[v] /\ reading'[v] = reading[v]
  BY <1>9 DEF RenewOne
<1>10. ASSUME NEW s \in Shard, Release(w, s) \/ ReleaseError(w, s)
       PROVE owned'[v] = owned[v] /\ pc'[v] = pc[v] /\ cursor'[v] = cursor[v] /\ reading'[v] = reading[v]
  BY Zenon, <1>10 DEF Release, ReleaseError, Released
<1>11. CASE AcquireError(w)
  BY Zenon, <1>2, <1>11 DEF AcquireError
<1>12. CASE Stop(w) \/ Crash(w)
  BY <1>12 DEF Stop, Crash
<1> QED
  BY Zenon, <1>3, <1>4, <1>5, <1>6, <1>7, <1>8, <1>9, <1>10, <1>11, <1>12 DEF Manager, Fault

\* A shard is added by the acquire loops only, one candidate at a time.
LEMMA AcquireWithin ==
    ASSUME TypeInv, NEW w \in Worker, WithinTarget(w),
           AcquireRead(w) \/ AcquireAtomic(w) \/ AcquireError(w)
    PROVE  WithinTarget(w)'
<1>0. Acquiring(w) /\ Candidate(w) \in Shard
  BY Zenon, CandidateInShard DEF AcquireRead, AcquireAtomic, AcquireError
<1>1. owned' = owned \/ \E n \in Nat : owned' = [owned EXCEPT ![w][Candidate(w)] = n]
  <2>0. token[Candidate(w)] \in Nat /\ token[Candidate(w)] + 1 \in Nat
    BY <1>0 DEF TypeInv, TypeOK
  <2>1. CASE AcquireRead(w)
    BY Zenon, <2>0, <2>1 DEF AcquireRead
  <2>2. CASE AcquireAtomic(w)
    BY Zenon, <2>0, <2>2 DEF AcquireAtomic
  <2>3. CASE AcquireError(w)
    BY Zenon, <2>3 DEF AcquireError
  <2> QED
    BY Zenon, <2>1, <2>2, <2>3
<1>2. OwnedShards(w)' \subseteq OwnedShards(w) \cup {Candidate(w)}
  BY <1>0, <1>1 DEF OwnedShards, OwnedBy, TypeInv, TypeOK
<1>3. NextCandidate(owned', w)
  BY Zenon DEF AcquireRead, AcquireAtomic, AcquireError
<1> QED
  BY Zenon, <1>0, <1>2, <1>3, CandidateWithin

LEMMA RenewWithin ==
    ASSUME TypeInv, NEW w \in Worker, WithinTarget(w),
           ApplyBatchRenewals(w) \/ RenewPassDone(w)
    PROVE  WithinTarget(w)'
<1>1. OwnedShards(w)' \subseteq OwnedShards(w)
  BY DEF ApplyBatchRenewals, RenewPassDone, OwnedShards, OwnedBy, TypeInv, TypeOK
<1>2. RebalanceIfNeeded(owned', w, 0)
  BY Zenon DEF ApplyBatchRenewals, RenewPassDone
<1> QED
  BY Zenon, <1>1, <1>2, ShrinkWithin, RebalanceWithin

LEMMA RenewOneWithin ==
    ASSUME TypeInv, NEW w \in Worker, WithinTarget(w),
           NEW s \in Shard, RenewOne(w, s) \/ RenewOneRead(w) \/ RenewOneError(w)
    PROVE  WithinTarget(w)'
<1>0. pc[w] = "renew" /\ pc' = pc
  BY Zenon DEF RenewOne, RenewOneRead, RenewOneError
<1>1. OwnedShards(w)' \subseteq OwnedShards(w)
  <2>1. CASE RenewOne(w, s)
    BY <2>1 DEF RenewOne, OwnedShards, OwnedBy, TypeInv, TypeOK
  <2>2. CASE RenewOneRead(w)
    <3>1. cursor[w] \in OwnedShards(w)
      BY Zenon, <2>2, <1>0 DEF RenewOneRead, WithinTarget
    <3>2. owned' = [owned EXCEPT ![w][cursor[w]] = token[cursor[w]]]
      BY Zenon, <2>2 DEF RenewOneRead
    <3> QED
      BY Zenon, <3>1, <3>2 DEF OwnedShards, OwnedBy, TypeInv, TypeOK
  <2>3. CASE RenewOneError(w)
    BY Zenon, <2>3 DEF RenewOneError, OwnedShards, OwnedBy
  <2> QED
    BY Zenon, <2>1, <2>2, <2>3
<1>2. reading'[w] => cursor'[w] \in OwnedShards(w)'
  <2>1. CASE RenewOne(w, s) /\ s \in Renewable(w)
    <3>1. cursor'[w] = s /\ owned' = owned
      BY Zenon, <2>1 DEF RenewOne, TypeInv, TypeOK
    <3> QED
      BY Zenon, <2>1, <3>1 DEF Renewable, OwnedShards
  <2>2. CASE RenewOne(w, s) /\ s \notin Renewable(w)
    BY Zenon, <2>2 DEF RenewOne
  <2>3. CASE RenewOneRead(w) \/ RenewOneError(w)
    BY Zenon, <2>3 DEF RenewOneRead, RenewOneError, TypeInv, TypeOK
  <2> QED
    BY Zenon, <2>1, <2>2, <2>3
<1>3. Cardinality(OwnedShards(w)') <= TargetOwnedShards
  BY Zenon, <1>1, ShrinkWithin
<1> QED
  BY Zenon, <1>0, <1>2, <1>3 DEF WithinTarget

\* Stop and a crash empty ownedShards.
LEMMA EndWithin ==
    ASSUME TypeInv, NEW w \in Worker, Stop(w) \/ Crash(w)
    PROVE  WithinTarget(w)'
<1>1. OwnedShards(w)' = {}
  BY DEF Stop, Crash, OwnedShards, OwnedBy, TypeInv, TypeOK
<1>2. pc'[w] \in {"down", "release"}
  BY Zenon DEF Stop, Crash, TypeInv, TypeOK
<1>3. Cardinality(OwnedShards(w)') <= TargetOwnedShards
  BY <1>1, FS_EmptySet, TargetPositive
<1> QED
  BY Zenon, <1>1, <1>2, <1>3 DEF WithinTarget

LEMMA RestWithin ==
    ASSUME TypeInv, NEW w \in Worker, WithinTarget(w),
           \/ Start(w) \/ AcquireUpsert(w) \/ RenewOwned(w) \/ RenewOwnedError(w) \/ RenewIndividually(w)
           \/ \E s \in Shard : Release(w, s) \/ ReleaseError(w, s)
    PROVE  WithinTarget(w)'
<1>0. owned' = owned
  BY Zenon DEF Start, AcquireUpsert, RenewOwned, RenewOwnedError, RenewIndividually, Release, ReleaseError, Released
<1>1. OwnedShards(w)' = OwnedShards(w)
  BY Zenon, <1>0 DEF OwnedShards, OwnedBy
<1>2. CASE Start(w)
  <2>1. pc'[w] = "start" /\ cursor'[w] = 0 /\ OwnedShards(w) = {}
    BY Zenon, <1>2 DEF Start, WithinTarget, TypeInv, TypeOK
  <2> QED
    BY <1>1, <2>1, FS_EmptySet, TargetPositive DEF WithinTarget
<1>3. CASE AcquireUpsert(w)
  <2>1. pc' = pc /\ cursor' = cursor /\ pc[w] # "renew"
    BY Zenon, <1>3 DEF AcquireUpsert, Acquiring
  <2> QED
    BY Zenon, <1>1, <2>1 DEF WithinTarget
<1>4. CASE RenewOwned(w) \/ RenewOwnedError(w)
  <2>1. pc'[w] \in {"renewed", "idle"}
    BY Zenon, <1>4 DEF RenewOwned, RenewOwnedError, TypeInv, TypeOK
  <2> QED
    BY Zenon, <1>1, <2>1 DEF WithinTarget
<1>5. CASE RenewIndividually(w)
  <2>1. pc'[w] = "renew" /\ ~reading'[w]
    BY Zenon, <1>5 DEF RenewIndividually, TypeInv, TypeOK, CursorInShard, Acquiring
  <2> QED
    BY Zenon, <1>1, <2>1 DEF WithinTarget
<1>6. CASE \E s \in Shard : Release(w, s) \/ ReleaseError(w, s)
  <2>1. pc[w] = "release" /\ pc'[w] \in {"release", "down"}
    BY Zenon, <1>6 DEF Release, ReleaseError, Released, TypeInv, TypeOK
  <2> QED
    BY Zenon, <1>1, <2>1 DEF WithinTarget
<1> QED
  BY Zenon, <1>2, <1>3, <1>4, <1>5, <1>6

LEMMA TargetStep == TypeInv /\ TypeInv' /\ TargetInv /\ [Next]_vars => TargetInv'
<1> SUFFICES ASSUME TypeInv, TypeInv', TargetInv, [Next]_vars PROVE TargetInv'
  BY Zenon
<1>1. ASSUME UNCHANGED <<owned, pc, cursor, reading>> PROVE TargetInv'
  BY Zenon, <1>1 DEF TargetInv, WithinTarget, OwnedShards, OwnedBy
<1>2. CASE UNCHANGED vars \/ Tick
  BY Zenon, <1>1, <1>2 DEF vars, Tick
<1>3. ASSUME NEW w \in Worker, Manager(w) \/ Fault(w) PROVE TargetInv'
  <2>1. WithinTarget(w)
    BY Zenon DEF TargetInv
  <2>2. WithinTarget(w)'
    BY Zenon, <1>3, <2>1, AcquireWithin, RenewWithin, RenewOneWithin, EndWithin, RestWithin DEF Manager, Fault
  <2> QED
    BY Zenon, <1>3, <2>2, OthersKeep, OthersWithin
<1> QED
  BY Zenon, <1>2, <1>3 DEF Next

\* A manager never holds more than ceil(numShards / replicaCount) leases, on
\* either backend and whatever fails: the release half of rebalanceIfNeeded
\* is unreachable while the number of replicas is fixed.
THEOREM TargetKept == Spec => []OwnedWithinTarget
<1>1. Init => TypeInv /\ TargetInv
  <2> SUFFICES ASSUME Init, NEW w \in Worker PROVE WithinTarget(w)
    BY Zenon, TypeInit DEF TargetInv
  <2>1. OwnedShards(w) = {} /\ pc[w] = "down"
    BY Zenon DEF Init, OwnedShards, OwnedBy
  <2> QED
    BY <2>1, FS_EmptySet, TargetPositive DEF WithinTarget
<1>2. TypeInv /\ TargetInv /\ [Next]_vars => (TypeInv /\ TargetInv)'
  BY Zenon, TypeStep, TargetStep
<1>3. TargetInv => OwnedWithinTarget
  BY Zenon DEF TargetInv, WithinTarget, OwnedWithinTarget
<1> QED
  BY <1>1, <1>2, <1>3, PTL DEF Spec
=============================================================================
