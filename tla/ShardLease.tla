------------------------------- MODULE ShardLease -------------------------------
(***************************************************************************)
(* The lease manager (internal/runtime/shard/lease.go) of every worker     *)
(* over the shared lease table, with the PostgreSQL                        *)
(* (internal/adapters/postgres/shard.go) and the MongoDB                   *)
(* (internal/adapters/mongo/shard.go) repository.  Each database statement *)
(* is one step, so the managers of several workers interleave between any  *)
(* two of them.                                                            *)
(*                                                                         *)
(* Time is kept relative: left[s] is expires_at - NOW() in ticks, floored  *)
(* at -1, so `expires_at < NOW()' is left < 0 and `expires_at > NOW()' is  *)
(* left > 0.  A row nobody has inserted is an expired row with token 0:    *)
(* INSERT ... VALUES (.., 1, ..) and the takeover of an expired row then   *)
(* have the same effect.                                                   *)
(***************************************************************************)
EXTENDS Integers, FiniteSets

CONSTANTS
    Worker,        \* worker identities
    NumShards,     \* number of virtual shards
    ReplicaCount,  \* WORKER_REPLICAS: the fixed number of workers
    TTL,           \* lease duration in ticks
    StartShard,    \* [Worker -> Shard]: ShardHash(owner) % numShards
    Backends,      \* the stores considered: "postgres", "mongo" or both
    MaxFaults,     \* bound: crashes, stops, database errors and late renewals
    NoOwner        \* owner column of a missing row, and of one MongoDB released

Shard == 0 .. NumShards - 1

ASSUME ShardLeaseAssumption ==
    /\ NumShards \in Nat \ {0}
    /\ ReplicaCount \in Nat \ {0}
    /\ TTL \in Nat \ {0}
    /\ StartShard \in [Worker -> Shard]
    /\ Backends \subseteq {"postgres", "mongo"}
    /\ MaxFaults \in Nat
    /\ NoOwner \notin Worker

VARIABLES
    owner, token, left,  \* the lease table, a function of the shard each
    owned,     \* [Worker -> [Shard -> Nat]]: ownedShards, as fencing tokens; 0 for absent
    pc,        \* [Worker -> Phase]: where the worker's lease goroutine is
    cursor,    \* [Worker -> Nat]: loop index of Start, shard of rebalanceIfNeeded and of Renew
    reading,   \* [Worker -> BOOLEAN]: the write of Acquire or Renew is done, GetOwner is not
    pending,   \* [Worker -> SUBSET Shard]: rows RenewOwned returned; shards still to renew or release
    faults,    \* faults spent so far
    backend    \* the store of this deployment, chosen once

table == <<owner, token, left>>
vars == <<owner, token, left, owned, pc, cursor, reading, pending, faults, backend>>

Phase == {"down", "start", "idle", "renew", "renewed", "scan", "release"}

-----------------------------------------------------------------------------
OwnedBy(own, w) == {s \in Shard : own[w][s] # 0}
OwnedShards(w) == OwnedBy(owned, w)

TargetRoundedDown == NumShards \div ReplicaCount

\* ceil(numShards / replicaCount).  The source's last line, `target == 0 means
\* 1', is never reached: numShards > 0 is rounded up to at least 1.
TargetOwnedShards ==
    LET q == NumShards \div ReplicaCount
    IN  IF NumShards % ReplicaCount # 0 THEN q + 1 ELSE q

Faulty == faults < MaxFaults /\ faults' = faults + 1 /\ UNCHANGED backend

-----------------------------------------------------------------------------
(* The repositories: what each statement does to the rows.                 *)

SetRow(s, o, t, l) ==
    /\ owner' = [owner EXCEPT ![s] = o]
    /\ token' = [token EXCEPT ![s] = t]
    /\ left' = [left EXCEPT ![s] = l]

\* A mistake: the token starts again at a takeover.
PgAcquireRestarts(w, s) ==
    IF left[s] < 0 THEN SetRow(s, w, 1, TTL) ELSE UNCHANGED table

\* INSERT .. ON CONFLICT DO UPDATE with every column under CASE WHEN
\* expires_at < NOW(): an unexpired row, the owner's own included, is kept.
PgAcquire(w, s) ==
    IF left[s] < 0
    THEN SetRow(s, w, token[s] + 1, TTL)
    ELSE UNCHANGED table

\* A mistake: expires_at is compared with $lte.
MongoAcquirableEarly(w, s) == left[s] <= 0 \/ owner[s] = w

\* FindOneAndUpdate, upsert, on an expired row or the owner's own row; the
\* token is incremented in both cases.
MongoAcquirable(w, s) == left[s] < 0 \/ owner[s] = w
MongoAcquire(w, s) == SetRow(s, w, token[s] + 1, TTL)

\* The rows of w that still match owner, fencing token and expires_at > NOW().
Renewable(w) ==
    {s \in OwnedShards(w) : owner[s] = w /\ token[s] = owned[w][s] /\ left[s] > 0}

Extend(S) ==
    /\ left' = [s \in Shard |-> IF s \in S THEN TTL ELSE left[s]]
    /\ UNCHANGED <<owner, token>>

\* UPDATE .. SET expires_at = NOW() - 1ms WHERE virtual_shard AND owner.
PgRelease(w, s) ==
    IF owner[s] = w THEN SetRow(s, w, token[s], -1) ELSE UNCHANGED table

\* owner = "", expires_at = now: free once the clock has moved past it.
MongoRelease(w, s) ==
    IF owner[s] = w THEN SetRow(s, NoOwner, token[s], 0) ELSE UNCHANGED table

-----------------------------------------------------------------------------
(* The manager.                                                            *)

Init ==
    /\ owner = [s \in Shard |-> NoOwner]
    /\ token = [s \in Shard |-> 0]
    /\ left = [s \in Shard |-> -1]
    /\ owned = [w \in Worker |-> [s \in Shard |-> 0]]
    /\ pc = [w \in Worker |-> "down"]
    /\ cursor = [w \in Worker |-> 0]
    /\ reading = [w \in Worker |-> FALSE]
    /\ pending = [w \in Worker |-> {}]
    /\ faults = 0
    /\ backend \in Backends

\* The process starts, or restarts with the same worker id.
Start(w) ==
    /\ pc[w] = "down"
    /\ pc' = [pc EXCEPT ![w] = "start"]
    /\ cursor' = [cursor EXCEPT ![w] = 0]
    /\ UNCHANGED <<table, owned, reading, pending, faults, backend>>

\* The shard the running acquire loop tries: the initial loop goes round from
\* the worker's start shard, the rebalance loop counts up.
Candidate(w) ==
    IF pc[w] = "start" THEN (StartShard[w] + cursor[w]) % NumShards ELSE cursor[w]

ScanFromUnlimited(own, w, c) == {s \in Shard : s >= c /\ own[w][s] = 0}

\* The shards the rebalance loop still has to try from shard c on.
ScanFrom(own, w, c) ==
    IF Cardinality(OwnedBy(own, w)) >= TargetOwnedShards
    THEN {}
    ELSE {s \in Shard : s >= c /\ own[w][s] = 0}

Least(S) == CHOOSE x \in S : \A y \in S : x <= y

\* rebalanceIfNeeded from shard c on, with ownedShards = own.  Its first half,
\* releasing shards above the target, is not reached: see OwnedWithinTarget.
RebalanceIfNeeded(own, w, c) ==
    LET S == ScanFrom(own, w, c)
    IN  IF S = {}
        THEN pc' = [pc EXCEPT ![w] = "idle"] /\ cursor' = [cursor EXCEPT ![w] = 0]
        ELSE pc' = [pc EXCEPT ![w] = "scan"] /\ cursor' = [cursor EXCEPT ![w] = Least(S)]

\* The acquire loop moves on after one candidate.
NextCandidate(own, w) ==
    IF pc[w] = "start"
    THEN LET more == cursor[w] + 1 < TargetOwnedShards
         IN  /\ pc' = [pc EXCEPT ![w] = IF more THEN "start" ELSE "idle"]
             /\ cursor' = [cursor EXCEPT ![w] = IF more THEN @ + 1 ELSE 0]
    ELSE RebalanceIfNeeded(own, w, cursor[w] + 1)

Acquiring(w) == pc[w] \in {"start", "scan"}

\* acquireShard over PostgreSQL: the upsert, then GetOwner as a second statement.
AcquireUpsert(w) ==
    /\ backend = "postgres"
    /\ Acquiring(w) /\ ~reading[w]
    /\ PgAcquire(w, Candidate(w))
    /\ reading' = [reading EXCEPT ![w] = TRUE]
    /\ UNCHANGED <<owned, pc, cursor, pending, faults, backend>>

AcquireReadUnchecked(w) ==
    /\ Acquiring(w) /\ reading[w]
    /\ LET own == [owned EXCEPT ![w][Candidate(w)] = token[Candidate(w)]]
       IN  owned' = own /\ NextCandidate(own, w)
    /\ reading' = [reading EXCEPT ![w] = FALSE]
    /\ UNCHANGED <<table, pending, faults, backend>>

AcquireRead(w) ==
    /\ Acquiring(w) /\ reading[w]
    /\ LET s == Candidate(w)
           own == IF owner[s] = w THEN [owned EXCEPT ![w][s] = token[s]] ELSE owned
       IN  owned' = own /\ NextCandidate(own, w)
    /\ reading' = [reading EXCEPT ![w] = FALSE]
    /\ UNCHANGED <<table, pending, faults, backend>>

\* acquireShard over MongoDB: one atomic operation; a duplicate key is
\* ErrLeaseOwnedByOther and the loop goes on.
AcquireAtomic(w) ==
    /\ backend = "mongo"
    /\ Acquiring(w)
    /\ LET s == Candidate(w)
       IN  IF MongoAcquirable(w, s)
           THEN LET own == [owned EXCEPT ![w][s] = token[s] + 1]
                IN  MongoAcquire(w, s) /\ owned' = own /\ NextCandidate(own, w)
           ELSE UNCHANGED <<table, owned>> /\ NextCandidate(owned, w)
    /\ UNCHANGED <<reading, pending, faults, backend>>

\* Either statement of Acquire fails, or the answer of the one that took the
\* row is lost: the shard is skipped.
AcquireError(w) ==
    /\ Acquiring(w)
    /\ Faulty
    /\ \/ UNCHANGED table
       \/ /\ backend = "mongo"
          /\ MongoAcquirable(w, Candidate(w)) /\ MongoAcquire(w, Candidate(w))
    /\ NextCandidate(owned, w)
    /\ reading' = [reading EXCEPT ![w] = FALSE]
    /\ UNCHANGED <<owned, pending>>

\* renewOwned with a batch renewer: one UPDATE .. RETURNING for all leases.
RenewOwned(w) ==
    /\ backend = "postgres"
    /\ pc[w] = "idle"
    /\ Extend(Renewable(w))
    /\ pending' = [pending EXCEPT ![w] = Renewable(w)]
    /\ pc' = [pc EXCEPT ![w] = "renewed"]
    /\ UNCHANGED <<owned, cursor, reading, faults, backend>>

ApplyBatchRenewalsKeeps(w) ==
    /\ pc[w] = "renewed"
    /\ RebalanceIfNeeded(owned, w, 0)
    /\ pending' = [pending EXCEPT ![w] = {}]
    /\ UNCHANGED <<table, owned, reading, faults, backend>>

\* applyBatchRenewals drops what the batch did not return, then rebalances.
ApplyBatchRenewals(w) ==
    /\ pc[w] = "renewed"
    /\ LET own == [owned EXCEPT ![w] = [s \in Shard |-> IF s \in pending[w] THEN @[s] ELSE 0]]
       IN  owned' = own /\ RebalanceIfNeeded(own, w, 0)
    /\ pending' = [pending EXCEPT ![w] = {}]
    /\ UNCHANGED <<table, reading, faults, backend>>

\* The batch was applied but its answer is lost: nothing local changes and
\* there is no rebalance.
RenewOwnedError(w) ==
    /\ pc[w] = "renewed"
    /\ Faulty
    /\ pending' = [pending EXCEPT ![w] = {}]
    /\ pc' = [pc EXCEPT ![w] = "idle"]
    /\ UNCHANGED <<table, owned, cursor, reading>>

\* renewOwnedIndividually: a pass over the shards owned when it began.
RenewIndividually(w) ==
    /\ backend = "mongo"
    /\ pc[w] = "idle"
    /\ pending' = [pending EXCEPT ![w] = OwnedShards(w)]
    /\ pc' = [pc EXCEPT ![w] = "renew"]
    /\ UNCHANGED <<table, owned, cursor, reading, faults, backend>>

\* Renew of one shard: the conditional update; if it matches nothing the
\* shard is dropped at once, otherwise GetOwner follows.
RenewOne(w, s) ==
    /\ pc[w] = "renew" /\ ~reading[w]
    /\ s \in pending[w]
    /\ pending' = [pending EXCEPT ![w] = @ \ {s}]
    /\ IF s \in Renewable(w)
       THEN /\ Extend({s})
            /\ reading' = [reading EXCEPT ![w] = TRUE]
            /\ cursor' = [cursor EXCEPT ![w] = s]
            /\ UNCHANGED owned
       ELSE /\ owned' = [owned EXCEPT ![w][s] = 0]
            /\ UNCHANGED <<table, reading, cursor>>
    /\ UNCHANGED <<pc, faults, backend>>

\* GetOwner after the update: whatever row it finds becomes the local lease.
RenewOneRead(w) ==
    /\ pc[w] = "renew" /\ reading[w]
    /\ owned' = [owned EXCEPT ![w][cursor[w]] = token[cursor[w]]]
    /\ reading' = [reading EXCEPT ![w] = FALSE]
    /\ UNCHANGED <<table, pc, cursor, pending, faults, backend>>

\* A transient error of either call keeps the local lease.
RenewOneError(w) ==
    /\ pc[w] = "renew"
    /\ Faulty
    /\ \/ reading[w] /\ UNCHANGED pending
       \/ ~reading[w] /\ \E s \in pending[w] : pending' = [pending EXCEPT ![w] = @ \ {s}]
    /\ reading' = [reading EXCEPT ![w] = FALSE]
    /\ UNCHANGED <<table, owned, pc, cursor>>

RenewPassDone(w) ==
    /\ pc[w] = "renew" /\ ~reading[w]
    /\ pending[w] = {}
    /\ RebalanceIfNeeded(owned, w, 0)
    /\ UNCHANGED <<table, owned, reading, pending, faults, backend>>

\* Stop: the renewal loop has ended, ownedShards is emptied, the rows follow.
Stop(w) ==
    /\ pc[w] = "idle"
    /\ Faulty
    /\ owned' = [owned EXCEPT ![w] = [s \in Shard |-> 0]]
    /\ pending' = [pending EXCEPT ![w] = OwnedShards(w)]
    /\ pc' = [pc EXCEPT ![w] = IF OwnedShards(w) = {} THEN "down" ELSE "release"]
    /\ UNCHANGED <<table, cursor, reading>>

Released(w, s) ==
    /\ pc[w] = "release"
    /\ s \in pending[w]
    /\ pending' = [pending EXCEPT ![w] = @ \ {s}]
    /\ pc' = [pc EXCEPT ![w] = IF pending[w] = {s} THEN "down" ELSE @]
    /\ UNCHANGED <<owned, cursor, reading>>

Release(w, s) ==
    /\ Released(w, s)
    /\ IF backend = "postgres" THEN PgRelease(w, s) ELSE MongoRelease(w, s)
    /\ UNCHANGED <<faults, backend>>

\* A failed release is logged and skipped (one fault with the stop).
ReleaseError(w, s) == Released(w, s) /\ UNCHANGED <<table, faults, backend>>

\* The process dies between any two statements.
Crash(w) ==
    /\ pc[w] # "down"
    /\ Faulty
    /\ owned' = [owned EXCEPT ![w] = [s \in Shard |-> 0]]
    /\ pc' = [pc EXCEPT ![w] = "down"]
    /\ cursor' = [cursor EXCEPT ![w] = 0]
    /\ reading' = [reading EXCEPT ![w] = FALSE]
    /\ pending' = [pending EXCEPT ![w] = {}]
    /\ UNCHANGED table

\* The lease is one a running worker is keeping alive or is about to record.
Tended(s) ==
    \E w \in Worker :
        /\ owner[s] = w /\ pc[w] \notin {"down", "release"}
        /\ \/ owned[w][s] = token[s]
           \/ Acquiring(w) /\ reading[w] /\ Candidate(w) = s

\* The renewal interval is a third of the TTL, so a tick that ends a tended
\* lease means that its worker or its connection stalled: that is a fault.
Tick ==
    /\ IF \E s \in Shard : left[s] = 1 /\ Tended(s) THEN Faulty ELSE UNCHANGED <<faults, backend>>
    /\ left' = [s \in Shard |-> IF left[s] < 0 THEN left[s] ELSE left[s] - 1]
    /\ UNCHANGED <<owner, token, owned, pc, cursor, reading, pending>>

Manager(w) ==
    \/ Start(w)
    \/ AcquireUpsert(w) \/ AcquireRead(w) \/ AcquireAtomic(w)
    \/ RenewOwned(w) \/ ApplyBatchRenewals(w)
    \/ RenewIndividually(w) \/ RenewOneRead(w) \/ RenewPassDone(w)
    \/ \E s \in Shard : RenewOne(w, s) \/ Release(w, s)

Fault(w) ==
    \/ AcquireError(w) \/ RenewOwnedError(w) \/ RenewOneError(w)
    \/ Stop(w) \/ Crash(w)
    \/ \E s \in Shard : ReleaseError(w, s)

Next == Tick \/ \E w \in Worker : Manager(w) \/ Fault(w)

Spec == Init /\ [][Next]_vars

\* The manager's goroutine is always scheduled, a stopped or crashed process
\* is restarted (restart: unless-stopped), and the clock moves on.
FairSpec == Spec /\ WF_vars(Tick) /\ \A w \in Worker : WF_vars(Manager(w))
-----------------------------------------------------------------------------
(* Properties.                                                             *)

TypeOK ==
    /\ owner \in [Shard -> Worker \cup {NoOwner}]
    /\ token \in [Shard -> Nat]
    /\ left \in [Shard -> -1 .. TTL]
    /\ owned \in [Worker -> [Shard -> Nat]]
    /\ pc \in [Worker -> Phase]
    /\ cursor \in [Worker -> Nat]
    /\ reading \in [Worker -> BOOLEAN]
    /\ pending \in [Worker -> SUBSET Shard]
    /\ faults \in 0 .. MaxFaults
    /\ backend \in Backends

\* No two workers ever hold the same fencing token of a shard in ownedShards,
\* whatever crashes, restarts, lost answers and late renewals came before:
\* the token alone tells the current holder from every earlier one.  Over
\* MongoDB the read that ends a renewal may store another worker's lease.
HolderUnique ==
    backend = "postgres" => \A v, w \in Worker, s \in Shard :
        v # w /\ owned[v][s] # 0 => owned[v][s] # owned[w][s]

\* A manager never holds more than its target, so the release half of
\* rebalanceIfNeeded is never taken while WORKER_REPLICAS is fixed.
OwnedWithinTarget ==
    \A w \in Worker : Cardinality(OwnedShards(w)) <= TargetOwnedShards

\* What Acquire and Release may do to a row: the fencing token never goes
\* back, and a worker becomes the owner in place of another only when the
\* lease had lapsed (expires_at < NOW()) and with a larger token.
HandoverIsFenced ==
    [][\A s \in Shard :
        /\ token'[s] >= token[s]
        /\ owner'[s] # owner[s] /\ owner'[s] \in Worker =>
               left[s] < 0 /\ token'[s] > token[s]]_vars

\* The lease manager over PostgreSQL implements the abstract fenced lease: what
\* LeaseSpec says of the initial state and of every step (the backend is chosen
\* once, so this is LeaseSpec for the behaviours over PostgreSQL).
Lease == INSTANCE FencedLease WITH live <- [s \in Shard |-> left[s] >= 0], held <- owned
LeaseStep == Lease!LeaseNext \/ UNCHANGED Lease!leaseVars
ImplementsFencedLease ==
    /\ backend = "postgres" => Lease!LeaseInit
    /\ [][backend = "postgres" => LeaseStep]_vars

\* Some running worker holds an unexpired lease on the shard, and knows it.
Covered(s) ==
    \E w \in Worker : owner[s] = w /\ owned[w][s] = token[s] /\ left[s] > 0

\* Once faults cease, ceil(numShards/replicaCount) leases per worker end up
\* covering every shard for good: renewal keeps what rebalancing found.
EventuallyCovered == <>[](\A s \in Shard : Covered(s))

\* A worker that still lists a shard whose row names somebody else finds out:
\* the next renewal drops it (or it wins the row back).
StaleViewEnds ==
    \A w \in Worker, s \in Shard :
        owned[w][s] # 0 /\ owner[s] # w ~> owned[w][s] = 0 \/ owner[s] = w

=============================================================================
