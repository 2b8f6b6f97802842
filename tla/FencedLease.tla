------------------------------ MODULE FencedLease ------------------------------
(***************************************************************************)
(* What the shard-lease subsystem promises to the event processor: every   *)
(* shard has one lease row with an owner and a fencing token, a worker     *)
(* only ever learns a token from a row that names it, and the row changes  *)
(* hands only after the lease has lapsed and with a larger token.  Time is *)
(* reduced to the one bit that matters to a competitor: a lease is `live'  *)
(* while `expires_at < NOW()' is false.  ShardLease, the detailed model of *)
(* the lease manager over PostgreSQL, implements this specification; the   *)
(* event processor (EventProcessing) is composed with it.                  *)
(***************************************************************************)
EXTENDS Naturals

CONSTANTS
    Worker,    \* worker identities (config.WorkerID)
    Shard,     \* virtual shards
    NoOwner    \* the owner column of a row nobody has inserted yet

ASSUME NoOwnerAssumption == NoOwner \notin Worker

VARIABLES
    owner,     \* [Shard -> Worker or NoOwner]: the row's owner
    token,     \* [Shard -> Nat]: the row's fencing token; 0 before the first insert
    live,      \* [Shard -> BOOLEAN]: the lease has not lapsed
    held       \* [Worker -> [Shard -> Nat]]: the token a worker believes it holds; 0 for none

leaseVars == <<owner, token, live, held>>

LeaseInit ==
    /\ owner = [s \in Shard |-> NoOwner]
    /\ token = [s \in Shard |-> 0]
    /\ live = [s \in Shard |-> FALSE]
    /\ held = [w \in Worker |-> [s \in Shard |-> 0]]

\* A competitor takes a lapsed lease and the token moves on.
Claim(w, s) ==
    /\ ~live[s]
    /\ owner' = [owner EXCEPT ![s] = w]
    /\ token' = [token EXCEPT ![s] = @ + 1]
    /\ live' = [live EXCEPT ![s] = TRUE]
    /\ UNCHANGED held

\* The worker reads the row back and keeps its token if the row names it.
Learn(w, s) ==
    /\ owner[s] = w
    /\ held' = [held EXCEPT ![w][s] = token[s]]
    /\ UNCHANGED <<owner, token, live>>

\* Leases lapse: time passes, or an owner releases its row.
Lapse(S) ==
    /\ live' = [s \in Shard |-> live[s] /\ s \notin S]
    /\ UNCHANGED <<owner, token, held>>

\* The worker drops shards from its local view: a renewal that no longer
\* matches, an orderly stop, a crash.
Forget(w, S) ==
    /\ held' = [held EXCEPT ![w] = [s \in Shard |-> IF s \in S THEN 0 ELSE @[s]]]
    /\ UNCHANGED <<owner, token, live>>

LeaseNext ==
    \/ \E w \in Worker, s \in Shard : Claim(w, s) \/ Learn(w, s)
    \/ \E S \in SUBSET Shard : Lapse(S)
    \/ \E w \in Worker, S \in SUBSET Shard : Forget(w, S)

LeaseSpec == LeaseInit /\ [][LeaseNext]_leaseVars

-----------------------------------------------------------------------------
LeaseTypeOK ==
    /\ owner \in [Shard -> Worker \cup {NoOwner}]
    /\ token \in [Shard -> Nat]
    /\ live \in [Shard -> BOOLEAN]
    /\ held \in [Worker -> [Shard -> Nat]]

\* A worker's local token never runs ahead of the row, and whoever holds the
\* row's current token is the worker the row names.
HeldIsOwners ==
    \A w \in Worker, s \in Shard :
        /\ held[w][s] <= token[s]
        /\ held[w][s] = token[s] /\ token[s] > 0 => owner[s] = w

=============================================================================
