------------------------------- MODULE Batches -------------------------------
(***************************************************************************)
(* Batches of committed inbox entries.  A worker's tick lists entries that *)
(* are in no batch, groups them by partition key, evaluates every ready    *)
(* group as one synthesized event and records the batch run.  A batch id   *)
(* is a hash of its member ids: here, the set of its members.  A batch may *)
(* also be asked for by its members, through CreateBatch.                  *)
(*                                                                         *)
(* Configuration validation only accepts the mode "none" so far, and the   *)
(* API process has no event processor for manual batches; the module shows *)
(* what the service does in the other modes and with a processor.          *)
(***************************************************************************)
EXTENDS Integers, FiniteSets

CONSTANTS NEntries,     \* inbox entries 1 .. NEntries, in the order of first_seen_at
          Grouping,     \* functions from entries to (tenant, partition key, rule set)
          BtWorker,
          MaxBatch,
          ListFactor,   \* 10 in the code: a tick lists MaxBatch * ListFactor entries
          MaxManual     \* bound: manual batches, for each mode

\* Without a positive MaxBatch nothing accumulates and a window has no limit.
ASSUME BatchesAssumption == NEntries \in Nat /\ MaxBatch \in Nat \ {0} /\ ListFactor \in Nat

VARIABLES
    btBackend,    \* "postgres" or "mongo"
    btMode,       \* "accumulate" or "window"
    batchCol,     \* per entry: Absent until committed, then its batch_id column
    group,        \* the function of Grouping that the entries follow
    aged,         \* entries whose window has passed
    leaseOf,      \* the worker that holds the shards' lease in the store
    ownView,      \* workers whose view says they own it
    tick,         \* per worker: its tick, or a manual request to it, in progress
    executed,     \* batch ids with an execution (the batch events' own inbox)
    runs,         \* batch ids with a completed run
    disordered,   \* history: an entry committed after one of its group seen later
    manuals       \* manual batches asked for (the bound)

setting == <<btBackend, btMode, group>>    \* chosen once

btVars == <<btBackend, btMode, group, batchCol, aged, leaseOf, ownView, tick, executed, runs,
            disordered, manuals>>

Entry == 1..NEntries

\* Values of the column that are no batch: sets without an entry.
Absent  == {}      \* the entry is not committed yet
Unbatched    == {0}     \* no batch
EmptyID == {-1}    \* '', what Insert writes for an event outside a batch

\* A tick's locals: the groups it has still to look at, whether they were named by
\* hand, and the current batch.  Bound: one call per worker at a time.
NoTick == [step |-> "idle", groups |-> {}, manual |-> FALSE, batch |-> {}]

BtInit ==
    /\ btBackend \in {"postgres", "mongo"}
    /\ btMode \in {"accumulate", "window"}
    /\ group \in Grouping
    /\ batchCol = [e \in Entry |-> Absent]
    /\ aged = {} /\ executed = {} /\ runs = {} /\ disordered = FALSE
    /\ manuals = 0
    /\ leaseOf \in BtWorker /\ ownView = {leaseOf}
    /\ tick = [w \in BtWorker |-> NoTick]

\* An event is processed and its inbox entry committed.  The Go worker's Insert
\* passes the empty BatchID to PostgreSQL as '', and leaves the field out of the
\* MongoDB document; the Rust worker leaves the column NULL.
CommitEntry(e, writer) ==
    /\ batchCol[e] = Absent
    /\ batchCol' = [batchCol EXCEPT ![e] =
                      IF btBackend = "postgres" /\ writer = "go" THEN EmptyID ELSE Unbatched]
    /\ disordered' = (disordered \/ \E f \in Entry : /\ f > e /\ group[f] = group[e]
                                                     /\ batchCol[f] # Absent)
    /\ UNCHANGED <<setting, aged, leaseOf, ownView, tick, executed, runs, manuals>>

\* The window of an entry passes; it passed before for every entry seen earlier.
Age(e) ==
    /\ btMode = "window" /\ e \notin aged /\ 1..(e - 1) \subseteq aged
    /\ aged' = aged \cup {e}
    /\ UNCHANGED <<setting, batchCol, leaseOf, ownView, tick, executed, runs, disordered, manuals>>

\* The lease passes to another worker; the former holder may learn of it late.
LeaseMoves(w) ==
    /\ w # leaseOf
    /\ leaseOf' = w /\ ownView' = ownView \cup {w}
    /\ UNCHANGED <<setting, batchCol, aged, tick, executed, runs, disordered, manuals>>

ViewRefreshed(w) ==
    /\ w \in ownView \ {leaseOf}
    /\ ownView' = ownView \ {w}
    /\ UNCHANGED <<setting, batchCol, aged, leaseOf, tick, executed, runs, disordered, manuals>>

-----------------------------------------------------------------------------
\* The oldest n of a set of entries.
Oldest(S, n) == {e \in S : Cardinality({f \in S : f < e}) < n}

ListUnbatched(limit) == Oldest({e \in Entry : batchCol[e] = Unbatched}, limit)

\* The groups of the listed entries.
groupInboxEntries(entries) ==
    {{e \in entries : group[e] = g} : g \in {group[e] : e \in entries}}

\* The order of the groups is that of their oldest entries.
ComesFirst(members, groups) ==
    \A other \in groups : \E e \in members : \A f \in other : e <= f

BatchTick(w) ==
    /\ tick[w].step = "idle"
    /\ LET groups == groupInboxEntries(ListUnbatched(MaxBatch * ListFactor)) IN
         /\ groups # {}
         /\ tick' = [tick EXCEPT ![w] = [NoTick EXCEPT !.step = "groups", !.groups = groups]]
    /\ UNCHANGED <<setting, batchCol, aged, leaseOf, ownView, executed, runs, disordered, manuals>>

ready(members) ==
    \/ btMode = "accumulate" /\ Cardinality(members) >= MaxBatch
    \/ btMode = "window" /\ Oldest(members, 1) \subseteq aged

\* A mistake: the newest members are kept.
KeepNewest(members) == {e \in members : Cardinality({f \in members : f > e}) < MaxBatch}

limitBatchMembers(members) == Oldest(members, MaxBatch)

\* The loop goes on with the groups that are left, or the call returns.
NextGroup(w, groups) ==
    tick' = [tick EXCEPT ![w] = IF groups = {} THEN NoTick
                                ELSE [@ EXCEPT !.step = "groups", !.groups = groups, !.batch = {}]]

ownsPartition(w) == w \in ownView

\* One turn of the loop over the groups, up to the lookup of the run; a manual
\* batch need be neither ready nor of an owned partition to get there.
processReadyGroups(w) ==
    /\ tick[w].step = "groups"
    /\ \E members \in tick[w].groups :
         LET batch == limitBatchMembers(members)
             rest == tick[w].groups \ {members} IN
         /\ ComesFirst(members, tick[w].groups)
         /\ IF ~tick[w].manual /\ (~ready(members) \/ ~ownsPartition(w))
            THEN NextGroup(w, rest)
            ELSE tick' = [tick EXCEPT ![w].step = IF batch \in runs THEN "recover" ELSE "process",
                                      ![w].groups = rest, ![w].batch = batch]
    /\ UNCHANGED <<setting, batchCol, aged, leaseOf, ownView, executed, runs, disordered, manuals>>

\* What a manual request may name: some entries, at most MaxBatch, none twice.
validateManualBatchRequest(S) == S # {} /\ Cardinality(S) <= MaxBatch

\* Entries of one tenant, partition and rule set that are committed and unbatched.
ListUnbatchedByIDs(S, g) == {e \in S : group[e] = g /\ batchCol[e] = Unbatched}

\* All the entries named must be found.
loadManualBatchMembers(S, g) == ListUnbatchedByIDs(S, g) = S

\* A manual batch is one group to process.  A request that is refused changes
\* nothing.
CreateBatch(w, S) ==
    /\ tick[w].step = "idle"
    /\ validateManualBatchRequest(S)
    /\ \E e \in S : loadManualBatchMembers(S, group[e])
    /\ tick' = [tick EXCEPT ![w] = [NoTick EXCEPT !.step = "groups", !.groups = {S}, !.manual = TRUE]]
    /\ manuals < MaxManual[btMode] /\ manuals' = manuals + 1
    /\ UNCHANGED <<setting, batchCol, aged, leaseOf, ownView, executed, runs, disordered>>

\* processBatchEnvelope: the batch event runs once, whoever processes it again
\* gets the execution that is stored.  The lease row is compared in PostgreSQL;
\* MongoDB reads it outside the write set, and a stale owner may commit.  A rule
\* set that is not active skips the group, any other failure ends the tick.
processBatchEnvelope(w) ==
    /\ tick[w].step = "process"
    /\ \/ /\ ownsPartition(w) /\ (leaseOf = w \/ btBackend = "mongo")
          /\ executed' = executed \cup {tick[w].batch}
          /\ tick' = [tick EXCEPT ![w].step = "complete"]
       \/ /\ UNCHANGED executed
          /\ NextGroup(w, tick[w].groups) \/ NextGroup(w, {})
    /\ UNCHANGED <<setting, batchCol, aged, leaseOf, ownView, runs, disordered, manuals>>

\* associateBatchMembers: every member is free, or in this very batch.
associateBatchMembers(batch) == \A e \in batch : batchCol[e] \in {Unbatched, batch}

\* The column once the batch is stored.
membersOf(batch) == [e \in Entry |-> IF e \in batch THEN batch ELSE batchCol[e]]

\* CompleteBatch: run and membership in one transaction, which a conflict undoes.
\* The tick goes on after it, and ends with a conflict.
CompleteBatch(w, batch) ==
    /\ IF associateBatchMembers(batch)
       THEN /\ batchCol' = membersOf(batch)
            /\ runs' = runs \cup {batch}
            /\ NextGroup(w, tick[w].groups)
       ELSE NextGroup(w, {}) /\ UNCHANGED <<batchCol, runs>>
    /\ UNCHANGED <<setting, aged, leaseOf, ownView, executed, disordered, manuals>>

\* The run of the batch just executed.
completeGroup(w) == tick[w].step = "complete" /\ CompleteBatch(w, tick[w].batch)

\* The run was there already: its membership is completed again.
recoverCompletedBatch(w) == tick[w].step = "recover" /\ CompleteBatch(w, tick[w].batch)

\* A repository call fails or the worker dies: the tick ends where it stands,
\* possibly after the execution and before the run.
AbandonTick(w) ==
    /\ tick[w].step # "idle"
    /\ tick' = [tick EXCEPT ![w] = NoTick]
    /\ UNCHANGED <<setting, batchCol, aged, leaseOf, ownView, executed, runs, disordered, manuals>>

BtNext ==
    \/ \E e \in Entry : CommitEntry(e, "go") \/ CommitEntry(e, "rust") \/ Age(e)
    \/ \E w \in BtWorker :
         \/ LeaseMoves(w) \/ ViewRefreshed(w)
         \/ BatchTick(w) \/ \E S \in SUBSET Entry : CreateBatch(w, S)
         \/ processReadyGroups(w) \/ processBatchEnvelope(w) \/ completeGroup(w)
         \/ recoverCompletedBatch(w)
         \/ AbandonTick(w)

BtSpec == BtInit /\ [][BtNext]_btVars

-----------------------------------------------------------------------------
\* A completed run owns exactly its members: no entry is in two runs, none is
\* taken from a run by a later batch, and every run was executed, whatever
\* workers, stale leases, interrupted ticks and manual batches do.
RunsOwnMembers ==
    \A batch \in runs : /\ {e \in Entry : batchCol[e] = batch} = batch
                        /\ batch \in executed

\* While the entries of a group commit in the order they were first seen and no
\* batch is formed by hand, a retried tick of the accumulating mode forms the same
\* batch again (ComputeBatchID: it "reuses the same inbox key"), and no entry is
\* evaluated in two batches.  Not so in the window mode, where an entry that comes
\* between a tick and its retry joins the group and changes the batch's id.
NoEntryExecutedTwice ==
    btMode = "accumulate" /\ ~disordered /\ manuals = 0 =>
        \A a, b \in executed : a # b => a \cap b = {}

\* Both together: completed runs own their members, and in the accumulating mode
\* nothing runs twice.
BatchesRunOnce == RunsOwnMembers /\ NoEntryExecutedTwice
=============================================================================
