------------------------------ MODULE RustWorker ------------------------------
(***************************************************************************)
(* The Rust worker: it takes its shard leases once, when it starts, runs   *)
(* one consumer task per shard and subject, and stops as a whole when any  *)
(* task ends.  Events are processed in one PostgreSQL transaction that     *)
(* begins by locking the lease row FOR SHARE and comparing owner, token    *)
(* and expiry.  The workers share durable consumers, and JetStream         *)
(* redelivers whatever is not acknowledged in time.                        *)
(***************************************************************************)
EXTENDS Integers, FiniteSets

CONSTANTS RWorker,
          NumShards,
          Subject,         \* subjects per shard
          Message,
          Broken,          \* messages that do not decode, validate or route
          shardOf,         \* per message: its shard
          hashStart,       \* per worker: fnv1a32(worker id) % NumShards
          WorkerReplicas,
          MaxStarts        \* bound: process starts

VARIABLES
    rlease,     \* per shard: the lease row [owner, token, live]
    rproc,      \* per worker: "down", "acquiring", "running" or "stopping"
    rscan,      \* per worker: shards tried (acquiring) or released (stopping)
    rheld,      \* per worker and shard: the token it got, or 0
    rtask,      \* per worker and task: its step and message
    committed,  \* messages with a committed inbox entry
    executions, \* per message: executions committed
    quarantined,
    acked,      \* messages the broker has removed
    starts      \* process starts so far (the bound)

rVars == <<rlease, rproc, rscan, rheld, rtask, committed, executions, quarantined, acked, starts>>

Shard == 0..(NumShards - 1)
Task == Shard \X Subject
Nobody == "nobody"

NoWork == [step |-> "idle", msg |-> CHOOSE m \in Message : TRUE]
IdleTasks   == [t \in Task |-> NoWork]

RwInit ==
    /\ rlease = [s \in Shard |-> [owner |-> Nobody, token |-> 0, live |-> FALSE]]
    /\ rproc = [w \in RWorker |-> "down"]
    /\ rscan = [w \in RWorker |-> 0]
    /\ rheld = [w \in RWorker |-> [s \in Shard |-> 0]]
    /\ rtask = [w \in RWorker |-> IdleTasks]
    /\ committed = {} /\ quarantined = {} /\ acked = {}
    /\ executions = [m \in Message |-> 0]
    /\ starts = 0

store == <<committed, executions, quarantined, acked>>

-----------------------------------------------------------------------------
\* The lease table.

\* A mistake: the lease row is read without FOR SHARE.
LeaseNeverLocked(s) == FALSE

\* Transactions that have asserted the lease hold the row until they end.
ShareLocked(s) == \E w \in RWorker, j \in Subject : rtask[w][<<s, j>>].step \in {"asserted", "inserted"}

\* Time passes a lease that was not renewed.
Expire(s) ==
    /\ rlease[s].live
    /\ rlease' = [rlease EXCEPT ![s].live = FALSE]
    /\ UNCHANGED <<rproc, rscan, rheld, rtask, store, starts>>

\* An expired lease changes hands with the next token; a live one is returned to
\* its own owner as it is.
Acquired(row, w) == IF row.live THEN row ELSE [owner |-> w, token |-> row.token + 1, live |-> TRUE]

HoldsLease(w, s) == rlease[s] = [owner |-> w, token |-> rheld[w][s], live |-> TRUE]

-----------------------------------------------------------------------------
\* The process.

Start(w) ==
    /\ rproc[w] = "down" /\ starts < MaxStarts
    /\ starts' = starts + 1
    /\ rproc' = [rproc EXCEPT ![w] = "acquiring"]
    /\ rscan' = [rscan EXCEPT ![w] = 0]
    /\ rheld' = [rheld EXCEPT ![w] = [s \in Shard |-> 0]]
    /\ UNCHANGED <<rlease, rtask, store>>

Owned(w) == {s \in Shard : rheld[w][s] # 0}

target == (NumShards + WorkerReplicas - 1) \div WorkerReplicas

\* One turn of acquire_initial_leases, which passes over the shards once; an
\* attempt that fails is passed over too.  Without any lease the worker exits.
acquire_initial_leases(w) ==
    LET s == (hashStart[w] + rscan[w]) % NumShards
        row == Acquired(rlease[s], w) IN
    /\ rproc[w] = "acquiring"
    /\ IF rscan[w] = NumShards \/ Cardinality(Owned(w)) >= target
       THEN /\ rproc' = [rproc EXCEPT ![w] = IF Owned(w) = {} THEN "down" ELSE "running"]
            /\ UNCHANGED <<rlease, rscan, rheld>>
       ELSE /\ rscan' = [rscan EXCEPT ![w] = @ + 1]
            /\ UNCHANGED rproc
            /\ \/ /\ ~ShareLocked(s)
                  /\ rlease' = [rlease EXCEPT ![s] = row]
                  /\ rheld' = [rheld EXCEPT ![w][s] = IF row.owner = w THEN row.token ELSE 0]
               \/ UNCHANGED <<rlease, rheld>>
    /\ UNCHANGED <<rtask, store, starts>>

\* A task ends, or the process is told to stop: every task is aborted, and its
\* open transaction with it.
Stopping(w) ==
    /\ rproc' = [rproc EXCEPT ![w] = "stopping"]
    /\ rscan' = [rscan EXCEPT ![w] = 0]
    /\ rtask' = [rtask EXCEPT ![w] = IdleTasks]

wait_for_shutdown(w) ==
    /\ rproc[w] = "running" /\ Stopping(w)
    /\ UNCHANGED <<rlease, rheld, store, starts>>

\* The leases are released by owner, each in a statement of its own that may fail.
release_owned_leases(w) ==
    LET s == rscan[w] IN
    /\ rproc[w] = "stopping"
    /\ IF s = NumShards
       THEN rproc' = [rproc EXCEPT ![w] = "down"] /\ UNCHANGED <<rlease, rscan>>
       ELSE /\ rscan' = [rscan EXCEPT ![w] = @ + 1]
            /\ UNCHANGED rproc
            /\ \/ /\ s \in Owned(w) /\ rlease[s].owner = w /\ ~ShareLocked(s)
                  /\ rlease' = [rlease EXCEPT ![s].live = FALSE]
               \/ UNCHANGED rlease
    /\ UNCHANGED <<rheld, rtask, store, starts>>

\* The process dies; its leases stay until they expire.
Crash(w) ==
    /\ rproc[w] # "down"
    /\ rproc' = [rproc EXCEPT ![w] = "down"]
    /\ rtask' = [rtask EXCEPT ![w] = IdleTasks]
    /\ UNCHANGED <<rlease, rscan, rheld, store, starts>>

-----------------------------------------------------------------------------
\* The consumer task t = <<shard, subject>> of worker w.

At(w, t, step) == rproc[w] = "running" /\ t[1] \in Owned(w) /\ rtask[w][t].step = step

TaskGoto(w, t, step) == rtask' = [rtask EXCEPT ![w][t].step = step]

\* The message stays with the broker and is delivered again: a Nak.
retry_event_later(w, t) == TaskGoto(w, t, "idle")

\* The renewal tick; a lost lease ends the task, and with it the worker.
renew_shard_lease(w, t) ==
    /\ At(w, t, "idle")
    /\ ~HoldsLease(w, t[1])
    /\ Stopping(w)
    /\ UNCHANGED <<rlease, rheld, store, starts>>

\* A message not acknowledged is delivered, first or again.  One that does not
\* decode, validate or belong to the shard goes to the quarantine.
handle_message(w, t, m) ==
    /\ At(w, t, "idle") /\ m \notin acked /\ shardOf[m] = t[1]
    /\ rtask' = [rtask EXCEPT ![w][t] = [step |-> IF m \in Broken THEN "quarantine" ELSE "begin",
                                         msg |-> m]]
    /\ UNCHANGED <<rlease, rproc, rscan, rheld, store, starts>>

assert_lease(w, t) ==
    /\ At(w, t, "begin")
    /\ IF HoldsLease(w, t[1]) THEN TaskGoto(w, t, "asserted") ELSE retry_event_later(w, t)
    /\ UNCHANGED <<rlease, rproc, rscan, rheld, store, starts>>

\* Another open transaction has inserted the message's inbox entry.
InboxLocked(m) == \E w \in RWorker, t \in Task : rtask[w][t] = [step |-> "inserted", msg |-> m]

\* ON CONFLICT DO NOTHING waits for the other insert; an entry that is there is
\* a duplicate, acknowledged because its execution is there too.
insert_inbox(w, t) ==
    LET m == rtask[w][t].msg IN
    /\ At(w, t, "asserted") /\ ~InboxLocked(m)
    /\ TaskGoto(w, t, IF m \in committed THEN "ack" ELSE "inserted")
    /\ UNCHANGED <<rlease, rproc, rscan, rheld, store, starts>>

\* persist_new_event and the commit.  Without an active revision, or when a
\* statement fails, the event is retried; a permanent error quarantines it.
\* Both roll the transaction back.
persist_new_event(w, t) ==
    LET m == rtask[w][t].msg IN
    /\ At(w, t, "inserted")
    /\ \/ /\ committed' = committed \cup {m}
          /\ executions' = [executions EXCEPT ![m] = @ + 1]
          /\ TaskGoto(w, t, "ack")
       \/ retry_event_later(w, t) /\ UNCHANGED <<committed, executions>>
       \/ TaskGoto(w, t, "quarantine") /\ UNCHANGED <<committed, executions>>
    /\ UNCHANGED <<rlease, rproc, rscan, rheld, quarantined, acked, starts>>

\* A mistake: the message is acknowledged whether or not the record was stored.
AckFirst(w, t) ==
    /\ At(w, t, "quarantine") /\ TaskGoto(w, t, "ack")
    /\ UNCHANGED <<rlease, rproc, rscan, rheld, store, starts>>

\* The record is stored, or the failure to store it ends the task.
persist_quarantine(w, t) ==
    /\ At(w, t, "quarantine")
    /\ \/ /\ quarantined' = quarantined \cup {rtask[w][t].msg}
          /\ TaskGoto(w, t, "ack") /\ UNCHANGED <<rproc, rscan>>
       \/ Stopping(w) /\ UNCHANGED quarantined
    /\ UNCHANGED <<rlease, rheld, committed, executions, acked, starts>>

\* An acknowledgement that fails ends the task too.
acknowledge_message(w, t) ==
    /\ At(w, t, "ack")
    /\ \/ /\ acked' = acked \cup {rtask[w][t].msg}
          /\ TaskGoto(w, t, "idle") /\ UNCHANGED <<rproc, rscan>>
       \/ Stopping(w) /\ UNCHANGED acked
    /\ UNCHANGED <<rlease, rheld, committed, executions, quarantined, starts>>

RwNext ==
    \/ \E s \in Shard : Expire(s)
    \/ \E w \in RWorker :
         \/ Start(w) \/ acquire_initial_leases(w) \/ wait_for_shutdown(w)
         \/ release_owned_leases(w) \/ Crash(w)
         \/ \E t \in Task :
              \/ renew_shard_lease(w, t) \/ assert_lease(w, t) \/ insert_inbox(w, t)
              \/ persist_new_event(w, t) \/ persist_quarantine(w, t) \/ acknowledge_message(w, t)
              \/ \E m \in Message : handle_message(w, t, m)

RwSpec == RwInit /\ [][RwNext]_rVars

-----------------------------------------------------------------------------
\* The FOR SHARE lock makes the lease check hold until the commit: an execution
\* commits only while the store still names this worker and its token.
FencedStep ==
    \A m \in Message : executions'[m] # executions[m] =>
        \E w \in RWorker, j \in Subject :
            LET s == shardOf[m] IN
            /\ rtask[w][<<s, j>>] = [step |-> "inserted", msg |-> m]
            /\ rlease[s].owner = w /\ rlease[s].token = rheld[w][s]

RustCommitsFenced == [][FencedStep]_rVars

\* Redelivery, two subjects and two workers never execute an event twice.
RustExecutesOnce == \A m \in Message : executions[m] <= 1

\* A message leaves the broker only once its execution or its quarantine record
\* is durable, so stopping or dying at any step loses no event.
RustAckedIsDurable == acked \subseteq {m \in Message : executions[m] > 0} \cup quarantined

\* Both together: no event is executed twice, and none is acknowledged before its
\* outcome is durable.
RustSettlesOnce == RustExecutesOnce /\ RustAckedIsDurable
=============================================================================
