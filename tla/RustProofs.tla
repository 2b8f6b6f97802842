------------------------------ MODULE RustProofs ------------------------------
(***************************************************************************)
(* Proofs about the Rust worker, for any workers, shards, subjects and     *)
(* messages, and about its outbox and scheduler loops, for any publishers, *)
(* rows, attempts and batch size.                                          *)
(***************************************************************************)
EXTENDS RustWorker, RustPublishers, TLAPS

-----------------------------------------------------------------------------
(* The event path.                                                         *)

TaskSteps == {"idle", "begin", "asserted", "inserted", "quarantine", "ack"}

TaskJob == [step : TaskSteps, msg : Message \cup {NoWork.msg}]

RwTypeOK ==
    /\ rlease \in [Shard -> [owner : RWorker \cup {Nobody}, token : Nat, live : BOOLEAN]]
    /\ rproc \in [RWorker -> {"down", "acquiring", "running", "stopping"}]
    /\ rheld \in [RWorker -> [Shard -> Nat]]
    /\ rtask \in [RWorker -> [Task -> TaskJob]]
    /\ committed \subseteq Message /\ quarantined \subseteq Message /\ acked \subseteq Message
    /\ executions \in [Message -> Nat]

\* Only a running process has work in hand.
IdleUnlessRunning == \A w \in RWorker : rproc[w] # "running" => rtask[w] = IdleTasks

\* A task's message is one of its own shard.
OwnShard ==
    \A w \in RWorker, t \in Task : rtask[w][t].step # "idle" =>
        rtask[w][t].msg \in Message /\ shardOf[rtask[w][t].msg] = t[1]

\* The row lock keeps the lease as assert_lease found it.
LeaseKept ==
    \A w \in RWorker, t \in Task : rtask[w][t].step \in {"asserted", "inserted"} =>
        rlease[t[1]].owner = w /\ rlease[t[1]].token = rheld[w][t[1]]

\* The inbox entry and the execution are one commit.
CountedOnce == \A m \in Message : executions[m] = IF m \in committed THEN 1 ELSE 0

\* An open transaction that inserted an entry is the only one, and the first.
InsertedIsNew ==
    \A w \in RWorker, t \in Task : rtask[w][t].step = "inserted" =>
        /\ rtask[w][t].msg \notin committed
        /\ \A v \in RWorker, u \in Task :
              rtask[v][u].step = "inserted" /\ rtask[v][u].msg = rtask[w][t].msg => v = w /\ u = t

\* What is acknowledged, or about to be, is stored.
AckIsStored ==
    /\ \A w \in RWorker, t \in Task :
          rtask[w][t].step = "ack" => rtask[w][t].msg \in committed \cup quarantined
    /\ acked \subseteq committed \cup quarantined

RwInv ==
    RwTypeOK /\ IdleUnlessRunning /\ OwnShard /\ LeaseKept /\ CountedOnce /\ InsertedIsNew /\ AckIsStored

-----------------------------------------------------------------------------
\* Goto changes the step of one task.
LEMMA GotoEffect ==
    ASSUME RwTypeOK, NEW w \in RWorker, NEW t \in Task, NEW st \in TaskSteps, TaskGoto(w, t, st)
    PROVE  /\ rtask' \in [RWorker -> [Task -> TaskJob]]
           /\ \A v \in RWorker, u \in Task :
                 rtask'[v][u] = IF v = w /\ u = t THEN [step |-> st, msg |-> rtask[w][t].msg]
                                                  ELSE rtask[v][u]
  BY DEF RwTypeOK, TaskGoto, TaskJob

\* Stopping and Crash abort every task of one worker.
LEMMA AbortEffect ==
    ASSUME RwTypeOK, NEW w \in RWorker, rtask' = [rtask EXCEPT ![w] = IdleTasks]
    PROVE  /\ rtask' \in [RWorker -> [Task -> TaskJob]]
           /\ rtask'[w] = IdleTasks
           /\ \A u \in Task : rtask'[w][u].step = "idle"
           /\ \A v \in RWorker : v # w => rtask'[v] = rtask[v]
  BY Zenon DEF RwTypeOK, IdleTasks, NoWork, TaskJob, TaskSteps

\* A step that stores nothing new and lets no task advance keeps the invariant.
LEMMA AbortKeeps ==
    ASSUME RwInv, RwTypeOK', NEW w \in RWorker,
           rtask' = [rtask EXCEPT ![w] = IdleTasks],
           \A v \in RWorker : v # w => rproc'[v] = rproc[v],
           UNCHANGED <<rlease, rheld, store>>
    PROVE  RwInv'
<1>1. /\ \A u \in Task : rtask'[w][u].step = "idle"
      /\ rtask'[w] = IdleTasks
      /\ \A v \in RWorker : v # w => rtask'[v] = rtask[v]
  BY Zenon, AbortEffect DEF RwInv
<1>2. /\ committed' = committed /\ executions' = executions
      /\ quarantined' = quarantined /\ acked' = acked
      /\ rlease' = rlease /\ rheld' = rheld
  BY Zenon DEF store
<1>3. IdleUnlessRunning'
  BY Zenon, <1>1 DEF RwInv, IdleUnlessRunning
<1>4. OwnShard'
  BY <1>1 DEF RwInv, OwnShard
<1>5. LeaseKept'
  BY <1>1, <1>2 DEF RwInv, LeaseKept
<1>6. CountedOnce'
  BY Zenon, <1>2 DEF RwInv, CountedOnce
<1>7. InsertedIsNew'
  BY <1>1, <1>2 DEF RwInv, InsertedIsNew
<1>8. AckIsStored'
  BY Zenon, <1>1, <1>2 DEF RwInv, AckIsStored
<1>. QED
  BY Zenon, <1>3, <1>4, <1>5, <1>6, <1>7, <1>8 DEF RwInv

\* The same for a step that changes leases: no lease under a task changes
\* owner or token.
LEMMA LeaseStepKeeps ==
    ASSUME RwInv, RwTypeOK', IdleUnlessRunning',
           UNCHANGED <<rtask, store>>,
           \A v \in RWorker, u \in Task : rtask[v][u].step \in {"asserted", "inserted"} =>
               /\ rlease'[u[1]].owner = rlease[u[1]].owner
               /\ rlease'[u[1]].token = rlease[u[1]].token
               /\ rheld'[v][u[1]] = rheld[v][u[1]]
    PROVE  RwInv'
<1>1. /\ committed' = committed /\ executions' = executions
      /\ quarantined' = quarantined /\ acked' = acked /\ rtask' = rtask
  BY Zenon DEF store
<1>2. OwnShard' /\ InsertedIsNew' /\ AckIsStored' /\ CountedOnce'
  BY <1>1 DEF RwInv, OwnShard, InsertedIsNew, AckIsStored, CountedOnce
<1>3. LeaseKept'
  BY <1>1 DEF RwInv, LeaseKept
<1>. QED
  BY Zenon, <1>2, <1>3 DEF RwInv

\* A task that is not at work holds no lock: Idle has no step in progress.
LEMMA IdleIsFree ==
    ASSUME RwInv, NEW w \in RWorker, rproc[w] # "running"
    PROVE  \A u \in Task : rtask[w][u].step = "idle"
<1>1. rtask[w] = IdleTasks
  BY Zenon DEF RwInv, IdleUnlessRunning
<1>2. \A u \in Task : IdleTasks[u].step = "idle"
  BY Zenon DEF IdleTasks, NoWork
<1>. QED
  BY Zenon, <1>1, <1>2

LEMMA ExpireKeeps ==
    ASSUME RwInv, NEW s \in Shard, Expire(s)
    PROVE  RwInv'
<1>. USE DEF Expire
<1>1. /\ rlease' \in [Shard -> [owner : RWorker \cup {Nobody}, token : Nat, live : BOOLEAN]]
      /\ \A u \in Shard : rlease'[u].owner = rlease[u].owner /\ rlease'[u].token = rlease[u].token
  BY Zenon DEF RwInv, RwTypeOK
<1>2. RwTypeOK' /\ IdleUnlessRunning'
  BY Zenon, <1>1 DEF RwInv, RwTypeOK, IdleUnlessRunning, store
<1>3. \A u \in Task : u[1] \in Shard
  BY Zenon DEF Task
<1>. QED
  BY Zenon, <1>1, <1>2, <1>3, LeaseStepKeeps

LEMMA StartKeeps ==
    ASSUME RwInv, NEW w \in RWorker, Start(w)
    PROVE  RwInv'
<1>. USE DEF Start
<1>1. RwTypeOK'
  BY Zenon DEF RwInv, RwTypeOK, store
<1>2. IdleUnlessRunning'
  BY Zenon DEF RwInv, RwTypeOK, IdleUnlessRunning
<1>3. \A u \in Task : rtask[w][u].step = "idle"
  BY Zenon, IdleIsFree
<1>4. \A v \in RWorker : v # w => rheld'[v] = rheld[v]
  BY Zenon DEF RwInv, RwTypeOK
<1>5. UNCHANGED <<rtask, store>> /\ rlease' = rlease
  BY Zenon
<1>. QED
  BY Zenon, <1>1, <1>2, <1>3, <1>4, <1>5, LeaseStepKeeps

\* A shard taken by acquire_initial_leases has no transaction open under it.
LEMMA AcquireKeeps ==
    ASSUME RwInv, NEW w \in RWorker, acquire_initial_leases(w)
    PROVE  RwInv'
<1>. DEFINE s   == (hashStart[w] + rscan[w]) % NumShards
            row == Acquired(rlease[s], w)
<1>0. rproc[w] = "acquiring" /\ UNCHANGED <<rtask, store>>
  BY Zenon DEF acquire_initial_leases
<1>1. \/ /\ UNCHANGED <<rlease, rheld>>
         /\ rproc' = rproc \/ rproc' = [rproc EXCEPT ![w] = "down"]
                           \/ rproc' = [rproc EXCEPT ![w] = "running"]
      \/ /\ rproc' = rproc /\ ~ShareLocked(s)
         /\ rlease' = [rlease EXCEPT ![s] = row]
         /\ rheld' = [rheld EXCEPT ![w][s] = IF row.owner = w THEN row.token ELSE 0]
  BY Zenon DEF acquire_initial_leases
<1>2. \A u \in Task : rtask[w][u].step = "idle" /\ rtask[w] = IdleTasks
  BY Zenon, <1>0, IdleIsFree DEF RwInv, IdleUnlessRunning
<1>3. IdleUnlessRunning'
  BY Zenon, <1>0, <1>1, <1>2 DEF RwInv, RwTypeOK, IdleUnlessRunning
<1>. HIDE DEF s
<1>4. CASE UNCHANGED <<rlease, rheld>>
  <2>1. RwTypeOK'
    BY Zenon, <1>0, <1>1, <1>4 DEF RwInv, RwTypeOK, store
  <2>. QED
    BY Zenon, <1>0, <1>3, <1>4, <2>1, LeaseStepKeeps
<1>5. CASE /\ rproc' = rproc /\ ~ShareLocked(s)
           /\ rlease' = [rlease EXCEPT ![s] = row]
           /\ rheld' = [rheld EXCEPT ![w][s] = IF row.owner = w THEN row.token ELSE 0]
  <2>1. s \in Shard => row \in [owner : RWorker \cup {Nobody}, token : Nat, live : BOOLEAN]
    <3>1. SUFFICES ASSUME s \in Shard
                   PROVE  row \in [owner : RWorker \cup {Nobody}, token : Nat, live : BOOLEAN]
      BY Zenon
    <3>2. rlease[s] \in [owner : RWorker \cup {Nobody}, token : Nat, live : BOOLEAN]
      BY Zenon, <3>1 DEF RwInv, RwTypeOK
    <3>3. rlease[s].token + 1 \in Nat
      BY <3>2
    <3>. QED
      BY Zenon, <3>2, <3>3 DEF Acquired
  <2>. HIDE DEF row
  <2>2. rlease' \in [Shard -> [owner : RWorker \cup {Nobody}, token : Nat, live : BOOLEAN]]
    BY Zenon, <1>5, <2>1 DEF RwInv, RwTypeOK
  <2>3. rheld' \in [RWorker -> [Shard -> Nat]]
    BY Zenon, <1>5, <2>1 DEF RwInv, RwTypeOK
  <2>4. RwTypeOK'
    BY Zenon, <1>0, <1>5, <2>2, <2>3 DEF RwInv, RwTypeOK, store
  <2>5. \A v \in RWorker, u \in Task : rtask[v][u].step \in {"asserted", "inserted"} => u[1] # s
    BY <1>5 DEF ShareLocked, Task
  <2>6. \A v \in Shard : v # s => rlease'[v] = rlease[v]
    BY Zenon, <1>5 DEF RwInv, RwTypeOK
  <2>7. \A v \in RWorker : v # w => rheld'[v] = rheld[v]
    BY Zenon, <1>5 DEF RwInv, RwTypeOK
  <2>8. \A u \in Task : u[1] \in Shard
    BY Zenon DEF Task
  <2>. QED
    BY Zenon, <1>0, <1>2, <1>3, <2>4, <2>5, <2>6, <2>7, <2>8, LeaseStepKeeps
<1>. QED
  BY Zenon, <1>1, <1>4, <1>5

LEMMA ShutdownKeeps ==
    ASSUME RwInv, NEW w \in RWorker, Stopping(w), UNCHANGED <<rlease, rheld, store>>
    PROVE  RwInv'
<1>1. rtask' \in [RWorker -> [Task -> TaskJob]]
  BY Zenon, AbortEffect DEF RwInv, Stopping
<1>2. RwTypeOK'
  BY Zenon, <1>1 DEF RwInv, RwTypeOK, Stopping, store
<1>3. \A v \in RWorker : v # w => rproc'[v] = rproc[v]
  BY Zenon DEF Stopping, RwInv, RwTypeOK
<1>. QED
  BY Zenon, <1>2, <1>3, AbortKeeps DEF Stopping

LEMMA ReleaseKeeps ==
    ASSUME RwInv, NEW w \in RWorker, release_owned_leases(w)
    PROVE  RwInv'
<1>0. UNCHANGED <<rheld, rtask, store>> /\ rproc[w] = "stopping"
  BY Zenon DEF release_owned_leases
<1>1. rproc' = rproc \/ rproc' = [rproc EXCEPT ![w] = "down"]
  BY Zenon DEF release_owned_leases
<1>2. rlease' = rlease \/ \E s \in Shard : rlease' = [rlease EXCEPT ![s].live = FALSE]
  BY Zenon DEF release_owned_leases, Owned
<1>3. /\ rlease' \in [Shard -> [owner : RWorker \cup {Nobody}, token : Nat, live : BOOLEAN]]
      /\ \A u \in Shard : rlease'[u].owner = rlease[u].owner /\ rlease'[u].token = rlease[u].token
  <2>1. CASE rlease' = rlease
    BY Zenon, <2>1 DEF RwInv, RwTypeOK
  <2>2. ASSUME NEW s \in Shard, rlease' = [rlease EXCEPT ![s].live = FALSE]
        PROVE  /\ rlease' \in [Shard -> [owner : RWorker \cup {Nobody}, token : Nat, live : BOOLEAN]]
               /\ \A u \in Shard : /\ rlease'[u].owner = rlease[u].owner
                                   /\ rlease'[u].token = rlease[u].token
    BY <2>2 DEF RwInv, RwTypeOK
  <2>. QED
    BY Zenon, <1>2, <2>1, <2>2
<1>4. RwTypeOK' /\ IdleUnlessRunning'
  BY Zenon, <1>0, <1>1, <1>3 DEF RwInv, RwTypeOK, IdleUnlessRunning, store
<1>5. \A u \in Task : u[1] \in Shard
  BY Zenon DEF Task
<1>. QED
  BY Zenon, <1>0, <1>3, <1>4, <1>5, LeaseStepKeeps

LEMMA CrashKeeps ==
    ASSUME RwInv, NEW w \in RWorker, Crash(w)
    PROVE  RwInv'
<1>1. rtask' \in [RWorker -> [Task -> TaskJob]]
  BY Zenon, AbortEffect DEF RwInv, Crash
<1>2. RwTypeOK'
  BY Zenon, <1>1 DEF RwInv, RwTypeOK, Crash, store
<1>3. \A v \in RWorker : v # w => rproc'[v] = rproc[v]
  BY Zenon DEF Crash, RwInv, RwTypeOK
<1>. QED
  BY Zenon, <1>2, <1>3, AbortKeeps DEF Crash

-----------------------------------------------------------------------------
(* The consumer tasks.  A task step replaces one job and grows the store.  *)

LEMMA TaskStepKeeps ==
    ASSUME RwInv, NEW w \in RWorker, NEW t \in Task, NEW c \in TaskJob,
           rproc[w] = "running",
           UNCHANGED <<rlease, rproc, rheld>>,
           rtask' \in [RWorker -> [Task -> TaskJob]],
           \A v \in RWorker, u \in Task :
               rtask'[v][u] = IF v = w /\ u = t THEN c ELSE rtask[v][u],
           \A v \in RWorker : v # w => rtask'[v] = rtask[v],
           c.step # "idle" => c.msg \in Message /\ shardOf[c.msg] = t[1],
           c.step \in {"asserted", "inserted"} =>
               rlease[t[1]].owner = w /\ rlease[t[1]].token = rheld[w][t[1]],
           c.step = "inserted" =>
               /\ c.msg \notin committed'
               /\ \A v \in RWorker, u \in Task : rtask[v][u].step = "inserted" => rtask[v][u].msg # c.msg,
           c.step = "ack" => c.msg \in committed' \cup quarantined',
           committed \subseteq committed' /\ committed' \subseteq Message,
           quarantined \subseteq quarantined' /\ quarantined' \subseteq Message,
           acked' \subseteq committed' \cup quarantined',
           \A v \in RWorker, u \in Task :
               rtask'[v][u].step = "inserted" => rtask'[v][u].msg \notin committed' \ committed,
           executions' \in [Message -> Nat], CountedOnce'
    PROVE  RwInv'
<1>1. RwTypeOK'
  BY Zenon DEF RwInv, RwTypeOK
<1>2. IdleUnlessRunning'
  BY Zenon DEF RwInv, IdleUnlessRunning
<1>3. OwnShard'
  BY DEF RwInv, OwnShard
<1>4. LeaseKept'
  BY DEF RwInv, LeaseKept
<1>5. InsertedIsNew'
  <2>1. \A v \in RWorker, u \in Task :
            rtask'[v][u].step = "inserted" => rtask'[v][u].msg \notin committed'
    BY DEF RwInv, InsertedIsNew
  <2>2. ASSUME NEW v \in RWorker, NEW u \in Task, NEW x \in RWorker, NEW y \in Task,
               rtask'[v][u].step = "inserted", rtask'[x][y].step = "inserted",
               rtask'[x][y].msg = rtask'[v][u].msg
        PROVE  x = v /\ y = u
    <3>1. CASE (v = w /\ u = t) /\ ~(x = w /\ y = t)
      BY <2>2, <3>1
    <3>2. CASE ~(v = w /\ u = t) /\ (x = w /\ y = t)
      BY <2>2, <3>2
    <3>3. CASE ~(v = w /\ u = t) /\ ~(x = w /\ y = t)
      BY <2>2, <3>3 DEF RwInv, InsertedIsNew
    <3>. QED
      BY Zenon, <3>1, <3>2, <3>3
  <2>. QED
    BY <2>1, <2>2 DEF InsertedIsNew
<1>6. AckIsStored'
  BY DEF RwInv, AckIsStored
<1>. QED
  BY Zenon, <1>1, <1>2, <1>3, <1>4, <1>5, <1>6 DEF RwInv

\* What every task step has: the task's own shard, and a job with a message.
LEMMA TaskFacts ==
    ASSUME RwInv, NEW w \in RWorker, NEW t \in Task
    PROVE  /\ rtask[w][t] \in TaskJob /\ rtask[w][t].msg \in Message \cup {NoWork.msg}
           /\ rtask[w][t].step # "idle" =>
                 rtask[w][t].msg \in Message /\ shardOf[rtask[w][t].msg] = t[1]
           /\ CountedOnce /\ executions \in [Message -> Nat]
           /\ committed \subseteq Message /\ quarantined \subseteq Message /\ acked \subseteq Message
           /\ acked \subseteq committed \cup quarantined
  BY DEF RwInv, RwTypeOK, OwnShard, AckIsStored, TaskJob

\* A task that only moves to another step stores nothing.
LEMMA GotoKeeps ==
    ASSUME RwInv, NEW w \in RWorker, NEW t \in Task, NEW st \in TaskSteps,
           rproc[w] = "running", TaskGoto(w, t, st), rtask[w][t].step # "idle",
           UNCHANGED <<rlease, rproc, rheld, store>>,
           st \in {"asserted", "inserted"} =>
               rlease[t[1]].owner = w /\ rlease[t[1]].token = rheld[w][t[1]],
           st = "inserted" =>
               /\ rtask[w][t].msg \notin committed
               /\ \A v \in RWorker, u \in Task :
                     rtask[v][u].step = "inserted" => rtask[v][u].msg # rtask[w][t].msg,
           st = "ack" => rtask[w][t].msg \in committed \cup quarantined
    PROVE  RwInv'
<1>. DEFINE c == [step |-> st, msg |-> rtask[w][t].msg]
<1>1. /\ rtask' \in [RWorker -> [Task -> TaskJob]]
      /\ \A v \in RWorker, u \in Task :
            rtask'[v][u] = IF v = w /\ u = t THEN c ELSE rtask[v][u]
  BY GotoEffect DEF RwInv
<1>2. \A v \in RWorker : v # w => rtask'[v] = rtask[v]
  BY Zenon DEF TaskGoto, RwInv, RwTypeOK
<1>3. c \in TaskJob /\ c.step = st /\ c.msg = rtask[w][t].msg
  BY Zenon, TaskFacts DEF TaskJob
<1>4. /\ committed' = committed /\ executions' = executions
      /\ quarantined' = quarantined /\ acked' = acked
  BY Zenon DEF store
<1>5. CountedOnce'
  BY Zenon, <1>4, TaskFacts DEF CountedOnce
<1>. HIDE DEF c
<1>. QED
  BY <1>1, <1>2, <1>3, <1>4, <1>5, TaskFacts, TaskStepKeeps

LEMMA HandleKeeps ==
    ASSUME RwInv, NEW w \in RWorker, NEW t \in Task, NEW m \in Message, handle_message(w, t, m)
    PROVE  RwInv'
<1>. DEFINE st == IF m \in Broken THEN "quarantine" ELSE "begin"
            c  == [step |-> st, msg |-> m]
<1>0. /\ rproc[w] = "running" /\ shardOf[m] = t[1] /\ rtask' = [rtask EXCEPT ![w][t] = c]
      /\ UNCHANGED <<rlease, rproc, rheld, store>>
  BY Zenon DEF handle_message, At
<1>1. st \in {"quarantine", "begin"}
  BY Zenon
<1>. HIDE DEF st
<1>2. c \in TaskJob /\ c.step = st /\ c.msg = m
  BY Zenon, <1>1 DEF TaskJob, TaskSteps
<1>. HIDE DEF c
<1>3. /\ rtask' \in [RWorker -> [Task -> TaskJob]]
      /\ \A v \in RWorker, u \in Task :
            rtask'[v][u] = IF v = w /\ u = t THEN c ELSE rtask[v][u]
      /\ \A v \in RWorker : v # w => rtask'[v] = rtask[v]
  BY Zenon, <1>0, <1>2 DEF RwInv, RwTypeOK
<1>4. /\ committed' = committed /\ executions' = executions
      /\ quarantined' = quarantined /\ acked' = acked
  BY Zenon, <1>0 DEF store
<1>5. CountedOnce'
  BY Zenon, <1>4, TaskFacts DEF CountedOnce
<1>. QED
  BY <1>0, <1>1, <1>2, <1>3, <1>4, <1>5, TaskFacts, TaskStepKeeps

LEMMA AssertKeeps ==
    ASSUME RwInv, NEW w \in RWorker, NEW t \in Task, assert_lease(w, t)
    PROVE  RwInv'
<1>1. /\ rproc[w] = "running" /\ rtask[w][t].step = "begin"
      /\ UNCHANGED <<rlease, rproc, rheld, store>>
  BY Zenon DEF assert_lease, At
<1>2. CASE HoldsLease(w, t[1]) /\ TaskGoto(w, t, "asserted")
  <2>1. rlease[t[1]].owner = w /\ rlease[t[1]].token = rheld[w][t[1]]
    BY <1>2 DEF HoldsLease
  <2>. QED
    BY Zenon, <1>1, <1>2, <2>1, GotoKeeps DEF TaskSteps
<1>3. CASE TaskGoto(w, t, "idle")
  BY Zenon, <1>1, <1>3, GotoKeeps DEF TaskSteps
<1>. QED
  BY Zenon, <1>2, <1>3 DEF assert_lease, retry_event_later

\* The insert waits for other transactions, so the entry is this one's alone.
LEMMA InsertKeeps ==
    ASSUME RwInv, NEW w \in RWorker, NEW t \in Task, insert_inbox(w, t)
    PROVE  RwInv'
<1>1. /\ rproc[w] = "running" /\ rtask[w][t].step = "asserted" /\ ~InboxLocked(rtask[w][t].msg)
      /\ UNCHANGED <<rlease, rproc, rheld, store>>
  BY Zenon DEF insert_inbox, At
<1>2. CASE rtask[w][t].msg \in committed /\ TaskGoto(w, t, "ack")
  BY Zenon, <1>1, <1>2, GotoKeeps DEF TaskSteps
<1>3. CASE rtask[w][t].msg \notin committed /\ TaskGoto(w, t, "inserted")
  <2>1. \A v \in RWorker, u \in Task :
            rtask[v][u].step = "inserted" => rtask[v][u].msg # rtask[w][t].msg
    <3>1. \A v \in RWorker, u \in Task :
              rtask[v][u] = [step |-> rtask[v][u].step, msg |-> rtask[v][u].msg]
      BY DEF RwInv, RwTypeOK, TaskJob
    <3>. QED
      BY Zenon, <1>1, <3>1 DEF InboxLocked
  <2>2. rlease[t[1]].owner = w /\ rlease[t[1]].token = rheld[w][t[1]]
    BY Zenon, <1>1 DEF RwInv, LeaseKept
  <2>. QED
    BY Zenon, <1>1, <1>3, <2>1, <2>2, GotoKeeps DEF TaskSteps
<1>. QED
  BY Zenon, <1>2, <1>3 DEF insert_inbox

LEMMA PersistKeeps ==
    ASSUME RwInv, NEW w \in RWorker, NEW t \in Task, persist_new_event(w, t)
    PROVE  RwInv'
<1>. DEFINE m == rtask[w][t].msg
<1>1. /\ rproc[w] = "running" /\ rtask[w][t].step = "inserted"
      /\ UNCHANGED <<rlease, rproc, rheld, quarantined, acked>>
  BY Zenon DEF persist_new_event, At
<1>2. \/ /\ committed' = committed \cup {m}
         /\ executions' = [executions EXCEPT ![m] = @ + 1]
         /\ TaskGoto(w, t, "ack")
      \/ TaskGoto(w, t, "idle") /\ UNCHANGED <<committed, executions>>
      \/ TaskGoto(w, t, "quarantine") /\ UNCHANGED <<committed, executions>>
  BY Zenon DEF persist_new_event, retry_event_later
<1>3. CASE UNCHANGED <<committed, executions>> /\ (TaskGoto(w, t, "idle") \/ TaskGoto(w, t, "quarantine"))
  BY Zenon, <1>1, <1>3, GotoKeeps DEF TaskSteps, store
<1>4. CASE /\ committed' = committed \cup {m}
           /\ executions' = [executions EXCEPT ![m] = @ + 1]
           /\ TaskGoto(w, t, "ack")
  <2>. DEFINE c == [step |-> "ack", msg |-> m]
  <2>1. m \in Message /\ m \notin committed /\ shardOf[m] = t[1]
    BY Zenon, <1>1, TaskFacts DEF RwInv, InsertedIsNew
  <2>2. /\ rtask' \in [RWorker -> [Task -> TaskJob]]
        /\ \A v \in RWorker, u \in Task :
              rtask'[v][u] = IF v = w /\ u = t THEN c ELSE rtask[v][u]
    <3>1. RwTypeOK /\ "ack" \in TaskSteps /\ TaskGoto(w, t, "ack")
      BY Zenon, <1>4 DEF RwInv, TaskSteps
    <3>. QED
      BY <3>1, GotoEffect
  <2>3. \A v \in RWorker : v # w => rtask'[v] = rtask[v]
    BY Zenon, <1>4 DEF TaskGoto, RwInv, RwTypeOK
  <2>4. c \in TaskJob /\ c.step = "ack" /\ c.msg = m
    BY Zenon, <2>1 DEF TaskJob, TaskSteps
  <2>5. \A v \in RWorker, u \in Task : rtask'[v][u].step = "inserted" => rtask'[v][u].msg # m
    <3>1. ASSUME NEW v \in RWorker, NEW u \in Task, rtask'[v][u].step = "inserted"
          PROVE  ~(v = w /\ u = t) /\ rtask'[v][u] = rtask[v][u]
      BY Zenon, <2>2, <2>4, <3>1
    <3>. QED
      BY <1>1, <3>1 DEF RwInv, InsertedIsNew
  <2>6. executions' \in [Message -> Nat] /\ CountedOnce'
    <3>1. executions[m] = 0
      BY Zenon, <2>1 DEF RwInv, CountedOnce
    <3>2. executions' = [executions EXCEPT ![m] = 1]
      BY <1>4, <3>1
    <3>. HIDE DEF m
    <3>3. executions' \in [Message -> Nat]
      BY Zenon, <3>2, TaskFacts
    <3>4. \A k \in Message : executions'[k] = IF k = m THEN 1 ELSE executions[k]
      BY Zenon, <3>2, TaskFacts
    <3>5. CountedOnce'
      BY Zenon, <1>4, <3>4 DEF RwInv, CountedOnce
    <3>. QED
      BY Zenon, <3>3, <3>5
  <2>. HIDE DEF c, m
  <2>7. committed \subseteq committed' /\ committed' \subseteq Message /\ committed' \ committed \subseteq {m}
    BY Zenon, <1>4, <2>1, TaskFacts
  <2>8. quarantined' = quarantined /\ acked' = acked /\ acked' \subseteq committed' \cup quarantined'
    BY Zenon, <1>1, <2>7, TaskFacts
  <2>9. c.msg \in committed'
    BY Zenon, <1>4, <2>4
  <2>. QED
    BY <1>1, <2>1, <2>2, <2>3, <2>4, <2>5, <2>6, <2>7, <2>8, <2>9, TaskFacts, TaskStepKeeps
<1>. QED
  BY Zenon, <1>2, <1>3, <1>4

\* The quarantine record is stored before the task moves on.
LEMMA QuarantineKeeps ==
    ASSUME RwInv, NEW w \in RWorker, NEW t \in Task, persist_quarantine(w, t)
    PROVE  RwInv'
<1>. DEFINE m == rtask[w][t].msg
            c == [step |-> "ack", msg |-> m]
<1>1. /\ rproc[w] = "running" /\ rtask[w][t].step = "quarantine"
      /\ UNCHANGED <<rlease, rheld, committed, executions, acked>>
  BY Zenon DEF persist_quarantine, At
<1>2. CASE Stopping(w) /\ UNCHANGED quarantined
  BY Zenon, <1>1, <1>2, ShutdownKeeps DEF store
<1>3. CASE quarantined' = quarantined \cup {m} /\ TaskGoto(w, t, "ack") /\ UNCHANGED <<rproc, rscan>>
  <2>1. m \in Message /\ shardOf[m] = t[1]
    BY Zenon, <1>1, TaskFacts
  <2>2. /\ rtask' \in [RWorker -> [Task -> TaskJob]]
        /\ \A v \in RWorker, u \in Task :
              rtask'[v][u] = IF v = w /\ u = t THEN c ELSE rtask[v][u]
    <3>1. RwTypeOK /\ "ack" \in TaskSteps /\ TaskGoto(w, t, "ack")
      BY Zenon, <1>3 DEF RwInv, TaskSteps
    <3>. QED
      BY <3>1, GotoEffect
  <2>3. \A v \in RWorker : v # w => rtask'[v] = rtask[v]
    BY Zenon, <1>3 DEF TaskGoto, RwInv, RwTypeOK
  <2>4. c \in TaskJob /\ c.step = "ack" /\ c.msg = m
    BY Zenon, <2>1 DEF TaskJob, TaskSteps
  <2>5. CountedOnce'
    BY Zenon, <1>1, TaskFacts DEF CountedOnce
  <2>. HIDE DEF c, m
  <2>6. /\ quarantined \subseteq quarantined' /\ quarantined' \subseteq Message
        /\ acked' \subseteq committed' \cup quarantined' /\ c.msg \in quarantined'
    BY Zenon, <1>1, <1>3, <2>1, <2>4, TaskFacts
  <2>. QED
    BY Zenon, <1>1, <1>3, <2>1, <2>2, <2>3, <2>4, <2>5, <2>6, TaskFacts, TaskStepKeeps
<1>. QED
  BY Zenon, <1>2, <1>3 DEF persist_quarantine

LEMMA AckKeeps ==
    ASSUME RwInv, NEW w \in RWorker, NEW t \in Task, acknowledge_message(w, t)
    PROVE  RwInv'
<1>. DEFINE m == rtask[w][t].msg
            c == [step |-> "idle", msg |-> m]
<1>1. /\ rproc[w] = "running" /\ rtask[w][t].step = "ack"
      /\ UNCHANGED <<rlease, rheld, committed, executions, quarantined>>
  BY Zenon DEF acknowledge_message, At
<1>2. CASE Stopping(w) /\ UNCHANGED acked
  BY Zenon, <1>1, <1>2, ShutdownKeeps DEF store
<1>3. CASE acked' = acked \cup {m} /\ TaskGoto(w, t, "idle") /\ UNCHANGED <<rproc, rscan>>
  <2>1. m \in Message /\ m \in committed \cup quarantined
    BY Zenon, <1>1, TaskFacts DEF RwInv, AckIsStored
  <2>2. /\ rtask' \in [RWorker -> [Task -> TaskJob]]
        /\ \A v \in RWorker, u \in Task :
              rtask'[v][u] = IF v = w /\ u = t THEN c ELSE rtask[v][u]
    <3>1. RwTypeOK /\ "idle" \in TaskSteps /\ TaskGoto(w, t, "idle")
      BY Zenon, <1>3 DEF RwInv, TaskSteps
    <3>. QED
      BY <3>1, GotoEffect
  <2>3. \A v \in RWorker : v # w => rtask'[v] = rtask[v]
    BY Zenon, <1>3 DEF TaskGoto, RwInv, RwTypeOK
  <2>4. c \in TaskJob /\ c.step = "idle"
    BY Zenon, <2>1 DEF TaskJob, TaskSteps
  <2>5. CountedOnce'
    BY Zenon, <1>1, TaskFacts DEF CountedOnce
  <2>. HIDE DEF c, m
  <2>6. acked' \subseteq committed' \cup quarantined'
    BY Zenon, <1>1, <1>3, <2>1, TaskFacts
  <2>. QED
    BY Zenon, <1>1, <1>3, <2>2, <2>3, <2>4, <2>5, <2>6, TaskFacts, TaskStepKeeps
<1>. QED
  BY Zenon, <1>2, <1>3 DEF acknowledge_message

-----------------------------------------------------------------------------
LEMMA InitRw == RwInit => RwInv
<1>. SUFFICES ASSUME RwInit PROVE RwInv
  BY Zenon
<1>1. \A w \in RWorker : rtask[w] = IdleTasks /\ \A t \in Task : rtask[w][t] = NoWork
  BY Zenon DEF RwInit, IdleTasks
<1>2. NoWork \in TaskJob /\ NoWork.step = "idle"
  BY Zenon DEF NoWork, TaskJob, TaskSteps
<1>3. rtask \in [RWorker -> [Task -> TaskJob]]
  BY Zenon, <1>2 DEF RwInit, IdleTasks
<1>4. rlease \in [Shard -> [owner : RWorker \cup {Nobody}, token : Nat, live : BOOLEAN]]
  BY Zenon DEF RwInit
<1>5. RwTypeOK
  BY Zenon, <1>3, <1>4 DEF RwInit, RwTypeOK
<1>6. IdleUnlessRunning /\ OwnShard /\ LeaseKept /\ InsertedIsNew
  BY Zenon, <1>1, <1>2 DEF IdleUnlessRunning, OwnShard, LeaseKept, InsertedIsNew
<1>7. CountedOnce /\ AckIsStored
  BY Zenon, <1>1, <1>2 DEF RwInit, CountedOnce, AckIsStored
<1>. QED
  BY Zenon, <1>5, <1>6, <1>7 DEF RwInv

LEMMA StepRw == RwInv /\ [RwNext]_rVars => RwInv'
<1>. SUFFICES ASSUME RwInv, [RwNext]_rVars PROVE RwInv'
  BY Zenon
<1>1. CASE \E s \in Shard : Expire(s)
  BY Zenon, <1>1, ExpireKeeps
<1>2. ASSUME NEW w \in RWorker,
             \/ Start(w) \/ acquire_initial_leases(w) \/ wait_for_shutdown(w)
             \/ release_owned_leases(w) \/ Crash(w)
      PROVE  RwInv'
  BY Zenon, <1>2, StartKeeps, AcquireKeeps, ShutdownKeeps, ReleaseKeeps, CrashKeeps DEF wait_for_shutdown
<1>3. ASSUME NEW w \in RWorker, NEW t \in Task,
             \/ renew_shard_lease(w, t) \/ assert_lease(w, t) \/ insert_inbox(w, t)
             \/ persist_new_event(w, t) \/ persist_quarantine(w, t) \/ acknowledge_message(w, t)
             \/ \E m \in Message : handle_message(w, t, m)
      PROVE  RwInv'
  BY Zenon, <1>3, ShutdownKeeps, AssertKeeps, InsertKeeps, PersistKeeps, QuarantineKeeps, AckKeeps,
     HandleKeeps DEF renew_shard_lease
<1>4. CASE UNCHANGED rVars
  BY <1>4 DEF rVars, RwInv, RwTypeOK, IdleUnlessRunning, OwnShard, LeaseKept, CountedOnce,
     InsertedIsNew, AckIsStored
<1>. QED
  BY Zenon, <1>1, <1>2, <1>3, <1>4 DEF RwNext

LEMMA RwInductive == RwSpec => []RwInv
  BY InitRw, StepRw, PTL DEF RwSpec

\* However often a message is delivered and whichever worker dies, process_event
\* executes it at most once, and it is acknowledged only once an execution or a
\* quarantine record of it is durable.
THEOREM SettledOnce == RwSpec => []RustSettlesOnce
<1>1. RwInv => RustSettlesOnce
  BY DEF RwInv, RwTypeOK, CountedOnce, AckIsStored, RustSettlesOnce, RustExecutesOnce, RustAckedIsDurable
<1>. QED
  BY <1>1, RwInductive, PTL

\* Executions change in persist_new_event only.
LEMMA OnlyPersistExecutes ==
    ASSUME [RwNext]_rVars, executions' # executions
    PROVE  \E w \in RWorker, t \in Task : persist_new_event(w, t)
<1>1. ~ UNCHANGED rVars
  BY Zenon DEF rVars
<1>2. ASSUME NEW s \in Shard, Expire(s)
      PROVE  FALSE
  BY Zenon, <1>2 DEF Expire, store
<1>3. ASSUME NEW w \in RWorker,
             \/ Start(w) \/ acquire_initial_leases(w) \/ wait_for_shutdown(w)
             \/ release_owned_leases(w) \/ Crash(w)
      PROVE  FALSE
  <2>1. UNCHANGED store
    BY Zenon, <1>3 DEF Start, acquire_initial_leases, wait_for_shutdown, release_owned_leases, Crash
  <2>. QED
    BY Zenon, <2>1 DEF store
<1>4. ASSUME NEW w \in RWorker, NEW t \in Task,
             \/ renew_shard_lease(w, t) \/ assert_lease(w, t) \/ insert_inbox(w, t)
             \/ \E m \in Message : handle_message(w, t, m)
      PROVE  FALSE
  <2>1. UNCHANGED store
    BY Zenon, <1>4 DEF renew_shard_lease, assert_lease, insert_inbox, handle_message
  <2>. QED
    BY Zenon, <2>1 DEF store
<1>5. ASSUME NEW w \in RWorker, NEW t \in Task,
             persist_quarantine(w, t) \/ acknowledge_message(w, t)
      PROVE  FALSE
  BY Zenon, <1>5 DEF persist_quarantine, acknowledge_message
<1>. QED
  BY Zenon, <1>1, <1>2, <1>3, <1>4, <1>5 DEF RwNext

\* The FOR SHARE lock that assert_lease takes makes every commit a commit of the
\* worker the lease row names, under the token it holds.
THEOREM CommitsFenced == RwSpec => RustCommitsFenced
<1>1. ASSUME RwInv, [RwNext]_rVars
      PROVE  [FencedStep]_rVars
  <2>1. ASSUME NEW m \in Message, executions'[m] # executions[m]
        PROVE  \E w \in RWorker, t \in Task :
                  rtask[w][t].msg = m /\ rtask[w][t].step = "inserted"
    <3>1. PICK w \in RWorker, t \in Task : persist_new_event(w, t)
      BY Zenon, <1>1, <2>1, OnlyPersistExecutes
    <3>2. rtask[w][t].step = "inserted" /\ executions' = [executions EXCEPT ![rtask[w][t].msg] = @ + 1]
      BY Zenon, <2>1, <3>1 DEF persist_new_event, At
    <3>. QED
      BY Zenon, <1>1, <2>1, <3>1, <3>2 DEF RwInv, RwTypeOK
  <2>2. FencedStep
    <3>1. SUFFICES ASSUME NEW m \in Message, executions'[m] # executions[m]
                   PROVE  \E w \in RWorker, j \in Subject :
                             /\ rtask[w][<<shardOf[m], j>>] = [step |-> "inserted", msg |-> m]
                             /\ rlease[shardOf[m]].owner = w
                             /\ rlease[shardOf[m]].token = rheld[w][shardOf[m]]
      BY Zenon DEF FencedStep
    <3>2. PICK w \in RWorker, t \in Task : rtask[w][t].msg = m /\ rtask[w][t].step = "inserted"
      BY Zenon, <2>1, <3>1
    <3>3. t[1] = shardOf[m] /\ t = <<t[1], t[2]>> /\ t[2] \in Subject
      BY <1>1, <3>2 DEF RwInv, OwnShard, Task
    <3>4. rtask[w][t] = [step |-> "inserted", msg |-> m]
      BY <1>1, <3>2 DEF RwInv, RwTypeOK, TaskJob
    <3>5. rlease[t[1]].owner = w /\ rlease[t[1]].token = rheld[w][t[1]]
      BY Zenon, <1>1, <3>2 DEF RwInv, LeaseKept
    <3>. QED
      BY Zenon, <3>3, <3>4, <3>5
  <2>. QED
    BY Zenon, <2>2
<1>. QED
  BY <1>1, RwInductive, PTL DEF RwSpec, RustCommitsFenced

-----------------------------------------------------------------------------
(* The outbox and scheduler loops.                                         *)

Open == {"absent", "pending", "claimed"}
Sent == {"delivered", "released"}
GivenUp == {"quarantined", "failed"}

RowTypeOK ==
    /\ pstatus \in [PubItem -> Open \cup Sent \cup GivenUp]
    /\ pholder \in [PubItem -> RPublisher \cup {RNoClaimant, RGone}]
    /\ plive \in [PubItem -> BOOLEAN]
    /\ ptries \in [PubItem -> Nat]
    /\ pfails \in [PubItem -> Nat]

LoopTypeOK ==
    /\ pstep \in [Loop -> {"idle", "loop", "ok", "failed"}]
    /\ pbatch \in [Loop -> SUBSET PubItem]
    /\ pcur \in [Loop -> SUBSET PubItem]
    /\ pseen \in [Loop -> [PubItem -> Nat]]
    /\ \A l \in Loop : pbatch[l] \subseteq Mine(l) /\ pcur[l] \subseteq Mine(l)

\* An open row counts no attempt that did not fail.
TriesFailed == \A i \in PubItem : pstatus[i] \in Open => ptries[i] <= pfails[i]

FailsBounded == \A i \in PubItem : pfails[i] <= RMaxAttempts[i]

RowInv == RowTypeOK /\ TriesFailed /\ FailsBounded /\ RustOutcomeEarned

\* What a loop has read is no more than what has failed since, a loop about to
\* record a failure has seen it, and one about to mark a row has earned it.
SeenFailed == \A l \in Loop : \A i \in pbatch[l] \cup pcur[l] : pseen[l][i] <= pfails[i]

FailureCounted ==
    \A l \in Loop : pstep[l] = "failed" =>
        \A i \in pcur[l] : pfails[i] = RMaxAttempts[i] \/ pseen[l][i] + 1 <= pfails[i]

SuccessEarned == \A l \in Loop : pstep[l] = "ok" => \A i \in pcur[l] : Earned(i)

IdleIsEmpty == \A l \in Loop : pstep[l] = "idle" => pcur[l] = {}

LoopInv == LoopTypeOK /\ SeenFailed /\ FailureCounted /\ SuccessEarned /\ IdleIsEmpty

PubInv == RowInv /\ LoopInv

history == <<psetting, delivered, pfails>>

LEMMA MineIsItem == \A l \in Loop : Mine(l) \subseteq PubItem
  BY Zenon DEF Mine, PubItem

LEMMA InitPub == PubInit => PubInv
<1> SUFFICES ASSUME PubInit PROVE PubInv
  BY Zenon
<1> USE PublishersAssumption DEF PubInit
<1>1. RowTypeOK /\ LoopTypeOK
  BY Zenon DEF RowTypeOK, LoopTypeOK, Open
<1>2. TriesFailed /\ FailsBounded
  BY DEF TriesFailed, FailsBounded, PubItem
<1>3. RustOutcomeEarned
  BY Zenon DEF RustOutcomeEarned, PubItem
<1>4. SeenFailed /\ FailureCounted /\ SuccessEarned /\ IdleIsEmpty
  BY Zenon DEF SeenFailed, FailureCounted, SuccessEarned, IdleIsEmpty
<1> QED
  BY Zenon, <1>1, <1>2, <1>3, <1>4 DEF PubInv, RowInv, LoopInv

\* Rows that stay, or change between open states with their counts.
LEMMA OpenRowsKeep ==
    ASSUME RowInv, RowTypeOK', UNCHANGED <<ptries, precords, history>>,
           \A i \in PubItem : pstatus'[i] = pstatus[i] \/ (pstatus[i] \in Open /\ pstatus'[i] \in Open)
    PROVE  RowInv'
<1>1. TriesFailed' /\ FailsBounded'
  BY Zenon DEF RowInv, TriesFailed, FailsBounded, history
<1>2. RustOutcomeEarned'
  BY Zenon DEF RowInv, RustOutcomeEarned, Earned, Answered, history, accept_development_effect, Open, PubItem
<1> QED
  BY Zenon, <1>1, <1>2 DEF RowInv

\* The settlement of a claimed row with an outcome that was earned.
LEMMA SettleKeeps ==
    ASSUME RowInv, NEW l \in Loop, NEW i \in PubItem, HoldsClaim(l, i),
           NEW s \in {"pending"} \cup Sent \cup GivenUp, NEW a \in Nat, Settle(i, s, a),
           UNCHANGED history,
           s = "pending" => a <= pfails[i],
           s \in Sent => Earned(i),
           s \in GivenUp => pfails[i] = RMaxAttempts[i],
           precords' = IF s = "quarantined" THEN precords \cup {i} ELSE precords,
           s = "quarantined" => i \in RustEffect
    PROVE  RowInv'
<1> USE DEF RowInv, Settle, history
<1>1. RowTypeOK'
  BY Zenon DEF RowTypeOK, Open, Sent, GivenUp
<1>2. TriesFailed' /\ FailsBounded'
  BY Zenon DEF TriesFailed, FailsBounded, RowTypeOK, Open, Sent, GivenUp
<1>3. pstatus[i] = "claimed" /\ \A j \in PubItem : pstatus'[j] = IF j = i THEN s ELSE pstatus[j]
  BY Zenon DEF HoldsClaim, RowTypeOK
<1>4. precords' = {j \in RustEffect : pstatus'[j] = "quarantined"}
  BY <1>3 DEF RustOutcomeEarned, PubItem
<1>5. \A j \in PubItem :
         /\ pstatus'[j] \in {"delivered", "released"} => Earned(j)'
         /\ pstatus'[j] \in {"quarantined", "failed"} => pfails'[j] = RMaxAttempts[j]
  BY Zenon, <1>3 DEF RustOutcomeEarned, Sent, GivenUp, Earned, Answered, accept_development_effect
<1> QED
  BY Zenon, <1>1, <1>2, <1>4, <1>5 DEF RustOutcomeEarned

\* Loops that end forget what they read.
LEMMA AbandonKeepsLoops ==
    ASSUME LoopInv, NEW L \in SUBSET Loop, AbandonLoops(L), UNCHANGED history
    PROVE  LoopInv'
<1> USE DEF LoopInv, AbandonLoops, history
<1>1. LoopTypeOK'
  BY Zenon DEF LoopTypeOK
<1>2. \A l \in Loop : \/ UNCHANGED <<pstep[l], pbatch[l], pcur[l], pseen[l]>>
                      \/ pstep'[l] = "idle" /\ pbatch'[l] = {} /\ pcur'[l] = {}
  BY Zenon
<1>3. SeenFailed' /\ FailureCounted' /\ SuccessEarned' /\ IdleIsEmpty'
  BY Zenon, <1>2 DEF SeenFailed, FailureCounted, SuccessEarned, Earned, Answered, accept_development_effect,
                    IdleIsEmpty
<1> QED
  BY Zenon, <1>1, <1>3

LEMMA AbandonKeeps ==
    ASSUME PubInv, NEW L \in SUBSET Loop, AbandonLoops(L),
           UNCHANGED <<pstatus, plive, ptries, precords, history>>
    PROVE  PubInv'
<1>1. RowTypeOK'
  BY Zenon DEF PubInv, RowInv, RowTypeOK, AbandonLoops, history
<1> QED
  BY Zenon, <1>1, AbandonKeepsLoops, OpenRowsKeep DEF PubInv

LEMMA StopKeeps ==
    ASSUME PubInv, NEW w \in RPublisher, Stop(w), UNCHANGED psetting
    PROVE  PubInv'
  BY Zenon, AbandonKeeps DEF Stop, Loop, history

LEMMA NextRowKeeps ==
    ASSUME LoopInv, NEW l \in Loop, NextRow(l), UNCHANGED history
    PROVE  LoopInv'
<1> USE DEF LoopInv, NextRow, history
<1>1. LoopTypeOK'
  BY Zenon DEF LoopTypeOK
<1>2. \A k \in Loop : \/ UNCHANGED <<pstep[k], pbatch[k], pcur[k], pseen[k]>>
                      \/ /\ pstep'[k] = "loop" /\ pcur'[k] = {}
                         /\ UNCHANGED <<pbatch[k], pseen[k]>>
  BY Zenon DEF LoopTypeOK
<1>3. SeenFailed' /\ FailureCounted' /\ SuccessEarned' /\ IdleIsEmpty'
  BY <1>2 DEF SeenFailed, FailureCounted, SuccessEarned, Earned, Answered, accept_development_effect,
                    IdleIsEmpty
<1> QED
  BY Zenon, <1>1, <1>3

\* A claim takes open rows, and reads their counts.
LEMMA ClaimKeeps ==
    ASSUME PubInv, NEW l \in Loop, claim_batch(l), UNCHANGED psetting
    PROVE  PubInv'
<1>1. PICK S \in SUBSET Claimable(l) :
         /\ pstatus' = [i \in PubItem |-> IF i \in S THEN "claimed" ELSE pstatus[i]]
         /\ pholder' = [i \in PubItem |-> IF i \in S THEN l[1] ELSE pholder[i]]
         /\ plive' = [i \in PubItem |-> IF i \in S THEN TRUE ELSE plive[i]]
         /\ pbatch' = [pbatch EXCEPT ![l] = S]
  BY Zenon DEF claim_batch
<1>2. /\ pseen' = [pseen EXCEPT ![l] = ptries] /\ pstep' = [pstep EXCEPT ![l] = "loop"]
      /\ UNCHANGED <<ptries, precords, pcur, history>> /\ pstep[l] = "idle"
  BY Zenon DEF claim_batch, history
<1>3. S \subseteq Mine(l) /\ S \subseteq PubItem /\ \A i \in S : pstatus[i] \in Open
  BY Zenon, MineIsItem DEF Claimable, Open
<1>4. l[1] \in RPublisher
  BY Zenon DEF Loop
<1>5. RowTypeOK'
  BY Zenon, <1>1, <1>2, <1>4 DEF PubInv, RowInv, RowTypeOK, Open, history
<1>6. RowInv'
  BY Zenon, <1>1, <1>2, <1>3, <1>5, OpenRowsKeep DEF PubInv, RowInv, RowTypeOK, Open
<1>7. LoopTypeOK'
  BY Zenon, <1>1, <1>2, <1>3 DEF PubInv, RowInv, RowTypeOK, LoopInv, LoopTypeOK
<1>8. \A k \in Loop : k # l => UNCHANGED <<pstep[k], pbatch[k], pcur[k], pseen[k]>>
  BY Zenon, <1>1, <1>2 DEF PubInv, LoopInv, LoopTypeOK
<1>9. pstep'[l] = "loop" /\ pbatch'[l] = S /\ pcur'[l] = pcur[l] /\ pseen'[l] = ptries
  BY Zenon, <1>1, <1>2 DEF PubInv, LoopInv, LoopTypeOK
<1>10. FailureCounted' /\ SuccessEarned' /\ IdleIsEmpty'
  BY <1>2, <1>8, <1>9 DEF PubInv, LoopInv, FailureCounted, SuccessEarned, IdleIsEmpty, Earned,
                          Answered, accept_development_effect, history
<1>11. SeenFailed'
  BY Zenon, <1>2, <1>3, <1>8, <1>9 DEF PubInv, LoopInv, RowInv, SeenFailed, TriesFailed, IdleIsEmpty, history
<1> QED
  BY Zenon, <1>6, <1>7, <1>10, <1>11 DEF PubInv, LoopInv

\* An HTTP call that reports success has arrived, unless it is a command that a
\* development worker only logs.
LEMMA SentIsEarned ==
    ASSUME NEW row, NEW sent \in send_effect(row), row.type \in {"command", "service_event"}, sent.ok
    PROVE  sent.arrived \/ (row.type = "command" /\ accept_development_effect)
<1>1. ASSUME NEW x \in Posted, x.ok PROVE x.arrived
  BY Zenon, <1>1 DEF Posted, Accepted
<1>2. ~Refused.ok
  BY Zenon DEF Refused
<1>3. CASE row.type = "command"
  <2>1. send_effect(row) = send_external_effect
    BY <1>3 DEF send_effect
  <2> QED
    BY Zenon, <1>1, <1>2, <1>3, <2>1 DEF send_external_effect
<1>4. CASE row.type = "service_event"
  <2>1. send_effect(row) = send_domain_service_effect(row.endpoint)
    BY <1>4 DEF send_effect
  <2> QED
    BY Zenon, <1>1, <1>2, <2>1 DEF send_domain_service_effect
<1> QED
  BY Zenon, <1>3, <1>4

LEMMA SendKeeps ==
    ASSUME PubInv, NEW l \in Loop, NEW i \in PubItem, send(l, i), UNCHANGED psetting
    PROVE  PubInv'
<1>1. PICK sent \in IF i \in RustEffect THEN send_effect(psetting.effect[i]) ELSE publish_scheduled_event :
         /\ pstep' = [pstep EXCEPT ![l] = IF sent.ok THEN "ok" ELSE "failed"]
         /\ delivered' = IF sent.arrived THEN delivered \cup {i} ELSE delivered
         /\ pfails' = [pfails EXCEPT ![i] = IF ~sent.ok /\ @ < RMaxAttempts[i] THEN @ + 1 ELSE @]
  BY Zenon DEF send
<1>2. /\ i \in pbatch[l] /\ pbatch' = [pbatch EXCEPT ![l] = @ \ {i}] /\ pcur' = [pcur EXCEPT ![l] = {i}]
      /\ UNCHANGED <<pstatus, pholder, plive, ptries, precords, pseen>>
  BY Zenon DEF send, prows
<1>3. sent.ok /\ Answered(i) =>
        sent.arrived \/ (psetting.effect[i].type = "command" /\ accept_development_effect)
  <2>1. ASSUME sent.ok, Answered(i)
        PROVE  sent.arrived \/ (psetting.effect[i].type = "command" /\ accept_development_effect)
    <3>1. PICK row : row = psetting.effect[i]
      BY Zenon
    <3>2. sent \in send_effect(row) /\ row.type \in {"command", "service_event"}
      BY Zenon, <1>1, <2>1, <3>1 DEF Answered
    <3>3. sent.arrived \/ (row.type = "command" /\ accept_development_effect)
      BY Zenon, <2>1, <3>2, SentIsEarned
    <3> QED
      BY Zenon, <3>1, <3>3
  <2> QED
    BY Zenon, <2>1
<1>4. RMaxAttempts[i] \in Nat /\ pfails[i] \in Nat /\ pfails \in [PubItem -> Nat]
  BY Zenon, PublishersAssumption DEF PubItem, PubInv, RowInv, RowTypeOK
<1>5. /\ \A j \in PubItem : pfails[j] \in Nat /\ pfails'[j] \in Nat /\ pfails[j] <= pfails'[j]
      /\ \A j \in PubItem : pfails[j] = RMaxAttempts[j] => pfails'[j] = pfails[j]
      /\ \A j \in PubItem : pfails'[j] <= RMaxAttempts[j]
      /\ pfails' \in [PubItem -> Nat]
      /\ sent.ok \/ pfails'[i] = RMaxAttempts[i] \/ pfails'[i] = pfails[i] + 1
  BY <1>1, <1>4 DEF PubInv, RowInv, FailsBounded
<1>6. delivered \subseteq delivered' /\ (sent.arrived => i \in delivered')
  BY Zenon, <1>1
<1>7. RowInv'
  <2>1. RowTypeOK'
    BY Zenon, <1>2, <1>5 DEF PubInv, RowInv, RowTypeOK
  <2>2. TriesFailed' /\ FailsBounded'
    BY <1>2, <1>5 DEF PubInv, RowInv, RowTypeOK, TriesFailed, FailsBounded
  <2>3. RustOutcomeEarned'
    BY Zenon, <1>2, <1>5, <1>6 DEF PubInv, RowInv, RustOutcomeEarned, Earned, Answered, accept_development_effect
  <2> QED
    BY Zenon, <2>1, <2>2, <2>3 DEF RowInv
<1>8. LoopTypeOK'
  BY Zenon, <1>1, <1>2 DEF PubInv, LoopInv, LoopTypeOK
<1>9. /\ \A k \in Loop : k # l => UNCHANGED <<pstep[k], pbatch[k], pcur[k]>>
      /\ pbatch'[l] = pbatch[l] \ {i} /\ pcur'[l] = {i}
      /\ pstep'[l] = IF sent.ok THEN "ok" ELSE "failed"
      /\ \A k \in Loop : pbatch[k] \subseteq PubItem /\ pcur[k] \subseteq PubItem
      /\ \A k \in Loop, j \in PubItem : pseen'[k][j] = pseen[k][j] /\ pseen[k][j] \in Nat
  BY Zenon, <1>1, <1>2 DEF PubInv, LoopInv, LoopTypeOK
<1>10. SeenFailed'
  <2> SUFFICES ASSUME NEW k \in Loop, NEW j \in pbatch'[k] \cup pcur'[k] PROVE pseen'[k][j] <= pfails'[j]
    BY Zenon DEF SeenFailed
  <2>1. j \in pbatch[k] \cup pcur[k] /\ j \in PubItem
    BY <1>2, <1>9
  <2>2. pseen[k][j] <= pfails[j]
    BY Zenon, <2>1 DEF PubInv, LoopInv, SeenFailed
  <2> QED
    BY <1>5, <1>9, <2>1, <2>2
<1>11. FailureCounted'
  <2> SUFFICES ASSUME NEW k \in Loop, pstep'[k] = "failed", NEW j \in pcur'[k]
               PROVE  pfails'[j] = RMaxAttempts[j] \/ pseen'[k][j] + 1 <= pfails'[j]
    BY Zenon DEF FailureCounted
  <2>1. CASE k = l
    <3>1. j = i /\ ~sent.ok
      BY Zenon, <1>9, <2>1
    <3>2. pseen[l][i] <= pfails[i]
      BY Zenon, <1>2 DEF PubInv, LoopInv, SeenFailed
    <3> QED
      BY <1>5, <1>9, <2>1, <3>1, <3>2
  <2>2. CASE k # l
    <3>1. pfails[j] = RMaxAttempts[j] \/ pseen[k][j] + 1 <= pfails[j]
      BY Zenon, <1>9, <2>2 DEF PubInv, LoopInv, FailureCounted
    <3> QED
      BY <1>5, <1>9, <2>2, <3>1
  <2> QED
    BY Zenon, <2>1, <2>2
<1>12. SuccessEarned' /\ IdleIsEmpty'
  BY <1>3, <1>6, <1>9 DEF PubInv, LoopInv, SuccessEarned, IdleIsEmpty, Earned, Answered,
                          accept_development_effect
<1> QED
  BY Zenon, <1>7, <1>8, <1>10, <1>11, <1>12 DEF PubInv, LoopInv

\* What a settlement knows of the row in hand.
LEMMA CurrentFacts ==
    ASSUME PubInv, NEW l \in Loop, NEW i \in pcur[l]
    PROVE  /\ i \in PubItem /\ i \in Mine(l)
           /\ l[2] = "outbox" => i \in RustEffect
           /\ ptries[i] \in Nat /\ pseen[l][i] \in Nat /\ pfails[i] \in Nat /\ RMaxAttempts[i] \in Nat
           /\ pstep[l] = "ok" => Earned(i)
           /\ pstep[l] = "failed" /\ LastTry(l, i) => pfails[i] = RMaxAttempts[i]
           /\ pstep[l] = "failed" /\ ~LastTry(l, i) => pseen[l][i] + 1 <= pfails[i]
<1>1. i \in PubItem /\ i \in Mine(l) /\ (l[2] = "outbox" => i \in RustEffect)
  BY Zenon DEF PubInv, LoopInv, LoopTypeOK, Mine
<1>2. /\ ptries[i] \in Nat /\ pseen[l][i] \in Nat /\ pfails[i] \in Nat /\ RMaxAttempts[i] \in Nat
      /\ pfails[i] <= RMaxAttempts[i]
  BY Zenon, <1>1, PublishersAssumption DEF PubInv, RowInv, RowTypeOK, LoopInv, LoopTypeOK, PubItem, FailsBounded
<1>3. /\ pstep[l] = "ok" => Earned(i)
      /\ pstep[l] = "failed" => pfails[i] = RMaxAttempts[i] \/ pseen[l][i] + 1 <= pfails[i]
  BY Zenon DEF PubInv, LoopInv, SuccessEarned, FailureCounted
<1> QED
  BY <1>1, <1>2, <1>3 DEF LastTry

LEMMA RowsUnchanged == RowInv /\ UNCHANGED <<prows, precords, history>> => RowInv'
  BY Zenon, OpenRowsKeep DEF prows, history, RowInv, RowTypeOK

LEMMA MarkKeeps ==
    ASSUME PubInv, NEW l \in Loop, mark_sent(l), UNCHANGED psetting
    PROVE  PubInv'
<1>1. PICK i \in pcur[l] : IF HoldsClaim(l, i)
                           THEN Settle(i, IF i \in RustEffect THEN "delivered" ELSE "released", ptries[i])
                           ELSE UNCHANGED prows
  BY Zenon DEF mark_sent
<1>2. pstep[l] = "ok" /\ NextRow(l) /\ UNCHANGED <<precords, history>>
  BY Zenon DEF mark_sent, history
<1>3. i \in PubItem /\ ptries[i] \in Nat /\ Earned(i)
  BY Zenon, <1>2, CurrentFacts
<1>4. RowInv'
  <2>1. CASE HoldsClaim(l, i)
    <3>1. ASSUME NEW s \in Sent, Settle(i, s, ptries[i]) PROVE RowInv'
      BY Zenon, <1>2, <1>3, <2>1, <3>1, SettleKeeps DEF PubInv, Sent, GivenUp, history
    <3> QED
      BY Zenon, <1>1, <2>1, <3>1 DEF Sent
  <2>2. CASE ~HoldsClaim(l, i)
    BY Zenon, <1>1, <1>2, <2>2, RowsUnchanged DEF PubInv
  <2> QED
    BY Zenon, <2>1, <2>2
<1> QED
  BY Zenon, <1>2, <1>4, NextRowKeeps DEF PubInv

LEMMA RetryKeeps ==
    ASSUME PubInv, NEW l \in Loop, UNCHANGED psetting,
           schedule_effect_retry(l) \/ quarantine_effect_atomically(l)
    PROVE  PubInv'
<1>1. PICK i \in pcur[l] :
         \/ ~HoldsClaim(l, i) /\ Stop(l[1])
         \/ /\ HoldsClaim(l, i) /\ NextRow(l) /\ UNCHANGED history
            /\ \/ ~LastTry(l, i) /\ Settle(i, "pending", pseen[l][i] + 1) /\ UNCHANGED precords
               \/ /\ LastTry(l, i) /\ Settle(i, "quarantined", pseen[l][i] + 1)
                  /\ precords' = precords \cup {i}
  BY Zenon DEF schedule_effect_retry, quarantine_effect_atomically, history
<1>2. pstep[l] = "failed" /\ l[2] = "outbox" /\ l[1] \in RPublisher
  BY Zenon DEF schedule_effect_retry, quarantine_effect_atomically, Loop
<1>3. /\ i \in PubItem /\ i \in RustEffect /\ pseen[l][i] + 1 \in Nat
      /\ LastTry(l, i) => pfails[i] = RMaxAttempts[i]
      /\ ~LastTry(l, i) => pseen[l][i] + 1 <= pfails[i]
  BY <1>2, CurrentFacts
<1>4. CASE Stop(l[1])
  BY Zenon, <1>2, <1>4, StopKeeps
<1>5. CASE /\ HoldsClaim(l, i) /\ NextRow(l) /\ UNCHANGED history
           /\ ~LastTry(l, i) /\ Settle(i, "pending", pseen[l][i] + 1) /\ UNCHANGED precords
  BY <1>3, <1>5, SettleKeeps, NextRowKeeps DEF PubInv, Sent, GivenUp
<1>6. CASE /\ HoldsClaim(l, i) /\ NextRow(l) /\ UNCHANGED history
           /\ LastTry(l, i) /\ Settle(i, "quarantined", pseen[l][i] + 1)
           /\ precords' = precords \cup {i}
  BY Zenon, <1>3, <1>6, SettleKeeps, NextRowKeeps DEF PubInv, Sent, GivenUp
<1> QED
  BY Zenon, <1>1, <1>4, <1>5, <1>6

LEMMA FailureKeeps ==
    ASSUME PubInv, NEW l \in Loop, record_publish_failure(l), UNCHANGED psetting
    PROVE  PubInv'
<1>1. PICK i \in pcur[l] : IF HoldsClaim(l, i)
                           THEN Settle(i, IF LastTry(l, i) THEN "failed" ELSE "pending", pseen[l][i] + 1)
                           ELSE UNCHANGED prows
  BY Zenon DEF record_publish_failure
<1>2. pstep[l] = "failed" /\ NextRow(l) /\ UNCHANGED <<precords, history>>
  BY Zenon DEF record_publish_failure, history
<1>3. /\ i \in PubItem /\ pseen[l][i] + 1 \in Nat
      /\ LastTry(l, i) => pfails[i] = RMaxAttempts[i]
      /\ ~LastTry(l, i) => pseen[l][i] + 1 <= pfails[i]
  BY <1>2, CurrentFacts
<1>4. RowInv'
  <2>1. CASE HoldsClaim(l, i) /\ LastTry(l, i)
    BY Zenon, <1>1, <1>2, <1>3, <2>1, SettleKeeps DEF PubInv, Sent, GivenUp
  <2>2. CASE HoldsClaim(l, i) /\ ~LastTry(l, i)
    BY <1>1, <1>2, <1>3, <2>2, SettleKeeps DEF PubInv, Sent, GivenUp
  <2>3. CASE ~HoldsClaim(l, i)
    BY Zenon, <1>1, <1>2, <2>3, RowsUnchanged DEF PubInv
  <2> QED
    BY Zenon, <2>1, <2>2, <2>3
<1> QED
  BY Zenon, <1>2, <1>4, NextRowKeeps DEF PubInv

LEMMA LoopsUnchanged == LoopInv /\ UNCHANGED <<plocals, history>> => LoopInv'
  BY Zenon DEF plocals, history, LoopInv, LoopTypeOK, SeenFailed, FailureCounted, SuccessEarned,
         IdleIsEmpty, Earned, Answered, accept_development_effect

LEMMA StepPub == PubInv /\ [PubNext]_pubVars => PubInv'
<1> SUFFICES ASSUME PubInv, [PubNext]_pubVars PROVE PubInv'
  BY Zenon
<1>1. ASSUME NEW i \in PubItem, Insert(i) \/ ClaimLapses(i), UNCHANGED psetting PROVE PubInv'
  <2>1. UNCHANGED <<ptries, precords, plocals, history>>
    BY Zenon, <1>1 DEF Insert, ClaimLapses, history
  <2>2. RowTypeOK'
    BY Zenon, <1>1 DEF PubInv, RowInv, RowTypeOK, Open, Insert, ClaimLapses
  <2>3. \A j \in PubItem : pstatus'[j] = pstatus[j] \/ (pstatus[j] \in Open /\ pstatus'[j] \in Open)
    BY Zenon, <1>1 DEF PubInv, RowInv, RowTypeOK, Open, Insert, ClaimLapses
  <2> QED
    BY Zenon, <2>1, <2>2, <2>3, OpenRowsKeep, LoopsUnchanged DEF PubInv
<1>2. ASSUME NEW l \in Loop, TickEnds(l), UNCHANGED psetting PROVE PubInv'
  BY Zenon, <1>2, AbandonKeeps DEF TickEnds, history
<1>3. CASE UNCHANGED pubVars
  BY Zenon, <1>3, RowsUnchanged, LoopsUnchanged DEF pubVars, prows, plocals, history, PubInv
<1> QED
  BY Zenon, <1>1, <1>2, <1>3, ClaimKeeps, SendKeeps, MarkKeeps, RetryKeeps, FailureKeeps, StopKeeps
     DEF PubNext, Steps

LEMMA PubInductive == PubSpec => []PubInv
  BY InitPub, StepPub, PTL DEF PubSpec

\* Whatever crashes, lapses or arrives late, a command or service event that the
\* Rust outbox loop marks delivered arrived or is a command only logged in
\* development, a row is given up after all its attempts failed, and an effect has
\* a quarantine record exactly when it is quarantined.
THEOREM OutcomesEarned == PubSpec => []RustOutcomeEarned
<1>1. PubInv => RustOutcomeEarned
  BY Zenon DEF PubInv, RowInv
<1> QED
  BY <1>1, PubInductive, PTL

-----------------------------------------------------------------------------
(* The loops keep the claim protocol, each on its table.                   *)

LEMMA OtherTable == \A i \in RustEffect : i \notin RustTimer
  BY Zenon, PublishersAssumption

LEMMA RowsClaims == UNCHANGED <<pstatus, pholder, plive>> => ClaimStep
  BY Zenon DEF ClaimStep, EffectWork!workVars, TimerWork!workVars

\* A table none of whose rows changes takes no step.
LEMMA EffectsStay ==
    (\A i \in RustEffect : UNCHANGED <<pstatus[i], pholder[i], plive[i]>>) => UNCHANGED EffectWork!workVars
  BY Zenon DEF EffectWork!workVars

LEMMA TimersStay ==
    (\A i \in RustTimer : UNCHANGED <<pstatus[i], pholder[i], plive[i]>>) => UNCHANGED TimerWork!workVars
  BY Zenon DEF TimerWork!workVars

LEMMA RowClaims ==
    ASSUME RowInv, NEW i \in PubItem, Insert(i) \/ ClaimLapses(i)
    PROVE  ClaimStep
<1>1. \A j \in PubItem : j # i => UNCHANGED <<pstatus[j], pholder[j], plive[j]>>
  BY Zenon DEF Insert, ClaimLapses, RowInv, RowTypeOK
<1>2. CASE i \in RustEffect
  <2>1. EffectWork!Add(i) \/ EffectWork!Expire(i)
    BY Zenon, <1>2 DEF Insert, ClaimLapses, RowInv, RowTypeOK, PubItem, EffectWork!Add, EffectWork!Expire
  <2> QED
    BY Zenon, <1>1, <1>2, <2>1, OtherTable, TimersStay DEF ClaimStep, EffectWork!WorkNext, PubItem
<1>3. CASE i \in RustTimer
  <2>1. TimerWork!Add(i) \/ TimerWork!Expire(i)
    BY Zenon, <1>3 DEF Insert, ClaimLapses, RowInv, RowTypeOK, PubItem, TimerWork!Add, TimerWork!Expire
  <2> QED
    BY Zenon, <1>1, <1>3, <2>1, OtherTable, EffectsStay DEF ClaimStep, TimerWork!WorkNext, PubItem
<1> QED
  BY Zenon, <1>2, <1>3 DEF PubItem

LEMMA BatchClaims ==
    ASSUME RowInv, NEW l \in Loop, claim_batch(l)
    PROVE  ClaimStep
<1>1. PICK S \in SUBSET Claimable(l) :
         /\ pstatus' = [i \in PubItem |-> IF i \in S THEN "claimed" ELSE pstatus[i]]
         /\ pholder' = [i \in PubItem |-> IF i \in S THEN l[1] ELSE pholder[i]]
         /\ plive' = [i \in PubItem |-> IF i \in S THEN TRUE ELSE plive[i]]
  BY Zenon DEF claim_batch
<1>2. l[1] \in RPublisher
  BY Zenon DEF Loop
<1>3. CASE l[2] = "outbox"
  <2>1. S \in SUBSET RustEffect
    BY Zenon, <1>3 DEF Claimable, Mine
  <2>2. \A i \in S : pstatus[i] = "pending" \/ (pstatus[i] = "claimed" /\ ~plive[i])
    BY Zenon DEF Claimable
  <2>3. EffectWork!Claim(l[1], S)
    BY Zenon, <1>1, <2>1, <2>2 DEF EffectWork!Claim, EffectWork!Claimable, PubItem
  <2>4. UNCHANGED TimerWork!workVars
    BY Zenon, <1>1, <2>1, OtherTable, TimersStay DEF PubItem
  <2> QED
    BY Zenon, <1>2, <2>1, <2>3, <2>4 DEF ClaimStep, EffectWork!WorkNext
<1>4. CASE l[2] # "outbox"
  <2>1. S \in SUBSET RustTimer
    BY Zenon, <1>4 DEF Claimable, Mine
  <2>2. \A i \in S : pstatus[i] = "pending" \/ (pstatus[i] = "claimed" /\ ~plive[i])
    BY Zenon DEF Claimable
  <2>3. TimerWork!Claim(l[1], S)
    BY Zenon, <1>1, <2>1, <2>2 DEF TimerWork!Claim, TimerWork!Claimable, PubItem
  <2>4. UNCHANGED EffectWork!workVars
    BY Zenon, <1>1, <2>1, OtherTable, EffectsStay DEF PubItem
  <2> QED
    BY Zenon, <1>2, <2>1, <2>3, <2>4 DEF ClaimStep, TimerWork!WorkNext
<1> QED
  BY Zenon, <1>3, <1>4

LEMMA SettleClaims ==
    ASSUME RowInv, NEW l \in Loop, NEW i \in PubItem, HoldsClaim(l, i), NEW a,
           NEW s \in {"pending"} \cup (IF i \in RustEffect THEN {"delivered", "quarantined"}
                                                          ELSE {"released", "failed"}),
           Settle(i, s, a)
    PROVE  ClaimStep
<1>1. \A j \in PubItem : j # i => UNCHANGED <<pstatus[j], pholder[j], plive[j]>>
  BY Zenon DEF Settle, RowInv, RowTypeOK
<1>2. l[1] \in RPublisher
  BY Zenon DEF Loop
<1>3. CASE i \in RustEffect
  <2>1. EffectWork!Settle(l[1], i, s)
    BY Zenon, <1>3 DEF Settle, HoldsClaim, RowInv, RowTypeOK, PubItem, EffectWork!Settle, EffectWork!Holds
  <2> QED
    BY Zenon, <1>1, <1>2, <1>3, <2>1, OtherTable, TimersStay DEF ClaimStep, EffectWork!WorkNext, PubItem
<1>4. CASE i \notin RustEffect
  <2>1. i \in RustTimer
    BY Zenon, <1>4 DEF PubItem
  <2>2. TimerWork!Settle(l[1], i, s)
    BY Zenon, <2>1 DEF Settle, HoldsClaim, RowInv, RowTypeOK, PubItem, TimerWork!Settle, TimerWork!Holds
  <2> QED
    BY Zenon, <1>1, <1>2, <1>4, <2>1, <2>2, OtherTable, EffectsStay DEF ClaimStep, TimerWork!WorkNext, PubItem
<1> QED
  BY Zenon, <1>3, <1>4

\* The loops of one worker that end let go of their rows.
LEMMA AbandonClaims ==
    ASSUME NEW w \in RPublisher, NEW L \in SUBSET ({w} \X {"outbox", "scheduler"}),
           AbandonLoops(L), UNCHANGED <<pstatus, plive>>
    PROVE  ClaimStep
<1>1. \A l \in L : l[1] = w /\ (l = <<w, "outbox">> \/ l = <<w, "scheduler">>)
  OBVIOUS
<1>2. Mine(<<w, "outbox">>) = RustEffect /\ Mine(<<w, "scheduler">>) = RustTimer
  BY Zenon DEF Mine
<1>3. \A i \in RustEffect : pholder'[i] = IF <<w, "outbox">> \in L /\ pholder[i] = w THEN RGone ELSE pholder[i]
  BY Zenon, <1>1, <1>2, OtherTable DEF AbandonLoops, PubItem
<1>4. \A i \in RustTimer : pholder'[i] = IF <<w, "scheduler">> \in L /\ pholder[i] = w THEN RGone ELSE pholder[i]
  BY Zenon, <1>1, <1>2, OtherTable DEF AbandonLoops, PubItem
<1>5. [EffectWork!WorkNext]_(EffectWork!workVars)
  <2>1. CASE <<w, "outbox">> \in L
    <3>1. EffectWork!Abandon(w)
      BY Zenon, <1>3, <2>1 DEF EffectWork!Abandon
    <3> QED
      BY Zenon, <3>1 DEF EffectWork!WorkNext
  <2>2. CASE <<w, "outbox">> \notin L
    BY Zenon, <1>3, <2>2, EffectsStay
  <2> QED
    BY Zenon, <2>1, <2>2
<1>6. [TimerWork!WorkNext]_(TimerWork!workVars)
  <2>1. CASE <<w, "scheduler">> \in L
    <3>1. TimerWork!Abandon(w)
      BY Zenon, <1>4, <2>1 DEF TimerWork!Abandon
    <3> QED
      BY Zenon, <3>1 DEF TimerWork!WorkNext
  <2>2. CASE <<w, "scheduler">> \notin L
    BY Zenon, <1>4, <2>2, TimersStay
  <2> QED
    BY Zenon, <2>1, <2>2
<1> QED
  BY Zenon, <1>5, <1>6 DEF ClaimStep

LEMMA StepClaims == PubInv /\ [PubNext]_pubVars => ClaimStep
<1> SUFFICES ASSUME PubInv, [PubNext]_pubVars PROVE ClaimStep
  BY Zenon
<1>0. RowInv
  BY Zenon DEF PubInv
<1>1. ASSUME NEW w \in RPublisher, Stop(w) PROVE ClaimStep
  BY Zenon, <1>1, AbandonClaims DEF Stop
<1>2. ASSUME NEW l \in Loop, TickEnds(l) PROVE ClaimStep
  <2>1. l[1] \in RPublisher /\ {l} \in SUBSET ({l[1]} \X {"outbox", "scheduler"})
    BY Zenon DEF Loop
  <2> QED
    BY Zenon, <1>2, <2>1, AbandonClaims DEF TickEnds
<1>3. ASSUME NEW l \in Loop, NEW i \in PubItem, send(l, i) PROVE ClaimStep
  BY Zenon, <1>3, RowsClaims DEF send, prows
<1>4. ASSUME NEW l \in Loop,
             mark_sent(l) \/ record_publish_failure(l) \/ schedule_effect_retry(l)
               \/ quarantine_effect_atomically(l)
      PROVE  ClaimStep
  <2>1. CASE mark_sent(l)
    <3>1. PICK i \in pcur[l] : IF HoldsClaim(l, i)
                               THEN Settle(i, IF i \in RustEffect THEN "delivered" ELSE "released", ptries[i])
                               ELSE UNCHANGED prows
      BY Zenon, <2>1 DEF mark_sent
    <3>2. i \in PubItem
      BY Zenon, CurrentFacts
    <3> QED
      BY Zenon, <1>0, <3>1, <3>2, SettleClaims, RowsClaims DEF prows
  <2>2. CASE record_publish_failure(l)
    <3>1. PICK i \in pcur[l] : IF HoldsClaim(l, i)
                               THEN Settle(i, IF LastTry(l, i) THEN "failed" ELSE "pending", pseen[l][i] + 1)
                               ELSE UNCHANGED prows
      BY Zenon, <2>2 DEF record_publish_failure
    <3>2. i \in PubItem /\ i \notin RustEffect
      <4>1. l[2] # "outbox"
        BY Zenon, <2>2 DEF record_publish_failure
      <4> QED
        BY Zenon, <4>1, CurrentFacts, OtherTable DEF Mine
    <3> QED
      BY Zenon, <1>0, <3>1, <3>2, SettleClaims, RowsClaims DEF prows
  <2>3. CASE schedule_effect_retry(l) \/ quarantine_effect_atomically(l)
    <3>1. PICK i \in pcur[l] : \/ Stop(l[1])
                               \/ /\ HoldsClaim(l, i)
                                  /\ \/ Settle(i, "pending", pseen[l][i] + 1)
                                     \/ Settle(i, "quarantined", pseen[l][i] + 1)
      BY Zenon, <2>3 DEF schedule_effect_retry, quarantine_effect_atomically
    <3>2. l[2] = "outbox" /\ l[1] \in RPublisher
      BY Zenon, <2>3 DEF schedule_effect_retry, quarantine_effect_atomically, Loop
    <3>3. i \in PubItem /\ i \in RustEffect
      BY Zenon, <3>2, CurrentFacts
    <3> QED
      BY Zenon, <1>0, <1>1, <3>1, <3>2, <3>3, SettleClaims
  <2> QED
    BY Zenon, <1>4, <2>1, <2>2, <2>3
<1>5. CASE UNCHANGED pubVars
  BY Zenon, <1>5, RowsClaims DEF pubVars
<1> QED
  BY Zenon, <1>0, <1>1, <1>2, <1>3, <1>4, <1>5, RowClaims, BatchClaims DEF PubNext, Steps

\* The Rust loops keep the claim protocol of the Go loops: only a worker whose claim
\* on a row has not lapsed settles it, and a settled row is never taken up again.
THEOREM ClaimsKept == PubSpec => RustKeepsClaims
<1>1. PubInit => ClaimInit
  BY Zenon DEF PubInit, ClaimInit, EffectWork!WorkInit, TimerWork!WorkInit, PubItem
<1>2. PubInv /\ [PubNext]_pubVars => [ClaimStep]_pubVars
  BY Zenon, StepClaims
<1> QED
  BY <1>1, <1>2, PubInductive, PTL DEF PubSpec, RustKeepsClaims
=============================================================================
