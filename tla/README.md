# FlowRule in TLA+

This directory specifies FlowRule: the protocols that let several workers consume
events, evaluate rules and publish effects while leases move, processes crash,
answers get lost and messages are redelivered, the rule language itself in its Go
and its Rust implementation, the services around this core (rule activation,
workflows, domain services, batches, quarantine, the Redis adapters), the client SDK,
and the start and shutdown of the processes. TLC checks the specifications on small
instances; TLAPS proves nearly all safety properties for every value of the constants.
`PROJECT.json` lists the runs, the mutants that show each property can fail, the source
lines behind each definition, the hazards and the findings.

## 1. The system

Events arrive on a NATS JetStream stream whose subjects carry a virtual shard. A
worker may process a shard's events while it holds the shard's **lease**, a row
with an owner, an expiry time and a fencing token. It fetches from the **durable
consumers** of its shards and hands each delivery to the **key queue**, which runs
one event of a partition key at a time and in order. The **event processor** then
opens one transaction: assert the lease, deduplicate through the inbox, load the
active rule revision, evaluate, and write the execution, its **outbox effects**
and the inbox status. After the commit the delivery is acknowledged. Events that
can never succeed are put in **quarantine** and acknowledged. **Outbox
publishers** claim effects, send them and settle them; **schedulers** do the same
with scheduled events and put them on the stream. **Rule activation** stores compiled
revisions and moves the activation row; **domain services** subscribe to the events of
a tenant's domains and get one effect per processed event; **workflow instances** move
along a state graph; **batches** evaluate groups of inbox entries as one event. A
**Rust worker** does what the Go worker does over the same tables and streams.
Producers use the **Go SDK**, which publishes to the stream or through the API.
PostgreSQL and MongoDB are alternative backends of every Go repository.

### Inventory

| Part | State | Operations that change it | What is hard about it |
|---|---|---|---|
| Lease manager `internal/runtime/shard`, `*/shard.go` | lease rows; `ownedShards` of each worker | Start, renewOwned (batch or row by row), rebalanceIfNeeded, Stop | Acquire is two statements; late renewals; restart under the same id; lost answers |
| Shard consumers `worker_sharding.go`, `nats/jetstream.go` | durables at the broker, local consumer map, fetch cursor | syncConsumers, Ensure/RemoveShardConsumer, FetchShards, processSingleDelivery | durables are shared by old and new owner; calls that take effect and lose their answer; ownership that changes during a pull; one failing consumer fails the round |
| Delivery handling `worker_delivery.go` | deliveries, acknowledgements, quarantine | processDelivery, submit, settle, quarantine | redelivery, ownership read early and used late |
| Key queue `internal/runtime/keyqueue` | map of per-key channels, semaphore, hot keys | Submit, nextEvent, finishEvent, checkHotKeys, Start, Stop | references to queues that left the map, receive after unlock, shutdown |
| Event processor `internal/services/events` | inbox, executions, outbox | Process, QuarantineEvent | takeover during a transaction, concurrent duplicates, lost commit answers |
| Outbox publisher `internal/services/effects` | outbox rows, quarantine records | PublishBatch | claims that lapse under way, crash after send, two-statement quarantine |
| Scheduler `internal/runtime/scheduler` | scheduled rows | tick, Save, Cancel | stale GetDue, cancellation races, publish with a lost answer, rows that cannot be read |
| Event ingestion `http/handlers/events_ingest.go` | the stream | PublishEvent | stored publish that reports an error; event types without a rule set |
| Rule activation `internal/services/rules` | revisions, activation row and version | CreateRevision (CAS), Deactivate | version starts again after Deactivate; two stores with different isolation |
| Batches `internal/services/batches` | inbox entries, batch runs | Tick, CreateBatch, CompleteBatch, recovery | crash between processing and completion; stale ownership; manual batch against a tick |
| Workflows `internal/services/workflow` | instances | Create, Transition | optimistic version over two reads |
| Domain services `internal/services/domainservices` | domains, services, subscriptions | save, disable and delete; fan-out; Send | read-modify-write in separate calls; two-step deletion; the limit of 100 |
| Compiler and evaluators `internal/rules`, `rust-worker/src/engine/rules.rs` | none (pure) | Compile, Evaluate, evaluate | missing fields, numeric strings, templates; two implementations of one language |
| Quarantine `internal/services/quarantine` | records | Save, backfill, List, Replay, Delete | paging by offset while records come and go |
| Rust worker `rust-worker/src` | the same tables; leases and tasks of each process | start, consume, stop; outbox and scheduler loops | leases taken once; any task's end stops the process; lapsing claims |
| Redis lock and limiter `internal/adapters/redis` | one key per lock or limit | Lock, Release, Extend, renewLoop; Allow, Reset | late release after expiry, edges of the window, a clock read before the transaction |
| Go SDK `sdk/go/flowrule` | a client with its transport and subscriptions | Send, SendBatch, Subscribe, Close | retries of a batch that was published in part; publications that arrive late; Close against calls in progress; routes of producer and subscriber |
| Processes `cmd/worker`, `cmd/api`, `worker_lifecycle.go` | resources acquired so far, loops, configuration | start-up, rounds of the loops, signal, release | failure or signal at any step; order of release; requests outliving the server |
| API, auth, configuration, observability, code generator, console | - | - | no protocol of their own, or clients of the above |

## 2. Modules

| Module | Models |
|---|---|
| `FencedLease` | Abstract: rows with owner, token and liveness; workers that remember tokens. What the event processor relies on. |
| `ShardLease` | Lease managers of all workers over the lease table, a step per statement, PostgreSQL and MongoDB (`backend`, chosen in the initial state). Implements `FencedLease` over PostgreSQL. |
| `EventProcessing` | Fetch, routing, transaction, settlement of deliveries, over both stores. Extends `FencedLease`: leases and events are one composed system. |
| `KeyedFIFO` | Abstract: per key a FIFO of which the head is in progress. |
| `KeyQueue` | Submitters, queue workers, hot-key checker, Stop, a step per critical section or channel operation. Implements `KeyedFIFO`. |
| `ClaimedWork` | Abstract: rows claimed for a while; only the holder of a live claim settles. |
| `Outbox`, `Scheduler` | PublishBatch and tick over their tables. Both implement `ClaimedWork`. |
| `ShardConsumers` | Event ingestion, reconciliation and fetch of every worker over the broker's durables. |
| `RuleLanguage` | Compiler, Go evaluator and Rust evaluator as operators; a behaviour compiles a document and evaluates an event in both runtimes. |
| `RuleActivation` | Concurrent CreateRevision and Deactivate requests over both stores. |
| `Workflow` | Creation and transitions of workflow instances by concurrent requests. |
| `DomainServices` | Domains and services of a tenant, the fan-out and the sender. |
| `Batches` | Ticks of several workers, and manual batches, over the inbox. |
| `Quarantine` | The record store, its backfill and a client that pages through it. |
| `RustWorker` | Processes, leases, consumer tasks and event transactions of the Rust worker. |
| `RustPublishers` | Its outbox and scheduler loops; steps of `ClaimedWork`. |
| `RedisLock`, `RateLimiter`, `RedisAdapters` | The Redis adapters, and the two side by side. |
| `SDKClient` | Concurrent calls and subscriptions of one SDK client over NATS or HTTP. |
| `Processes` | Start-up, loops and shutdown of the worker and of the API. |
| `MC*` | Constants of the TLC instances. `MCServices` puts parts that share no state side by side: a behaviour chooses one part and leaves the others' variables alone. `MCRules` holds the documents and events. |
| `ShardLeaseProofs`, `EventProcessingProofs`, `KeyQueueProofs`, `OutboxProofs`, `RuntimeProofs` (`Scheduler`, `Processes`, `SDKClient`), `EngineProofs` (`RuleActivation`, `Workflow`, `ShardConsumers`), `ServiceProofs` (`DomainServices`, Redis, `Batches`), `RustProofs` | Theorems. |

How state and actions correspond to the code:

* **`ShardLease`.** `owner`, `token`, `left` are the columns of `shard_leases`
  (`left` is `expires_at - NOW()` in ticks; `Tick` is the clock); `owned[w]` is the
  map `ownedShards` with its tokens; `pc`, `cursor`, `pending`, `reading` say where
  worker `w` stands in Start, renewOwned, rebalanceIfNeeded or Stop. A worker is
  sequential, and each of its statements is one action, so the PostgreSQL Acquire is
  an upsert and a later read. `backend` is the configured store. `...Error` actions are statements that fail or whose
  answer is lost. A row that does not exist is an expired row with token 0.
* **`EventProcessing`.** `job[d]` is a delivery in progress: worker, event, phase,
  fencing token, and what its transaction has read. `msg` is the broker's view,
  `executions` and `quarantined` the durable tables, `active` the activation row
  (0: none). The inbox row of an uncommitted transaction is visible through the
  phase of its job: an insert of the same key waits (PostgreSQL) or fails
  (MongoDB). READ COMMITTED is a fresh read at each statement; MongoDB's snapshot
  is what the job remembers from its first read. `RowLocked` is the FOR SHARE lock.
* **`KeyQueue`.** `queues` is the map, `heap` the queue objects (a goroutine may
  hold one that has left the map), `sem` the global semaphore.
* **`Outbox`, `Scheduler`.** `status`, `holder`, `live` are the status, the claim
  token and `claim_expires_at > NOW()`. Tokens are drawn anew for each call, so the
  holder is the publisher whose current call claimed the row, or `Gone`. The LIMIT
  of GetDue is taken to be at least the number of events in the instance. `store` is
  the scheduler's store. Over PostgreSQL a row is `Readable` once a failure has been
  recorded in it; before that its `last_error` is NULL, which the scan into a string
  refuses. `RustRetry` is the failure that a Rust worker, which works on the same table
  and does not read the column, may record.
* **`ShardConsumers`.** `durable` is the set of consumers at the broker, `local[w]`
  worker w's map, `wanted` the shards a reconciliation pass read as owned. A round is
  three steps between which leases move: `Fetch` reads the owned shards and chooses the
  window with the cursor (`chosen`), `Pull` gets what those consumers have (`hand`), and
  `ProcessSingleDelivery` asks IsOwner again for each delivery and gives it back or hands
  it to the key queue. `unheard` remembers the deletions that took effect and lost their
  answer. A consumer is a shard and a rule set, or the shard's base subject;
  `subjectForMessage` sends an event type that is no configured rule set to the base
  subject.
* **`RuleLanguage`.** Definitions carry the names of the Go and Rust functions. A JSON
  value is its type and its text, since `%v`, numeric strings and decimals are where
  the runtimes could differ.
* **`RuleActivation`, `Workflow`, `DomainServices`.** A request is a record with its
  step and the rows it has read; each repository call is an action, so requests
  interleave at every call. Isolation of the two stores is explicit
  (`KeyLocked`, `RowLocked`, the snapshot `row`).
* **`Batches`.** `batchCol` is the `batch_id` column, `tick[w]` the call in progress at
  worker w with the groups it still has to process; a batch id is the set of its
  members, as the code hashes their ids.
* **`RustWorker`.** `rproc` is a process, `rtask` the step and message of each consumer
  task, `rheld` the tokens of start-up. `ShareLocked` is the FOR SHARE lock.
* **`RustPublishers`.** As `Outbox` and `Scheduler`; `psetting` is the configuration
  and the columns that choose an effect's destination. `Posted` and `Streamed` are the
  outcomes of a send: an HTTP answer tells of the arrival, while `js.publish(..).await`
  only hands the message over (its acknowledgement future is dropped), so a stream
  publication can succeed without arriving.
* **`RedisLock`.** A guard is its token; `lockKey` is the Redis key, `renewal` its loop.
* **`RateLimiter`.** `Ask` is Allow up to its clock reading, `Allow(r)` the transaction of
  that request, at any later time; `delay` is the longest time between the two.
* **`SDKClient`.** `sdkCall` is the step of each call with the envelopes it made and the
  next one to publish, `sdkStream` what is stored; an attempt stores a prefix of the
  batch. What a failed publication leaves under way (`sdkLate`) is stored at any later
  time or never. Send is SendBatch of one event. `natsSubjectForEnvelope` and
  `natsSubscriptionFilters` are the routes; other producers use either. `SdkAccepts` is
  what the API can decode.
* **`Processes`.** `Plan` lists the resources of a process in the order in which `run`
  acquires them, `psHeld` counts how many are held; they are released from the end, as
  the deferred calls are. `Uses` says what a round of each loop works on. A loop is
  `off`, `idle` or `busy`; release of a stage waits for the loops that the code waits for.

Data is abstracted to what the properties distinguish. In `EventProcessing` an event is
its kind (`ok`, `fails` for a rule that cannot be evaluated, `malformed`, `invalid`;
chosen in the initial state), its shard and its key. An execution is an event and a
rule revision.

## 3. What the runs check

Every property of a passing run has a mutant in `PROJECT.json`: a plausible
mistake in a modelled definition (a dropped guard, a missing lock, a swapped order)
under which TLC finds the property violated.

| Run | Instance | Shows |
|---|---|---|
| `leases` | 2 workers, 3 shards, 2 replicas, TTL 2, 1 fault, either store | a shard changes hands only after its lease has lapsed and with a larger token; nobody exceeds the target; once faults cease all shards stay covered; stale views end. Over PostgreSQL no two workers keep one token of a shard and `FencedLease` is implemented; MongoDB's row-by-row renewal ends with a read that may store another worker's lease, so there these two are not claimed |
| `consumers` | 1 worker, 2 shards with 2 consumers each, fetch window 3, 3 lease moves, 2 accepted events of either kind, 1 fault | the worker takes a delivery only if it holds the shard when it looks at it, whatever happened since the fetch began (`ConsumesOwnedOnly`); unless a deletion loses its answer, its consumers are re-established and a published event is consumed whatever its type |
| `events` | 2 workers, 1 shard, an event `ok` and one of the three other kinds, 2 deliveries, 2 revisions, 1 fault, either store | at most one execution per event; what is acknowledged is durable; every event is settled if the rule set stays active. Over PostgreSQL only the current holder of the lease commits (`LockedCommitIsFenced`); over MongoDB, whose transactions read a snapshot, no good event is quarantined (`SnapshotQuarantine`) |
| `keyqueue` | 2 submitters, 2 workers, 2 items of one key, semaphore 2, channel 1, with hot-key callback | per-key order and exclusion (`KeyedFIFO`), no lost slot, no queue in use outside the map, no blocked receive, silence after Stop; `QueueProgresses`: items are taken, Submit returns once the queue stops or has room, Stop returns |
| `outbox` | 2 effects, 2 publishers, 2 attempts, 2 faults | the claim protocol (`ClaimedWork`), earned outcomes, no record removed by a stale publisher, every effect settled |
| `scheduler` | 2 events, 2 schedulers, 2 attempts, 1 fault, either store | the claim protocol, earned outcomes; over MongoDB every event is released, failed or cancelled |
| `services` | twelve parts, below | below |

`services` explores one part per behaviour:

| Part | Instance | Shows |
|---|---|---|
| language | every predicate and action shape in a set of one rule, all pairs of 48 rules in both modes, 9 odd documents; 8 events | `DecisionsCorrect`: what compiles never reaches a branch for malformed rules, the decision is that of a reference definition over the document's own list, effect ids differ (where the reference follows the code against `docs/rules.md`, see below). `RuntimesAgree`: Go and Rust decide alike on rules that compare like with like and on data both render alike. `WellTyped`, `Canonical` and `NamesWritten` say what is left out, and nothing is claimed there: values of different types, ordering of strings, paths without a prefix, decimals, numbers that Go prints with an exponent, lists in the event, events without data, blank names |
| activation | 2 requests, 2 revision numbers with 2 contents, 4 calls, both stores | `ActiveRevisionIsStored`; `ActivationsSerialise`: an activation replaces the row it read unless a deactivation intervened |
| workflow | 1 workflow, 2 tenants, 2 requests, 3 calls | `NoLostTransition` |
| domains | 1 domain, 2 services, 2 names, 2 requests, 4 calls, fan-out limit 1, both stores | `ReactivatedByRaceOnly`, `SubscriptionsResolve`, `FanOutIsComplete` |
| batches | 3 entries in one or two groups, 2 workers, batches of 2, both stores and modes, 1 manual batch in the accumulating mode | `BatchesRunOnce`: a completed run owns exactly its members; in accumulating mode, while entries commit in the order they were first seen and no batch is formed by hand, no entry is evaluated in two batches |
| quarantine | 3 records, 2 instants, pages of 1 | `PagedListingIsComplete`, for a client during whose paging nothing is deleted and no two records share `created_at` |
| rust worker | 2 workers, 1 shard, 2 subjects, a good and a broken message, 2 starts | `RustSettlesOnce`, `RustCommitsFenced` |
| rust publishers | 2 processes, an effect and a scheduled event, 2 attempts, 1 lapse, 3 configurations | `RustKeepsClaims`; `RustOutcomeEarned`, which claims an arrival of commands and service events only |
| redis lock | 3 guards | `RedisAdaptersSound`: exclusion while renewals come in time, whoever releases late; a guard in use is watched |
| rate limiter | limit 1, window 3, 3 requests in 5 instants | `RedisAdaptersSound`: since the last Reset no stretch as long as the window less the longest delay admits more than the limit |
| sdk | 2 callers, 1 subscriber, 4 batches (2 of them refused), 1 retry, 2 events, both transports | `SdkKeepsEvents`: nil means stored; copies left by retries and late arrivals carry one id and follow the order of the batch; no call is publishing once Close has returned; a live subscription misses none of its events but those of a producer that routes a rule set its own client is not configured for |
| processes | the worker and the API, 9 configurations | `RunsOnHeldResources`: whatever fails and whenever the signal comes, no round of a loop runs on a resource that is not held; what is fetched at once fits into the key queue |

Five runs expect a violation, each of one sentence of the repository's
documentation, comments or tests (quoted in `findings`):

* `event_mongo_fencing`: MongoDB's AssertHeld locks nothing, so a stale holder
  commits after a takeover. The event is still executed at most once
  (`AtMostOneExecution`, in `events`).
* `event_deactivate`: a deactivation between the two reads of `loadActiveRevision`
  quarantines a good event.
* `consumers_handover`: the former owner of a shard deletes the durable consumer
  that the new owner has just ensured, and it is not created again. This is why
  `consumers` checks its liveness for a worker that shares its shards with nobody. A
  single worker comes to the same end when DeleteConsumer takes effect and its answer is
  lost (`jetstream.go:295` returns before the map forgets the consumer), which is why
  `OwnerHasConsumers` and `EveryMessageConsumed` suppose `unheard = {}`.
* `scheduler_postgres`: a row that `Save` has written holds a NULL `last_error`, the scan
  into a Go string fails, and with it the whole GetDue or Claim. One event and one
  scheduler that ticks fairly are enough: the due event is never claimed. This is why
  `EveryEventEnds` speaks of MongoDB.
* `service_reactivated`: an update of a domain service that read the row before it was
  disabled writes the old flag back. `ReactivatedByRaceOnly` shows that this race is
  the only way.

Places where a passing property follows the code and a sentence of the documentation says
otherwise:

* `OutcomesCorrect` of `Scheduler` says that a failed event has used up its attempts, as
  `handleReleaseFailure` and `TestTickSchedulesRetryForPublishFailure` have it.
  `docs/operations.md:160` says "the scheduler currently marks publish errors terminally
  failed instead of retrying transient broker failures", and the repository's
  `README.md:118` "Publish errors still mark scheduled events failed without
  retry/backoff"; both are out of date.
* `DecisionsCorrect`: in `all_matches` the reference definition collects the `otherwise`
  actions of every rule that does not match. `docs/rules.md:65` calls them "(first_match
  only, last rule)", and `docs/rules.md:280` says of `all_matches` "Collects all matched
  effects"; `compiler.go:72` restricts them only in `first_match`.
* `RustOutcomeEarned` claims nothing of an `emit`, an `emit_event` or a scheduled event that
  is marked sent. `effects.rs:199` and `:210` and `scheduler.rs:86` drop the future that
  carries the stream's acknowledgement, so such a row may be settled for a message that
  no stream has.
* `SdkKeepsEvents`: over HTTP only payloads of bytes are ever accepted, since the API
  decodes `data` into a `[]byte` (`events_ingest.go:42`) and the client sends raw JSON;
  `client.go:86` says that the payload "is marshaled to JSON and sent via the configured
  transport". Such a call reports the error.
* `BatchesRunOnce` claims single evaluation in the accumulating mode only. In the window
  mode a retried tick may see other members and so form a batch with another id, while
  `domain/batch.go:77` says "a retried tick after a crash reuses the same inbox key".

Behaviours that the properties allow and a reader of the code should know:

* `MissingRecordWasUnsure`: if `Quarantine` commits and its answer is lost,
  `PublishBatch` removes its own record as an orphan (`effects/service.go:109`), and
  the effect is quarantined without a record.
* `OutcomeEarned` of `Scheduler`: a publish that was stored and reported an error
  makes the row pending again, and it can then be cancelled although the event is on
  the stream (`docs/operations.md:162` says a released event returns a conflict).
* `KeyQueue`: `hotKeys` keeps a key after its queue has left the map; `Stats` looks the
  queue up and dereferences nil (`queue.go:446`).
* `RuleActivation`: after Deactivate the version starts again at 1, so over PostgreSQL a
  request that read the old row can replace a newer one with the same version.
* `DomainServices`: over MongoDB a deleted domain can stay in a service's subscriptions
  when the second call of the deletion fails or a save overtakes it. Such a subscription
  matches no event.
* `Batches`: PostgreSQL's inbox insert stores an empty `batch_id`, which the query
  `batch_id IS NULL` never finds. If entries commit in another order than they were first
  seen, or a manual batch intervenes, an entry can be evaluated in two batches, of which
  one completes with it.
* `Quarantine`: a deletion between two pages, or equal `created_at` values, can hide a
  record from a client; offsets beyond 10000 are refused; records without a tenant are
  listed for nobody. Replay only stamps the record, while `docs/README.md:77` calls it
  "Replay a quarantined item".
* `RedisLock`: `Acquire` drops the guard, whose loop keeps the key alive until the
  caller's context ends; nobody knows the token to release it. `RateLimiter`: a refused
  request counts as well, and `Remaining` returns the number of requests in the window.
  Allow reads the clock before its transaction, so a late transaction counts in an
  older window and the limit holds for the window less that delay; a window below a
  millisecond passes the check and limits nothing.
* `Processes`: a `LeaseManager.Start` that fails midway returns before the release of the
  leases is deferred (`worker_lifecycle.go:24-27`), so those it has acquired stay until
  they expire. `KeyQueue.Stop` does not look at the deadline of its context. The API
  abandons requests that are not done 30 seconds after the signal, and they meet a closed
  store (`ServerAbandoned`).
* `SDKClient`: with several versions of a contract and none without a version, `Validate`
  checks against whichever the iteration of the map meets first (`contract.go:81`). A
  subscription listens on the legacy route and on that of its rule set if its own client
  is configured for it (`transport_nats.go:209`), so it misses the events of a producer
  that routes a rule set this client does not. A timed-out publication may be stored
  after Close has returned.

Smaller disagreements that no property is about: `events/service.go:176` relies on
"NATS MaxDeliver", while `jetstream.go:105` requires unlimited deliveries;
`scheduled_status.go:12` calls a terminal
status "released back to pending".

### Bounds

`MaxFaults` bounds crashes, failed statements, lost answers, late renewals and
lapsed claims together, so that any mixture of them fits (a release that fails while a
worker stops is always possible and not counted). One fault already gives an
old and a new holder of a lease or of a claim; the second one, where the state space
allows it, adds a lost answer or a crash to that. The conflicts in this system are
pairwise, between an old and a new holder of a lease, a claim, a queue or a durable, or
between two requests that read the same row, so two actors of each kind meet all of
them; a third actor would repeat one of the two roles. Most safety properties are
proved without these bounds (section 4).

Three shards with two replicas make the target round up. In `keyqueue` two items of one
key with a channel of one give a queue that is in use, is emptied and dropped, and is
created again while the other goroutine holds the old one; its two safety properties are
proved for any number of keys, items and goroutines, so the instance is chosen for the
liveness property, which is not.
A window of three over four consumers makes the cursor wrap. `MaxRev` is 2 so that a
redelivery can meet another revision. Three inbox entries with batches of two leave a
remainder that a wrong choice of members would mix into a retried batch. Two services
exceed a fan-out limit of one. Four calls (`MaxCalls`, `MaxDsCalls`) let
two requests interleave and be followed by two more, as a deactivation and a new
activation are; for workflows three (`MaxWfCalls`) give a creation and two transitions
that race. Two starts of a Rust worker (`MaxStarts`) are one of each worker, or one that
restarts. One retry (`SdkMaxRetries`) of a batch leaves copies of a part of it, and two
events (`MaxSdkEvents`) are a batch of two, or two calls that race with each other or with
Close. The TLC instance of the Rust publishers has no `emit` effect; the proof covers it,
and a scheduled event takes the same way to the stream. A limit of 1 with a window of 3
ticks leaves room for delays of 1 and 2; `MaxManual`, `MaxStarts`, `MaxLapses`, `MaxClock`, `MaxRequests`,
`MaxMoves`, `MaxEvents` and the addresses `QueueId` bound the rest. The limits of the
compiler are scaled down (2 rules, 3 predicates, depth 2) so that documents exceed them.

Symmetry is used in `services` (processes and requests; services, subjects and records)
and three of the violations, none of which check liveness.

### Fairness

All fairness is weak, and no fault action is fair. A lease manager's goroutine is
driven by a ticker and its statements end with their contexts (`Manager`); time
passes (`Tick`). A worker's goroutines take the next step of a delivery, the broker
redelivers after AckWait, and some worker fetches a waiting message. The Go scheduler
runs each goroutine of the key queue that can run, and the processor returns because
its calls end with their contexts. Publishers and schedulers loop, a retry time
passes, the claim of a call that is over lapses. `EveryEventSettles` additionally
takes the rule set to be active from some time on, which the code cannot ensure.

Deadlock is checked except where a system may stop: when every item, effect or
event is settled and no fault is left, after Stop, or when the requests of a service
are used up.

## 4. What is proved

`ASSUME`s on the constants (each evaluated by TLC) are facts about their types: positive
bounds, finite sets, functions with the right domain, distinguished values outside the
sets. The theorems
hold for any number of workers, shards, events, deliveries, revisions, requests, effects,
keys, callers and faults. `Workflow`, `RuleActivation`, `ShardConsumers`, `RustWorker` and
`RedisLock` need no assumption at all. Each theorem names the property of the run that
checks it on a small instance; the definitions are the same.

**`ShardLeaseProofs`** (both backends unless said otherwise)
* `TypeCorrect`: `TypeOK`, strengthened by "the cursor is a shard while a row is
  looked at".
* `Refinement`: `ImplementsFencedLease`. Over PostgreSQL the lease managers implement
  `FencedLease`, with `live` as `left >= 0` and `held` as `owned`. Every action is an abstract claim,
  adoption, loss or lapse, or leaves the rows and the remembered tokens alone; the
  lemmas `Claims`, `Forgets`, `Lapses` and `Stutters` are these four cases.
* `HoldersDiffer`: `HolderUnique`, which speaks of PostgreSQL. It is not inductive by itself, since
  a worker could read a row whose token another one keeps; `OwnedIsOwners` (no
  remembered token exceeds the row's, and whoever remembers the row's token is the
  row's owner) makes it so.
* `HandoversAreFenced`: `HandoverIsFenced`, per action.
* `TargetKept`: `OwnedWithinTarget`. `WithinTarget` adds why the next Acquire has room: in
  Start the cursor bounds what was acquired, a scan runs only below the target, and the
  read that ends a renewal is of a row the manager has.

**`EventProcessingProofs`**
* `HeldCorrect`: the invariant of the abstract lease: no token runs ahead of its row, and
  the row names whoever holds its current token.
* `TypeCorrect`.
* `Deduplicated`, `NothingLost` (both backends): `AtMostOneExecution` and
  `AckedIsDurable`. The inductive invariant `DurableInv` adds `InsertedIsNew` (a
  transaction with an uncommitted inbox row is the only one of its event, and the
  event has no execution) and `SettledIsDurable` (what is about to be acknowledged
  is durable).
* `Fenced`, `CommitsAreFenced` (PostgreSQL): `AssertedIsCurrent` (a transaction past
  AssertHeld runs under the row's owner and token) is inductive because a locked row
  cannot be claimed; `LockedCommitIsFenced` follows, since only
  transactions past AssertHeld commit.
* `QuarantineIsPermanent` (MongoDB): `SnapshotQuarantine`, from `SnapshotInv`: a delivery
  that found an activation in its snapshot still has its revision, and what is about to
  be quarantined is permanently unprocessable.

**`KeyQueueProofs`**
* `Consistent`: `QueueConsistent`. None of its conjuncts is inductive, since each depends
  on who else holds a reference to the queue. `IInv` says so for every goroutine.
  `SubmittersInv`: a registered submitter holds the queue that the map has for its key;
  hence nobody sends to a queue that was dropped. `CountersInv`: the `submitters` field
  of a queue counts exactly these. `MapInv`: a mapped queue has items of its key only,
  and one that left the map has none. `WorkersInv`: the queue a worker holds is marked,
  by no other worker, and mapped with an item in its channel until the worker receives.
  `SlotsInv`: the semaphore counts the submitters past it, the queued items and the items
  in hand. `LifeInv`: Stop waits for the submitters before the workers.
* `KeyQueueRefinement`: `ImplementsKeyedFIFO`. A send is the abstract accept, a receive
  the abstract take (the key's mark shows that nothing else is in progress), the return
  of the processor the abstract completion; all other steps are quiet.

**`OutboxProofs`**; **`RuntimeProofs`**, scheduler
* `Refinement`: both implement `ClaimedWork`. The abstract step of a settlement needs a
  live claim, which the conditional updates of the code check.
* `OutcomesHold`: `OutcomesCorrect`. That a settled row earned its outcome is not
  inductive: one has to know what a publisher between its send and its settlement
  knows. `CurrentEarned` says that what it is about to record has happened,
  `FailsCounted` that failures are counted before they are recorded. For the scheduler
  `SeenIsCurrent` ties the retry count that was read with the claim to the row while
  the claim stands, and `PendingAfterFailure` explains every event that is pending again.
  For the outbox `RecordsSuffice` counts: a quarantine record per publisher that wrote
  one and has not settled yet, plus one for a quarantined row.

**`RuntimeProofs`**, processes and SDK
* `ResourcesHeld`: `RunsOnHeldResources`. `PsInv` says from which stage on each loop may
  run, and that the configuration is a normalised one from the scheduler's stage on.
* `ClientKeepsEvents`: `SdkKeepsEvents`, from three invariants: `SendCore` (every call
  has its own numbers, what is stored of it reaches to its position, and what is under way
  belongs to a stored prefix), `ClosedInv` and `SubInv` (what is due to a live subscription
  came on one of its filters).

**`EngineProofs`**
* `ActiveIsStored` (both stores): `ActiveRevisionIsStored`, from `StoreInv`: stored and
  uncommitted revisions have different numbers, and what a request is about to activate
  is stored or will be with its commit.
* `NoActivationLost` (both stores): `ActivationsSerialise`, from `OrderInv`: one
  transaction at a time has written the activation row, and what a request read is the
  row, an older version of it, or (MongoDB) its snapshot.
* `NothingOverwritten`: `NoLostTransition`. `WritersHaveRead` adds that the row a
  request read is older than the stored one or is the stored one, so that an equal
  version means an equal row.
* `MovesAlongGraph`: a workflow moves along the state graph, one version at a time. No run
  checks this one.
* `OwnedOnly`: `ConsumesOwnedOnly`. `RoundInv` says that until a round ends, what it chose
  and what it has in hand are consumers of the worker's map, since reconciliation and
  fetch take turns; the second look at ownership gives the rest.

**`ServiceProofs`**
* `SubscriptionsHold`, `OnlyRacesReactivate` (both stores): `SubscriptionsResolve` and
  `ReactivatedByRaceOnly`, from `DsInv`. `CheckedOrTorn`: a domain that a save has looked
  up is still there, or its deletion was torn. `ActiveIsLate`: a save that is about to set
  the flag of a disabled service read it before it was cleared, by the deletion or by
  another update.
* `FanOutComplete`: `FanOutIsComplete`. A list cut at one more than the bound and not
  longer than the bound is the whole list.
* `AdaptersSound`: `RedisAdaptersSound`. For the lock, `KeyIsHolders`: until a key has expired
  it holds the token of whoever relies on it. For the limiter, `LimInv`: what was allowed
  with a clock reading inside the window that ends now is still in the sorted set, and
  no member entered it later than its reading plus `delay`. Assumes a positive limit; the
  window may be zero, as one below a millisecond is.
* `BatchesOnce`: `BatchesRunOnce`, from `BtInv`. That runs own their members is almost
  inductive by itself: it needs the batch in a tick's hand to be executed before it is
  completed. That nothing is evaluated twice needs `BatchesSettled`: while the order is
  undisturbed, every batch that was executed, or that a tick may still execute, is a run
  or is the next batch of its group, the oldest `MaxBatch` entries that wait there. It is
  kept because the oldest n of a set are those of any initial part that has n
  (`OldestOfPrefix`): a listing cut at its limit and a later commit of the group both
  leave the next batch as it was. Assumes a positive `MaxBatch`.

**`RustProofs`**
* `SettledOnce`, `CommitsFenced`: `RustSettlesOnce` and `RustCommitsFenced`. The
  invariant adds `LeaseKept` (the FOR SHARE lock keeps the row as assert_lease found
  it), `CountedOnce` (inbox entry and execution are one commit), `InsertedIsNew` and
  `AckIsStored`.
* `OutcomesEarned`: `RustOutcomeEarned`, from `PubInv`, which says of a loop between its
  send and its settlement what `CurrentEarned` says in `OutboxProofs`.
* `ClaimsKept`: `RustKeepsClaims`. Every step of the two loops is a step of `ClaimedWork`
  on the effects and on the scheduled events, or leaves them alone.

Only model-checked:
* the liveness properties `EventuallyCovered`, `StaleViewEnds`, `OwnerHasConsumers`,
  `EveryMessageConsumed`, `EveryEventSettles`, `QueueProgresses`, `EveryEffectSettles` and
  `EveryEventEnds` (over MongoDB): fairness and ENABLED are out of the prover's reach;
* `DecisionsCorrect` and `RuntimesAgree`: `RuleLanguage` is defined by recursion over
  predicates and documents;
* `PagedListingIsComplete`: it rests on what sorting and cutting a sequence of any length
  returns, which takes an induction over data.

## 5. What is not modelled

* Clock skew between application and database (claims of scheduled events are
  stamped by the former and settled by the latter), and between callers of the limiter.
* Renewal blocked by the FOR SHARE lock of the worker's own transaction is not composed
  with the lease managers: the lapse it causes is an action, and commits under the lock
  stay fenced.
* A number of running workers different from `WORKER_REPLICAS`; the deployment
  guide (`docs/deployment-compose.md:92`) says that the surviving workers do not raise
  their target then.
* Rule documents and events beyond those of `MCRules`; paths deeper than one field;
  `ValidatePathsAgainstContract`, which only tests call. Wording, logging and metrics.
* Workflow definitions, contracts, event traces and the Redis cache: stored and read
  back without a protocol.
* Routing, authentication, configuration, storage selection and observability: no state
  of their own. The code generator writes text; the console is a client of the API.
* Of the SDK: the gRPC and local transports, headers, lost connections, and a subscriber
  that falls behind by more than the 128 messages of its channel.
