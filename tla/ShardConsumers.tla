---------------------------- MODULE ShardConsumers ----------------------------
(***************************************************************************)
(* How a worker follows its shards at the broker: syncConsumers and the    *)
(* fetch of internal/application/worker_sharding.go over the JetStream     *)
(* consumers of internal/adapters/nats/jetstream.go.  A shard has one      *)
(* durable consumer per subject and rule set; its name does not contain    *)
(* the worker, so the durables are shared by all workers.                  *)
(*                                                                         *)
(* A worker's reconciliation and fetch run on one goroutine; each look at  *)
(* the lease manager's shards and each call to the broker is one step.     *)
(* Consumers are numbered shard * PerShard + kind in the order in which    *)
(* matchingConsumerKeys sorts them; kind 0 takes the events of no rule     *)
(* set, kind r those of rule set r.  Events arrive through the ingestion   *)
(* API, which publishes each to its shard.                                 *)
(***************************************************************************)
EXTENDS Integers, FiniteSets

CONSTANTS
    Worker,
    NumShards,
    PerShard,    \* 1 + len(ruleSets), for the one base subject "events"
    EventType,   \* types of the events that are published, rule sets or not
    MaxEvents,   \* bound: events accepted by the API
    FetchBatch,  \* FetchBatchSize
    MaxMoves,    \* bound: leases taken and leases lapsed
    MaxFaults,   \* bound: broker calls that fail
    FirstOwner,  \* [Shard -> Worker]: the lease at the start
    NoOwner

Shard == 0 .. NumShards - 1
Consumer == 0 .. NumShards * PerShard - 1
ShardOf(k) == k \div PerShard
ConsumersOf(s) == {k \in Consumer : ShardOf(k) = s}

VARIABLES
    owner,     \* [Shard -> Worker or NoOwner]: the live leases
    owns,      \* [Worker -> SUBSET Shard]: OwnedShards() of the lease manager
    durable,   \* consumers that exist at the broker
    waiting,   \* consumers whose subject has an unconsumed message
    unacked,   \* of these, the ones delivered and neither acked nor given back
    unheard,   \* history: consumers whose deletion took effect and was answered with an error
    local,     \* [Worker -> SUBSET Consumer]: the map c.consumers
    pc,        \* [Worker -> Phase]
    todo,      \* [Worker -> SUBSET Consumer]: consumers still to delete, or to ensure
    wanted,    \* [Worker -> SUBSET Consumer]: to ensure once the deletions are done
    cursor,    \* [Worker -> Nat]: fetchCursor
    chosen,    \* [Worker -> SUBSET Consumer]: the consumers this round fetches from
    hand,      \* [Worker -> SUBSET Consumer]: whose deliveries are still to be looked at
    accepted,  \* events the API has answered with 202
    moves, faults

broker == <<durable, waiting, unacked, unheard, accepted>>
leases == <<owner, owns, moves>>
round == <<cursor, chosen, hand>>
vars == <<leases, broker, local, pc, todo, wanted, round, faults>>

Phase == {"sync", "remove", "ensure", "fetch", "pull", "process"}

Faulty == faults < MaxFaults /\ faults' = faults + 1

-----------------------------------------------------------------------------
(* Events are published.                                                   *)

\* The configured rule sets, numbered in the order normalizeRuleSets sorts them.
RuleSets == 1 .. PerShard - 1

\* The subject of an event, as the number of the consumer that filters by it:
\* an event whose type is a rule set goes to the rule set's subject.
subjectForMessage(s, t) == s * PerShard + (IF t \in RuleSets THEN t ELSE 0)

\* The stream stores the message.  Bound: one message per subject at a time.
Publish(k) == k \notin waiting /\ waiting' = waiting \cup {k}

\* POST /v1/events/{eventType} with an event of shard s and type t that passes
\* the validation; one that does not changes nothing.
PublishEvent(s, t) ==
    /\ accepted < MaxEvents
    /\ Publish(subjectForMessage(s, t))
    /\ accepted' = accepted + 1
    /\ UNCHANGED <<leases, durable, unacked, unheard, local, pc, todo, wanted, round, faults>>

\* The publication is answered with 503 although the stream has the message.
PublishError(s, t) ==
    /\ Faulty
    /\ Publish(subjectForMessage(s, t))
    /\ UNCHANGED <<leases, durable, unacked, unheard, accepted, local, pc, todo, wanted, round>>

-----------------------------------------------------------------------------
(* Leases move.                                                            *)

Takeover(w, s) ==
    /\ moves < MaxMoves
    /\ owner[s] # w
    /\ owner' = [owner EXCEPT ![s] = w]
    /\ owns' = [owns EXCEPT ![w] = @ \cup {s}]
    /\ moves' = moves + 1
    /\ UNCHANGED <<broker, local, pc, todo, wanted, round, faults>>

\* A lease runs out that its owner failed to renew.
Lapse(s) ==
    /\ moves < MaxMoves
    /\ owner[s] # NoOwner
    /\ owner' = [owner EXCEPT ![s] = NoOwner]
    /\ moves' = moves + 1
    /\ UNCHANGED <<owns, broker, local, pc, todo, wanted, round, faults>>

\* The renewal tells the former owner.
Drop(w, s) ==
    /\ s \in owns[w] /\ owner[s] # w
    /\ owns' = [owns EXCEPT ![w] = @ \ {s}]
    /\ UNCHANGED <<owner, moves, broker, local, pc, todo, wanted, round, faults>>

-----------------------------------------------------------------------------
(* syncConsumers.                                                          *)

\* OwnedShards of the consumer: only shards with all their consumers count.
Active(w) == {s \in Shard : ConsumersOf(s) \subseteq local[w]}

Of(S) == {k \in Consumer : ShardOf(k) \in S}

\* Shards come in any order (a map is ranged over), a shard's consumers in theirs.
InTurn(w) ==
    {k \in todo[w] : \A j \in todo[w] : ShardOf(j) = ShardOf(k) => k <= j}

\* A mistake: shards with some of their consumers count as active.
SyncPartial(w) ==
    /\ pc[w] = "sync"
    /\ LET active == {ShardOf(k) : k \in local[w]} IN
       /\ todo' = [todo EXCEPT ![w] = Of(active \ owns[w]) \cap local[w]]
       /\ wanted' = [wanted EXCEPT ![w] = Of(owns[w] \ active)]
    /\ pc' = [pc EXCEPT ![w] = "remove"]
    /\ UNCHANGED <<leases, broker, local, round, faults>>

\* Active shards the worker does not own are to be removed, owned shards that
\* are not active are to be ensured.
Sync(w) ==
    /\ pc[w] = "sync"
    /\ todo' = [todo EXCEPT ![w] = Of(Active(w) \ owns[w])]
    /\ wanted' = [wanted EXCEPT ![w] = Of(owns[w] \ Active(w))]
    /\ pc' = [pc EXCEPT ![w] = "remove"]
    /\ UNCHANGED <<leases, broker, local, round, faults>>

\* RemoveShardConsumer deletes the durable; one that is not there is an error,
\* and an error keeps the local entry.
RemoveConsumer(w) ==
    /\ pc[w] = "remove"
    /\ \E k \in InTurn(w) :
          /\ durable' = durable \ {k}
          /\ unacked' = unacked \ {k}
          /\ local' = [local EXCEPT ![w] = IF k \in durable THEN @ \ {k} ELSE @]
          /\ todo' = [todo EXCEPT ![w] = @ \ {k}]
    /\ UNCHANGED <<leases, waiting, unheard, accepted, pc, wanted, round, faults>>

\* The deletion is answered with an error, having taken effect or not.
RemoveError(w) ==
    /\ pc[w] = "remove"
    /\ Faulty
    /\ \E k \in InTurn(w) :
          /\ todo' = [todo EXCEPT ![w] = @ \ {k}]
          /\ \/ UNCHANGED <<durable, unacked, unheard>>
             \/ /\ k \in durable
                /\ durable' = durable \ {k}
                /\ unacked' = unacked \ {k}
                /\ unheard' = unheard \cup {k}
    /\ UNCHANGED <<leases, waiting, accepted, local, pc, wanted, round>>

RemoveDone(w) ==
    /\ pc[w] = "remove" /\ todo[w] = {}
    /\ todo' = [todo EXCEPT ![w] = wanted[w] \ local[w]]
    /\ wanted' = [wanted EXCEPT ![w] = {}]
    /\ pc' = [pc EXCEPT ![w] = "ensure"]
    /\ UNCHANGED <<leases, broker, local, round, faults>>

\* ensureConsumerLocked: CreateOrUpdateConsumer, then the local entry.
EnsureConsumer(w) ==
    /\ pc[w] = "ensure"
    /\ \E k \in InTurn(w) :
          /\ durable' = durable \cup {k}
          /\ local' = [local EXCEPT ![w] = @ \cup {k}]
          /\ todo' = [todo EXCEPT ![w] = @ \ {k}]
    /\ UNCHANGED <<leases, waiting, unacked, unheard, accepted, pc, wanted, round, faults>>

\* An error, whether the consumer is there now or not, ends the loop for this shard.
EnsureError(w) ==
    /\ pc[w] = "ensure"
    /\ Faulty
    /\ \E k \in InTurn(w) :
          /\ todo' = [todo EXCEPT ![w] = @ \ ConsumersOf(ShardOf(k))]
          /\ UNCHANGED durable \/ durable' = durable \cup {k}
    /\ UNCHANGED <<leases, waiting, unacked, unheard, accepted, local, pc, wanted, round>>

EnsureDone(w) ==
    /\ pc[w] = "ensure" /\ todo[w] = {}
    /\ pc' = [pc EXCEPT ![w] = "fetch"]
    /\ UNCHANGED <<leases, broker, local, todo, wanted, round, faults>>

-----------------------------------------------------------------------------
(* fetchAndProcessDeliveries.                                              *)

\* matchingConsumerKeys: the local consumers of owned shards.
Matching(w) == local[w] \cap Of(owns[w])

\* The place of a key in the sorted list of the keys.
Place(keys, k) == Cardinality({j \in keys : j < k})

\* selectFetchConsumers: a window of at most FetchBatch places from the cursor on,
\* round the end.
Selected(keys, cur) ==
    {k \in keys : (Place(keys, k) - cur) % Cardinality(keys) < FetchBatch}

\* A mistake: the cursor stays.
NextCursorStuck(keys, cur) == cur % Cardinality(keys)

NextCursor(keys, cur) ==
    LET n == IF Cardinality(keys) <= FetchBatch THEN Cardinality(keys) ELSE FetchBatch
    IN  ((cur % Cardinality(keys)) + n) % Cardinality(keys)

\* The shards are read and the consumers selected; without any the round is over.
Fetch(w) ==
    /\ pc[w] = "fetch"
    /\ LET keys == Matching(w) IN
       IF keys = {} THEN pc' = [pc EXCEPT ![w] = "sync"] /\ UNCHANGED round
       ELSE /\ chosen' = [chosen EXCEPT ![w] = Selected(keys, cursor[w])]
            /\ cursor' = [cursor EXCEPT ![w] = NextCursor(keys, cursor[w])]
            /\ pc' = [pc EXCEPT ![w] = "pull"]
            /\ UNCHANGED hand
    /\ UNCHANGED <<leases, broker, local, todo, wanted, faults>>

\* What the selected consumers have to deliver.
Deliverable(w) == (chosen[w] \cap durable \cap waiting) \ unacked

\* The pull, some time later.  A consumer that does not exist is an error, and
\* with an error the deliveries of all the others are dropped.
Pull(w) ==
    /\ pc[w] = "pull"
    /\ unacked' = unacked \cup Deliverable(w)
    /\ hand' = [hand EXCEPT ![w] = IF chosen[w] \subseteq durable THEN Deliverable(w) ELSE {}]
    /\ pc' = [pc EXCEPT ![w] = "process"]
    /\ UNCHANGED <<leases, durable, waiting, unheard, accepted, local, todo, wanted, cursor, chosen, faults>>

\* The broker fails a pull: the same loss, of what it had delivered by then.
PullError(w) ==
    /\ pc[w] = "pull"
    /\ Faulty
    /\ \E S \in SUBSET Deliverable(w) : unacked' = unacked \cup S
    /\ pc' = [pc EXCEPT ![w] = "process"]
    /\ UNCHANGED <<leases, durable, waiting, unheard, accepted, local, todo, wanted, round>>

\* A mistake: the deliveries are of the shards that were asked for.
ProcessTrusting(w, k) ==
    /\ pc[w] = "process" /\ k \in hand[w]
    /\ hand' = [hand EXCEPT ![w] = @ \ {k}]
    /\ waiting' = waiting \ {k}
    /\ unacked' = unacked \ {k}
    /\ UNCHANGED <<leases, durable, unheard, accepted, local, pc, todo, wanted, cursor, chosen, faults>>

\* processSingleDelivery looks again: a delivery of a shard that is no longer
\* owned is given back, any other goes to the key queue and is settled there.
ProcessSingleDelivery(w, k) ==
    /\ pc[w] = "process" /\ k \in hand[w]
    /\ hand' = [hand EXCEPT ![w] = @ \ {k}]
    /\ waiting' = IF ShardOf(k) \in owns[w] THEN waiting \ {k} ELSE waiting
    /\ unacked' = unacked \ {k}
    /\ UNCHANGED <<leases, durable, unheard, accepted, local, pc, todo, wanted, cursor, chosen, faults>>

RoundDone(w) ==
    /\ pc[w] = "process" /\ hand[w] = {}
    /\ pc' = [pc EXCEPT ![w] = "sync"]
    /\ chosen' = [chosen EXCEPT ![w] = {}]
    /\ UNCHANGED <<leases, broker, local, todo, wanted, cursor, hand, faults>>

\* What was dropped, or is held too long, is delivered again after AckWait.
AckWait(k) ==
    /\ k \in unacked
    /\ unacked' = unacked \ {k}
    /\ UNCHANGED <<leases, durable, waiting, unheard, accepted, local, pc, todo, wanted, round, faults>>

-----------------------------------------------------------------------------
Init ==
    /\ owner = FirstOwner
    /\ owns = [w \in Worker |-> {s \in Shard : FirstOwner[s] = w}]
    /\ durable = {}
    /\ waiting = {}
    /\ accepted = 0
    /\ unacked = {} /\ unheard = {}
    /\ local = [w \in Worker |-> {}]
    /\ pc = [w \in Worker |-> "sync"]
    /\ todo = [w \in Worker |-> {}]
    /\ wanted = [w \in Worker |-> {}]
    /\ cursor = [w \in Worker |-> 0]
    /\ chosen = [w \in Worker |-> {}]
    /\ hand = [w \in Worker |-> {}]
    /\ moves = 0
    /\ faults = 0

Iterate(w) ==
    \/ Sync(w) \/ RemoveConsumer(w) \/ RemoveDone(w)
    \/ EnsureConsumer(w) \/ EnsureDone(w)
    \/ Fetch(w) \/ Pull(w) \/ (\E k \in Consumer : ProcessSingleDelivery(w, k)) \/ RoundDone(w)

Fault(w) == RemoveError(w) \/ EnsureError(w) \/ PullError(w)

Next ==
    \/ \E w \in Worker : Iterate(w) \/ Fault(w)
    \/ \E w \in Worker, s \in Shard : Takeover(w, s) \/ Drop(w, s)
    \/ \E s \in Shard : Lapse(s) \/ \E t \in EventType : PublishEvent(s, t) \/ PublishError(s, t)
    \/ \E k \in Consumer : AckWait(k)

Spec == Init /\ [][Next]_vars

\* Every worker iterates, lease managers renew, the broker redelivers.
Fairness ==
    /\ \A w \in Worker : WF_vars(Iterate(w))
    /\ \A w \in Worker, s \in Shard : WF_vars(Drop(w, s))
    /\ \A k \in Consumer : WF_vars(AckWait(k))

FairSpec == Spec /\ Fairness

-----------------------------------------------------------------------------
(* Properties.                                                             *)

TypeOK ==
    /\ owner \in [Shard -> Worker \cup {NoOwner}]
    /\ owns \in [Worker -> SUBSET Shard]
    /\ durable \subseteq Consumer /\ waiting \subseteq Consumer /\ unacked \subseteq waiting
    /\ unheard \subseteq Consumer
    /\ local \in [Worker -> SUBSET Consumer]
    /\ pc \in [Worker -> Phase]
    /\ todo \in [Worker -> SUBSET Consumer]
    /\ wanted \in [Worker -> SUBSET Consumer]
    /\ cursor \in [Worker -> Consumer]
    /\ chosen \in [Worker -> SUBSET Consumer] /\ hand \in [Worker -> SUBSET Consumer]
    /\ accepted \in 0 .. MaxEvents /\ moves \in 0 .. MaxMoves /\ faults \in 0 .. MaxFaults

\* A worker that keeps a shard ends up with all of the shard's consumers, unless
\* the answer to one of its deletions is lost: "Only consumers confirmed active
\* are skipped; failed ensures are retried during the next reconciliation pass"
\* (worker_sharding.go:58).  After a lost answer the consumer stays in the map,
\* counts as active and is not created again when the shard comes back.
OwnerHasConsumers ==
    [](unheard = {}) =>
        \A w \in Worker, s \in Shard :
            <>[](s \in owns[w]) => <>[](ConsumersOf(s) \subseteq durable \cap local[w])

\* An event published to a shard that a worker keeps is consumed, whether its
\* type is a configured rule set or not, also with more consumers than
\* FetchBatchSize and after rounds whose deliveries were dropped or given back:
\* every subject has a consumer, and the cursor reaches it.  One consumer whose
\* deletion lost its answer makes every round that selects it an error.
Waits(s, t) == subjectForMessage(s, t) \in waiting
EveryMessageConsumed ==
    [](unheard = {}) =>
        \A s \in Shard, t \in EventType :
            (\E w \in Worker : <>[](s \in owns[w])) => (Waits(s, t) ~> ~Waits(s, t))

\* A fetch round asks for the shards owned when it began, and pulls and looks at
\* the deliveries later, when a shard may be lost.  Still a worker only takes a
\* message of a shard it owns at that moment, and through a consumer that it has
\* not removed in the meantime; all others stay in the stream.
OwnedOnlyStep ==
    \A k \in waiting \ waiting' :
        \E w \in Worker : pc[w] = "process" /\ k \in local[w] /\ ShardOf(k) \in owns[w]
ConsumesOwnedOnly == [][OwnedOnlyStep]_vars
=============================================================================
