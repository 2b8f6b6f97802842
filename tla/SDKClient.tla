------------------------------- MODULE SDKClient -------------------------------
(***************************************************************************)
(* The Go SDK's client over its NATS or HTTP transport                     *)
(* (sdk/go/flowrule): Send and SendBatch validate every event before       *)
(* anything leaves the process, then hand the same envelopes to the        *)
(* transport until an attempt succeeds or the retries are used up; Close   *)
(* shuts the client and waits for the transport's readers; Subscribe       *)
(* hands live NATS messages to a handler.  A single Send is a batch of     *)
(* one: both functions and both transports take the same steps.            *)
(* Headers, correlation ids and timestamps are left out, and so are the    *)
(* gRPC and local transports.  The connection of a subscription holds and  *)
(* its channel of 128 messages has room: what a full channel or a lost     *)
(* connection drops is outside the model.                                  *)
(***************************************************************************)
EXTENDS Integers, Sequences, FiniteSets

CONSTANTS SdkCaller,        \* goroutines that call Send, SendBatch or Close
          SdkSubscriber,    \* goroutines that call Subscribe
          SdkBatch,         \* argument lists: sequences of SendOptions, none empty
          RoutedRuleSet,    \* cfg.NATSRuleSets
          Contract,         \* the registry: [key, required] of each contract
          KeyExtractor,     \* cfg.PartitionKeyExtractor, "" for none
          OtherMessage,     \* what another producer may publish on the stream
          SdkMaxRetries,    \* cfg.MaxRetries after WithDefaults
          MaxSdkEvents      \* bound on the events handed to the transport

\* SendBatch returns at once from an empty list.
ASSUME SdkAssumption == \A b \in SdkBatch : Len(b) \in Nat \ {0} /\ DOMAIN b = 1 .. Len(b)

VARIABLES sdkKind,      \* cfg.Transport
          sdkClosed,    \* Client.closed
          sdkTransport, \* "open" or "closed": the transport's closed flag
          sdkCall,      \* what each caller is doing
          sdkSent,      \* how many events were handed to the transport
          sdkStream,    \* the envelopes the broker or the API has stored
          sdkLate,      \* those of failed attempts that may still be stored
          sdkOk,        \* the envelope lists of the calls that returned nil
          sdkSub,       \* the subscriptions
          sdkOther      \* the one message another producer has published, if any

sdkVars == <<sdkKind, sdkClosed, sdkTransport, sdkCall, sdkSent, sdkStream, sdkLate, sdkOk,
             sdkSub, sdkOther>>

\* A caller: where it is, its envelopes, the next one to publish, the attempt.
CallAt(pc, envs, next, attempt) == [pc |-> pc, envs |-> envs, next |-> next, attempt |-> attempt]
IdleSdkCall == CallAt("idle", << >>, 0, 0)

\* A subscription: its channel, what was published for it, what it handled.
SubscriptionTo(live, ruleSet, messages, due, handled) ==
    [live |-> live, ruleSet |-> ruleSet, messages |-> messages, due |-> due, handled |-> handled]
NoSubscription == SubscriptionTo(FALSE, << >>, {}, {}, {})
Ended(b) == SubscriptionTo(FALSE, b.ruleSet, {}, {}, {})

SdkInit ==
    /\ sdkKind \in {"nats", "http"}
    /\ sdkClosed = FALSE /\ sdkTransport = "open"
    /\ sdkCall = [c \in SdkCaller |-> IdleSdkCall] /\ sdkSent = 0
    /\ sdkStream = {} /\ sdkLate = {} /\ sdkOk = {} /\ sdkOther = {}
    /\ sdkSub = [s \in SdkSubscriber |-> NoSubscription]

-----------------------------------------------------------------------------
(* Validation *)

\* Rule sets and contract keys are sequences of dotted segments, so a key with
\* a version suffix extends the name of its contract.
contractKeyExtends(key, ruleSet) ==
    Len(key) > Len(ruleSet) /\ SubSeq(key, 1, Len(ruleSet)) = ruleSet

\* The contracts Validate may use: the one without a version, else whichever
\* prefix match the iteration over the map meets first.
ContractsFor(ruleSet) ==
    LET exact == {c \in Contract : c.key = ruleSet}
    IN  IF exact # {} THEN exact ELSE {c \in Contract : contractKeyExtends(c.key, ruleSet)}

ContractAllows(o) ==
    \/ ContractsFor(o.ruleSet) = {}
    \/ \E c \in ContractsFor(o.ruleSet) : c.required \subseteq DOMAIN o.fields

\* The field tagged or named as the partition key, or the extractor's field.
extractPartitionKey(o) ==
    LET field == IF KeyExtractor = "" THEN o.marked ELSE KeyExtractor
    IN  IF field \in DOMAIN o.fields THEN o.fields[field] ELSE ""

PartitionKeyOf(o) == IF o.key # "" THEN o.key ELSE extractPartitionKey(o)

Sendable(o) == o.ruleSet # << >> /\ ContractAllows(o) /\ PartitionKeyOf(o) # ""

\* A uuid is known by its call, its position and the attempt that drew it; a call
\* is known by its first event's number.
EnvelopeOf(o, n, i) ==
    [tenant |-> "own", type |-> o.ruleSet, key |-> PartitionKeyOf(o), valid |-> TRUE,
     bytes |-> o.bytes, call |-> n, index |-> i, draw |-> 0]

\* The envelope carries the payload as raw JSON, and the API reads the data of a
\* request into a []byte: it decodes a base64 string, which is what a payload of
\* bytes becomes, and answers 400 to an object.
SdkAccepts(m) == sdkKind = "nats" \/ m.bytes

-----------------------------------------------------------------------------
(* Subjects *)

\* The route in an event's subject: its rule set's where one is configured,
\* else the legacy route << >>.  The shard follows the route and every
\* subscription takes all shards.
natsSubjectForEnvelope(type) == IF type \in RoutedRuleSet THEN type ELSE << >>

natsSubscriptionFilters(ruleSet) ==
    {<< >>} \cup (IF ruleSet \in RoutedRuleSet THEN {ruleSet} ELSE {})

\* An event on its rule set's route is due only to a client configured for it.
DueTo(b, m, route) ==
    /\ m.tenant = "own" /\ m.type = b.ruleSet /\ m.valid
    /\ route = << >> \/ route \in RoutedRuleSet

\* What a subscriber's channel gains when m is published on a route.
Deliver(m, route) ==
    [s \in SdkSubscriber |->
        LET b == sdkSub[s]
        IN  IF ~b.live THEN b
            ELSE SubscriptionTo(TRUE, b.ruleSet,
                    b.messages \cup IF route \in natsSubscriptionFilters(b.ruleSet) THEN {m} ELSE {},
                    b.due \cup IF DueTo(b, m, route) THEN {m} ELSE {},
                    b.handled)]

-----------------------------------------------------------------------------
(* Locks: Close holds the client's lock while it waits for the transport's. *)

Closing == \E c \in SdkCaller : sdkCall[c].pc = "closing"
Readers == {c \in SdkCaller : sdkCall[c].pc = "publishing"}

-----------------------------------------------------------------------------
(* Send and SendBatch *)

\* Every event is validated before the first attempt.
AllSendable(b) == \A i \in DOMAIN b : Sendable(b[i])

SdkSend(c, b) ==
    /\ sdkCall[c].pc = "idle" /\ ~Closing /\ ~sdkClosed /\ sdkSent + Len(b) <= MaxSdkEvents
    /\ AllSendable(b)
    /\ sdkSent' = sdkSent + Len(b)
    /\ sdkCall' = [sdkCall EXCEPT ![c] =
           CallAt("entering", [i \in DOMAIN b |-> EnvelopeOf(b[i], sdkSent + 1, i)], 1, 0)]
    /\ UNCHANGED <<sdkKind, sdkClosed, sdkTransport, sdkStream, sdkLate, sdkOk, sdkSub, sdkOther>>

\* After a failed attempt: the pause before the next one, or the call returns
\* its error.
Failed(k) ==
    IF k.attempt < SdkMaxRetries THEN CallAt("pausing", k.envs, k.next, k.attempt) ELSE IdleSdkCall

\* The transport's read lock: a new reader waits behind a waiting Close.
EnterTransport(c) ==
    LET k == sdkCall[c] IN
    /\ k.pc = "entering" /\ ~Closing
    /\ sdkCall' = [sdkCall EXCEPT ![c] =
           IF sdkTransport = "closed" THEN Failed(k) ELSE CallAt("publishing", k.envs, 1, k.attempt)]
    /\ UNCHANGED <<sdkKind, sdkClosed, sdkTransport, sdkSent, sdkStream, sdkLate, sdkOk, sdkSub, sdkOther>>

Store(m) ==
    /\ sdkStream' = sdkStream \cup {m}
    /\ sdkSub' = IF sdkKind = "nats" THEN Deliver(m, natsSubjectForEnvelope(m.type)) ELSE sdkSub

\* The next envelope is acknowledged; after the last one the call returns nil.
PublishEnvelope(c) ==
    LET k == sdkCall[c] IN
    /\ k.pc = "publishing" /\ SdkAccepts(k.envs[k.next])
    /\ Store(k.envs[k.next])
    /\ IF k.next + 1 \in DOMAIN k.envs
       THEN /\ sdkCall' = [sdkCall EXCEPT ![c] = CallAt("publishing", k.envs, k.next + 1, k.attempt)]
            /\ UNCHANGED sdkOk
       ELSE /\ sdkCall' = [sdkCall EXCEPT ![c] = IdleSdkCall]
            /\ sdkOk' = sdkOk \cup {k.envs}
    /\ UNCHANGED <<sdkKind, sdkClosed, sdkTransport, sdkSent, sdkLate, sdkOther>>

\* The publication fails or times out: what the broker or the API does not refuse
\* may be stored all the same, at once, later or never.
PublishFails(c) ==
    LET k == sdkCall[c]
        m == k.envs[k.next] IN
    /\ k.pc = "publishing"
    /\ sdkLate' = sdkLate \cup IF SdkAccepts(m) THEN {m} ELSE {}
    /\ sdkCall' = [sdkCall EXCEPT ![c] = Failed(k)]
    /\ UNCHANGED <<sdkKind, sdkClosed, sdkTransport, sdkSent, sdkStream, sdkOk, sdkSub, sdkOther>>

\* A copy that was under way arrives, perhaps after Close has returned.
StoreLate(m) ==
    /\ m \in sdkLate /\ sdkLate' = sdkLate \ {m}
    /\ Store(m)
    /\ UNCHANGED <<sdkKind, sdkClosed, sdkTransport, sdkCall, sdkSent, sdkOk, sdkOther>>

\* A mistake: the envelopes are built anew for every attempt.
RetryAnew(c) ==
    LET k == sdkCall[c] IN
    /\ k.pc = "pausing"
    /\ sdkCall' = [sdkCall EXCEPT ![c] =
           CallAt("entering", [i \in DOMAIN k.envs |-> [k.envs[i] EXCEPT !.draw = k.attempt + 1]],
                  k.next, k.attempt + 1)]
    /\ UNCHANGED <<sdkKind, sdkClosed, sdkTransport, sdkSent, sdkStream, sdkLate, sdkOk, sdkSub, sdkOther>>

\* The backoff ends and the whole list is sent again.
Retry(c) ==
    LET k == sdkCall[c] IN
    /\ k.pc = "pausing"
    /\ sdkCall' = [sdkCall EXCEPT ![c] = CallAt("entering", k.envs, k.next, k.attempt + 1)]
    /\ UNCHANGED <<sdkKind, sdkClosed, sdkTransport, sdkSent, sdkStream, sdkLate, sdkOk, sdkSub, sdkOther>>

\* The caller's context ends during the backoff.
GiveUp(c) ==
    /\ sdkCall[c].pc = "pausing"
    /\ sdkCall' = [sdkCall EXCEPT ![c] = IdleSdkCall]
    /\ UNCHANGED <<sdkKind, sdkClosed, sdkTransport, sdkSent, sdkStream, sdkLate, sdkOk, sdkSub, sdkOther>>

-----------------------------------------------------------------------------
(* Close *)

\* Client.Close marks the client, cancels its subscriptions and asks for the
\* transport's write lock.
CloseClient(c) ==
    /\ sdkCall[c].pc = "idle" /\ ~Closing /\ ~sdkClosed
    /\ sdkClosed' = TRUE
    /\ sdkCall' = [sdkCall EXCEPT ![c] = CallAt("closing", << >>, 0, 0)]
    /\ UNCHANGED <<sdkKind, sdkTransport, sdkSent, sdkStream, sdkLate, sdkOk, sdkSub, sdkOther>>

\* The transport's Close gets the write lock once its readers have left.
CloseTransport(c) ==
    /\ sdkCall[c].pc = "closing" /\ Readers = {}
    /\ sdkTransport' = "closed"
    /\ sdkCall' = [sdkCall EXCEPT ![c] = IdleSdkCall]
    /\ UNCHANGED <<sdkKind, sdkClosed, sdkSent, sdkStream, sdkLate, sdkOk, sdkSub, sdkOther>>

-----------------------------------------------------------------------------
(* Subscribe *)

\* Only the NATS transport subscribes.
Subscribe(s, r) ==
    /\ sdkKind = "nats" /\ sdkSub[s] = NoSubscription
    /\ ~Closing /\ ~sdkClosed
    /\ sdkSub' = [sdkSub EXCEPT ![s] = SubscriptionTo(TRUE, r, {}, {}, {})]
    /\ UNCHANGED <<sdkKind, sdkClosed, sdkTransport, sdkCall, sdkSent, sdkStream, sdkLate, sdkOk, sdkOther>>

\* One message: a broken one ends the subscription, one of another tenant or
\* rule set is passed over, and the handler's error ends the subscription.
HandleMessage(s, m) ==
    LET b == sdkSub[s]
        wanted == m.tenant = "own" /\ m.type = b.ruleSet
    IN
    /\ b.live /\ m \in b.messages
    /\ \/ /\ m.valid
          /\ sdkSub' = [sdkSub EXCEPT ![s] =
                SubscriptionTo(TRUE, b.ruleSet, b.messages \ {m}, b.due,
                               b.handled \cup IF wanted THEN {m} ELSE {})]
       \/ /\ wanted \/ ~m.valid
          /\ sdkSub' = [sdkSub EXCEPT ![s] = Ended(b)]
    /\ UNCHANGED <<sdkKind, sdkClosed, sdkTransport, sdkCall, sdkSent, sdkStream, sdkLate, sdkOk, sdkOther>>

\* Its context or the client's life cycle ends; what is in the channel is dropped.
SubscriptionEnds(s) ==
    /\ sdkSub[s].live
    /\ sdkSub' = [sdkSub EXCEPT ![s] = Ended(sdkSub[s])]
    /\ UNCHANGED <<sdkKind, sdkClosed, sdkTransport, sdkCall, sdkSent, sdkStream, sdkLate, sdkOk, sdkOther>>

\* Another producer of the stream, whose client is configured for the event's
\* rule set or not; one such message is enough to meet every caller's.
OtherPublishes(m) ==
    /\ sdkKind = "nats" /\ sdkOther = {}
    /\ sdkOther' = {m}
    /\ \E route \in {<< >>, m.type} : sdkSub' = Deliver(m, route)
    /\ UNCHANGED <<sdkKind, sdkClosed, sdkTransport, sdkCall, sdkSent, sdkStream, sdkLate, sdkOk>>

-----------------------------------------------------------------------------
SubscribedRuleSet == {m.type : m \in OtherMessage}

SdkNext ==
    \/ \E c \in SdkCaller :
        \/ \E b \in SdkBatch : SdkSend(c, b)
        \/ EnterTransport(c) \/ PublishEnvelope(c) \/ PublishFails(c) \/ Retry(c) \/ GiveUp(c)
        \/ CloseClient(c) \/ CloseTransport(c)
    \/ \E s \in SdkSubscriber :
        \/ \E r \in SubscribedRuleSet : Subscribe(s, r)
        \/ \E m \in sdkSub[s].messages : HandleMessage(s, m)
        \/ SubscriptionEnds(s)
    \/ \E m \in sdkLate : StoreLate(m)
    \/ \E m \in OtherMessage : OtherPublishes(m)

SdkSpec == SdkInit /\ [][SdkNext]_sdkVars

-----------------------------------------------------------------------------
\* A call that returned nil has every one of its events stored.
NilMeansStored == \A envs \in sdkOk : \A i \in DOMAIN envs : envs[i] \in sdkStream

\* However many attempts it took, an event is stored under one id, and never
\* before the events that precede it in its batch.
StoredUnderOneID ==
    \A m \in sdkStream :
        /\ \A n \in sdkStream : n.call = m.call /\ n.index = m.index => n = m
        /\ \A i \in 1 .. m.index - 1 : \E n \in sdkStream : n.call = m.call /\ n.index = i

\* A closed transport has no publication under way, and only a closed client
\* has a closed transport.
ClosedIsQuiet == sdkTransport = "closed" => sdkClosed /\ Readers = {}

\* A live subscription has every event that is due to it, handled or in its
\* channel, and hands on no other.
SubscriptionSeesAll ==
    \A s \in SdkSubscriber :
        LET b == sdkSub[s]
        IN  b.handled \subseteq b.due /\ (b.live => b.due \subseteq b.messages \cup b.handled)

(***************************************************************************)
(* The client's contract with its caller across retries, a concurrent      *)
(* Close and its two transports: nil means that every event is stored; the *)
(* copies that retries and timed-out attempts leave behind carry one id    *)
(* and follow the order of the batch, so that the inbox can drop them;     *)
(* once Close has returned no call is publishing, though a copy of a       *)
(* timed-out attempt may still be stored; and a live subscription misses   *)
(* no event of its tenant and rule set from this client, from a producer   *)
(* without rule set routing, or from one that routes the rule set as its   *)
(* own client does.  (It does miss those of a producer that routes a rule  *)
(* set its own client is not configured for.)                              *)
(***************************************************************************)
SdkKeepsEvents == NilMeansStored /\ StoredUnderOneID /\ ClosedIsQuiet /\ SubscriptionSeesAll
=============================================================================
