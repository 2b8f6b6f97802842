---------------------------- MODULE ServiceProofs -----------------------------
(***************************************************************************)
(* Proofs about the services that keep one record per key, the Redis       *)
(* adapters and the batches of inbox entries, for any services, calls,     *)
(* holders, keys, limits, entries, groupings and batch sizes.              *)
(***************************************************************************)
EXTENDS DomainServices, RedisAdapters, Batches, WellFoundedInduction, FiniteSetTheorems, TLAPS

-----------------------------------------------------------------------------
(* Domains and services.                                                   *)

ServiceRow == [name : ItemName, endpoint : EndpointURL, active : BOOLEAN, subs : SUBSET DomainID]
DomainToSave == [id : DomainID \cup {NewItem}, name : ItemName, types : SUBSET EventType]
ServiceToSave == [id : ServiceID \cup {NewItem}, name : ItemName, endpoint : EndpointURL,
                  subs : SUBSET DomainID]

SavesDomain == {"domain identity", "save domain"}
SavesService == {"service domains", "service identity", "save service"}
DeletesDomain == {"delete domain", "pull"}

DsCallRecord == [step : {"idle"} \cup SavesDomain \cup SavesService \cup DeletesDomain,
                 item : SUBSET (DomainToSave \cup ServiceToSave), left : SUBSET DomainID,
                 active : BOOLEAN, late : BOOLEAN]

DsTypeOK ==
    /\ dsBackend \in {"postgres", "mongo"}
    /\ DOMAIN domains = DomainID
    /\ services \in [ServiceID -> SUBSET ServiceRow]
    /\ dsCall \in [DsRequest -> DsCallRecord]

\* What a request has in hand at each of its steps.
WellFormed(c, ids) ==
    /\ c.step \in SavesDomain => \E item \in DomainToSave : c.item = {item}
    /\ c.step \in SavesService => \E item \in ServiceToSave : c.item = {item}
    /\ c.step \in DeletesDomain => \E d \in DomainID : c.left = {d}
    /\ c.step \in {"service identity", "save service"} => c.left = {}
    /\ c.step = "save domain" => \A item \in c.item : item.id \in DomainID
    /\ c.step = "save service" => \A item \in c.item : item.id \in ServiceID \cap ids

CallsWellFormed == \A r \in DsRequest : WellFormed(dsCall[r], issued)

\* A service has one row, under an id that was issued.
OneServiceRow == \A s \in ServiceID : (\A a, b \in services[s] : a = b) /\ (services[s] # {} => s \in issued)

\* A save that would turn an inactive service on has been overtaken.
ActiveIsLate ==
    \A r \in DsRequest : dsCall[r].step = "save service" /\ dsCall[r].active =>
        \A item \in dsCall[r].item : \A row \in services[item.id] : row.active \/ dsCall[r].late

\* A domain that a save of a service has looked up is still there, or was torn.
CheckedOrTorn ==
    \A r \in DsRequest : dsCall[r].step \in SavesService =>
        \A item \in dsCall[r].item : \A d \in item.subs \ dsCall[r].left : domains[d] # {} \/ d \in torn

DsInv == DsTypeOK /\ CallsWellFormed /\ OneServiceRow /\ ActiveIsLate /\ CheckedOrTorn /\ SubscriptionsResolve

LEMMA NoCallFields ==
    /\ NoDsCall \in DsCallRecord /\ NoDsCall.step = "idle"
    /\ NoDsCall.item = {} /\ NoDsCall.left = {} /\ NoDsCall.active = FALSE /\ NoDsCall.late = FALSE
    /\ \A ids : WellFormed(NoDsCall, ids)
  BY Zenon DEF NoDsCall, DsCallRecord, WellFormed, SavesDomain, SavesService, DeletesDomain

LEMMA InitDs == DsInit => DsInv
  BY Zenon, NoCallFields DEF DsInit, DsInv, DsTypeOK, CallsWellFormed, OneServiceRow, ActiveIsLate,
     CheckedOrTorn, SubscriptionsResolve, SavesService

\* A step of one request that writes no row.
LEMMA CallStepKeeps ==
    ASSUME DsInv, NEW r \in DsRequest, NEW c \in DsCallRecord,
           dsCall' = [dsCall EXCEPT ![r] = c], UNCHANGED <<dsBackend, domains, services>>,
           issued \subseteq issued', torn \subseteq torn', WellFormed(c, issued'),
           c.step = "save service" /\ c.active =>
               \A item \in c.item : \A row \in services[item.id] : row.active \/ c.late,
           c.step \in SavesService =>
               \A item \in c.item : \A d \in item.subs \ c.left : domains[d] # {} \/ d \in torn',
           dsCall[r].step = "pull" => dsCall[r].left \subseteq torn'
    PROVE  DsInv'
<1>1. dsCall \in [DsRequest -> DsCallRecord] /\ \A q \in DsRequest : dsCall'[q] = IF q = r THEN c ELSE dsCall[q]
  BY Zenon DEF DsInv, DsTypeOK
<1>2. DsTypeOK'
  BY Zenon, <1>1 DEF DsInv, DsTypeOK
<1>3. CallsWellFormed'
  BY Zenon, <1>1 DEF DsInv, CallsWellFormed, WellFormed
<1>4. OneServiceRow'
  BY Zenon DEF DsInv, OneServiceRow
<1>5. ActiveIsLate'
  BY Zenon, <1>1 DEF DsInv, ActiveIsLate
<1>6. CheckedOrTorn'
  BY <1>1 DEF DsInv, CheckedOrTorn
<1>7. SubscriptionsResolve'
  BY <1>1 DEF DsInv, SubscriptionsResolve
<1> QED
  BY Zenon, <1>2, <1>3, <1>4, <1>5, <1>6, <1>7 DEF DsInv

\* A request that returns, or is answered at once.
LEMMA ReturnKeeps ==
    ASSUME DsInv, NEW r \in DsRequest, DsReturn(r), UNCHANGED <<dsBackend, domains, services>>,
           issued \subseteq issued', torn \subseteq torn',
           dsCall[r].step = "pull" => dsCall[r].left \subseteq torn'
    PROVE  DsInv'
  BY Zenon, CallStepKeeps, NoCallFields DEF DsReturn, SavesService

LEMMA NothingKeeps ==
    ASSUME DsInv, UNCHANGED <<dsBackend, domains, services, issued, dsCall, torn>>
    PROVE  DsInv'
  BY Zenon DEF DsInv, DsTypeOK, CallsWellFormed, OneServiceRow, ActiveIsLate, CheckedOrTorn, SubscriptionsResolve

LEMMA SaveDomainKeeps ==
    ASSUME DsInv, NEW r \in DsRequest, NEW item \in DomainToSave, SaveDomain(r, item)
    PROVE  DsInv'
<1> DEFINE c == [NoDsCall EXCEPT !.step = "domain identity", !.item = {item}]
<1>1. /\ c \in DsCallRecord /\ c.step = "domain identity" /\ c.item = {item}
  BY Zenon DEF NoDsCall, DsCallRecord, SavesDomain
<1>2. WellFormed(c, issued) /\ c.step \notin SavesService
  BY Zenon, <1>1 DEF WellFormed, SavesDomain, SavesService, DeletesDomain
<1>3. dsCall[r].step = "idle"
  BY Zenon DEF SaveDomain, DsCall
<1>4. UNCHANGED dsCall \/ dsCall' = [dsCall EXCEPT ![r] = c]
  BY Zenon DEF SaveDomain
<1>5. UNCHANGED <<dsBackend, domains, services, issued, torn>>
  BY Zenon DEF SaveDomain
<1> HIDE DEF c
<1> QED
  BY Zenon, <1>1, <1>2, <1>3, <1>4, <1>5, CallStepKeeps, NothingKeeps

LEMMA DomainIdentityKeeps ==
    ASSUME DsInv, NEW r \in DsRequest, initializeDomainIdentity(r)
    PROVE  DsInv'
<1>0. dsCall[r].step = "domain identity" /\ dsCall[r] \in DsCallRecord
  BY Zenon DEF initializeDomainIdentity, DsInv, DsTypeOK
<1>1. PICK item \in DomainToSave : dsCall[r].item = {item} /\ SavedItem(r) = item
  BY Zenon, <1>0 DEF DsInv, CallsWellFormed, WellFormed, SavesDomain, SavedItem, Only
<1>2. UNCHANGED <<dsBackend, domains, services, torn>>
  BY Zenon DEF initializeDomainIdentity
<1>3. ASSUME NEW d \in DomainID \ issued, issued' = issued \cup {d},
             dsCall' = [dsCall EXCEPT ![r].step = "save domain", ![r].item = {[SavedItem(r) EXCEPT !.id = d]}]
      PROVE  DsInv'
  <2> DEFINE new == [item EXCEPT !.id = d]
             c == [dsCall[r] EXCEPT !.step = "save domain", !.item = {new}]
  <2>1. new \in DomainToSave /\ new.id = d
    BY Zenon DEF DomainToSave
  <2>2. c \in DsCallRecord /\ c.step = "save domain" /\ c.item = {new}
    BY Zenon, <1>0, <2>1 DEF DsCallRecord, SavesDomain
  <2>3. WellFormed(c, issued') /\ c.step \notin SavesService
    BY Zenon, <2>1, <2>2 DEF WellFormed, SavesDomain, SavesService, DeletesDomain
  <2>4. dsCall' = [dsCall EXCEPT ![r] = c]
    BY Zenon, <1>1, <1>3 DEF DsInv, DsTypeOK
  <2> HIDE DEF c, new
  <2> QED
    BY Zenon, <1>0, <1>2, <1>3, <2>2, <2>3, <2>4, CallStepKeeps
<1>4. ASSUME DsGoto(r, "save domain"), SavedItem(r).id # NewItem, UNCHANGED issued
      PROVE  DsInv'
  <2> DEFINE c == [dsCall[r] EXCEPT !.step = "save domain"]
  <2>1. c \in DsCallRecord /\ c.step = "save domain" /\ c.item = {item}
    BY Zenon, <1>0, <1>1 DEF DsCallRecord, SavesDomain
  <2>2. WellFormed(c, issued) /\ c.step \notin SavesService
    BY Zenon, <1>1, <1>4, <2>1 DEF WellFormed, SavesDomain, SavesService, DeletesDomain, DomainToSave
  <2>3. dsCall' = [dsCall EXCEPT ![r] = c]
    BY Zenon, <1>4 DEF DsGoto, DsInv, DsTypeOK
  <2> HIDE DEF c
  <2> QED
    BY Zenon, <1>0, <1>2, <1>4, <2>1, <2>2, <2>3, CallStepKeeps
<1>5. ASSUME DsReturn(r), UNCHANGED issued PROVE DsInv'
  BY Zenon, <1>0, <1>2, <1>5, ReturnKeeps
<1> QED
  BY Zenon, <1>3, <1>4, <1>5 DEF initializeDomainIdentity

\* The upsert of a domain only adds to what subscriptions resolve to.
LEMMA PersistDomainKeeps ==
    ASSUME DsInv, NEW r \in DsRequest, persistDomain(r)
    PROVE  DsInv'
<1>0. dsCall[r].step = "save domain" /\ dsCall \in [DsRequest -> DsCallRecord] /\ DOMAIN domains = DomainID
  BY Zenon DEF persistDomain, DsInv, DsTypeOK
<1>1. /\ UNCHANGED <<dsBackend, services, issued, torn>>
      /\ \A q \in DsRequest : dsCall'[q] = IF q = r THEN NoDsCall ELSE dsCall[q]
      /\ dsCall' \in [DsRequest -> DsCallRecord]
  BY Zenon, <1>0, NoCallFields DEF persistDomain, DsReturn
<1>2. DOMAIN domains' = DomainID /\ \A d \in DomainID : domains[d] # {} => domains'[d] # {}
  <2>1. domains' = domains \/ domains' = [domains EXCEPT ![SavedItem(r).id] =
                                            {[name |-> SavedItem(r).name, types |-> SavedItem(r).types]}]
    BY Zenon DEF persistDomain, Upserted
  <2> QED
    BY Zenon, <1>0, <2>1
<1>3. DsTypeOK' /\ OneServiceRow' /\ CallsWellFormed' /\ ActiveIsLate'
  BY Zenon, <1>1, <1>2, NoCallFields DEF DsInv, DsTypeOK, OneServiceRow, CallsWellFormed, ActiveIsLate
<1>4. CheckedOrTorn'
  <2> SUFFICES ASSUME NEW q \in DsRequest, dsCall'[q].step \in SavesService,
                      NEW item \in dsCall'[q].item, NEW d \in item.subs \ dsCall'[q].left
               PROVE  domains'[d] # {} \/ d \in torn'
    BY Zenon DEF CheckedOrTorn
  <2>1. q # r /\ dsCall'[q] = dsCall[q]
    BY Zenon, <1>1, NoCallFields DEF SavesService
  <2>2. domains[d] # {} \/ d \in torn
    BY Zenon, <2>1 DEF DsInv, CheckedOrTorn
  <2>3. d \in DomainID
    <3>1. PICK x \in ServiceToSave : dsCall[q].item = {x}
      BY Zenon, <2>1 DEF DsInv, CallsWellFormed, WellFormed
    <3> QED
      BY Zenon, <2>1, <3>1 DEF ServiceToSave
  <2> QED
    BY Zenon, <1>1, <1>2, <2>2, <2>3
<1>5. SubscriptionsResolve'
  <2> SUFFICES ASSUME NEW s \in ServiceID, NEW row \in services'[s], NEW d \in row.subs, domains'[d] = {}
               PROVE  /\ dsBackend' = "mongo"
                      /\ d \in torn' \/ \E q \in DsRequest : dsCall'[q].step = "pull" /\ d \in dsCall'[q].left
    BY Zenon DEF SubscriptionsResolve
  <2>1. row \in services[s] /\ d \in DomainID
    BY <1>1 DEF DsInv, DsTypeOK, ServiceRow
  <2>2. domains[d] = {}
    BY Zenon, <1>2, <2>1
  <2> QED
    BY Zenon, <1>0, <1>1, <2>1, <2>2 DEF DsInv, SubscriptionsResolve
<1> QED
  BY Zenon, <1>3, <1>4, <1>5 DEF DsInv

LEMMA DeleteDomainKeeps ==
    ASSUME DsInv, NEW r \in DsRequest, NEW d \in DomainID, DeleteDomain(r, d)
    PROVE  DsInv'
<1> DEFINE c == [NoDsCall EXCEPT !.step = "delete domain", !.left = {d}]
<1>1. c \in DsCallRecord /\ c.step = "delete domain" /\ c.left = {d}
  BY Zenon DEF NoDsCall, DsCallRecord, DeletesDomain
<1>2. WellFormed(c, issued) /\ c.step \notin SavesService
  BY Zenon, <1>1 DEF WellFormed, SavesDomain, SavesService, DeletesDomain
<1>3. dsCall[r].step = "idle"
  BY Zenon DEF DeleteDomain, DsCall
<1>4. UNCHANGED dsCall \/ dsCall' = [dsCall EXCEPT ![r] = c]
  BY Zenon DEF DeleteDomain
<1>5. UNCHANGED <<dsBackend, domains, services, issued, torn>>
  BY Zenon DEF DeleteDomain
<1> HIDE DEF c
<1> QED
  BY Zenon, <1>1, <1>2, <1>3, <1>4, <1>5, CallStepKeeps, NothingKeeps

\* Without its subscriptions to d a service is the same.
LEMMA UnsubscribedFacts ==
    ASSUME DsInv, NEW d \in DomainID
    PROVE  /\ Unsubscribed(d) \in [ServiceID -> SUBSET ServiceRow]
           /\ \A s \in ServiceID : /\ \A a, b \in Unsubscribed(d)[s] : a = b
                                   /\ Unsubscribed(d)[s] # {} => services[s] # {}
           /\ \A s \in ServiceID : \A new \in Unsubscribed(d)[s] : \E row \in services[s] :
                new.active = row.active /\ new.subs = row.subs \ {d}
<1> DEFINE Without(row) == [row EXCEPT !.subs = @ \ {d}]
<1>1. \A s \in ServiceID : \A row \in services[s] :
         /\ Without(row) \in ServiceRow
         /\ Without(row).active = row.active /\ Without(row).subs = row.subs \ {d}
  BY DEF DsInv, DsTypeOK, ServiceRow
<1>2. Unsubscribed(d) = [s \in ServiceID |-> {Without(row) : row \in services[s]}]
  BY Zenon DEF Unsubscribed
<1> HIDE DEF Without
<1>3. \A s \in ServiceID : \A new \in Unsubscribed(d)[s] : \E row \in services[s] : new = Without(row)
  BY <1>2
<1>4. \A s \in ServiceID : \A a, b \in services[s] : a = b
  BY Zenon DEF DsInv, OneServiceRow
<1>5. \A s \in ServiceID : Unsubscribed(d)[s] \subseteq ServiceRow
  BY <1>1, <1>3
<1>6. Unsubscribed(d) \in [ServiceID -> SUBSET ServiceRow]
  BY Zenon, <1>2, <1>5
<1>7. \A s \in ServiceID : \A a, b \in Unsubscribed(d)[s] : a = b
  BY <1>3, <1>4
<1>8. \A s \in ServiceID : Unsubscribed(d)[s] # {} => services[s] # {}
  BY Zenon, <1>3
<1> QED
  BY <1>1, <1>3, <1>6, <1>7, <1>8

\* Rows of services that lose their subscriptions to d and nothing else.
LEMMA UnsubscribeKeeps ==
    ASSUME DsInv, NEW d \in DomainID, services' = Unsubscribed(d), UNCHANGED issued,
           \A q \in DsRequest : dsCall'[q] = dsCall[q] \/ dsCall'[q] = NoDsCall
    PROVE  OneServiceRow' /\ ActiveIsLate'
<1>1. OneServiceRow'
  BY UnsubscribedFacts DEF OneServiceRow, DsInv
<1>2. ActiveIsLate'
  <2> SUFFICES ASSUME NEW q \in DsRequest, dsCall'[q].step = "save service", dsCall'[q].active,
                      NEW item \in dsCall'[q].item, NEW new \in services'[item.id]
               PROVE  new.active \/ dsCall'[q].late
    BY Zenon DEF ActiveIsLate
  <2>1. dsCall'[q] = dsCall[q]
    BY Zenon, NoCallFields
  <2>2. item.id \in ServiceID
    BY Zenon, <2>1 DEF DsInv, CallsWellFormed, WellFormed
  <2>3. new \in Unsubscribed(d)[item.id]
    BY Zenon
  <2>4. \A s \in ServiceID : \A x \in Unsubscribed(d)[s] : \E row \in services[s] :
            x.active = row.active /\ x.subs = row.subs \ {d}
    BY Zenon, UnsubscribedFacts
  <2>5. PICK row \in services[item.id] : new.active = row.active
    BY <2>2, <2>3, <2>4
  <2> QED
    BY Zenon, <2>1, <2>5 DEF DsInv, ActiveIsLate
<1> QED
  BY Zenon, <1>1, <1>2

\* The subscriptions of a service are domain ids.
LEMMA SubsAreDomains ==
    ASSUME DsInv
    PROVE  /\ \A s \in ServiceID : \A row \in services[s] : row.subs \subseteq DomainID
           /\ \A q \in DsRequest : dsCall[q].step \in SavesService =>
                \E item \in ServiceToSave : dsCall[q].item = {item} /\ item.subs \subseteq DomainID
<1>1. \A s \in ServiceID : \A row \in services[s] : row.subs \subseteq DomainID
  BY DEF DsInv, DsTypeOK, ServiceRow
<1>2. \A q \in DsRequest : dsCall[q].step \in SavesService => \E item \in ServiceToSave : dsCall[q].item = {item}
  BY Zenon DEF DsInv, CallsWellFormed, WellFormed
<1>3. \A item \in ServiceToSave : item.subs \subseteq DomainID
  BY Zenon DEF ServiceToSave
<1> QED
  BY Zenon, <1>1, <1>2, <1>3

\* PostgreSQL takes the subscriptions along; in MongoDB they wait for the $pull, and
\* a save that has looked the domain up leaves it torn.
LEMMA DeleteRowKeeps ==
    ASSUME DsInv, NEW r \in DsRequest, DeleteDomainRow(r)
    PROVE  DsInv'
<1>0. dsCall[r].step = "delete domain" /\ dsCall \in [DsRequest -> DsCallRecord] /\ DOMAIN domains = DomainID
  BY Zenon DEF DeleteDomainRow, DsInv, DsTypeOK
<1>1. PICK d \in DomainID : dsCall[r].left = {d} /\ Only(dsCall[r].left) = d
  BY Zenon, <1>0 DEF DsInv, CallsWellFormed, WellFormed, DeletesDomain, Only
<1>2. /\ domains' = [domains EXCEPT ![d] = {}]
      /\ torn' = IF SavingTo(d) THEN torn \cup {d} ELSE torn
      /\ UNCHANGED <<dsBackend, issued>>
      /\ \/ dsBackend = "postgres" /\ services' = Unsubscribed(d) /\ DsReturn(r)
         \/ dsBackend = "mongo" /\ UNCHANGED services /\ DsGoto(r, "pull")
  BY Zenon, <1>1 DEF DeleteDomainRow
<1> DEFINE c == [dsCall[r] EXCEPT !.step = "pull"]
<1>3. c \in DsCallRecord /\ c.step = "pull" /\ c.left = {d} /\ WellFormed(c, issued)
  <2>1. c \in DsCallRecord /\ c.step = "pull" /\ c.left = {d}
    BY Zenon, <1>0, <1>1 DEF DsCallRecord, DeletesDomain
  <2> HIDE DEF c
  <2> QED
    BY Zenon, <2>1 DEF WellFormed, SavesDomain, SavesService, DeletesDomain
<1>4. DsGoto(r, "pull") => dsCall' = [dsCall EXCEPT ![r] = c]
  BY Zenon, <1>0 DEF DsGoto
<1> HIDE DEF c
<1>5. /\ dsCall' \in [DsRequest -> DsCallRecord]
      /\ \A q \in DsRequest : q # r => dsCall'[q] = dsCall[q]
      /\ dsBackend = "postgres" => dsCall'[r] = NoDsCall
      /\ dsBackend = "mongo" => dsCall'[r] = c
  BY Zenon, <1>0, <1>2, <1>3, <1>4, NoCallFields DEF DsReturn
<1>6. \A x \in DomainID : domains'[x] = IF x = d THEN {} ELSE domains[x]
  BY Zenon, <1>0, <1>2
<1>7. DsTypeOK'
  BY <1>0, <1>2, <1>5, UnsubscribedFacts DEF DsInv, DsTypeOK
<1>8. CallsWellFormed'
  BY Zenon, <1>2, <1>3, <1>5, NoCallFields DEF DsInv, DsTypeOK, CallsWellFormed
<1>9. OneServiceRow' /\ ActiveIsLate'
  <2>1. CASE dsBackend = "postgres"
    BY Zenon, <1>2, <1>5, <2>1, UnsubscribeKeeps
  <2>2. CASE dsBackend = "mongo"
    BY Zenon, <1>2, <1>3, <1>5, <2>2 DEF DsInv, OneServiceRow, ActiveIsLate
  <2> QED
    BY Zenon, <1>2, <2>1, <2>2
<1>10. CheckedOrTorn'
  <2> SUFFICES ASSUME NEW q \in DsRequest, dsCall'[q].step \in SavesService,
                      NEW item \in dsCall'[q].item, NEW x \in item.subs \ dsCall'[q].left
               PROVE  domains'[x] # {} \/ x \in torn'
    BY Zenon DEF CheckedOrTorn
  <2>1. q # r /\ dsCall'[q] = dsCall[q]
    BY Zenon, <1>2, <1>3, <1>5, NoCallFields DEF SavesService
  <2>2. x \in DomainID
    BY Zenon, <2>1, SubsAreDomains
  <2>3. CASE x = d
    BY Zenon, <1>2, <2>1, <2>3 DEF SavingTo, SavesService
  <2>4. CASE x # d
    BY Zenon, <1>2, <1>6, <2>1, <2>2, <2>4 DEF DsInv, CheckedOrTorn
  <2> QED
    BY Zenon, <2>3, <2>4
<1>11. SubscriptionsResolve'
  <2> SUFFICES ASSUME NEW s \in ServiceID, NEW row \in services'[s], NEW x \in row.subs, domains'[x] = {}
               PROVE  /\ dsBackend' = "mongo"
                      /\ x \in torn' \/ \E q \in DsRequest : dsCall'[q].step = "pull" /\ x \in dsCall'[q].left
    BY Zenon DEF SubscriptionsResolve
  <2>1. CASE dsBackend = "postgres"
    <3>1. row \in Unsubscribed(d)[s]
      BY Zenon, <1>2, <2>1
    <3>2. \A new \in Unsubscribed(d)[s] : \E old \in services[s] :
             new.active = old.active /\ new.subs = old.subs \ {d}
      BY Zenon, UnsubscribedFacts
    <3>3. PICK old \in services[s] : row.subs = old.subs \ {d}
      BY Zenon, <3>1, <3>2
    <3>4. x # d /\ x \in old.subs /\ x \in DomainID
      BY Zenon, <3>3, SubsAreDomains
    <3>5. domains[x] = {}
      BY Zenon, <1>6, <3>4
    <3> QED
      BY Zenon, <2>1, <3>4, <3>5 DEF DsInv, SubscriptionsResolve
  <2>2. CASE dsBackend = "mongo"
    <3>1. row \in services[s] /\ x \in DomainID
      BY Zenon, <1>2, <2>2, SubsAreDomains
    <3>2. CASE x = d
      BY Zenon, <1>2, <1>3, <1>5, <2>2, <3>2
    <3>3. CASE x # d
      <4>1. x \in torn \/ \E q \in DsRequest : dsCall[q].step = "pull" /\ x \in dsCall[q].left
        BY Zenon, <1>6, <3>1, <3>3 DEF DsInv, SubscriptionsResolve
      <4> QED
        BY Zenon, <1>0, <1>2, <1>5, <2>2, <4>1
    <3> QED
      BY Zenon, <3>2, <3>3
  <2> QED
    BY Zenon, <1>2, <2>1, <2>2
<1> QED
  BY Zenon, <1>7, <1>8, <1>9, <1>10, <1>11 DEF DsInv

LEMMA PullKeeps ==
    ASSUME DsInv, NEW r \in DsRequest, Pull(r)
    PROVE  DsInv'
<1>0. dsCall[r].step = "pull" /\ dsCall \in [DsRequest -> DsCallRecord]
  BY Zenon DEF Pull, DsInv, DsTypeOK
<1>1. PICK d \in DomainID : dsCall[r].left = {d} /\ Only(dsCall[r].left) = d
  BY Zenon, <1>0 DEF DsInv, CallsWellFormed, WellFormed, DeletesDomain, Only
<1>2. /\ services' = Unsubscribed(d) /\ UNCHANGED <<dsBackend, domains, issued, torn>>
      /\ dsCall' \in [DsRequest -> DsCallRecord]
      /\ \A q \in DsRequest : dsCall'[q] = IF q = r THEN NoDsCall ELSE dsCall[q]
  BY Zenon, <1>0, <1>1, NoCallFields DEF Pull, DsReturn
<1>3. DsTypeOK'
  BY Zenon, <1>2, UnsubscribedFacts DEF DsInv, DsTypeOK
<1>4. CallsWellFormed' /\ CheckedOrTorn'
  BY Zenon, <1>2, NoCallFields DEF DsInv, CallsWellFormed, CheckedOrTorn, SavesService
<1>5. OneServiceRow' /\ ActiveIsLate'
  BY Zenon, <1>2, UnsubscribeKeeps
<1>6. SubscriptionsResolve'
  <2> SUFFICES ASSUME NEW s \in ServiceID, NEW row \in services'[s], NEW x \in row.subs, domains'[x] = {}
               PROVE  /\ dsBackend' = "mongo"
                      /\ x \in torn' \/ \E q \in DsRequest : dsCall'[q].step = "pull" /\ x \in dsCall'[q].left
    BY Zenon DEF SubscriptionsResolve
  <2>1. \A new \in Unsubscribed(d)[s] : \E old \in services[s] :
           new.active = old.active /\ new.subs = old.subs \ {d}
    BY Zenon, UnsubscribedFacts
  <2>2. PICK old \in services[s] : row.subs = old.subs \ {d}
    BY Zenon, <1>2, <2>1
  <2>3. x # d /\ x \in old.subs /\ domains[x] = {}
    BY Zenon, <1>2, <2>2
  <2>4. /\ dsBackend = "mongo"
        /\ x \in torn \/ \E q \in DsRequest : dsCall[q].step = "pull" /\ x \in dsCall[q].left
    BY Zenon, <2>3 DEF DsInv, SubscriptionsResolve
  <2> QED
    BY Zenon, <1>1, <1>2, <2>3, <2>4
<1> QED
  BY Zenon, <1>3, <1>4, <1>5, <1>6 DEF DsInv

LEMMA SaveServiceKeeps ==
    ASSUME DsInv, NEW r \in DsRequest, NEW item \in ServiceToSave, SaveService(r, item)
    PROVE  DsInv'
<1> DEFINE c == [NoDsCall EXCEPT !.step = "service domains", !.item = {item}, !.left = item.subs]
<1>1. c \in DsCallRecord /\ c.step = "service domains" /\ c.item = {item} /\ c.left = item.subs
  BY Zenon DEF NoDsCall, DsCallRecord, SavesService, ServiceToSave
<1>2. WellFormed(c, issued)
  BY Zenon, <1>1 DEF WellFormed, SavesDomain, SavesService, DeletesDomain
<1>3. dsCall[r].step = "idle"
  BY Zenon DEF SaveService, DsCall
<1>4. UNCHANGED dsCall \/ dsCall' = [dsCall EXCEPT ![r] = c]
  BY Zenon DEF SaveService
<1>5. UNCHANGED <<dsBackend, domains, services, issued, torn>>
  BY Zenon DEF SaveService
<1> HIDE DEF c
<1> QED
  BY Zenon, <1>1, <1>2, <1>3, <1>4, <1>5, CallStepKeeps, NothingKeeps

LEMMA ValidateKeeps ==
    ASSUME DsInv, NEW r \in DsRequest, validateServiceDomains(r)
    PROVE  DsInv'
<1>0. dsCall[r].step = "service domains" /\ dsCall[r] \in DsCallRecord /\ dsCall \in [DsRequest -> DsCallRecord]
  BY Zenon DEF validateServiceDomains, DsInv, DsTypeOK
<1>1. PICK item \in ServiceToSave : dsCall[r].item = {item}
  BY Zenon, <1>0 DEF DsInv, CallsWellFormed, WellFormed, SavesService
<1>2. \A d \in item.subs \ dsCall[r].left : domains[d] # {} \/ d \in torn
  BY Zenon, <1>0, <1>1 DEF DsInv, CheckedOrTorn, SavesService
<1>3. UNCHANGED <<dsBackend, domains, services, issued, torn>>
  BY Zenon DEF validateServiceDomains
<1>4. ASSUME NEW d \in dsCall[r].left, domains[d] # {}, dsCall' = [dsCall EXCEPT ![r].left = @ \ {d}]
      PROVE  DsInv'
  <2> DEFINE c == [dsCall[r] EXCEPT !.left = @ \ {d}]
  <2>1. /\ c \in DsCallRecord /\ c.step = "service domains" /\ c.item = {item}
        /\ c.left = dsCall[r].left \ {d}
    BY Zenon, <1>0, <1>1 DEF DsCallRecord
  <2>2. dsCall' = [dsCall EXCEPT ![r] = c]
    BY Zenon, <1>0, <1>4
  <2> HIDE DEF c
  <2>3. WellFormed(c, issued)
    BY Zenon, <2>1 DEF WellFormed, SavesDomain, SavesService, DeletesDomain
  <2>4. \A x \in item.subs \ c.left : domains[x] # {} \/ x \in torn
    BY Zenon, <1>2, <1>4, <2>1
  <2> QED
    BY Zenon, <1>0, <1>3, <2>1, <2>2, <2>3, <2>4, CallStepKeeps
<1>5. ASSUME dsCall[r].left = {}, DsGoto(r, "service identity")
      PROVE  DsInv'
  <2> DEFINE c == [dsCall[r] EXCEPT !.step = "service identity"]
  <2>1. c \in DsCallRecord /\ c.step = "service identity" /\ c.item = {item} /\ c.left = {}
    BY Zenon, <1>0, <1>1, <1>5 DEF DsCallRecord, SavesService
  <2>2. dsCall' = [dsCall EXCEPT ![r] = c]
    BY Zenon, <1>0, <1>5 DEF DsGoto
  <2> HIDE DEF c
  <2>3. WellFormed(c, issued)
    BY Zenon, <2>1 DEF WellFormed, SavesDomain, SavesService, DeletesDomain
  <2> QED
    BY Zenon, <1>0, <1>2, <1>3, <1>5, <2>1, <2>2, <2>3, CallStepKeeps
<1>6. ASSUME DsReturn(r) PROVE DsInv'
  BY Zenon, <1>0, <1>3, <1>6, ReturnKeeps
<1> QED
  BY Zenon, <1>4, <1>5, <1>6 DEF validateServiceDomains, GetDomain

\* A new service has no row under its id; an update takes the flag of the one row.
LEMMA ServiceIdentityKeeps ==
    ASSUME DsInv, NEW r \in DsRequest, initializeServiceIdentity(r)
    PROVE  DsInv'
<1>0. /\ dsCall[r].step = "service identity" /\ dsCall[r] \in DsCallRecord
      /\ dsCall \in [DsRequest -> DsCallRecord] /\ dsCall[r].left = {}
  BY Zenon DEF initializeServiceIdentity, DsInv, DsTypeOK, CallsWellFormed, WellFormed
<1>1. PICK item \in ServiceToSave : dsCall[r].item = {item} /\ SavedItem(r) = item
  BY Zenon, <1>0 DEF DsInv, CallsWellFormed, WellFormed, SavesService, SavedItem, Only
<1>2. \A d \in item.subs : domains[d] # {} \/ d \in torn
  BY Zenon, <1>0, <1>1 DEF DsInv, CheckedOrTorn, SavesService
<1>3. UNCHANGED <<dsBackend, domains, services, torn>>
  BY Zenon DEF initializeServiceIdentity
<1>4. ASSUME NEW s \in ServiceID \ issued, issued' = issued \cup {s},
             dsCall' = [dsCall EXCEPT ![r].step = "save service", ![r].active = TRUE,
                                      ![r].item = {[SavedItem(r) EXCEPT !.id = s]}]
      PROVE  DsInv'
  <2> DEFINE new == [item EXCEPT !.id = s]
             c == [dsCall[r] EXCEPT !.step = "save service", !.active = TRUE, !.item = {new}]
  <2>1. new \in ServiceToSave /\ new.id = s /\ new.subs = item.subs
    BY Zenon DEF ServiceToSave
  <2>2. /\ c \in DsCallRecord /\ c.step = "save service" /\ c.item = {new} /\ c.left = {}
    BY Zenon, <1>0, <2>1 DEF DsCallRecord, SavesService
  <2>3. dsCall' = [dsCall EXCEPT ![r] = c]
    BY Zenon, <1>0, <1>1, <1>4
  <2> HIDE DEF c, new
  <2>4. WellFormed(c, issued')
    BY Zenon, <1>4, <2>1, <2>2 DEF WellFormed, SavesDomain, SavesService, DeletesDomain
  <2>5. services[s] = {}
    BY Zenon DEF DsInv, OneServiceRow
  <2> QED
    BY Zenon, <1>0, <1>2, <1>3, <1>4, <2>1, <2>2, <2>3, <2>4, <2>5, CallStepKeeps
<1>5. ASSUME SavedItem(r).id # NewItem, UNCHANGED issued, NEW row \in services[SavedItem(r).id],
             dsCall' = [dsCall EXCEPT ![r].step = "save service", ![r].active = row.active]
      PROVE  DsInv'
  <2> DEFINE c == [dsCall[r] EXCEPT !.step = "save service", !.active = row.active]
  <2>1. item.id \in ServiceID /\ row.active \in BOOLEAN
    <3>1. item.id \in ServiceID
      BY Zenon, <1>1, <1>5 DEF ServiceToSave
    <3>2. row \in ServiceRow
      BY Zenon, <1>1, <3>1 DEF DsInv, DsTypeOK
    <3> QED
      BY Zenon, <3>1, <3>2 DEF ServiceRow
  <2>2. /\ c \in DsCallRecord /\ c.step = "save service" /\ c.item = {item} /\ c.left = {}
        /\ c.active = row.active
    BY Zenon, <1>0, <1>1, <2>1 DEF DsCallRecord, SavesService
  <2>3. dsCall' = [dsCall EXCEPT ![r] = c]
    BY Zenon, <1>0, <1>5
  <2> HIDE DEF c
  <2>4. item.id \in issued /\ \A other \in services[item.id] : other = row
    BY Zenon, <1>1, <1>5, <2>1 DEF DsInv, OneServiceRow
  <2>5. WellFormed(c, issued')
    BY Zenon, <1>5, <2>1, <2>2, <2>4 DEF WellFormed, SavesDomain, SavesService, DeletesDomain
  <2> QED
    BY Zenon, <1>0, <1>2, <1>3, <1>5, <2>2, <2>3, <2>4, <2>5, CallStepKeeps
<1>6. ASSUME DsReturn(r), UNCHANGED issued PROVE DsInv'
  BY Zenon, <1>0, <1>3, <1>6, ReturnKeeps
<1> QED
  BY Zenon, <1>4, <1>5, <1>6 DEF initializeServiceIdentity, GetService

\* The history notes the saves that are overtaken, and changes nothing else.
LEMMA ClearedFacts ==
    ASSUME DsInv, NEW s
    PROVE  /\ Cleared(s) \in [DsRequest -> DsCallRecord]
           /\ \A q \in DsRequest :
                /\ Cleared(s)[q].step = dsCall[q].step /\ Cleared(s)[q].item = dsCall[q].item
                /\ Cleared(s)[q].left = dsCall[q].left /\ Cleared(s)[q].active = dsCall[q].active
                /\ dsCall[q].late => Cleared(s)[q].late
                /\ dsCall[q].step = "save service" /\ SavedItem(q).id = s => Cleared(s)[q].late
<1> DEFINE Marked(q, b) == [dsCall[q] EXCEPT !.late = b]
           over(q) == dsCall[q].late \/ (dsCall[q].step = "save service" /\ SavedItem(q).id = s)
<1>1. \A q \in DsRequest : dsCall[q] \in DsCallRecord
  BY Zenon DEF DsInv, DsTypeOK
<1>2. \A q \in DsRequest, b \in BOOLEAN :
         /\ Marked(q, b) \in DsCallRecord /\ Marked(q, b).step = dsCall[q].step
         /\ Marked(q, b).item = dsCall[q].item /\ Marked(q, b).left = dsCall[q].left
         /\ Marked(q, b).active = dsCall[q].active /\ Marked(q, b).late = b
  BY Zenon, <1>1 DEF DsCallRecord
<1>3. Cleared(s) = [q \in DsRequest |-> Marked(q, over(q))]
  BY Zenon DEF Cleared
<1>4. \A q \in DsRequest : over(q) \in BOOLEAN
  BY Zenon
<1> HIDE DEF Marked
<1>5. \A q \in DsRequest :
         /\ Marked(q, over(q)) \in DsCallRecord /\ Marked(q, over(q)).step = dsCall[q].step
         /\ Marked(q, over(q)).item = dsCall[q].item /\ Marked(q, over(q)).left = dsCall[q].left
         /\ Marked(q, over(q)).active = dsCall[q].active /\ Marked(q, over(q)).late = over(q)
  BY Zenon, <1>2, <1>4
<1> HIDE DEF over
<1>6. \A q \in DsRequest : Cleared(s)[q] = Marked(q, over(q))
  BY Zenon, <1>3
<1>7. Cleared(s) \in [DsRequest -> DsCallRecord]
  BY Zenon, <1>3, <1>5
<1>8. \A q \in DsRequest :
         /\ Cleared(s)[q].step = dsCall[q].step /\ Cleared(s)[q].item = dsCall[q].item
         /\ Cleared(s)[q].left = dsCall[q].left /\ Cleared(s)[q].active = dsCall[q].active
         /\ Cleared(s)[q].late = over(q)
  BY Zenon, <1>5, <1>6
<1> QED
  BY Zenon, <1>7, <1>8 DEF over

LEMMA WellFormedSame ==
    ASSUME NEW c, NEW d, NEW ids, c.step = d.step, c.item = d.item, c.left = d.left, WellFormed(c, ids)
    PROVE  WellFormed(d, ids)
  BY Zenon DEF WellFormed

\* A save that goes through leaves its row, and overtakes the others if that is
\* inactive.
LEMMA PersistServiceKeeps ==
    ASSUME DsInv, NEW r \in DsRequest, persistService(r)
    PROVE  DsInv'
<1>0. /\ dsCall[r].step = "save service" /\ dsCall[r] \in DsCallRecord
      /\ dsCall \in [DsRequest -> DsCallRecord] /\ dsCall[r].left = {}
  BY Zenon DEF persistService, DsInv, DsTypeOK, CallsWellFormed, WellFormed
<1>1. PICK item \in ServiceToSave : dsCall[r].item = {item} /\ SavedItem(r) = item
  BY Zenon, <1>0 DEF DsInv, CallsWellFormed, WellFormed, SavesService, SavedItem, Only
<1>2. item.id \in ServiceID \cap issued
  BY Zenon, <1>0, <1>1 DEF DsInv, CallsWellFormed, WellFormed
<1>3. \A d \in item.subs : domains[d] # {} \/ d \in torn
  BY Zenon, <1>0, <1>1 DEF DsInv, CheckedOrTorn, SavesService
<1>4. UNCHANGED <<dsBackend, domains, issued, torn>>
  BY Zenon DEF persistService
<1>5. CASE ~saveServiceAccepted(item)
  BY Zenon, <1>0, <1>1, <1>4, <1>5, ReturnKeeps DEF persistService
<1>6. CASE saveServiceAccepted(item)
  <2> DEFINE row == [name |-> item.name, endpoint |-> item.endpoint,
                     active |-> dsCall[r].active, subs |-> item.subs]
             calls == IF dsCall[r].active THEN dsCall ELSE Cleared(item.id)
  <2>1. services' = [services EXCEPT ![item.id] = {row}] /\ dsCall' = [calls EXCEPT ![r] = NoDsCall]
    BY Zenon, <1>1, <1>6 DEF persistService, ServiceSaved
  <2>2. row \in ServiceRow /\ row.active = dsCall[r].active /\ row.subs = item.subs
    BY Zenon, <1>0 DEF DsCallRecord, ServiceToSave, ServiceRow
  <2>3. /\ calls \in [DsRequest -> DsCallRecord]
        /\ \A q \in DsRequest :
             /\ calls[q].step = dsCall[q].step /\ calls[q].item = dsCall[q].item
             /\ calls[q].left = dsCall[q].left /\ calls[q].active = dsCall[q].active
             /\ dsCall[q].late => calls[q].late
             /\ dsCall[q].step = "save service" /\ SavedItem(q).id = item.id /\ ~dsCall[r].active => calls[q].late
    BY <1>0, ClearedFacts
  <2> HIDE DEF row, calls
  <2>4. /\ dsCall' \in [DsRequest -> DsCallRecord]
        /\ \A q \in DsRequest : dsCall'[q] = IF q = r THEN NoDsCall ELSE calls[q]
    BY Zenon, <2>1, <2>3, NoCallFields
  <2>5. /\ services' \in [ServiceID -> SUBSET ServiceRow]
        /\ \A s \in ServiceID : services'[s] = IF s = item.id THEN {row} ELSE services[s]
    BY Zenon, <1>2, <2>1, <2>2 DEF DsInv, DsTypeOK
  <2>6. DsTypeOK'
    BY Zenon, <1>4, <2>4, <2>5 DEF DsInv, DsTypeOK
  <2>7. CallsWellFormed'
    <3>1. \A q \in DsRequest : WellFormed(calls[q], issued)
      BY Zenon, <2>3, WellFormedSame DEF DsInv, CallsWellFormed
    <3> QED
      BY Zenon, <1>4, <2>4, <3>1, NoCallFields DEF CallsWellFormed
  <2>8. OneServiceRow'
    BY <1>2, <1>4, <2>5 DEF DsInv, OneServiceRow
  <2>9. CheckedOrTorn'
    BY <1>4, <2>3, <2>4, NoCallFields DEF DsInv, CheckedOrTorn, SavesService
  <2>10. ActiveIsLate'
    <3> SUFFICES ASSUME NEW q \in DsRequest, dsCall'[q].step = "save service", dsCall'[q].active,
                        NEW x \in dsCall'[q].item, NEW new \in services'[x.id]
                 PROVE  new.active \/ dsCall'[q].late
      BY Zenon DEF ActiveIsLate
    <3>1. q # r /\ dsCall'[q] = calls[q] /\ dsCall[q].step = "save service" /\ x \in dsCall[q].item
      BY Zenon, <2>3, <2>4, NoCallFields
    <3>2. x.id \in ServiceID /\ SavedItem(q) = x
      <4>1. WellFormed(dsCall[q], issued)
        BY Zenon DEF DsInv, CallsWellFormed
      <4>2. PICK y \in ServiceToSave : dsCall[q].item = {y}
        BY Zenon, <3>1, <4>1 DEF WellFormed, SavesService
      <4> QED
        BY Zenon, <3>1, <4>1, <4>2 DEF WellFormed, SavedItem, Only
    <3>3. CASE x.id = item.id
      <4>1. new = row
        BY <2>5, <3>2, <3>3
      <4>2. ~dsCall[r].active => calls[q].late
        BY Zenon, <2>3, <3>1, <3>2, <3>3
      <4> QED
        BY Zenon, <2>2, <3>1, <4>1, <4>2
    <3>4. CASE x.id # item.id
      BY <2>3, <2>5, <3>1, <3>2, <3>4 DEF DsInv, ActiveIsLate
    <3> QED
      BY Zenon, <3>3, <3>4
  <2>11. SubscriptionsResolve'
    <3> SUFFICES ASSUME NEW s \in ServiceID, NEW new \in services'[s], NEW d \in new.subs, domains'[d] = {}
                 PROVE  /\ dsBackend' = "mongo"
                        /\ d \in torn' \/ \E q \in DsRequest : dsCall'[q].step = "pull" /\ d \in dsCall'[q].left
      BY Zenon DEF SubscriptionsResolve
    <3>1. CASE s = item.id
      <4>1. d \in item.subs /\ domains[d] = {}
        BY Zenon, <1>4, <2>2, <2>5, <3>1
      <4>2. dsBackend # "postgres"
        BY Zenon, <1>6, <4>1 DEF saveServiceAccepted
      <4> QED
        BY Zenon, <1>3, <1>4, <4>1, <4>2 DEF DsInv, DsTypeOK
    <3>2. CASE s # item.id
      <4>1. /\ dsBackend = "mongo"
            /\ d \in torn \/ \E q \in DsRequest : dsCall[q].step = "pull" /\ d \in dsCall[q].left
        BY Zenon, <1>4, <2>5, <3>2 DEF DsInv, SubscriptionsResolve
      <4> QED
        BY <1>0, <1>4, <2>3, <2>4, <4>1
    <3> QED
      BY Zenon, <3>1, <3>2
  <2> QED
    BY Zenon, <2>6, <2>7, <2>8, <2>9, <2>10, <2>11 DEF DsInv
<1> QED
  BY Zenon, <1>5, <1>6

\* What DELETE does to the row of a service.
LEMMA DisabledRow ==
    ASSUME DsInv, NEW s \in ServiceID, DeleteService(s)
    PROVE  /\ services' \in [ServiceID -> SUBSET ServiceRow]
           /\ \A x \in ServiceID : x # s => services'[x] = services[x]
           /\ \A new \in services'[s] : ~new.active /\ \E row \in services[s] : new.subs = row.subs
           /\ \A a, b \in services'[s] : a = b
<1> DEFINE Off(row) == [row EXCEPT !.active = FALSE]
<1>1. services \in [ServiceID -> SUBSET ServiceRow] /\ \A a, b \in services[s] : a = b
  BY Zenon DEF DsInv, DsTypeOK, OneServiceRow
<1>2. \A row \in services[s] : Off(row) \in ServiceRow /\ ~Off(row).active /\ Off(row).subs = row.subs
  <2>1. \A row \in ServiceRow, b \in BOOLEAN :
           /\ [row EXCEPT !.active = b] \in ServiceRow
           /\ [row EXCEPT !.active = b].active = b /\ [row EXCEPT !.active = b].subs = row.subs
    BY Zenon DEF ServiceRow
  <2>2. \A row \in services[s] : row \in ServiceRow
    BY Zenon, <1>1
  <2> QED
    BY Zenon, <2>1, <2>2
<1>3. services' = [services EXCEPT ![s] = {Off(row) : row \in services[s]}]
  BY Zenon, <1>1 DEF DeleteService
<1> HIDE DEF Off
<1>4. \A new \in services'[s] : \E row \in services[s] : new = Off(row)
  BY Zenon, <1>1, <1>3
<1>5. services'[s] \subseteq ServiceRow
  BY Zenon, <1>2, <1>4
<1>6. \A x \in ServiceID : x # s => services'[x] = services[x]
  BY Zenon, <1>1, <1>3
<1>7. services' \in [ServiceID -> SUBSET ServiceRow]
  <2>1. {Off(row) : row \in services[s]} \subseteq ServiceRow
    BY Zenon, <1>2
  <2> QED
    BY Zenon, <1>1, <1>3, <2>1
<1> QED
  BY Zenon, <1>1, <1>2, <1>4, <1>6, <1>7

LEMMA DeleteServiceKeeps ==
    ASSUME DsInv, NEW s \in ServiceID, DeleteService(s)
    PROVE  DsInv'
<1>1. UNCHANGED <<dsBackend, domains, issued, torn>> /\ dsCall' = Cleared(s)
  BY Zenon DEF DeleteService
<1>2. /\ dsCall' \in [DsRequest -> DsCallRecord]
      /\ \A q \in DsRequest :
           /\ dsCall'[q].step = dsCall[q].step /\ dsCall'[q].item = dsCall[q].item
           /\ dsCall'[q].left = dsCall[q].left /\ dsCall'[q].active = dsCall[q].active
           /\ dsCall[q].late => dsCall'[q].late
           /\ dsCall[q].step = "save service" /\ SavedItem(q).id = s => dsCall'[q].late
  BY <1>1, ClearedFacts
<1>3. /\ services' \in [ServiceID -> SUBSET ServiceRow]
      /\ \A x \in ServiceID : x # s => services'[x] = services[x]
      /\ \A new \in services'[s] : ~new.active /\ \E row \in services[s] : new.subs = row.subs
      /\ \A a, b \in services'[s] : a = b
  BY Zenon, DisabledRow
<1>4. DsTypeOK' /\ OneServiceRow' /\ CheckedOrTorn'
  <2>1. DsTypeOK'
    BY Zenon, <1>1, <1>2, <1>3 DEF DsInv, DsTypeOK
  <2>2. \A x \in ServiceID : /\ \A a, b \in services'[x] : a = b
                             /\ services'[x] # {} => services[x] # {}
    BY Zenon, <1>3 DEF DsInv, OneServiceRow
  <2>3. OneServiceRow'
    BY Zenon, <1>1, <2>2 DEF DsInv, OneServiceRow
  <2>4. CheckedOrTorn'
    BY Zenon, <1>1, <1>2 DEF DsInv, CheckedOrTorn
  <2> QED
    BY Zenon, <2>1, <2>3, <2>4
<1>5. CallsWellFormed'
  BY Zenon, <1>1, <1>2, WellFormedSame DEF DsInv, CallsWellFormed
<1>6. ActiveIsLate'
  <2> SUFFICES ASSUME NEW q \in DsRequest, dsCall'[q].step = "save service", dsCall'[q].active,
                      NEW x \in dsCall'[q].item, NEW new \in services'[x.id]
               PROVE  new.active \/ dsCall'[q].late
    BY Zenon DEF ActiveIsLate
  <2>1. WellFormed(dsCall[q], issued) /\ dsCall[q].step = "save service" /\ x \in dsCall[q].item
    BY Zenon, <1>2 DEF DsInv, CallsWellFormed
  <2>2. PICK y \in ServiceToSave : dsCall[q].item = {y}
    BY Zenon, <2>1 DEF WellFormed, SavesService
  <2>3. x.id \in ServiceID /\ SavedItem(q) = x
    BY Zenon, <2>1, <2>2 DEF WellFormed, SavedItem, Only
  <2>4. CASE x.id = s
    BY Zenon, <1>2, <2>1, <2>3, <2>4
  <2>5. CASE x.id # s
    BY Zenon, <1>2, <1>3, <2>1, <2>3, <2>5 DEF DsInv, ActiveIsLate
  <2> QED
    BY Zenon, <2>4, <2>5
<1>7. SubscriptionsResolve'
  <2> SUFFICES ASSUME NEW x \in ServiceID, NEW new \in services'[x], NEW d \in new.subs, domains'[d] = {}
               PROVE  /\ dsBackend' = "mongo"
                      /\ d \in torn' \/ \E q \in DsRequest : dsCall'[q].step = "pull" /\ d \in dsCall'[q].left
    BY Zenon DEF SubscriptionsResolve
  <2>1. PICK row \in services[x] : new.subs = row.subs
    BY Zenon, <1>3
  <2> QED
    BY <1>1, <1>2, <2>1 DEF DsInv, SubscriptionsResolve
<1> QED
  BY Zenon, <1>4, <1>5, <1>6, <1>7 DEF DsInv

LEMMA AbandonRequestKeeps ==
    ASSUME DsInv, NEW r \in DsRequest, AbandonRequest(r)
    PROVE  DsInv'
  BY Zenon, ReturnKeeps DEF AbandonRequest

\* What a body or an update names is what a save takes.
LEMMA SavedTypes ==
    /\ \A item \in DomainItem : item \in DomainToSave /\ \A d \in DomainID : [item EXCEPT !.id = d] \in DomainToSave
    /\ \A item \in ServiceItem : item \in ServiceToSave /\ \A s \in ServiceID : [item EXCEPT !.id = s] \in ServiceToSave
<1>1. \A item \in DomainItem : item \in DomainToSave /\ \A d \in DomainID : [item EXCEPT !.id = d] \in DomainToSave
  BY Zenon DEF DomainItem, DomainToSave
<1>2. \A item \in ServiceItem : item \in ServiceToSave /\ \A s \in ServiceID : [item EXCEPT !.id = s] \in ServiceToSave
  BY Zenon DEF ServiceItem, ServiceToSave
<1> QED
  BY Zenon, <1>1, <1>2

LEMMA StepDs == DsInv /\ [DsNext]_dsVars => DsInv'
<1> SUFFICES ASSUME DsInv, [DsNext]_dsVars PROVE DsInv'
  BY Zenon
<1>1. ASSUME NEW r \in DsRequest, NEW item \in DomainItem,
             CreateDomain(r, item) \/ \E d \in DomainID : UpdateDomain(r, d, item)
      PROVE  DsInv'
  BY Zenon, <1>1, SavedTypes, SaveDomainKeeps DEF CreateDomain, UpdateDomain
<1>2. ASSUME NEW r \in DsRequest, NEW item \in ServiceItem,
             CreateService(r, item) \/ \E s \in ServiceID : UpdateService(r, s, item)
      PROVE  DsInv'
  BY Zenon, <1>2, SavedTypes, SaveServiceKeeps DEF CreateService, UpdateService
<1>3. CASE \/ \E s \in ServiceID : Send(s)
           \/ \E e \in EventType : FanOut(e)
           \/ UNCHANGED dsVars
  BY Zenon, <1>3, NothingKeeps DEF Send, FanOut, dsVars
<1> QED
  BY Zenon, <1>1, <1>2, <1>3, DeleteDomainKeeps, DomainIdentityKeeps, PersistDomainKeeps, DeleteRowKeeps,
     PullKeeps, ValidateKeeps, ServiceIdentityKeeps, PersistServiceKeeps, AbandonRequestKeeps,
     DeleteServiceKeeps DEF DsNext

LEMMA DsInductive == DsSpec => []DsInv
  BY InitDs, StepDs, PTL DEF DsSpec

\* No subscription outlives its domain in PostgreSQL; in MongoDB one does only when
\* a deletion did not finish, or a save of the service overtook it.
THEOREM SubscriptionsHold == DsSpec => []SubscriptionsResolve
<1>1. DsInv => SubscriptionsResolve
  BY Zenon DEF DsInv
<1> QED
  BY <1>1, DsInductive, PTL

\* Of the steps that write a service, only a save that was overtaken turns it on.
LEMMA StepRaces == DsInv /\ [DsNext]_dsVars => [RaceStep]_dsVars
<1> SUFFICES ASSUME DsInv, DsNext PROVE RaceStep
  BY Zenon
<1>1. ASSUME NEW s \in ServiceID, NEW old \in services[s], NEW new \in services'[s], ~old.active, new.active
      PROVE  \E r \in DsRequest : /\ dsCall[r].step = "save service" /\ SavedItem(r).id = s
                                  /\ dsCall[r].late /\ dsCall'[r] = NoDsCall
  <2>0. \A row \in services[s] : row = old
    BY Zenon DEF DsInv, OneServiceRow
  <2>1. services' # services
    BY Zenon, <1>1, <2>0
  <2>2. ASSUME NEW d \in DomainID, services' = Unsubscribed(d) PROVE FALSE
    <3>1. \A x \in Unsubscribed(d)[s] : \E row \in services[s] :
             x.active = row.active /\ x.subs = row.subs \ {d}
      BY Zenon, UnsubscribedFacts
    <3>2. PICK row \in services[s] : new.active = row.active
      BY Zenon, <2>2, <3>1
    <3> QED
      BY Zenon, <1>1, <2>0, <3>2
  <2>3. ASSUME NEW r \in DsRequest, DeleteDomainRow(r) \/ Pull(r) PROVE FALSE
    <3>1. dsCall[r].step \in DeletesDomain
      BY Zenon, <2>3 DEF DeleteDomainRow, Pull, DeletesDomain
    <3>2. PICK d \in DomainID : dsCall[r].left = {d} /\ Only(dsCall[r].left) = d
      BY Zenon, <3>1 DEF DsInv, CallsWellFormed, WellFormed, Only
    <3>3. services' = Unsubscribed(d)
      BY Zenon, <2>1, <2>3, <3>2 DEF DeleteDomainRow, Pull
    <3> QED
      BY Zenon, <2>2, <3>3
  <2>4. ASSUME NEW x \in ServiceID, DeleteService(x) PROVE FALSE
    BY Zenon, <1>1, <2>0, <2>4, DisabledRow
  <2>5. ASSUME NEW r \in DsRequest, persistService(r)
        PROVE  /\ dsCall[r].step = "save service" /\ SavedItem(r).id = s
               /\ dsCall[r].late /\ dsCall'[r] = NoDsCall
    <3>1. dsCall[r].step = "save service" /\ WellFormed(dsCall[r], issued) /\ dsCall \in [DsRequest -> DsCallRecord]
      BY Zenon, <2>5 DEF persistService, DsInv, CallsWellFormed, DsTypeOK
    <3>2. PICK item \in ServiceToSave : dsCall[r].item = {item} /\ SavedItem(r) = item
      BY Zenon, <3>1 DEF WellFormed, SavesService, SavedItem, Only
    <3>3. item.id \in ServiceID
      BY Zenon, <3>1, <3>2 DEF WellFormed
    <3> DEFINE row == [name |-> item.name, endpoint |-> item.endpoint,
                       active |-> dsCall[r].active, subs |-> item.subs]
    <3>4. services' = [services EXCEPT ![item.id] = {row}]
      BY Zenon, <2>1, <2>5, <3>2 DEF persistService, ServiceSaved
    <3>5. row.active = dsCall[r].active
      BY Zenon
    <3> HIDE DEF row
    <3>6. services'[s] = IF s = item.id THEN {row} ELSE services[s]
      BY Zenon, <3>3, <3>4 DEF DsInv, DsTypeOK
    <3>7. s = item.id /\ dsCall[r].active
      BY Zenon, <1>1, <2>0, <3>5, <3>6
    <3>8. dsCall[r].late
      BY Zenon, <1>1, <3>1, <3>2, <3>7 DEF DsInv, ActiveIsLate
    <3>9. dsCall'[r] = NoDsCall
      <4>1. Cleared(item.id) \in [DsRequest -> DsCallRecord]
        BY Zenon, ClearedFacts
      <4> QED
        BY Zenon, <2>5, <3>1, <3>2, <4>1 DEF persistService, DsReturn
    <3> QED
      BY Zenon, <3>1, <3>2, <3>7, <3>8, <3>9
  <2>6. \/ \E r \in DsRequest : DeleteDomainRow(r) \/ Pull(r) \/ persistService(r)
        \/ \E x \in ServiceID : DeleteService(x)
    BY <2>1 DEF DsNext, CreateDomain, UpdateDomain, SaveDomain, CreateService, UpdateService, SaveService,
       DeleteDomain, initializeDomainIdentity, persistDomain, validateServiceDomains,
       initializeServiceIdentity, AbandonRequest, Send, FanOut
  <2> QED
    BY Zenon, <2>3, <2>4, <2>5, <2>6
<1> QED
  BY Zenon, <1>1 DEF RaceStep

\* A disabled service is turned on again only by an update that read its flag
\* before it was cleared.
THEOREM OnlyRacesReactivate == DsSpec => ReactivatedByRaceOnly
  BY DsInductive, StepRaces, PTL DEF DsSpec, ReactivatedByRaceOnly

\* A query that returns fewer rows than its limit returns them all.
LEMMA LimitedIsAll ==
    ASSUME NEW S, IsFiniteSet(S), NEW n \in Nat, NEW T \in Limited(S, n + 1), Cardinality(T) <= n
    PROVE  T = S
<1>1. T \in SUBSET S /\ Cardinality(T) = IF Cardinality(S) < n + 1 THEN Cardinality(S) ELSE n + 1
  BY Zenon DEF Limited
<1>2. Cardinality(S) \in Nat
  BY Zenon, FS_CardinalityType
<1>3. Cardinality(S) = Cardinality(T)
  BY <1>1, <1>2
<1> QED
  BY Zenon, <1>1, <1>3, FS_Subset

FanOutRecord == [type : EventType, to : SUBSET ServiceID, sent : SUBSET ServiceID]

\* The steps that touch the fan-out.
LEMMA FanOutSteps ==
    DsNext => \/ UNCHANGED fanOut
              \/ \E e \in EventType : FanOut(e)
              \/ \E s \in ServiceID : Send(s)
  BY DEF DsNext, CreateDomain, UpdateDomain, SaveDomain, CreateService, UpdateService, SaveService,
     DeleteDomain, initializeDomainIdentity, persistDomain, DeleteDomainRow, Pull,
     validateServiceDomains, initializeServiceIdentity, persistService, AbandonRequest, DeleteService

\* A fan-out starts with all that match, and is no start once a request is delivered.
LEMMA FanOutStarts ==
    ASSUME NEW e \in EventType, FanOut(e)
    PROVE  fanOut' \subseteq FanOutRecord /\ FanOutStep
<1>1. PICK items \in Limited(Matches(e), MaxFanOut + 1) :
         Cardinality(items) <= MaxFanOut /\ fanOut' = {[type |-> e, to |-> items, sent |-> {}]}
  BY Zenon DEF FanOut, ListSubscribersForEvent
<1>2. IsFiniteSet(Matches(e)) /\ Matches(e) \subseteq ServiceID
  BY Zenon, DomainAssumption, FS_Subset DEF Matches
<1>3. items = Matches(e)
  BY Zenon, <1>1, <1>2, LimitedIsAll, DomainAssumption
<1> QED
  BY <1>1, <1>2, <1>3 DEF FanOutStep, FanOutRecord

LEMMA FanOutContinues ==
    ASSUME fanOut \subseteq FanOutRecord, NEW s \in ServiceID, Send(s)
    PROVE  fanOut' \subseteq FanOutRecord /\ FanOutStep
<1>1. PICK f \in fanOut : fanOut' = {[f EXCEPT !.sent = @ \cup {s}]}
  BY Zenon DEF Send, deliverRequest
<1>2. /\ [f EXCEPT !.sent = @ \cup {s}] \in FanOutRecord
      /\ [f EXCEPT !.sent = @ \cup {s}].sent = f.sent \cup {s}
  BY Zenon DEF FanOutRecord
<1> QED
  BY Zenon, <1>1, <1>2 DEF FanOutStep

\* Every event is fanned out to all its active subscribers, or fails: the query asks
\* for one row more than the limit, so the list is never cut short in silence.
THEOREM FanOutComplete == DsSpec => FanOutIsComplete
<1>1. DsInit => fanOut \subseteq FanOutRecord
  BY Zenon DEF DsInit
<1>2. fanOut \subseteq FanOutRecord /\ [DsNext]_dsVars => (fanOut \subseteq FanOutRecord)'
  BY Zenon, FanOutSteps, FanOutStarts, FanOutContinues DEF dsVars
<1>3. fanOut \subseteq FanOutRecord /\ [DsNext]_dsVars => [FanOutStep]_dsVars
  <2> SUFFICES ASSUME fanOut \subseteq FanOutRecord, DsNext PROVE FanOutStep
    BY Zenon
  <2>1. UNCHANGED fanOut => FanOutStep
    BY Zenon DEF FanOutStep
  <2> QED
    BY Zenon, <2>1, FanOutSteps, FanOutStarts, FanOutContinues
<1> QED
  BY <1>1, <1>2, <1>3, PTL DEF DsSpec, FanOutIsComplete

-----------------------------------------------------------------------------
(* The distributed lock.                                                   *)

LockTypeOK ==
    /\ holder \in [Guard -> {"none", "held", "dropped", "released"}]
    /\ renewal \in [Guard -> {"off", "on", "done"}]

\* Until a key has expired it holds the token of whoever relies on it.
KeyIsHolders == ~expired => \A g \in InUse : lockKey = {g}

\* Only a guard that was given up is told to stop in silence.
StoppingIsGiven == stopping \subseteq given

LockInv == LockTypeOK /\ StoppingIsGiven /\ KeyIsHolders /\ WatchedOrTold

LEMMA InitLock == LockInit => LockInv
  BY Zenon DEF LockInit, LockInv, LockTypeOK, StoppingIsGiven, KeyIsHolders, WatchedOrTold, InUse

\* A step that makes no guard one that is relied on, keeps the loops of those that
\* still are, and frees no key of theirs.
LEMMA LockShrinks ==
    ASSUME LockInv, LockTypeOK', StoppingIsGiven', InUse' \subseteq InUse,
           \A g \in InUse' : renewal'[g] = renewal[g],
           expired => expired',
           ~expired' => \A g \in InUse' : lockKey = {g} => lockKey' = {g}
    PROVE  LockInv'
  BY Zenon DEF LockInv, KeyIsHolders, WatchedOrTold

\* A new guard finds no key, so nobody relies on an older one unless a key expired.
LEMMA LockKeeps ==
    ASSUME LockInv, NEW g \in Guard, NEW as \in {"held", "dropped"}, Lock(g, as)
    PROVE  LockInv'
<1> USE DEF LockInv, LockTypeOK, StoppingIsGiven, Lock
<1>1. LockTypeOK' /\ StoppingIsGiven'
  BY Zenon
<1>2. \A h \in InUse' : h = g \/ h \in InUse
  BY Zenon DEF InUse
<1>3. KeyIsHolders'
  BY Zenon, <1>2 DEF KeyIsHolders
<1>4. WatchedOrTold'
  <2> SUFFICES ASSUME NEW h \in InUse' PROVE renewal'[h] = "on"
    BY Zenon DEF WatchedOrTold
  <2>1. h \in Guard
    BY Zenon DEF InUse
  <2> QED
    BY Zenon, <1>2, <2>1 DEF WatchedOrTold
<1> QED
  BY Zenon, <1>1, <1>3, <1>4

LEMMA LockErrorKeeps ==
    ASSUME LockInv, NEW g \in Guard, LockError(g)
    PROVE  LockInv'
<1> USE DEF LockInv, LockTypeOK, StoppingIsGiven, LockError
<1>1. LockTypeOK' /\ StoppingIsGiven'
  BY Zenon
<1>2. InUse' \subseteq InUse
  BY Zenon DEF InUse
<1>3. ~expired => InUse = {}
  BY Zenon DEF KeyIsHolders
<1> QED
  BY Zenon, <1>1, <1>2, <1>3, LockShrinks

\* A loop ends with the guard lost, or given up before.
LEMMA LoopKeeps ==
    ASSUME LockInv, NEW g \in Guard, ContextEnds(g) \/ Renew(g) \/ StopRenewing(g)
    PROVE  LockInv'
<1> USE DEF LockInv, LockTypeOK, StoppingIsGiven, ContextEnds, Renew, StopRenewing, markLost,
            LoopEnds, extendScript
<1>1. LockTypeOK' /\ StoppingIsGiven'
  BY Zenon
<1>2. InUse' \subseteq InUse
  BY Zenon DEF InUse
<1>3. lockKey' = lockKey /\ expired' = expired
  BY Zenon
<1>4. \A h \in InUse' : renewal'[h] = renewal[h]
  <2>1. renewal' = renewal \/ (renewal' = [renewal EXCEPT ![g] = "done"] /\ g \notin InUse')
    BY Zenon DEF InUse
  <2> QED
    BY Zenon, <2>1 DEF InUse
<1> QED
  BY Zenon, <1>1, <1>2, <1>3, <1>4, LockShrinks

\* Releases delete the key of a guard that was given up, and no other's.
LEMMA HolderKeeps ==
    ASSUME LockInv, NEW g \in Guard,
           \/ Release(g) \/ ReleaseKey(g) \/ Extend(g) \/ ManagerExtend(g) \/ ManagerRelease(g)
    PROVE  LockInv'
<1> USE DEF LockInv, LockTypeOK, StoppingIsGiven, Release, ReleaseKey, Extend, ManagerExtend,
            ManagerRelease, markLost, extendScript, deleteScript
<1>1. LockTypeOK' /\ StoppingIsGiven'
  BY Zenon
<1>2. InUse' \subseteq InUse
  BY Zenon DEF InUse
<1>3. expired' = expired /\ renewal' = renewal
  BY Zenon
<1>4. \A h \in InUse' : lockKey = {h} => lockKey' = {h}
  <2>1. lockKey' = lockKey \/ (lockKey' = lockKey \ {g} /\ g \notin InUse')
    BY Zenon DEF InUse
  <2> QED
    BY Zenon, <2>1
<1> QED
  BY Zenon, <1>1, <1>2, <1>3, <1>4, LockShrinks

LEMMA StepLock == LockInv /\ [LockNext]_lockVars => LockInv'
<1> SUFFICES ASSUME LockInv, [LockNext]_lockVars PROVE LockInv'
  BY Zenon
<1>1. CASE KeyAges \/ KeyExpires
  BY Zenon, <1>1 DEF KeyAges, KeyExpires, LockInv, LockTypeOK, StoppingIsGiven, KeyIsHolders,
              WatchedOrTold, InUse
<1>2. CASE UNCHANGED lockVars
  BY Zenon, <1>2 DEF lockVars, LockInv, LockTypeOK, StoppingIsGiven, KeyIsHolders, WatchedOrTold, InUse
<1> QED
  BY Zenon, <1>1, <1>2, LockKeeps, LockErrorKeeps, LoopKeeps, HolderKeeps DEF LockNext

\* While no key has expired at most one guard is relied on.
LEMMA LockIsExclusive == LockInv => ExclusiveWhileRenewed
<1> SUFFICES ASSUME LockInv, ~expired PROVE Cardinality(InUse) <= 1
  BY Zenon DEF ExclusiveWhileRenewed
<1>1. CASE InUse = {}
  BY <1>1, FS_EmptySet
<1>2. CASE InUse # {}
  <2>1. PICK g : g \in InUse
    BY Zenon, <1>2
  <2>2. InUse = {g}
    BY Zenon, <2>1 DEF LockInv, KeyIsHolders
  <2>3. Cardinality({g}) = 1
    BY Zenon, FS_Singleton
  <2> QED
    BY <2>2, <2>3
<1> QED
  BY Zenon, <1>1, <1>2

-----------------------------------------------------------------------------
(* The rate limiter.                                                       *)

Reading == [id : Nat, at : Nat]
Member == [id : Nat, at : Nat, ran : Nat]

\* The set keeps every allowed request that a later one has to be counted with:
\* however old the clock reading of the caller that prunes, and when the set
\* expires, only what lies a window back is dropped.
LimInv ==
    /\ now \in Nat /\ requests \in Nat /\ delay \in Nat /\ expires \in Nat
    /\ asked \subseteq Reading /\ \A r \in asked : r.at <= now
    /\ window \subseteq Member /\ IsFiniteSet(window)
    /\ \A m \in window : m.at <= now /\ m.at + Window <= expires
    /\ allowed \subseteq Member /\ IsFiniteSet(allowed)
    /\ \A m \in allowed : m.ran <= m.at + delay
    /\ \A m \in allowed : m.at > now - Window => m \in window
    /\ AllowedWithinLimit

LEMMA NoneAllowed == ASSUME allowed = {} PROVE AllowedWithinLimit
<1>1. \A t : {m \in allowed : t <= m.ran /\ m.ran < t + Window - delay} = {}
  BY Zenon
<1> QED
  BY <1>1, FS_EmptySet, LimiterAssumption DEF AllowedWithinLimit

LEMMA InitLim == LimInit => LimInv
<1> SUFFICES ASSUME LimInit PROVE LimInv
  BY Zenon
<1>1. AllowedWithinLimit
  BY Zenon, NoneAllowed DEF LimInit
<1> QED
  BY <1>1, FS_EmptySet DEF LimInit, LimInv

\* A set that expires as a whole holds nothing of the window that ends now.
LEMMA TickKeepsLim == LimInv /\ ClockTick => LimInv'
<1> SUFFICES ASSUME LimInv, ClockTick PROVE LimInv'
  BY Zenon
<1> USE DEF LimInv, ClockTick
<1>1. /\ now' \in Nat /\ now < now' /\ UNCHANGED <<asked, expires, allowed, delay, requests>>
      /\ window' = IF expires <= now' THEN {} ELSE window
  OBVIOUS
<1>2. IsFiniteSet(window') /\ window' \subseteq window
  BY Zenon, FS_EmptySet
<1>3. \A m \in allowed' : m.at > now' - Window => m \in window'
  BY <1>1, LimiterAssumption DEF Member
<1>4. AllowedWithinLimit'
  BY Zenon DEF AllowedWithinLimit
<1>5. (\A r \in asked' : r.at <= now') /\ (\A m \in window' : m.at <= now')
  BY <1>1, <1>2 DEF Reading, Member
<1> QED
  BY Zenon, <1>1, <1>2, <1>3, <1>4, <1>5

\* A request that is allowed is counted with all the allowed ones of any time it
\* shares with them that is a window long, less the delay.
LEMMA AllowKeepsLim ==
    ASSUME LimInv, NEW r \in asked, Allow(r)
    PROVE  LimInv'
<1>1. PICK member : member = [id |-> r.id, at |-> r.at, ran |-> now]
  BY Zenon
<1> DEFINE Within(A, t, d) == {m \in A : t <= m.ran /\ m.ran < t + Window - d}
<1>2. /\ now \in Nat /\ r.at \in Nat /\ r.at <= now /\ member \in Member
      /\ member.at = r.at /\ member.ran = now /\ Window \in Nat /\ delay \in Nat /\ expires \in Nat
      /\ Limit \in Nat
  BY <1>1, LimiterAssumption DEF LimInv, Reading, Member
<1>3. /\ window' = Pruned(r) \cup {member} /\ asked' = asked \ {r} /\ UNCHANGED <<now, requests>>
      /\ expires' = now + Longer(Window, 1) /\ delay' = Longer(delay, now - r.at)
      /\ \/ Cardinality(window') <= Limit /\ allowed' = allowed \cup {member}
         \/ UNCHANGED allowed
  BY Zenon, <1>1 DEF Allow
<1>4. /\ delay' \in Nat /\ delay <= delay' /\ now <= r.at + delay'
      /\ expires' \in Nat /\ now + Window <= expires'
  BY <1>2, <1>3 DEF Longer
<1>5. IsFiniteSet(window') /\ Pruned(r) \subseteq window /\ window' \subseteq Member
  <2>1. Pruned(r) \in SUBSET window
    BY Zenon DEF Pruned
  <2>2. IsFiniteSet(Pruned(r))
    BY Zenon, <2>1, FS_Subset DEF LimInv
  <2> QED
    BY Zenon, <1>2, <1>3, <2>1, <2>2, FS_AddElement DEF LimInv
<1>6. allowed' \subseteq Member /\ IsFiniteSet(allowed') /\ IsFiniteSet(allowed) /\ allowed \subseteq Member
  BY Zenon, <1>2, <1>3, FS_AddElement DEF LimInv
<1>7. \A m \in window' : m.at <= now /\ m.at + Window <= expires'
  BY <1>2, <1>3, <1>4, <1>5 DEF LimInv, Member
<1>8. \A m \in allowed' : m.ran <= m.at + delay'
  BY <1>2, <1>3, <1>4, <1>6 DEF LimInv, Member
<1>9. \A m \in allowed' : m.at > now - Window => m \in window'
  <2>1. ASSUME NEW m \in allowed, m.at > now - Window PROVE m \in Pruned(r)
    BY <1>2, <1>6, <2>1 DEF LimInv, Pruned, Member
  <2> QED
    BY Zenon, <1>3, <2>1
<1>10. AllowedWithinLimit'
  <2> SUFFICES ASSUME NEW t \in 0 .. MaxClock PROVE Cardinality(Within(allowed', t, delay')) <= Limit
    BY Zenon DEF AllowedWithinLimit
  <2>1. CASE Within(allowed', t, delay') \subseteq allowed
    <3>1. Within(allowed', t, delay') \in SUBSET Within(allowed, t, delay)
      BY <1>2, <1>4, <1>6, <2>1 DEF Member
    <3>2. Within(allowed, t, delay) \in SUBSET allowed
      BY Zenon
    <3>3. Cardinality(Within(allowed, t, delay)) <= Limit
      BY Zenon DEF LimInv, AllowedWithinLimit
    <3> HIDE DEF Within
    <3>4. IsFiniteSet(Within(allowed, t, delay))
      BY Zenon, <1>6, <3>2, FS_Subset
    <3>5. /\ Cardinality(Within(allowed', t, delay')) <= Cardinality(Within(allowed, t, delay))
          /\ Cardinality(Within(allowed', t, delay')) \in Nat
          /\ Cardinality(Within(allowed, t, delay)) \in Nat
      BY Zenon, <3>1, <3>4, FS_Subset, FS_CardinalityType
    <3> QED
      BY <1>2, <3>3, <3>5
  <2>2. CASE ~(Within(allowed', t, delay') \subseteq allowed)
    <3>1. Cardinality(window') <= Limit /\ allowed' = allowed \cup {member}
      BY Zenon, <1>3, <2>2
    <3>2. t <= now /\ now < t + Window - delay'
      BY Zenon, <1>2, <2>2, <3>1
    <3>3. ASSUME NEW m \in Within(allowed', t, delay') PROVE m \in allowed' /\ m.at > now - Window
      <4>1. m \in allowed' /\ m \in Member /\ t <= m.ran /\ m.ran <= m.at + delay'
        BY Zenon, <1>6, <1>8, <3>3
      <4>2. m.at \in Nat /\ m.ran \in Nat
        BY Zenon, <4>1 DEF Member
      <4>3. t \in Int
        OBVIOUS
      <4>4. \A at, ran, d, n, w \in Int :
               t <= ran /\ ran <= at + d /\ n < t + w - d => at > n - w
        BY <4>3
      <4>5. m.at > now - Window
        <5>1. /\ m.at \in Int /\ m.ran \in Int /\ delay' \in Int /\ now \in Int /\ Window \in Int
          BY <1>2, <1>4, <4>2
        <5> QED
          BY Zenon, <3>2, <4>1, <4>4, <5>1
      <4> QED
        BY Zenon, <4>1, <4>5
    <3>4. Within(allowed', t, delay') \in SUBSET window'
      BY Zenon, <1>9, <3>3
    <3> HIDE DEF Within
    <3>5. /\ Cardinality(Within(allowed', t, delay')) <= Cardinality(window')
          /\ Cardinality(Within(allowed', t, delay')) \in Nat /\ Cardinality(window') \in Nat
      BY Zenon, <1>5, <3>4, FS_Subset, FS_CardinalityType
    <3> QED
      BY <1>2, <3>1, <3>5
  <2> QED
    BY Zenon, <2>1, <2>2
<1>11. asked' \subseteq Reading /\ \A q \in asked' : q.at <= now'
  BY Zenon, <1>3 DEF LimInv
<1> QED
  BY Zenon, <1>3, <1>4, <1>5, <1>6, <1>7, <1>8, <1>9, <1>10, <1>11 DEF LimInv

LEMMA StepLim == LimInv /\ [LimNext]_limiterVars => LimInv'
<1> SUFFICES ASSUME LimInv, [LimNext]_limiterVars PROVE LimInv'
  BY Zenon
<1>1. CASE Reset
  <2>1. allowed' = {} /\ window' = {} /\ UNCHANGED <<now, asked, expires, delay, requests>>
    BY Zenon, <1>1 DEF Reset
  <2>2. AllowedWithinLimit'
    <3>1. \A t : {m \in allowed' : t <= m.ran /\ m.ran < t + Window - delay'} = {}
      BY Zenon, <2>1
    <3> QED
      BY <3>1, FS_EmptySet, LimiterAssumption DEF AllowedWithinLimit
  <2> QED
    BY Zenon, <2>1, <2>2, FS_EmptySet DEF LimInv
<1>2. ASSUME asked' \subseteq Reading, \A r \in asked' : r.at <= now, requests' \in Nat,
             UNCHANGED <<now, window, expires, allowed, delay>>
      PROVE  LimInv'
  BY Zenon, <1>2 DEF LimInv, AllowedWithinLimit
<1>3. CASE Ask
  BY <1>2, <1>3 DEF Ask, LimInv, Reading
<1>4. ASSUME NEW r \in asked, AllowError(r) PROVE LimInv'
  BY Zenon, <1>2, <1>4 DEF AllowError, LimInv
<1>5. CASE UNCHANGED limiterVars
  BY Zenon, <1>2, <1>5 DEF limiterVars, LimInv
<1> QED
  BY Zenon, <1>1, <1>3, <1>4, <1>5, TickKeepsLim, AllowKeepsLim DEF LimNext

\* The Redis lock and the rate limiter keep their promises, for any guards, limit
\* and window: one guard in use while keys are renewed in time, none in use
\* unwatched, and no window of time, less the longest delay between a caller's clock
\* reading and its transaction, with more allowed requests than the limit.
THEOREM AdaptersSound == LockSpec /\ LimSpec => []RedisAdaptersSound
<1>1. LockInv => ExclusiveWhileRenewed /\ WatchedOrTold
  BY Zenon, LockIsExclusive DEF LockInv
<1>2. LimInv => AllowedWithinLimit
  BY Zenon DEF LimInv
<1> QED
  BY <1>1, <1>2, InitLock, StepLock, InitLim, StepLim, PTL
     DEF LockSpec, LimSpec, RedisAdaptersSound

-----------------------------------------------------------------------------
(* Batches: the oldest entries of a set.                                   *)

LEMMA EntriesAreNumbers == Entry \subseteq Nat \ {0} /\ IsFiniteSet(Entry)
<1>1. 1 \in Int /\ NEntries \in Int
  BY BatchesAssumption
<1>2. IsFiniteSet(1 .. NEntries)
  BY Zenon, <1>1, FS_Interval
<1> QED
  BY <1>2, BatchesAssumption DEF Entry

LEMMA EntriesCount ==
    ASSUME NEW S \in SUBSET Entry, NEW T \in SUBSET S
    PROVE  /\ IsFiniteSet(S) /\ Cardinality(S) \in Nat
           /\ IsFiniteSet(T) /\ Cardinality(T) \in Nat
           /\ Cardinality(T) <= Cardinality(S)
<1>1. IsFiniteSet(S)
  BY Zenon, EntriesAreNumbers, FS_Subset
<1>2. IsFiniteSet(T) /\ Cardinality(T) <= Cardinality(S)
  BY Zenon, <1>1, FS_Subset
<1> QED
  BY Zenon, <1>1, <1>2, FS_CardinalityType

\* A set of entries has an oldest one.
LEMMA OldestExists ==
    ASSUME NEW S \in SUBSET Entry, S # {}, NEW n \in Nat \ {0}
    PROVE  Oldest(S, n) # {}
<1>1. S \subseteq Nat
  BY Zenon, EntriesAreNumbers
<1> DEFINE R == {p \in Nat \X Nat : p[1] < p[2]}
<1>2. OpToRel(<, Nat) = R
  BY Zenon DEF OpToRel
<1>3. PICK x \in S : \A y \in S : ~(<<y, x>> \in R)
  <2> HIDE DEF R
  <2> QED
    BY Zenon, <1>1, <1>2, NatLessThanWellFounded, WFMin
<1>4. {f \in S : f < x} = {}
  BY <1>1, <1>3
<1>5. Cardinality({f \in S : f < x}) < n
  BY <1>4, FS_EmptySet
<1> QED
  BY Zenon, <1>5 DEF Oldest

\* The oldest n entries of a set are those of any of its initial parts that has n.
LEMMA OldestOfPrefix ==
    ASSUME NEW U \in SUBSET Entry, NEW V \in SUBSET U, NEW n \in Nat,
           \A e \in V : \A f \in U : f < e => f \in V,
           Cardinality(V) >= n
    PROVE  Oldest(V, n) = Oldest(U, n)
<1>0. U \subseteq Nat
  BY Zenon, EntriesAreNumbers
<1>1. \A e \in V : {f \in V : f < e} = {f \in U : f < e}
  OBVIOUS
<1>2. \A e \in U \ V : ~(Cardinality({f \in U : f < e}) < n)
  <2> SUFFICES ASSUME NEW e \in U \ V PROVE ~(Cardinality({f \in U : f < e}) < n)
    BY Zenon
  <2> DEFINE B == {f \in U : f < e}
  <2>1. V \subseteq B
    BY <1>0
  <2>2. B \in SUBSET Entry
    OBVIOUS
  <2>3. Cardinality(B) \in Nat /\ Cardinality(V) \in Nat /\ Cardinality(V) <= Cardinality(B)
    <3> HIDE DEF B
    <3> QED
      BY Zenon, <2>1, <2>2, EntriesCount
  <2> QED
    BY <2>3
<1> QED
  BY Zenon, <1>1, <1>2 DEF Oldest

LEMMA OldestIsSubset == \A S, n : Oldest(S, n) \subseteq S
  BY Zenon DEF Oldest

-----------------------------------------------------------------------------
(* Batches: the inductive invariant.                                       *)

Batch == (SUBSET Entry) \ {{}}
NoBatch == {Absent, Unbatched, EmptyID}

TickRecord == [step : {"idle", "groups", "process", "complete", "recover"},
               groups : SUBSET Batch, manual : BOOLEAN, batch : SUBSET Entry]

BtTypeOK ==
    /\ executed \subseteq Batch /\ runs \subseteq executed
    /\ batchCol \in [Entry -> NoBatch \cup runs]
    /\ tick \in [BtWorker -> TickRecord]
    /\ manuals \in Nat

\* A tick that is past the lookup has a batch, which was executed before it is
\* completed and has a run where one was found.
InHand(t) ==
    /\ t.step \in {"process", "complete", "recover"} => t.batch # {}
    /\ t.step = "complete" => t.batch \in executed
    /\ t.step = "recover" => t.batch \in runs

BatchInHand == \A w \in BtWorker : InHand(tick[w])

\* The entries of a group that wait for a batch, and the batch they will form.
Waiting(g) == {e \in Entry : group[e] = g /\ batchCol[e] = Unbatched}
IsNext(b) == \E g : Cardinality(Waiting(g)) >= MaxBatch /\ b = Oldest(Waiting(g), MaxBatch)
Settled(b) == b \in runs \/ IsNext(b)

Calm == btMode = "accumulate" /\ ~disordered /\ manuals = 0

\* While nothing disturbs the order, every batch that was executed or may be is
\* completed or is the next one of its group.
Orderly(t) ==
    /\ ~t.manual
    /\ t.step = "process" => Settled(t.batch)
    /\ \A members \in t.groups :
         Cardinality(members) >= MaxBatch => Settled(Oldest(members, MaxBatch))

BatchesSettled ==
    Calm => /\ \A b \in executed : Settled(b)
            /\ \A w \in BtWorker : Orderly(tick[w])

BtInv == BtTypeOK /\ BatchInHand /\ RunsOwnMembers /\ BatchesSettled

\* Values of the column that are no batch contain no entry.
LEMMA NoBatchIsBatch == \A b \in Batch : b \notin NoBatch
<1> SUFFICES ASSUME NEW b \in Batch PROVE b \notin NoBatch
  BY Zenon
<1>1. PICK e \in b : e \in Entry
  BY Zenon DEF Batch
<1>2. e # 0 /\ e # -1
  BY <1>1, EntriesAreNumbers
<1> QED
  BY Zenon, <1>1, <1>2 DEF NoBatch, Absent, Unbatched, EmptyID

LEMMA WaitingIsEntries == \A g : Waiting(g) \in SUBSET Entry
  BY Zenon DEF Waiting

LEMMA BtStarts == BtInit => BtInv
<1> SUFFICES ASSUME BtInit PROVE BtInv
  BY Zenon
<1>1. BtTypeOK
  BY DEF BtInit, BtTypeOK, NoBatch, NoTick, TickRecord
<1>2. BatchInHand
  BY Zenon DEF BtInit, BatchInHand, InHand, NoTick
<1>3. RunsOwnMembers
  BY Zenon DEF BtInit, RunsOwnMembers
<1>4. BatchesSettled
  BY Zenon DEF BtInit, BatchesSettled, Orderly, NoTick
<1> QED
  BY Zenon, <1>1, <1>2, <1>3, <1>4 DEF BtInv

\* A run has the entries whose column names it.
LEMMA RunMembers ==
    ASSUME RunsOwnMembers, NEW c \in runs, NEW e \in Entry
    PROVE  e \in c <=> batchCol[e] = c
<1>1. {x \in Entry : batchCol[x] = c} = c
  BY Zenon DEF RunsOwnMembers
<1> QED
  BY <1>1

\* Nothing is executed twice.
LEMMA SettledAreDisjoint == BtInv => NoEntryExecutedTwice
<1> SUFFICES ASSUME BtInv, Calm, NEW a \in executed, NEW b \in executed, NEW e \in a, e \in b
             PROVE  a = b
  BY Zenon DEF NoEntryExecutedTwice, Calm
<1>1. Settled(a) /\ Settled(b)
  BY Zenon DEF BtInv, BatchesSettled
<1>2. a \in Batch /\ b \in Batch /\ e \in Entry
  BY Zenon DEF BtInv, BtTypeOK, Batch
<1>3. \A c \in {a, b} : c \in runs => batchCol[e] = c
  BY <1>2, RunMembers DEF BtInv
<1>4. \A c \in {a, b} : IsNext(c) => batchCol[e] = Unbatched
  BY Zenon, OldestIsSubset DEF IsNext, Waiting
<1>5. Unbatched \notin Batch
  BY Zenon, NoBatchIsBatch DEF NoBatch
<1>6. CASE a \in runs \/ b \in runs
  BY Zenon, <1>1, <1>2, <1>3, <1>4, <1>5, <1>6 DEF Settled
<1>7. CASE IsNext(a) /\ IsNext(b)
  <2>1. PICK g : a = Oldest(Waiting(g), MaxBatch)
    BY Zenon, <1>7 DEF IsNext
  <2>2. PICK h : b = Oldest(Waiting(h), MaxBatch)
    BY Zenon, <1>7 DEF IsNext
  <2>3. group[e] = g /\ group[e] = h
    BY Zenon, <2>1, <2>2, OldestIsSubset DEF Waiting
  <2> QED
    BY Zenon, <2>1, <2>2, <2>3
<1> QED
  BY Zenon, <1>1, <1>6, <1>7 DEF Settled

-----------------------------------------------------------------------------
(* Batches: the steps.                                                     *)

\* What a step has to show: the column and the runs fit, what was settled stays
\* settled, and so is what is new.
LEMMA BtKeeps ==
    ASSUME BtInv, BtTypeOK', RunsOwnMembers', BatchInHand',
           Calm' => Calm,
           Calm' => \A b : Settled(b) => Settled(b)',
           Calm' => \A b \in executed' \ executed : Settled(b)',
           Calm' => \A w \in BtWorker : tick'[w] = tick[w] \/ Orderly(tick[w])'
    PROVE  BtInv'
<1> SUFFICES ASSUME Calm'
             PROVE  (\A b \in executed' : Settled(b)') /\ \A w \in BtWorker : Orderly(tick[w])'
  BY Zenon DEF BtInv, BatchesSettled
<1>1. \A b \in executed' : Settled(b)'
  BY Zenon DEF BtInv, BatchesSettled
<1>2. ASSUME NEW w \in BtWorker PROVE Orderly(tick[w])'
  <2>1. CASE tick'[w] = tick[w]
    BY Zenon, <2>1 DEF BtInv, BatchesSettled, Orderly
  <2> QED
    BY Zenon, <2>1
<1> QED
  BY Zenon, <1>1, <1>2

\* A step of one tick that leaves the column and the runs alone.
LEMMA TickKeeps ==
    ASSUME BtInv, NEW w \in BtWorker, NEW t \in TickRecord,
           tick' = [tick EXCEPT ![w] = t],
           UNCHANGED <<group, batchCol, runs>>,
           executed \subseteq executed', executed' \subseteq Batch, manuals' \in Nat,
           InHand(t)',
           Calm' => Calm,
           Calm' => \A b \in executed' \ executed : Settled(b),
           Calm' => Orderly(t)
    PROVE  BtInv'
<1>1. BtTypeOK'
  BY Zenon DEF BtInv, BtTypeOK
<1>2. RunsOwnMembers'
  BY Zenon DEF BtInv, RunsOwnMembers
<1>3. \A v \in BtWorker : tick'[v] = IF v = w THEN t ELSE tick[v]
  BY Zenon DEF BtInv, BtTypeOK
<1>4. BatchInHand'
  BY <1>3 DEF BtInv, BatchInHand, InHand
<1>5. \A b : Settled(b) <=> Settled(b)'
  BY Zenon DEF Settled, IsNext, Waiting
<1>6. Calm' => \A v \in BtWorker : tick'[v] = tick[v] \/ Orderly(tick[v])'
  BY Zenon, <1>3, <1>5 DEF Orderly
<1> QED
  BY Zenon, <1>1, <1>2, <1>4, <1>5, <1>6, BtKeeps

LEMMA TickType == \A w \in BtWorker : BtInv => tick[w] \in TickRecord
  BY Zenon DEF BtInv, BtTypeOK

LEMMA NoTickIs == NoTick \in TickRecord /\ NoTick.step = "idle" /\ NoTick.groups = {} /\ ~NoTick.manual
  BY DEF NoTick, TickRecord

\* The loop goes on with some of its groups, or returns.
LEMMA NextGroupTick ==
    ASSUME BtInv, NEW w \in BtWorker, NEW rest \in SUBSET tick[w].groups, NextGroup(w, rest)
    PROVE  \E t \in TickRecord : /\ tick' = [tick EXCEPT ![w] = t]
                                 /\ t.step \in {"idle", "groups"} /\ t.groups = rest
                                 /\ t.manual => tick[w].manual
<1> DEFINE on == [tick[w] EXCEPT !.step = "groups", !.groups = rest, !.batch = {}]
<1>1. tick[w] \in TickRecord
  BY Zenon, TickType
<1>2. on \in TickRecord /\ on.step = "groups" /\ on.groups = rest /\ on.manual = tick[w].manual
  BY <1>1 DEF TickRecord
<1>3. tick' = [tick EXCEPT ![w] = IF rest = {} THEN NoTick ELSE on]
  BY Zenon DEF NextGroup
<1> HIDE DEF on
<1>4. CASE rest = {}
  BY Zenon, <1>3, <1>4, NoTickIs
<1>5. CASE rest # {}
  BY Zenon, <1>2, <1>3, <1>5
<1> QED
  BY Zenon, <1>4, <1>5

LEMMA OrderlyRest ==
    ASSUME NEW t \in TickRecord, NEW u \in TickRecord, u.step \in {"idle", "groups"},
           u.groups \subseteq t.groups, u.manual => t.manual, Orderly(t)
    PROVE  Orderly(u)
  BY Zenon DEF Orderly

\* A call ends, or goes on with its other groups.
LEMMA NextGroupKeeps ==
    ASSUME BtInv, NEW w \in BtWorker, NEW rest \in SUBSET tick[w].groups, NextGroup(w, rest),
           UNCHANGED <<setting, batchCol, executed, runs, disordered, manuals>>
    PROVE  BtInv'
<1>1. PICK t \in TickRecord : /\ tick' = [tick EXCEPT ![w] = t]
                              /\ t.step \in {"idle", "groups"} /\ t.groups = rest
                              /\ t.manual => tick[w].manual
  BY Zenon, NextGroupTick
<1>2. Calm' <=> Calm
  BY Zenon DEF Calm, setting
<1>3. Calm => Orderly(t)
  <2> SUFFICES ASSUME Calm PROVE Orderly(t)
    BY Zenon
  <2>1. Orderly(tick[w]) /\ tick[w] \in TickRecord
    BY Zenon, TickType DEF BtInv, BatchesSettled
  <2>2. t.groups \subseteq tick[w].groups
    BY Zenon, <1>1
  <2> QED
    BY Zenon, <1>1, <2>1, <2>2, OrderlyRest
<1>4. InHand(t)'
  BY Zenon, <1>1 DEF InHand
<1>5. executed' \subseteq Batch /\ manuals' \in Nat /\ executed' = executed
  BY Zenon DEF BtInv, BtTypeOK
<1>6. UNCHANGED <<group, batchCol, runs>>
  BY Zenon DEF setting
<1> QED
  BY Zenon, <1>1, <1>2, <1>3, <1>4, <1>5, <1>6, TickKeeps

LEMMA AbandonTickKeeps == ASSUME BtInv, NEW w \in BtWorker, AbandonTick(w) PROVE BtInv'
<1>1. NextGroup(w, {})
  BY Zenon DEF AbandonTick, NextGroup
<1>2. {} \in SUBSET tick[w].groups
  BY Zenon
<1> QED
  BY Zenon, <1>1, <1>2, NextGroupKeeps DEF AbandonTick

\* The entries a tick lists of one group are the oldest ones that wait in it.
LEMMA ListedAreOldest ==
    ASSUME NEW limit \in Nat, NEW g,
           Cardinality({e \in ListUnbatched(limit) : group[e] = g}) >= MaxBatch
    PROVE  /\ Cardinality(Waiting(g)) >= MaxBatch
           /\ Oldest({e \in ListUnbatched(limit) : group[e] = g}, MaxBatch) = Oldest(Waiting(g), MaxBatch)
<1> DEFINE All == {e \in Entry : batchCol[e] = Unbatched}
           Listed == ListUnbatched(limit)
           V == {e \in Listed : group[e] = g}
           U == Waiting(g)
<1>1. Listed = {e \in All : Cardinality({f \in All : f < e}) < limit} /\ All \in SUBSET Entry
  BY Zenon DEF ListUnbatched, Oldest
<1>2. U = {e \in All : group[e] = g} /\ U \in SUBSET Entry
  BY Zenon DEF Waiting
<1>3. V \in SUBSET U
  BY Zenon, <1>1, <1>2
<1>4. ASSUME NEW e \in Listed, NEW f \in All, f < e PROVE f \in Listed
  <2> DEFINE E == {h \in All : h < e}
             F == {h \in All : h < f}
  <2>1. All \subseteq Nat
    BY Zenon, <1>1, EntriesAreNumbers
  <2>2. F \subseteq E
    BY <1>1, <1>4, <2>1
  <2>3. E \in SUBSET Entry
    BY Zenon, <1>1
  <2>4. Cardinality(E) \in Nat /\ Cardinality(F) \in Nat /\ Cardinality(F) <= Cardinality(E)
    <3> HIDE DEF E, F
    <3> QED
      BY Zenon, <2>2, <2>3, EntriesCount
  <2>5. Cardinality(E) < limit
    BY Zenon, <1>1
  <2>6. Cardinality(F) < limit
    BY <2>4, <2>5
  <2> QED
    BY Zenon, <1>1, <2>6
<1>5. \A e \in V : \A f \in U : f < e => f \in V
  BY Zenon, <1>2, <1>4
<1>6. MaxBatch \in Nat
  BY Zenon, BatchesAssumption
<1>7. Cardinality(V) >= MaxBatch
  OBVIOUS
<1> HIDE DEF V, U
<1>8. Oldest(V, MaxBatch) = Oldest(U, MaxBatch)
  BY Zenon, <1>2, <1>3, <1>5, <1>6, <1>7, OldestOfPrefix
<1>9. Cardinality(V) \in Nat /\ Cardinality(U) \in Nat /\ Cardinality(V) <= Cardinality(U)
  BY Zenon, <1>2, <1>3, EntriesCount
<1>10. Cardinality(U) >= MaxBatch
  BY <1>6, <1>7, <1>9
<1> QED
  BY Zenon, <1>8, <1>10 DEF U, V

LEMMA BatchTickKeeps == ASSUME BtInv, NEW w \in BtWorker, BatchTick(w) PROVE BtInv'
<1> DEFINE limit == MaxBatch * ListFactor
           Listed == ListUnbatched(limit)
           groups == groupInboxEntries(Listed)
           begun == [NoTick EXCEPT !.step = "groups", !.groups = groups]
<1>1. limit \in Nat
  BY BatchesAssumption
<1>2. tick' = [tick EXCEPT ![w] = begun]
  BY Zenon DEF BatchTick
<1>3. Listed \subseteq Entry
  BY Zenon, OldestIsSubset DEF ListUnbatched
<1>4. \A members \in groups : \E e \in Listed : members = {f \in Listed : group[f] = group[e]}
  BY Zenon DEF groupInboxEntries
<1>5. groups \subseteq Batch
  <2> SUFFICES ASSUME NEW members \in groups PROVE members \in Batch
    BY Zenon
  <2>1. PICK e \in Listed : members = {f \in Listed : group[f] = group[e]}
    BY Zenon, <1>4
  <2> QED
    BY Zenon, <1>3, <2>1 DEF Batch
<1>6. PICK t \in TickRecord : t = begun /\ t.step = "groups" /\ t.groups = groups /\ ~t.manual
  <2>1. begun \in TickRecord /\ begun.step = "groups" /\ begun.groups = groups /\ ~begun.manual
    <3> HIDE DEF groups
    <3> QED
      BY <1>5 DEF NoTick, TickRecord
  <2> HIDE DEF begun, groups
  <2> QED
    BY Zenon, <2>1
<1> HIDE DEF begun
<1>7. Orderly(t)
  <2> SUFFICES ASSUME NEW members \in groups, Cardinality(members) >= MaxBatch
               PROVE  Settled(Oldest(members, MaxBatch))
    BY Zenon, <1>6 DEF Orderly
  <2>1. PICK e \in Listed : members = {f \in Listed : group[f] = group[e]}
    BY Zenon, <1>4
  <2> HIDE DEF limit
  <2> QED
    BY Zenon, <1>1, <2>1, ListedAreOldest DEF Settled, IsNext
<1>8. InHand(t)'
  BY Zenon, <1>6 DEF InHand
<1>9. Calm' <=> Calm
  BY Zenon DEF BatchTick, Calm, setting
<1>10. executed' \subseteq Batch /\ manuals' \in Nat /\ executed' = executed
  BY Zenon DEF BatchTick, BtInv, BtTypeOK
<1>11. UNCHANGED <<group, batchCol, runs>>
  BY Zenon DEF BatchTick, setting
<1> QED
  BY Zenon, <1>2, <1>6, <1>7, <1>8, <1>9, <1>10, <1>11, TickKeeps

\* A batch formed by hand ends the calm.
LEMMA CreateBatchKeeps ==
    ASSUME BtInv, NEW w \in BtWorker, NEW S \in SUBSET Entry, CreateBatch(w, S) PROVE BtInv'
<1> DEFINE t == [NoTick EXCEPT !.step = "groups", !.groups = {S}, !.manual = TRUE]
<1>1. tick' = [tick EXCEPT ![w] = t]
  BY Zenon DEF CreateBatch
<1>2. S \in Batch
  BY Zenon DEF CreateBatch, validateManualBatchRequest, Batch
<1>3. t \in TickRecord /\ t.step = "groups"
  BY <1>2 DEF NoTick, TickRecord
<1>4. InHand(t)'
  BY Zenon, <1>3 DEF InHand
<1>5. manuals \in Nat /\ manuals' = manuals + 1
  BY Zenon DEF BtInv, BtTypeOK, CreateBatch
<1>6. manuals' \in Nat /\ ~Calm'
  BY <1>5 DEF Calm
<1>7. executed' \subseteq Batch /\ executed' = executed
  BY Zenon DEF CreateBatch, BtInv, BtTypeOK
<1>8. UNCHANGED <<group, batchCol, runs>>
  BY Zenon DEF CreateBatch, setting
<1> HIDE DEF t
<1> QED
  BY Zenon, <1>1, <1>3, <1>4, <1>6, <1>7, <1>8, TickKeeps

LEMMA ReadyGroupsKeep == ASSUME BtInv, NEW w \in BtWorker, processReadyGroups(w) PROVE BtInv'
<1>1. PICK members \in tick[w].groups :
         LET batch == limitBatchMembers(members)
             rest == tick[w].groups \ {members} IN
         IF ~tick[w].manual /\ (~ready(members) \/ ~ownsPartition(w))
         THEN NextGroup(w, rest)
         ELSE tick' = [tick EXCEPT ![w].step = IF batch \in runs THEN "recover" ELSE "process",
                                   ![w].groups = rest, ![w].batch = batch]
  BY Zenon DEF processReadyGroups
<1> DEFINE batch == limitBatchMembers(members)
           rest == tick[w].groups \ {members}
           step == IF batch \in runs THEN "recover" ELSE "process"
           chosen == [tick[w] EXCEPT !.step = step, !.groups = rest, !.batch = batch]
<1>2. UNCHANGED <<setting, batchCol, executed, runs, disordered, manuals>>
  BY Zenon DEF processReadyGroups
<1>3. CASE ~tick[w].manual /\ (~ready(members) \/ ~ownsPartition(w))
  <2>1. NextGroup(w, rest) /\ rest \in SUBSET tick[w].groups
    BY Zenon, <1>1, <1>3
  <2> QED
    BY Zenon, <1>2, <2>1, NextGroupKeeps
<1>4. CASE ~(~tick[w].manual /\ (~ready(members) \/ ~ownsPartition(w)))
  <2>1. tick[w] \in TickRecord /\ members \in Batch
    BY Zenon, TickType DEF TickRecord
  <2>2. batch = Oldest(members, MaxBatch) /\ batch \in SUBSET Entry /\ batch # {}
    <3>1. members \in SUBSET Entry /\ members # {}
      BY Zenon, <2>1 DEF Batch
    <3>2. MaxBatch \in Nat \ {0}
      BY Zenon, BatchesAssumption
    <3>3. batch = Oldest(members, MaxBatch)
      BY Zenon DEF limitBatchMembers
    <3>4. Oldest(members, MaxBatch) # {}
      BY Zenon, <3>1, <3>2, OldestExists
    <3> QED
      BY Zenon, <3>1, <3>3, <3>4, OldestIsSubset
  <2> HIDE DEF batch
  <2>3. rest \in SUBSET Batch
    BY Zenon, <2>1 DEF TickRecord
  <2>4. tick' = [tick EXCEPT ![w] = chosen]
    BY <1>1, <1>4 DEF batch
  <2>5. PICK t \in TickRecord : /\ t = chosen /\ t.step = step /\ t.groups = rest
                                /\ t.manual = tick[w].manual /\ t.batch = batch
    <3>1. /\ chosen \in TickRecord /\ chosen.step = step /\ chosen.groups = rest
          /\ chosen.manual = tick[w].manual /\ chosen.batch = batch
      <4> HIDE DEF rest
      <4> QED
        BY <2>1, <2>2, <2>3 DEF TickRecord
    <3> HIDE DEF chosen, rest, batch, step
    <3> QED
      BY Zenon, <3>1
  <2> HIDE DEF chosen
  <2>6. Calm => Orderly(t)
    <3> SUFFICES ASSUME Calm PROVE Orderly(t)
      BY Zenon
    <3>1. Orderly(tick[w])
      BY Zenon DEF BtInv, BatchesSettled
    <3>2. ready(members)
      BY Zenon, <1>4, <3>1 DEF Orderly
    <3>3. Cardinality(members) >= MaxBatch
      BY Zenon, <3>2 DEF ready, Calm
    <3>4. Settled(batch)
      BY Zenon, <2>2, <3>1, <3>3 DEF Orderly
    <3> QED
      BY Zenon, <2>5, <3>1, <3>4 DEF Orderly
  <2>7. InHand(t)'
    <3>1. runs' = runs /\ step # "complete" /\ (step = "recover" => batch \in runs)
      BY Zenon, <1>2
    <3> QED
      BY Zenon, <2>2, <2>5, <3>1 DEF InHand
  <2>8. Calm' <=> Calm
    BY Zenon, <1>2 DEF Calm, setting
  <2>9. executed' \subseteq Batch /\ manuals' \in Nat /\ executed' = executed
    BY Zenon, <1>2 DEF BtInv, BtTypeOK
  <2>10. UNCHANGED <<group, batchCol, runs>>
    BY Zenon, <1>2 DEF setting
  <2> QED
    BY Zenon, <2>4, <2>5, <2>6, <2>7, <2>8, <2>9, <2>10, TickKeeps
<1> QED
  BY Zenon, <1>3, <1>4

LEMMA EnvelopeKeeps == ASSUME BtInv, NEW w \in BtWorker, processBatchEnvelope(w) PROVE BtInv'
<1>1. UNCHANGED <<setting, batchCol, runs, disordered, manuals>> /\ tick[w].step = "process"
  BY Zenon DEF processBatchEnvelope
<1>2. CASE executed' = executed /\ (NextGroup(w, tick[w].groups) \/ NextGroup(w, {}))
  <2>1. {} \in SUBSET tick[w].groups /\ tick[w].groups \in SUBSET tick[w].groups
    BY Zenon
  <2> QED
    BY Zenon, <1>1, <1>2, <2>1, NextGroupKeeps
<1>3. CASE executed' = executed \cup {tick[w].batch} /\ tick' = [tick EXCEPT ![w].step = "complete"]
  <2> DEFINE done == [tick[w] EXCEPT !.step = "complete"]
  <2>1. tick[w] \in TickRecord
    BY Zenon, TickType
  <2>2. tick' = [tick EXCEPT ![w] = done]
    BY <1>3
  <2>3. PICK t \in TickRecord : /\ t = done /\ t.step = "complete" /\ t.groups = tick[w].groups
                                /\ t.manual = tick[w].manual /\ t.batch = tick[w].batch
    <3>1. /\ done \in TickRecord /\ done.step = "complete" /\ done.groups = tick[w].groups
          /\ done.manual = tick[w].manual /\ done.batch = tick[w].batch
      BY <2>1 DEF TickRecord
    <3> HIDE DEF done
    <3> QED
      BY Zenon, <3>1
  <2> HIDE DEF done
  <2>4. tick[w].batch # {} /\ tick[w].batch \in SUBSET Entry
    BY Zenon, <1>1, <2>1 DEF BtInv, BatchInHand, InHand, TickRecord
  <2>5. executed' \subseteq Batch /\ executed \subseteq executed' /\ manuals' \in Nat
    BY Zenon, <1>1, <1>3, <2>4 DEF BtInv, BtTypeOK, Batch
  <2>6. InHand(t)'
    BY Zenon, <1>3, <2>3, <2>4 DEF InHand
  <2>7. Calm' <=> Calm
    BY Zenon, <1>1 DEF Calm, setting
  <2>8. Calm => Orderly(tick[w])
    BY Zenon DEF BtInv, BatchesSettled
  <2>9. Calm => Orderly(t)
    BY Zenon, <2>3, <2>8 DEF Orderly
  <2>10. Calm => \A b \in executed' \ executed : Settled(b)
    BY Zenon, <1>1, <1>3, <2>8 DEF Orderly
  <2>11. UNCHANGED <<group, batchCol, runs>>
    BY Zenon, <1>1 DEF setting
  <2> QED
    BY Zenon, <2>2, <2>3, <2>5, <2>6, <2>7, <2>9, <2>10, <2>11, TickKeeps
<1> QED
  BY Zenon, <1>2, <1>3 DEF processBatchEnvelope

\* An entry that commits after those of its group seen earlier leaves the group's
\* next batch as it is.
LEMMA CommitKeepsNext ==
    ASSUME BtInv, NEW e \in Entry, NEW writer, CommitEntry(e, writer), ~disordered',
           NEW b, IsNext(b)
    PROVE  IsNext(b)'
<1>1. PICK g : Cardinality(Waiting(g)) >= MaxBatch /\ b = Oldest(Waiting(g), MaxBatch)
  BY Zenon DEF IsNext
<1> DEFINE V == Waiting(g)
           U == {f \in Entry : group[f] = g /\ batchCol'[f] = Unbatched}
<1>2. U = Waiting(g)'
  BY Zenon DEF Waiting, CommitEntry, setting
<1>3. \A f \in Entry : f # e => batchCol'[f] = batchCol[f]
  BY Zenon DEF BtInv, BtTypeOK, CommitEntry
<1>4. batchCol[e] = Absent /\ Absent # Unbatched
  BY DEF CommitEntry, Absent, Unbatched
<1>5. V \in SUBSET U /\ U \in SUBSET Entry /\ e \notin V
  BY Zenon, <1>3, <1>4 DEF Waiting
<1>6. \A f \in U : f \in V \/ f = e
  BY Zenon, <1>3 DEF Waiting
<1>7. \A f \in V : e \in U => ~(f > e)
  BY Zenon, <1>4 DEF Waiting, CommitEntry
<1>8. \A a \in V : \A f \in U : f < a => f \in V
  <2> SUFFICES ASSUME NEW a \in V, e \in U, e < a PROVE FALSE
    BY Zenon, <1>6
  <2>1. a \in Nat /\ e \in Nat /\ ~(a > e)
    BY Zenon, <1>5, <1>7, EntriesAreNumbers
  <2> QED
    BY <2>1
<1>9. MaxBatch \in Nat /\ Cardinality(V) >= MaxBatch
  BY Zenon, <1>1, BatchesAssumption
<1> HIDE DEF V, U
<1>10. Oldest(V, MaxBatch) = Oldest(U, MaxBatch)
  BY Zenon, <1>5, <1>8, <1>9, OldestOfPrefix
<1>11. Cardinality(V) \in Nat /\ Cardinality(U) \in Nat /\ Cardinality(V) <= Cardinality(U)
  BY Zenon, <1>5, EntriesCount
<1>12. Cardinality(U) >= MaxBatch
  BY <1>9, <1>11
<1>13. b = Oldest(U, MaxBatch)
  BY Zenon, <1>1, <1>10 DEF V
<1>14. Oldest(U, MaxBatch) = Oldest(Waiting(g), MaxBatch)'
  BY Zenon, <1>2 DEF Oldest
<1> QED
  BY Zenon, <1>2, <1>12, <1>13, <1>14 DEF IsNext

LEMMA CommitEntryKeeps ==
    ASSUME BtInv, NEW e \in Entry, NEW writer, CommitEntry(e, writer) PROVE BtInv'
<1>1. UNCHANGED <<setting, tick, executed, runs, manuals>> /\ batchCol[e] = Absent
  BY Zenon DEF CommitEntry
<1>2. PICK v \in NoBatch : batchCol' = [batchCol EXCEPT ![e] = v]
  BY Zenon DEF CommitEntry, NoBatch
<1>3. BtTypeOK'
  BY <1>1, <1>2 DEF BtInv, BtTypeOK
<1>4. BatchInHand'
  BY Zenon, <1>1 DEF BtInv, BatchInHand, InHand
<1>5. \A c \in runs : c # v /\ c # batchCol[e]
  BY Zenon, <1>1, <1>2, NoBatchIsBatch DEF BtInv, BtTypeOK, NoBatch
<1>6. \A f \in Entry : batchCol'[f] = IF f = e THEN v ELSE batchCol[f]
  BY Zenon, <1>2 DEF BtInv, BtTypeOK
<1>7. RunsOwnMembers'
  <2> SUFFICES ASSUME NEW c \in runs
               PROVE  {f \in Entry : batchCol'[f] = c} = c /\ c \in executed
    BY Zenon, <1>1 DEF RunsOwnMembers
  <2>1. {f \in Entry : batchCol[f] = c} = c /\ c \in executed
    BY Zenon DEF BtInv, RunsOwnMembers
  <2>2. \A f \in Entry : batchCol'[f] = c <=> batchCol[f] = c
    BY Zenon, <1>5, <1>6
  <2> QED
    BY <2>1, <2>2
<1>8. Calm' => Calm /\ ~disordered'
  BY Zenon, <1>1 DEF Calm, CommitEntry, setting
<1>9. Calm' => \A b : Settled(b) => Settled(b)'
  BY Zenon, <1>1, <1>8, CommitKeepsNext DEF Settled
<1> QED
  BY Zenon, <1>1, <1>3, <1>4, <1>7, <1>8, <1>9, BtKeeps

\* A batch becomes a run of its own: its members were free, or in it already.
LEMMA StoredBatchOwnsMembers ==
    ASSUME BtInv, NEW b \in executed, associateBatchMembers(b),
           batchCol' = membersOf(b), runs' = runs \cup {b}, executed' = executed
    PROVE  RunsOwnMembers' /\ batchCol' \in [Entry -> NoBatch \cup runs']
<1>1. \A c \in executed : c \in Batch /\ c \notin NoBatch
  BY Zenon, NoBatchIsBatch DEF BtInv, BtTypeOK
<1>2. b \subseteq Entry /\ Unbatched \in NoBatch /\ runs \subseteq executed
  BY Zenon, <1>1 DEF BtInv, BtTypeOK, Batch, NoBatch
<1>3. \A e \in Entry : batchCol'[e] = IF e \in b THEN b ELSE batchCol[e]
  BY Zenon DEF membersOf
<1>4. \A e \in Entry : batchCol[e] \in NoBatch \cup runs
  BY Zenon DEF BtInv, BtTypeOK
<1>5. batchCol' \in [Entry -> NoBatch \cup runs']
  BY <1>4 DEF membersOf
<1>6. ASSUME NEW c \in runs'
      PROVE  {e \in Entry : batchCol'[e] = c} = c
  <2>1. CASE c = b
    <3>1. \A e \in Entry : batchCol[e] = b => e \in b
      <4> SUFFICES ASSUME NEW e \in Entry, batchCol[e] = b PROVE e \in b
        BY Zenon
      <4>1. b \in runs
        BY Zenon, <1>1, <1>4
      <4> QED
        BY Zenon, <4>1, RunMembers DEF BtInv
    <3> QED
      BY <1>2, <1>3, <2>1, <3>1
  <2>2. CASE c # b
    <3>1. c \in runs /\ c # Unbatched
      BY Zenon, <1>1, <1>2, <2>2
    <3>2. \A e \in Entry : batchCol'[e] = c <=> batchCol[e] = c
      BY Zenon, <1>3, <2>2, <3>1 DEF associateBatchMembers
    <3>3. {e \in Entry : batchCol[e] = c} = c
      BY Zenon, <3>1 DEF BtInv, RunsOwnMembers
    <3> QED
      BY <3>2, <3>3
  <2> QED
    BY Zenon, <2>1, <2>2
<1>7. runs' \subseteq executed'
  BY Zenon, <1>2
<1> QED
  BY Zenon, <1>5, <1>6, <1>7 DEF RunsOwnMembers

\* The other groups' next batches do not change, and the one that is stored is a run.
LEMMA StoredBatchSettles ==
    ASSUME BtInv, NEW b, Settled(b), associateBatchMembers(b), group' = group,
           batchCol' = membersOf(b), runs' = runs \cup {b}, NEW c, Settled(c)
    PROVE  Settled(c)'
<1>1. \A e \in Entry : batchCol'[e] = IF e \in b THEN b ELSE batchCol[e]
  BY Zenon DEF membersOf
<1>2. CASE c \in runs'
  BY Zenon, <1>2 DEF Settled
<1>3. CASE c \notin runs'
  <2>1. PICK g : Cardinality(Waiting(g)) >= MaxBatch /\ c = Oldest(Waiting(g), MaxBatch)
    BY Zenon, <1>3 DEF Settled, IsNext
  <2>2. \A e \in Waiting(g) : e \notin b
    <3>1. CASE b \in runs
      <4>1. b # Unbatched
        BY Zenon, <3>1, NoBatchIsBatch DEF BtInv, BtTypeOK, NoBatch
      <4> QED
        BY Zenon, <3>1, <4>1, RunMembers DEF BtInv, Waiting
    <3>2. CASE IsNext(b)
      <4>1. PICK h : b = Oldest(Waiting(h), MaxBatch)
        BY Zenon, <3>2 DEF IsNext
      <4>2. h # g
        BY Zenon, <1>3, <2>1, <4>1
      <4> QED
        BY Zenon, <4>1, <4>2, OldestIsSubset DEF Waiting
    <3> QED
      BY Zenon, <3>1, <3>2 DEF Settled
  <2>3. b # Unbatched
    <3>1. CASE b \in runs
      BY Zenon, <3>1, NoBatchIsBatch DEF BtInv, BtTypeOK, NoBatch
    <3>2. CASE IsNext(b)
      <4>1. b \subseteq Entry
        BY Zenon, <3>2, OldestIsSubset, WaitingIsEntries DEF IsNext
      <4>2. 0 \notin Entry
        BY EntriesAreNumbers
      <4> QED
        BY Zenon, <4>1, <4>2 DEF Unbatched
    <3> QED
      BY Zenon, <3>1, <3>2 DEF Settled
  <2>4. \A e \in Entry : (group[e] = g /\ batchCol'[e] = Unbatched) <=> e \in Waiting(g)
    BY Zenon, <1>1, <2>2, <2>3 DEF Waiting
  <2>5. Waiting(g)' = Waiting(g)
    <3>1. Waiting(g)' = {e \in Entry : group[e] = g /\ batchCol'[e] = Unbatched}
      BY Zenon DEF Waiting
    <3>2. Waiting(g) \subseteq Entry
      BY Zenon DEF Waiting
    <3> QED
      BY Zenon, <2>4, <3>1, <3>2
  <2>6. Oldest(Waiting(g), MaxBatch)' = Oldest(Waiting(g), MaxBatch)
    BY Zenon, <2>5 DEF Oldest
  <2> QED
    BY Zenon, <2>1, <2>5, <2>6 DEF Settled, IsNext
<1> QED
  BY Zenon, <1>2, <1>3

LEMMA CompleteBatchKeeps ==
    ASSUME BtInv, NEW w \in BtWorker, tick[w].step \in {"complete", "recover"},
           CompleteBatch(w, tick[w].batch)
    PROVE  BtInv'
<1> DEFINE b == tick[w].batch
           rest == tick[w].groups
<1>1. UNCHANGED <<setting, executed, disordered, manuals>>
  BY Zenon DEF CompleteBatch
<1>2. CASE ~associateBatchMembers(b)
  <2>1. NextGroup(w, {}) /\ UNCHANGED <<batchCol, runs>> /\ {} \in SUBSET tick[w].groups
    BY Zenon, <1>2 DEF CompleteBatch
  <2> QED
    BY Zenon, <1>1, <2>1, NextGroupKeeps
<1>3. CASE associateBatchMembers(b)
  <2>1. batchCol' = membersOf(b) /\ runs' = runs \cup {b} /\ NextGroup(w, rest)
    BY Zenon, <1>3 DEF CompleteBatch
  <2>2. b \in executed
    BY Zenon DEF BtInv, BtTypeOK, BatchInHand, InHand
  <2>3. RunsOwnMembers' /\ batchCol' \in [Entry -> NoBatch \cup runs']
    <3> HIDE DEF b
    <3> QED
      BY Zenon, <1>1, <1>3, <2>1, <2>2, StoredBatchOwnsMembers
  <2>4. PICK t \in TickRecord : /\ tick' = [tick EXCEPT ![w] = t]
                                /\ t.step \in {"idle", "groups"} /\ t.groups = rest
                                /\ t.manual => tick[w].manual
    <3>1. rest \in SUBSET tick[w].groups
      BY Zenon
    <3> QED
      BY Zenon, <2>1, <3>1, NextGroupTick
  <2>5. \A v \in BtWorker : tick'[v] = IF v = w THEN t ELSE tick[v]
    BY Zenon, <2>4 DEF BtInv, BtTypeOK
  <2>6. BtTypeOK'
    <3>1. tick' \in [BtWorker -> TickRecord]
      BY Zenon, <2>4 DEF BtInv, BtTypeOK
    <3>2. executed' \subseteq Batch /\ runs' \subseteq executed' /\ manuals' \in Nat
      BY Zenon, <1>1, <2>1, <2>2 DEF BtInv, BtTypeOK
    <3> QED
      BY Zenon, <2>3, <3>1, <3>2 DEF BtTypeOK
  <2>7. BatchInHand'
    <3> SUFFICES ASSUME NEW v \in BtWorker PROVE InHand(tick[v])'
      BY Zenon DEF BatchInHand
    <3>1. CASE v = w
      BY Zenon, <2>4, <2>5, <3>1 DEF InHand
    <3>2. CASE v # w
      <4>1. InHand(tick[v]) /\ tick'[v] = tick[v]
        BY Zenon, <2>5, <3>2 DEF BtInv, BatchInHand
      <4> QED
        BY Zenon, <1>1, <2>1, <4>1 DEF InHand
    <3> QED
      BY Zenon, <3>1, <3>2
  <2>8. Calm' <=> Calm
    BY Zenon, <1>1 DEF Calm, setting
  <2>9. ASSUME Calm, NEW c, Settled(c) PROVE Settled(c)'
    <3>1. Settled(b) /\ group' = group
      BY Zenon, <1>1, <2>2, <2>9 DEF BtInv, BatchesSettled, setting
    <3> HIDE DEF b
    <3> QED
      BY Zenon, <1>3, <2>1, <2>9, <3>1, StoredBatchSettles
  <2>10. ASSUME Calm PROVE Orderly(tick[w])'
    <3>1. Orderly(tick[w]) /\ tick[w] \in TickRecord
      BY Zenon, <2>10, TickType DEF BtInv, BatchesSettled
    <3>2. Orderly(t)
      BY Zenon, <2>4, <3>1, OrderlyRest
    <3>3. tick'[w] = t
      BY Zenon, <2>5
    <3> QED
      BY Zenon, <2>9, <2>10, <3>2, <3>3 DEF Orderly
  <2>11. Calm' => \A v \in BtWorker : tick'[v] = tick[v] \/ Orderly(tick[v])'
    BY Zenon, <2>5, <2>8, <2>10
  <2> QED
    BY Zenon, <1>1, <2>3, <2>6, <2>7, <2>8, <2>9, <2>11, BtKeeps
<1> QED
  BY Zenon, <1>2, <1>3

\* A step that touches neither entries nor batches nor ticks.
LEMMA OtherStepsKeep ==
    ASSUME BtInv, UNCHANGED <<setting, batchCol, tick, executed, runs, disordered, manuals>>
    PROVE  BtInv'
<1>1. BtTypeOK' /\ BatchInHand' /\ RunsOwnMembers'
  BY Zenon DEF BtInv, BtTypeOK, BatchInHand, InHand, RunsOwnMembers
<1>2. Calm' <=> Calm
  BY Zenon DEF Calm, setting
<1>3. \A b : Settled(b) => Settled(b)'
  BY Zenon DEF Settled, IsNext, Waiting, setting
<1> QED
  BY Zenon, <1>1, <1>2, <1>3, BtKeeps

LEMMA StepBt == BtInv /\ [BtNext]_btVars => BtInv'
<1> SUFFICES ASSUME BtInv, [BtNext]_btVars PROVE BtInv'
  BY Zenon
<1>1. CASE UNCHANGED btVars
  BY Zenon, <1>1, OtherStepsKeep DEF btVars, setting
<1>2. ASSUME NEW e \in Entry, CommitEntry(e, "go") \/ CommitEntry(e, "rust") PROVE BtInv'
  BY Zenon, <1>2, CommitEntryKeeps
<1>3. ASSUME NEW e \in Entry, Age(e) PROVE BtInv'
  BY Zenon, <1>3, OtherStepsKeep DEF Age
<1>4. ASSUME NEW w \in BtWorker, LeaseMoves(w) \/ ViewRefreshed(w) PROVE BtInv'
  BY Zenon, <1>4, OtherStepsKeep DEF LeaseMoves, ViewRefreshed
<1>5. ASSUME NEW w \in BtWorker, BatchTick(w) PROVE BtInv'
  BY Zenon, <1>5, BatchTickKeeps
<1>6. ASSUME NEW w \in BtWorker, NEW S \in SUBSET Entry, CreateBatch(w, S) PROVE BtInv'
  BY Zenon, <1>6, CreateBatchKeeps
<1>7. ASSUME NEW w \in BtWorker, processReadyGroups(w) PROVE BtInv'
  BY Zenon, <1>7, ReadyGroupsKeep
<1>8. ASSUME NEW w \in BtWorker, processBatchEnvelope(w) PROVE BtInv'
  BY Zenon, <1>8, EnvelopeKeeps
<1>9. ASSUME NEW w \in BtWorker, completeGroup(w) \/ recoverCompletedBatch(w) PROVE BtInv'
  BY Zenon, <1>9, CompleteBatchKeeps DEF completeGroup, recoverCompletedBatch
<1>10. ASSUME NEW w \in BtWorker, AbandonTick(w) PROVE BtInv'
  BY Zenon, <1>10, AbandonTickKeeps
<1> QED
  BY Zenon, <1>1, <1>2, <1>3, <1>4, <1>5, <1>6, <1>7, <1>8, <1>9, <1>10 DEF BtNext

\* For every number of entries, workers and groups, every batch size and every
\* backend: a completed run owns exactly its members and was executed; and in the
\* accumulating mode, while the entries of a group commit in order and nobody forms
\* a batch by hand, no entry is evaluated in two batches, however often ticks are
\* abandoned between the execution and the run and whoever resumes them.
THEOREM BatchesOnce == BtSpec => []BatchesRunOnce
<1>1. BtInv => BatchesRunOnce
  BY Zenon, SettledAreDisjoint DEF BtInv, BatchesRunOnce
<1> QED
  BY BtStarts, StepBt, <1>1, PTL DEF BtSpec
===============================================================================
