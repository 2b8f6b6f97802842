---------------------------- MODULE DomainServices ----------------------------
(***************************************************************************)
(* The domains and services of one tenant: a domain names event types, a   *)
(* service subscribes to domains, and every processed event is fanned out  *)
(* to the active services subscribed to its type.  API requests read and   *)
(* write in separate repository calls, so their steps interleave; every    *)
(* query is scoped to a tenant, so one tenant is enough.                   *)
(***************************************************************************)
EXTENDS Integers, FiniteSets

CONSTANTS DomainID, ServiceID,   \* bound: the ids NewID can still issue
          ItemName, EventType,
          EndpointURL,           \* records [form, scheme]
          DsRequest,             \* API requests in progress
          MaxFanOut,             \* 100 in the code
          AllowHTTP,             \* both processes run in a development environment
          MaxDsCalls             \* bound: handler calls

\* A table has finitely many rows.
ASSUME DomainAssumption == IsFiniteSet(ServiceID) /\ MaxFanOut \in Nat

VARIABLES
    dsBackend,    \* "postgres" or "mongo"
    domains,      \* per domain id: {} or {[name, types]}
    services,     \* per service id: {} or {[name, endpoint, active, subs]}
    issued,       \* ids NewID has issued
    dsCall,       \* per request: its step and its locals
    dsCalls,      \* handler calls so far (the bound)
    fanOut,       \* the last fan-out: {} or {[type, to, sent]}
    torn          \* history: domains deleted under a save, or without the $pull

dsVars == <<dsBackend, domains, services, issued, dsCall, dsCalls, fanOut, torn>>

Only(S) == CHOOSE x \in S : TRUE

NewItem == "new"    \* the id of an item that is not stored yet

\* What a body holds.  An id in it acts like the id in the path of an update.
DomainItem  == [id : {NewItem}, name : ItemName, types : SUBSET EventType]
ServiceItem == [id : {NewItem}, name : ItemName, endpoint : EndpointURL,
                subs : SUBSET DomainID]

\* A request's locals: what it saves, the domains it has yet to look at (or the
\* one it deletes), the flag it read; and, as history, whether the stored flag was
\* cleared since.
NoDsCall == [step |-> "idle", item |-> {}, left |-> {}, active |-> FALSE, late |-> FALSE]

DsInit ==
    /\ dsBackend \in {"postgres", "mongo"}
    /\ domains = [d \in DomainID |-> {}]
    /\ services = [s \in ServiceID |-> {}]
    /\ issued = {} /\ dsCalls = 0 /\ fanOut = {} /\ torn = {}
    /\ dsCall = [r \in DsRequest |-> NoDsCall]

DsCall(r) == dsCall[r].step = "idle" /\ dsCalls < MaxDsCalls /\ dsCalls' = dsCalls + 1

SavedItem(r) == Only(dsCall[r].item)

DsGoto(r, step) == dsCall' = [dsCall EXCEPT ![r].step = step]

DsReturn(r) == dsCall' = [dsCall EXCEPT ![r] = NoDsCall]

\* The repository's reads: a row or nothing, and the rows with their ids.
GetDomain(d) == domains[d]

ListDomains == UNION {{[id |-> d, name |-> row.name] : row \in domains[d]} : d \in DomainID}

GetService(s) == services[s]

ListServices == UNION {{[id |-> s, name |-> row.name] : row \in services[s]} : s \in ServiceID}

\* Another item of the tenant has the name: what the services check before they
\* save, and what the unique indexes on (tenant, name) enforce.
DomainNameTaken(item) == \E other \in ListDomains : other.id # item.id /\ other.name = item.name

ServiceNameTaken(item) == \E other \in ListServices : other.id # item.id /\ other.name = item.name

-----------------------------------------------------------------------------
\* Saving a domain: validation and the name check, then the identity, then the
\* upsert, each in a repository call of its own.

\* uniqueTrimmed has made event_types a set.
normalizeAndValidateDomain(item) == item.types # {}

SaveDomain(r, item) ==
    /\ DsCall(r)
    /\ IF normalizeAndValidateDomain(item) /\ ~DomainNameTaken(item)
       THEN dsCall' = [dsCall EXCEPT ![r] = [NoDsCall EXCEPT !.step = "domain identity",
                                                             !.item = {item}]]
       ELSE UNCHANGED dsCall
    /\ UNCHANGED <<dsBackend, domains, services, issued, fanOut, torn>>

\* POST and PUT: an update takes the id from the path.
CreateDomain(r, item) == SaveDomain(r, item)

UpdateDomain(r, d, item) == SaveDomain(r, [item EXCEPT !.id = d])

\* A new domain takes a fresh id; the domain of an update must exist.
initializeDomainIdentity(r) ==
    /\ dsCall[r].step = "domain identity"
    /\ \/ /\ SavedItem(r).id = NewItem
          /\ \E d \in DomainID \ issued :
               /\ issued' = issued \cup {d}
               /\ dsCall' = [dsCall EXCEPT ![r].step = "save domain",
                                           ![r].item = {[SavedItem(r) EXCEPT !.id = d]}]
       \/ /\ SavedItem(r).id # NewItem /\ UNCHANGED issued
          /\ IF GetDomain(SavedItem(r).id) # {} THEN DsGoto(r, "save domain") ELSE DsReturn(r)
    /\ UNCHANGED <<dsBackend, domains, services, dsCalls, fanOut, torn>>

\* The upsert: a name taken since is refused, a row deleted since comes back.
Upserted(item) ==
    IF DomainNameTaken(item) THEN domains
    ELSE [domains EXCEPT ![item.id] = {[name |-> item.name, types |-> item.types]}]

persistDomain(r) ==
    /\ dsCall[r].step = "save domain"
    /\ domains' = Upserted(SavedItem(r))
    /\ DsReturn(r)
    /\ UNCHANGED <<dsBackend, services, issued, dsCalls, fanOut, torn>>

\* DELETE /v1/domains/{id}: GetDomain answers 404, or the deletion follows.
DeleteDomain(r, d) ==
    /\ DsCall(r)
    /\ dsCall' = IF GetDomain(d) = {} THEN dsCall
                 ELSE [dsCall EXCEPT ![r] = [NoDsCall EXCEPT !.step = "delete domain",
                                                             !.left = {d}]]
    /\ UNCHANGED <<dsBackend, domains, services, issued, fanOut, torn>>

\* The services without any subscription to domain d.
Unsubscribed(d) ==
    [s \in ServiceID |-> {[row EXCEPT !.subs = @ \ {d}] : row \in services[s]}]

\* A service save that has passed its check of domain d.
SavingTo(d) == \E q \in DsRequest : \E item \in dsCall[q].item :
                  dsCall[q].step \in {"service domains", "service identity", "save service"}
                    /\ d \in item.subs \ dsCall[q].left

\* PostgreSQL deletes the subscriptions with the row (ON DELETE CASCADE).
\* MongoDB deletes the document first and pulls its id from the services next.
DeleteDomainRow(r) ==
    LET d == Only(dsCall[r].left) IN
    /\ dsCall[r].step = "delete domain"
    /\ domains' = [domains EXCEPT ![d] = {}]
    /\ torn' = IF SavingTo(d) THEN torn \cup {d} ELSE torn
    /\ \/ /\ dsBackend = "postgres"
          /\ services' = Unsubscribed(d) /\ DsReturn(r)
       \/ /\ dsBackend = "mongo"
          /\ UNCHANGED services /\ DsGoto(r, "pull")
    /\ UNCHANGED <<dsBackend, issued, dsCalls, fanOut>>

Pull(r) ==
    /\ dsCall[r].step = "pull"
    /\ services' = Unsubscribed(Only(dsCall[r].left))
    /\ DsReturn(r)
    /\ UNCHANGED <<dsBackend, domains, issued, dsCalls, fanOut, torn>>

-----------------------------------------------------------------------------
\* Saving a service: validation, one GetDomain per domain id, the name check,
\* the identity, the upsert.

validateEndpoint(url) ==
    /\ url.form = "absolute"
    /\ url.scheme = "https" \/ (AllowHTTP /\ url.scheme = "http")

SaveService(r, item) ==
    /\ DsCall(r)
    /\ dsCall' = IF ~validateEndpoint(item.endpoint) THEN dsCall
                 ELSE [dsCall EXCEPT ![r] = [NoDsCall EXCEPT !.step = "service domains",
                                             !.item = {item}, !.left = item.subs]]
    /\ UNCHANGED <<dsBackend, domains, services, issued, fanOut, torn>>

CreateService(r, item) == SaveService(r, item)

UpdateService(r, s, item) == SaveService(r, [item EXCEPT !.id = s])

\* One GetDomain of the loop, and after the last one the name check.
validateServiceDomains(r) ==
    /\ dsCall[r].step = "service domains"
    /\ \/ \E d \in dsCall[r].left :
            IF GetDomain(d) = {} THEN DsReturn(r)
            ELSE dsCall' = [dsCall EXCEPT ![r].left = @ \ {d}]
       \/ /\ dsCall[r].left = {}
          /\ IF ServiceNameTaken(SavedItem(r)) THEN DsReturn(r)
             ELSE DsGoto(r, "service identity")
    /\ UNCHANGED <<dsBackend, domains, services, issued, dsCalls, fanOut, torn>>

\* A mistake: an update activates the service.
IdentityActivates(r) ==
    /\ dsCall[r].step = "service identity"
    /\ \/ /\ SavedItem(r).id = NewItem
          /\ \E s \in ServiceID \ issued :
               /\ issued' = issued \cup {s}
               /\ dsCall' = [dsCall EXCEPT ![r].step = "save service", ![r].active = TRUE,
                                           ![r].item = {[SavedItem(r) EXCEPT !.id = s]}]
       \/ /\ SavedItem(r).id # NewItem /\ services[SavedItem(r).id] # {} /\ UNCHANGED issued
          /\ dsCall' = [dsCall EXCEPT ![r].step = "save service", ![r].active = TRUE]
    /\ UNCHANGED <<dsBackend, domains, services, dsCalls, fanOut, torn>>

\* A new service is active; an update keeps the flag it reads here.
initializeServiceIdentity(r) ==
    /\ dsCall[r].step = "service identity"
    /\ \/ /\ SavedItem(r).id = NewItem
          /\ \E s \in ServiceID \ issued :
               /\ issued' = issued \cup {s}
               /\ dsCall' = [dsCall EXCEPT ![r].step = "save service", ![r].active = TRUE,
                                           ![r].item = {[SavedItem(r) EXCEPT !.id = s]}]
       \/ /\ SavedItem(r).id # NewItem /\ UNCHANGED issued
          /\ \/ GetService(SavedItem(r).id) = {} /\ DsReturn(r)
             \/ \E row \in GetService(SavedItem(r).id) :
                  dsCall' = [dsCall EXCEPT ![r].step = "save service", ![r].active = row.active]
    /\ UNCHANGED <<dsBackend, domains, services, dsCalls, fanOut, torn>>

\* A mistake: no foreign key from a subscription to its domain.
NoForeignKey(item) == ~ServiceNameTaken(item)

\* The unique name and, in PostgreSQL, the foreign key of every subscription.
saveServiceAccepted(item) ==
    /\ ~ServiceNameTaken(item)
    /\ dsBackend = "postgres" => \A d \in item.subs : domains[d] # {}

\* Row and subscriptions are replaced together, the active flag with them.
ServiceSaved(item, active) ==
    [services EXCEPT ![item.id] = {[name |-> item.name, endpoint |-> item.endpoint,
                                    active |-> active, subs |-> item.subs]}]

\* History: the flag of service s is cleared under the saves that have read it.
Cleared(s) ==
    [q \in DsRequest |->
        [dsCall[q] EXCEPT !.late = @ \/ (dsCall[q].step = "save service" /\ SavedItem(q).id = s)]]

persistService(r) ==
    /\ dsCall[r].step = "save service"
    /\ IF saveServiceAccepted(SavedItem(r))
       THEN /\ services' = ServiceSaved(SavedItem(r), dsCall[r].active)
            /\ dsCall' = [(IF dsCall[r].active THEN dsCall ELSE Cleared(SavedItem(r).id))
                          EXCEPT ![r] = NoDsCall]
       ELSE DsReturn(r) /\ UNCHANGED services
    /\ UNCHANGED <<dsBackend, domains, issued, dsCalls, fanOut, torn>>

\* DELETE /v1/services/{id} only clears the flag, which a second call repeats.
DeleteService(s) ==
    /\ dsCalls < MaxDsCalls /\ dsCalls' = dsCalls + 1
    /\ services' = [services EXCEPT ![s] = {[row EXCEPT !.active = FALSE] : row \in @}]
    /\ dsCall' = Cleared(s)
    /\ UNCHANGED <<dsBackend, domains, issued, fanOut, torn>>

\* A repository call fails, or the API process dies: the request ends where
\* it stands.  A deletion may have lost its document and kept its subscribers.
AbandonRequest(r) ==
    /\ dsCall[r].step # "idle"
    /\ torn' = IF dsCall[r].step = "pull" THEN torn \cup dsCall[r].left ELSE torn
    /\ DsReturn(r)
    /\ UNCHANGED <<dsBackend, domains, services, issued, dsCalls, fanOut>>

-----------------------------------------------------------------------------
\* Fan-out: the subscribers of an event, listed in the transaction that
\* processes it, and the delivery of the effect it leaves for each of them.

\* The rows the query matches: active services subscribed to a stored domain
\* with the event type.
Matches(e) == {s \in ServiceID : \E row \in services[s] :
                 row.active /\ \E d \in row.subs : \E dom \in domains[d] : e \in dom.types}

\* A query returns min(limit, matches) rows.
Limited(S, n) == {T \in SUBSET S : Cardinality(T) = IF Cardinality(S) < n THEN Cardinality(S) ELSE n}

\* A mistake: the query's limit is the fan-out limit itself.
ListAtLimit(e) == Limited(Matches(e), MaxFanOut)

ListSubscribersForEvent(e) == Limited(Matches(e), MaxFanOut + 1)

\* More subscribers than the limit fail the event.
FanOut(e) ==
    /\ \E items \in ListSubscribersForEvent(e) :
         /\ Cardinality(items) <= MaxFanOut
         /\ fanOut' = {[type |-> e, to |-> items, sent |-> {}]}
    /\ UNCHANGED <<dsBackend, domains, services, issued, dsCall, dsCalls, torn>>

validateServiceEndpoint(url) ==
    /\ url.form = "absolute"
    /\ url.scheme = "https" \/ (AllowHTTP /\ url.scheme = "http")

loadActiveService(s) == {row \in GetService(s) : row.active}

\* The request is delivered, or the outbox retries the effect.
deliverRequest(s) ==
    \E f \in fanOut : s \in f.to \ f.sent /\ fanOut' = {[f EXCEPT !.sent = @ \cup {s}]}

\* Send loads the service again: one that is disabled by then, or whose
\* endpoint is not accepted, is an error.
Send(s) ==
    /\ \E row \in loadActiveService(s) : validateServiceEndpoint(row.endpoint)
    /\ deliverRequest(s)
    /\ UNCHANGED <<dsBackend, domains, services, issued, dsCall, dsCalls, torn>>

DsNext ==
    \/ \E r \in DsRequest :
         \/ \E item \in DomainItem : CreateDomain(r, item) \/ \E d \in DomainID : UpdateDomain(r, d, item)
         \/ \E item \in ServiceItem : CreateService(r, item) \/ \E s \in ServiceID : UpdateService(r, s, item)
         \/ \E d \in DomainID : DeleteDomain(r, d)
         \/ initializeDomainIdentity(r) \/ persistDomain(r)
         \/ DeleteDomainRow(r) \/ Pull(r)
         \/ validateServiceDomains(r) \/ initializeServiceIdentity(r) \/ persistService(r)
         \/ AbandonRequest(r)
    \/ \E s \in ServiceID : DeleteService(s) \/ Send(s)
    \/ \E e \in EventType : FanOut(e)

DsSpec == DsInit /\ [][DsNext]_dsVars

-----------------------------------------------------------------------------
\* "Ordinary updates must not silently reactivate a disabled service"
\* (initializeServiceIdentity): once disabled, a service stays disabled.
DisabledStaysDisabled ==
    [][\A s \in ServiceID : \A old \in services[s] : \A new \in services'[s] :
         ~old.active => ~new.active]_dsVars

\* What the code does guarantee: only an update that read the flag before it was
\* cleared, by the deletion or by another update, turns it on again.
RaceStep ==
    \A s \in ServiceID : \A old \in services[s] : \A new \in services'[s] :
        ~old.active /\ new.active
          => \E r \in DsRequest : /\ dsCall[r].step = "save service" /\ SavedItem(r).id = s
                                 /\ dsCall[r].late /\ dsCall'[r] = NoDsCall

ReactivatedByRaceOnly == [][RaceStep]_dsVars

\* No subscription outlives its domain in PostgreSQL.  In MongoDB one does only
\* when a deletion did not finish, or a save of the service overtook it.
SubscriptionsResolve ==
    \A s \in ServiceID : \A row \in services[s] : \A d \in row.subs :
        domains[d] = {} => /\ dsBackend = "mongo"
                           /\ d \in torn \/ \E r \in DsRequest :
                                             dsCall[r].step = "pull" /\ d \in dsCall[r].left

\* A fan-out is complete: it reaches every active subscriber or the event
\* fails.  The query's limit never cuts a list short in silence.
FanOutStep == \A f \in fanOut' : fanOut' # fanOut /\ f.sent = {} => f.to = Matches(f.type)

FanOutIsComplete == [][FanOutStep]_dsVars
=============================================================================
