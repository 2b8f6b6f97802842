------------------------------- MODULE Quarantine -------------------------------
(***************************************************************************)
(* The quarantine store and its operators: records of failed events and    *)
(* effects are saved by the workers, scoped to a tenant by the backfill    *)
(* that MongoDB runs at start-up, and listed page by page, marked replayed *)
(* and deleted through the HTTP API by the tenant they belong to.          *)
(***************************************************************************)
EXTENDS Integers, Sequences, SequencesExt

CONSTANTS
    RecordID,    \* quarantine ids the workers compute
    sourceType,  \* per id: "event" or "effect"
    authority,   \* per id: the tenant its effect and execution lead to, or Unscoped
    QTenant,
    Unscoped,    \* tenant_id is empty or missing
    Instant,     \* created_at values
    SourceFilter,\* source_type query parameters: a type, or AnySource for none
    PageLimit,   \* the limit query parameter
    MaxOffset    \* the largest offset the handler accepts

VARIABLES
    qtable,    \* the stored records, [id, tenant, at, replayed]
    cursor,    \* ids the backfill has still to visit
    pager,     \* one tenant's client: [tenant, source, offset, seen, stayed, open, tied]
    reshuffled \* a record of the tenant was deleted while the client was paging

quarVars == <<qtable, cursor, pager, reshuffled>>

AnySource == "any"
NoPager == [tenant |-> Unscoped, source |-> AnySource, offset |-> 0,
            seen |-> {}, stayed |-> {}, open |-> FALSE, tied |-> FALSE]

QuarInit ==
    /\ qtable = {} /\ cursor = {} /\ pager = NoPager /\ reshuffled = FALSE

IDs(S) == {e.id : e \in S}
Row(t, id) == {e \in qtable : e.id = id /\ e.tenant = t}

-----------------------------------------------------------------------------
\* The store.

\* A record is inserted unless its id is there.  Malformed deliveries, and effects
\* written before the outbox kept tenants, have no tenant.
SaveRecord(id, t, at) ==
    /\ id \notin IDs(qtable)
    /\ t \in {authority[id], Unscoped}
    /\ qtable' = qtable \cup {[id |-> id, tenant |-> t, at |-> at, replayed |-> FALSE]}
    /\ cursor' \in {cursor, cursor \cup IF cursor # {} /\ t = Unscoped /\ sourceType[id] = "effect"
                                        THEN {id} ELSE {}}
    /\ UNCHANGED <<pager, reshuffled>>

\* The table with a tenant's record marked, and without it.
Replay(t, id) == (qtable \ Row(t, id)) \cup {[e EXCEPT !.replayed = TRUE] : e \in Row(t, id)}
Delete(t, id) == qtable \ Row(t, id)

\* Both handlers answer "not found" when the tenant has no such record.
ReplayQuarantine(t, id) ==
    /\ Row(t, id) # {}
    /\ qtable' = Replay(t, id)
    /\ UNCHANGED <<cursor, pager, reshuffled>>

DeleteQuarantine(t, id) ==
    /\ Row(t, id) # {}
    /\ qtable' = Delete(t, id)
    /\ pager' = [pager EXCEPT !.stayed = @ \ {id}]
    /\ reshuffled' = (reshuffled \/ (pager.open /\ t = pager.tenant))
    /\ UNCHANGED cursor

\* MongoDB only; PostgreSQL's runs are those in which it never starts.
BackfillEffectTenantIDs ==
    LET found == {e.id : e \in {x \in qtable : x.tenant = Unscoped /\ sourceType[x.id] = "effect"}} IN
    /\ cursor = {} /\ found # {}
    /\ cursor' = found
    /\ UNCHANGED <<qtable, pager, reshuffled>>

\* One record of the backfill: without its effect, its execution or the tenant of
\* that, it is passed over; the update matches only a record still unscoped.
BackfillOne(id) ==
    /\ id \in cursor
    /\ cursor' = cursor \ {id}
    /\ qtable' = {IF e.id = id /\ e.tenant = Unscoped THEN [e EXCEPT !.tenant = authority[id]] ELSE e :
                  e \in qtable}
    /\ UNCHANGED <<pager, reshuffled>>

\* An error ends the backfill, and the start-up with it.
BackfillFails ==
    /\ cursor # {} /\ cursor' = {}
    /\ UNCHANGED <<qtable, pager, reshuffled>>

-----------------------------------------------------------------------------
\* GET /v1/quarantine.

Selected(p, S) == {e \in S : p.source = AnySource \/ sourceType[e.id] = p.source}
Listing(p) == Selected(p, {e \in qtable : e.tenant = p.tenant})

\* ORDER BY created_at DESC: records of one instant come in any order.
ByCreation(S) == {s \in SetToSeqs(S) : \A i, j \in DOMAIN s : i < j => s[i].at >= s[j].at}
Slice(s, p) == SubSeq(s, p.offset + 1, Min({p.offset + PageLimit, Len(s)}))

\* A mistake: the source filter is applied to the page instead of the table.
FilterPage(p) ==
    {ToSet(Slice(s, p)) \cap Listing(p) : s \in ByCreation({e \in qtable : e.tenant = p.tenant})}
ListPage(p) == {ToSet(Slice(s, p)) : s \in ByCreation(Listing(p))}

StartPaging(t, source) ==
    /\ ~pager.open
    /\ LET p == [NoPager EXCEPT !.tenant = t, !.source = source, !.open = TRUE] IN
       pager' = [p EXCEPT !.stayed = IDs(Listing(p))]
    /\ reshuffled' = FALSE
    /\ UNCHANGED <<qtable, cursor>>

Tied(S) == \E e, f \in S : e # f /\ e.at = f.at

\* Offsets past the handler's limit are refused.
parsePagination(p) == p.offset <= MaxOffset

\* The client asks for the next page until one is short.
ListQuarantine ==
    /\ pager.open /\ parsePagination(pager)
    /\ \E page \in ListPage(pager) :
         pager' = [pager EXCEPT !.offset = @ + Cardinality(page),
                                !.seen = @ \cup IDs(page),
                                !.open = Cardinality(page) = PageLimit,
                                !.tied = @ \/ Tied(Listing(pager))]
    /\ UNCHANGED <<qtable, cursor, reshuffled>>

QuarNext ==
    \/ \E id \in RecordID :
         \/ \E t \in QTenant \cup {Unscoped}, at \in Instant : SaveRecord(id, t, at)
         \/ \E t \in QTenant : ReplayQuarantine(t, id) \/ DeleteQuarantine(t, id)
         \/ BackfillOne(id)
    \/ BackfillEffectTenantIDs \/ BackfillFails
    \/ \E t \in QTenant, source \in SourceFilter : StartPaging(t, source)
    \/ ListQuarantine

QuarSpec == QuarInit /\ [][QuarNext]_quarVars

-----------------------------------------------------------------------------
\* Paging by offset while records are saved, backfilled and deleted: a client that
\* reads up to a short page has seen every record that was listed throughout,
\* unless a record of its tenant was deleted meanwhile or two records share their
\* created_at.  In those two cases the offset may skip a record; saving, replaying
\* and backfilling records never makes it skip one.
PagedListingIsComplete ==
    ~pager.open /\ ~reshuffled /\ ~pager.tied => pager.stayed \subseteq pager.seen
=============================================================================
