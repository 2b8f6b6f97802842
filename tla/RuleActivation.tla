---------------------------- MODULE RuleActivation ----------------------------
(***************************************************************************)
(* Activating and deactivating the revisions of one rule set, from the     *)
(* HTTP handlers down to the two stores.  Activate stores the compiled     *)
(* revision and moves the activation row in one transaction, comparing the *)
(* row's version with the one it read; Deactivate deletes the row.         *)
(*                                                                         *)
(* PostgreSQL runs the transaction at READ COMMITTED: a write waits for    *)
(* the uncommitted writer of the same row and then sees what it committed. *)
(* MongoDB reads from the snapshot of the first operation and fails a      *)
(* write to a document that changed since.                                 *)
(***************************************************************************)
EXTENDS Integers, FiniteSets

CONSTANTS Request,       \* API requests in progress
          Document,      \* rule documents: records [number, content]
          MaxCalls       \* bound: handler calls

VARIABLES
    backend,      \* "postgres" or "mongo"
    revisions,    \* stored revisions: set of documents
    activation,   \* the activation row: {} or {[revision, version, born]}
    call,         \* per request: its step and its locals
    calls,        \* handler calls so far (the bound)
    overtaken     \* history: requests whose read row was deleted before they wrote

actVars == <<backend, revisions, activation, call, calls, overtaken>>

\* A request's locals: the document, the revision row its transaction has
\* inserted, the activation row of its snapshot and the one it has read.
IdleCall == [step |-> "idle", doc |-> CHOOSE d \in Document : TRUE,
         saved |-> {}, row |-> {}, seen |-> {}]

ActInit ==
    /\ backend \in {"postgres", "mongo"}
    /\ revisions = {} /\ activation = {}
    /\ call = [r \in Request |-> IdleCall]
    /\ calls = 0 /\ overtaken = {}

\* A row another open transaction has written and not yet committed.
RowLocked(r) == \E q \in Request \ {r} : call[q].step = "commit"

\* A mistake: two transactions may insert the same revision at once.
KeyNeverLocked(r, n) == FALSE

KeyLocked(r, n) == \E q \in Request \ {r} : \E s \in call[q].saved : s.number = n

Numbers(revs) == {s.number : s \in revs}

Fail(r) == call' = [call EXCEPT ![r] = IdleCall]

\* CreateRevision: a document that names another rule set, has no positive
\* revision or does not compile is refused and changes nothing.
Activate(r, d) ==
    /\ call[r].step = "idle" /\ calls < MaxCalls
    /\ calls' = calls + 1
    /\ overtaken' = overtaken \ {r}
    /\ \/ call' = [call EXCEPT ![r] = [IdleCall EXCEPT !.step = "save", !.doc = d]]
       \/ Fail(r)
    /\ UNCHANGED <<backend, revisions, activation>>

\* Save inside the transaction.  ON CONFLICT DO NOTHING keeps what is stored,
\* after waiting for an uncommitted insert of the same revision.  In MongoDB
\* the duplicate key, which Save ignores, has aborted the transaction, and the
\* call fails at its next operation.
SaveRevision(r) ==
    LET n == call[r].doc.number IN
    /\ call[r].step = "save"
    /\ \/ /\ backend = "postgres" /\ ~KeyLocked(r, n)
          /\ call' = [call EXCEPT ![r].step = "get",
                        ![r].saved = IF n \in Numbers(revisions) THEN {} ELSE {call[r].doc}]
       \/ /\ backend = "mongo" /\ n \notin Numbers(revisions) /\ ~KeyLocked(r, n)
          /\ call' = [call EXCEPT ![r].step = "get", ![r].row = activation,
                        ![r].saved = {call[r].doc}]
       \/ /\ backend = "mongo" /\ (n \in Numbers(revisions) \/ KeyLocked(r, n))
          /\ Fail(r)
    /\ UNCHANGED <<backend, revisions, activation, calls, overtaken>>

\* The activation the compare-and-set starts from.
GetActivation(r) ==
    /\ call[r].step = "get"
    /\ call' = [call EXCEPT ![r].step = "set",
                  ![r].seen = IF backend = "mongo" THEN call[r].row ELSE activation]
    /\ UNCHANGED <<backend, revisions, activation, calls, overtaken>>

expectedVersion(r) == IF call[r].seen = {} THEN 0 ELSE (CHOOSE a \in call[r].seen : TRUE).version

\* A mistake: the upsert replaces the row whatever its version.
SetAny(r) ==
    /\ call[r].step = "set" /\ ~RowLocked(r)
    /\ call' = [call EXCEPT ![r].step = "commit"]
    /\ UNCHANGED <<backend, revisions, activation, calls, overtaken>>

\* SetWithVersion.  PostgreSQL waits for the row's writer, then inserts if
\* there is no row (whatever version was read), updates if the version is the
\* expected one, and otherwise returns no row, which ends the call.  MongoDB
\* fails when another transaction has written, or is writing, the document.
SetWithVersion(r) ==
    /\ call[r].step = "set"
    /\ \/ /\ backend = "postgres" /\ ~RowLocked(r)
          /\ IF \A a \in activation : a.version = expectedVersion(r)
             THEN call' = [call EXCEPT ![r].step = "commit"]
             ELSE Fail(r)
       \/ /\ backend = "mongo"
          /\ IF ~RowLocked(r) /\ activation = call[r].row
             THEN call' = [call EXCEPT ![r].step = "commit"]
             ELSE Fail(r)
    /\ UNCHANGED <<backend, revisions, activation, calls, overtaken>>

\* Commit publishes the revision and the row together, or fails and neither.
Commit(r) ==
    /\ call[r].step = "commit"
    /\ \/ /\ revisions' = revisions \cup call[r].saved
          /\ activation' = {[revision |-> call[r].doc.number, version |-> expectedVersion(r) + 1,
                             born |-> <<calls, r>>]}
       \/ UNCHANGED <<revisions, activation>>
    /\ Fail(r)
    /\ UNCHANGED <<backend, calls, overtaken>>

\* Deactivate: the read decides nothing, the delete waits for the row's writer.
\* The revision in the request's path is not looked at.
Deactivate ==
    /\ calls < MaxCalls /\ \A r \in Request : call[r].step # "commit"
    /\ calls' = calls + 1
    /\ activation' = {}
    /\ overtaken' = IF activation = {} THEN overtaken
                    ELSE overtaken \cup {r \in Request : call[r].step = "set"}
    /\ UNCHANGED <<backend, revisions, call>>

ActNext ==
    \/ \E r \in Request, d \in Document : Activate(r, d)
    \/ \E r \in Request : SaveRevision(r) \/ GetActivation(r) \/ SetWithVersion(r) \/ Commit(r)
    \/ Deactivate

ActSpec == ActInit /\ [][ActNext]_actVars

-----------------------------------------------------------------------------
\* The compare-and-set loses no activation: a call replaces the very row it
\* read, unless a Deactivate removed that row in between.  (Versions start
\* again at 1 after a Deactivate, so PostgreSQL cannot tell the new row from
\* the old one, and inserts where the row is gone.)
SerialisedStep ==
    \A r \in Request :
        activation' # activation /\ call[r].step = "commit" /\ call'[r].step = "idle"
          => activation = call[r].seen \/ r \in overtaken

ActivationsSerialise == [][SerialisedStep]_actVars

\* The activation row always names exactly one stored revision, so a worker
\* that finds the row also finds the compiled rules.
ActiveRevisionIsStored ==
    \A a \in activation : Cardinality({s \in revisions : s.number = a.revision}) = 1
=============================================================================
