----------------------------- MODULE EngineProofs -----------------------------
(***************************************************************************)
(* Proofs about the activation of rules, the workflow instances and the    *)
(* shard consumers, for any number of requests, documents, rows and calls, *)
(* and for any workers, shards, rule sets and batch size.                  *)
(***************************************************************************)
EXTENDS RuleActivation, Workflow, ShardConsumers, FiniteSetTheorems, TLAPS

-----------------------------------------------------------------------------
ActivationRow == [revision : Numbers(Document), version : Nat, born : Nat \X Request]

Busy == [step : {"save", "get", "set", "commit"}, doc : Document,
         saved : SUBSET Document, row : SUBSET ActivationRow, seen : SUBSET ActivationRow]

AtMostOne(S) == \A a, b \in S : a = b

ActTypeOK ==
    /\ backend \in {"postgres", "mongo"}
    /\ revisions \subseteq Document
    /\ activation \subseteq ActivationRow /\ AtMostOne(activation)
    /\ call \in [Request -> Busy \cup {IdleCall}]
    /\ \A r \in Request : AtMostOne(call[r].seen) /\ AtMostOne(call[r].row)
    /\ calls \in Nat

\* Stored revisions have different numbers, and so have the uncommitted ones.
RevisionsUnique ==
    /\ \A s, t \in revisions : s.number = t.number => s = t
    /\ \A r \in Request : \A s \in call[r].saved :
          s = call[r].doc /\ s.number \notin Numbers(revisions)
    /\ \A r, q \in Request : r # q =>
          \A s \in call[r].saved, t \in call[q].saved : s.number # t.number

\* What a request is about to activate is stored, or will be with its commit.
TargetsExist ==
    \A r \in Request : call[r].step \in {"get", "set", "commit"} =>
        call[r].doc.number \in Numbers(revisions) \/ call[r].doc \in call[r].saved

ActiveExists == \A a \in activation : a.revision \in Numbers(revisions)

StoreInv == ActTypeOK /\ RevisionsUnique /\ TargetsExist /\ ActiveExists

-----------------------------------------------------------------------------
LEMMA IdleFields == /\ IdleCall.step = "idle" /\ IdleCall.saved = {} /\ IdleCall.row = {} /\ IdleCall.seen = {}
BY Zenon DEF IdleCall

LEMMA InitStore == ActInit => StoreInv
BY IdleFields DEF ActInit, StoreInv, ActTypeOK, RevisionsUnique, TargetsExist, ActiveExists, AtMostOne

\* A request that ends, in whatever way, leaves nothing behind.
LEMMA FailStore ==
  ASSUME StoreInv, NEW r \in Request, Fail(r), calls' \in Nat,
         UNCHANGED <<backend, revisions, activation>>
  PROVE  StoreInv'
<1>1. \A q \in Request : call'[q] = IF q = r THEN IdleCall ELSE call[q]
  BY Zenon DEF Fail, StoreInv, ActTypeOK
<1>2. ActTypeOK'
  BY <1>1, IdleFields DEF Fail, StoreInv, ActTypeOK, AtMostOne
<1>3. RevisionsUnique'
  BY <1>1, IdleFields DEF StoreInv, RevisionsUnique
<1>4. TargetsExist' /\ ActiveExists'
  BY Zenon, <1>1, IdleFields DEF StoreInv, TargetsExist, ActiveExists
<1> QED
  BY Zenon, <1>2, <1>3, <1>4 DEF StoreInv

LEMMA ActivateStore ==
  ASSUME StoreInv, NEW r \in Request, NEW d \in Document, Activate(r, d)
  PROVE  StoreInv'
<1> DEFINE c == [IdleCall EXCEPT !.step = "save", !.doc = d]
<1>1. c \in Busy /\ c.step = "save" /\ c.saved = {} /\ c.row = {} /\ c.seen = {}
  BY Zenon DEF IdleCall, Busy
<1>2. UNCHANGED <<backend, revisions, activation>> /\ calls' \in Nat
  BY DEF Activate, StoreInv, ActTypeOK
<1>3. CASE Fail(r)
  BY Zenon, <1>2, <1>3, FailStore
<1>4. CASE call' = [call EXCEPT ![r] = c]
  <2> HIDE DEF c
  <2>1. \A q \in Request : call'[q] = IF q = r THEN c ELSE call[q]
    BY Zenon, <1>4 DEF StoreInv, ActTypeOK
  <2>2. ActTypeOK'
    BY <1>1, <1>2, <1>4, <2>1 DEF StoreInv, ActTypeOK, AtMostOne
  <2>3. RevisionsUnique'
    BY <1>1, <1>2, <2>1 DEF StoreInv, RevisionsUnique
  <2>4. TargetsExist' /\ ActiveExists'
    BY Zenon, <1>1, <1>2, <2>1 DEF StoreInv, TargetsExist, ActiveExists
  <2> QED
    BY Zenon, <2>2, <2>3, <2>4 DEF StoreInv
<1> QED
  BY Zenon, <1>3, <1>4 DEF Activate

\* A request moves to its next step with new locals, and changes no table.
LEMMA MoveStore ==
  ASSUME StoreInv, NEW r \in Request, NEW c \in Busy,
         call' = [call EXCEPT ![r] = c], UNCHANGED <<backend, revisions, activation, calls>>,
         AtMostOne(c.seen), AtMostOne(c.row),
         \A s \in c.saved : s = c.doc /\ s.number \notin Numbers(revisions),
         \A q \in Request \ {r} : \A s \in c.saved, t \in call[q].saved : s.number # t.number,
         c.step # "save" => c.doc.number \in Numbers(revisions) \/ c.doc \in c.saved
  PROVE  StoreInv'
<1>1. \A q \in Request : call'[q] = IF q = r THEN c ELSE call[q]
  BY Zenon DEF StoreInv, ActTypeOK
<1>2. ActTypeOK'
  BY Zenon, <1>1 DEF StoreInv, ActTypeOK
<1>3. RevisionsUnique'
  <2>1. \A q \in Request : \A s \in call'[q].saved :
           s = call'[q].doc /\ s.number \notin Numbers(revisions')
    BY <1>1 DEF StoreInv, RevisionsUnique
  <2>2. ASSUME NEW q \in Request, NEW v \in Request, q # v,
               NEW s \in call'[q].saved, NEW t \in call'[v].saved
        PROVE  s.number # t.number
    <3>1. CASE q = r
      BY <1>1, <2>2, <3>1
    <3>2. CASE v = r
      BY <1>1, <2>2, <3>2
    <3>3. CASE q # r /\ v # r
      BY <1>1, <2>2, <3>3 DEF StoreInv, RevisionsUnique
    <3> QED
      BY Zenon, <3>1, <3>2, <3>3
  <2> QED
    BY Zenon, <2>1, <2>2 DEF StoreInv, RevisionsUnique
<1>4. TargetsExist' /\ ActiveExists'
  BY <1>1 DEF StoreInv, TargetsExist, ActiveExists, Busy
<1> QED
  BY Zenon, <1>2, <1>3, <1>4 DEF StoreInv

\* Save waits for an uncommitted insert of the number, or the call fails.
LEMMA SaveStore ==
  ASSUME StoreInv, NEW r \in Request, SaveRevision(r)
  PROVE  StoreInv'
<1> DEFINE n == call[r].doc.number
<1>0. UNCHANGED <<backend, revisions, activation, calls>> /\ calls' \in Nat
  BY Zenon DEF SaveRevision, StoreInv, ActTypeOK
<1>1. call[r] \in Busy
  BY Zenon, IdleFields DEF SaveRevision, StoreInv, ActTypeOK
<1>2. CASE Fail(r)
  BY Zenon, <1>0, <1>2, FailStore
<1>3. ASSUME NEW saved \in SUBSET Document, NEW row \in SUBSET ActivationRow, AtMostOne(row),
             ~KeyLocked(r, n),
             saved = IF n \in Numbers(revisions) THEN {} ELSE {call[r].doc},
             call' = [call EXCEPT ![r] = [call[r] EXCEPT !.step = "get", !.row = row, !.saved = saved]]
      PROVE  StoreInv'
  <2> DEFINE c == [call[r] EXCEPT !.step = "get", !.row = row, !.saved = saved]
  <2>1. /\ c \in Busy /\ c.step = "get" /\ c.doc = call[r].doc /\ c.saved = saved
        /\ c.row = row /\ c.seen = call[r].seen
    BY Zenon, <1>1 DEF Busy
  <2>2. \A q \in Request \ {r} : \A s \in saved, t \in call[q].saved : s.number # t.number
    BY Zenon, <1>3 DEF KeyLocked
  <2>3. AtMostOne(c.seen) /\ AtMostOne(c.row)
    BY Zenon, <1>3, <2>1 DEF StoreInv, ActTypeOK
  <2>4. call' = [call EXCEPT ![r] = c]
    BY Zenon, <1>3
  <2> HIDE DEF c
  <2>5. \A s \in c.saved : s = c.doc /\ s.number \notin Numbers(revisions)
    BY Zenon, <1>3, <2>1
  <2>6. c.doc.number \in Numbers(revisions) \/ c.doc \in c.saved
    BY Zenon, <1>3, <2>1
  <2> QED
    BY Zenon, <1>0, <2>1, <2>2, <2>3, <2>4, <2>5, <2>6, MoveStore
<1>4. CASE /\ backend = "postgres" /\ ~KeyLocked(r, n)
           /\ call' = [call EXCEPT ![r].step = "get",
                         ![r].saved = IF n \in Numbers(revisions) THEN {} ELSE {call[r].doc}]
  <2> DEFINE saved == IF n \in Numbers(revisions) THEN {} ELSE {call[r].doc}
  <2>1. saved \in SUBSET Document /\ call[r].row \in SUBSET ActivationRow /\ AtMostOne(call[r].row)
    BY Zenon, <1>1 DEF Busy, StoreInv, ActTypeOK
  <2>2. call' = [call EXCEPT ![r] = [call[r] EXCEPT !.step = "get", !.row = call[r].row, !.saved = saved]]
    BY Zenon, <1>1, <1>4 DEF Busy
  <2> QED
    BY Zenon, <1>3, <1>4, <2>1, <2>2
<1>5. CASE /\ n \notin Numbers(revisions) /\ ~KeyLocked(r, n)
           /\ call' = [call EXCEPT ![r].step = "get", ![r].row = activation,
                         ![r].saved = {call[r].doc}]
  <2>1. {call[r].doc} \in SUBSET Document /\ activation \in SUBSET ActivationRow /\ AtMostOne(activation)
    BY Zenon, <1>1 DEF Busy, StoreInv, ActTypeOK
  <2>2. call' = [call EXCEPT ![r] = [call[r] EXCEPT !.step = "get", !.row = activation,
                                                    !.saved = {call[r].doc}]]
    BY Zenon, <1>1, <1>5 DEF Busy
  <2> QED
    BY Zenon, <1>3, <1>5, <2>1, <2>2
<1> QED
  BY Zenon, <1>2, <1>4, <1>5 DEF SaveRevision

LEMMA GetStore ==
  ASSUME StoreInv, NEW r \in Request, GetActivation(r)
  PROVE  StoreInv'
<1> DEFINE seen == IF backend = "mongo" THEN call[r].row ELSE activation
           c == [call[r] EXCEPT !.step = "set", !.seen = seen]
<1>0. UNCHANGED <<backend, revisions, activation, calls>>
  BY Zenon DEF GetActivation
<1>1. call[r] \in Busy /\ call[r].step = "get"
  BY Zenon, IdleFields DEF GetActivation, StoreInv, ActTypeOK
<1>2. seen \in SUBSET ActivationRow /\ AtMostOne(seen)
  BY Zenon, <1>1 DEF Busy, StoreInv, ActTypeOK
<1>3. call' = [call EXCEPT ![r] = c]
  BY Zenon DEF GetActivation
<1> HIDE DEF seen
<1>4. /\ c \in Busy /\ c.step = "set" /\ c.doc = call[r].doc /\ c.saved = call[r].saved
      /\ c.row = call[r].row /\ c.seen = seen
  BY Zenon, <1>1, <1>2 DEF Busy
<1> HIDE DEF c
<1>5. AtMostOne(c.seen) /\ AtMostOne(c.row)
  BY Zenon, <1>2, <1>4 DEF StoreInv, ActTypeOK
<1>6. \A s \in c.saved : s = c.doc /\ s.number \notin Numbers(revisions)
  BY Zenon, <1>4 DEF StoreInv, RevisionsUnique
<1>7. \A q \in Request \ {r} : \A s \in c.saved, t \in call[q].saved : s.number # t.number
  BY <1>4 DEF StoreInv, RevisionsUnique
<1>8. c.doc.number \in Numbers(revisions) \/ c.doc \in c.saved
  BY Zenon, <1>1, <1>4 DEF StoreInv, TargetsExist
<1> QED
  BY Zenon, <1>0, <1>3, <1>4, <1>5, <1>6, <1>7, <1>8, MoveStore

LEMMA SetStore ==
  ASSUME StoreInv, NEW r \in Request, SetWithVersion(r)
  PROVE  StoreInv'
<1> DEFINE c == [call[r] EXCEPT !.step = "commit"]
<1>0. UNCHANGED <<backend, revisions, activation, calls>> /\ calls' \in Nat
  BY Zenon DEF SetWithVersion, StoreInv, ActTypeOK
<1>1. call[r] \in Busy /\ call[r].step = "set"
  BY Zenon, IdleFields DEF SetWithVersion, StoreInv, ActTypeOK
<1>2. CASE Fail(r)
  BY Zenon, <1>0, <1>2, FailStore
<1>3. CASE call' = [call EXCEPT ![r].step = "commit"]
  <2>1. call' = [call EXCEPT ![r] = c]
    BY Zenon, <1>3
  <2>2. /\ c \in Busy /\ c.step = "commit" /\ c.doc = call[r].doc /\ c.saved = call[r].saved
        /\ c.row = call[r].row /\ c.seen = call[r].seen
    BY Zenon, <1>1 DEF Busy
  <2> HIDE DEF c
  <2>3. AtMostOne(c.seen) /\ AtMostOne(c.row)
    BY Zenon, <2>2 DEF StoreInv, ActTypeOK
  <2>4. \A s \in c.saved : s = c.doc /\ s.number \notin Numbers(revisions)
    BY Zenon, <2>2 DEF StoreInv, RevisionsUnique
  <2>5. \A q \in Request \ {r} : \A s \in c.saved, t \in call[q].saved : s.number # t.number
    BY <2>2 DEF StoreInv, RevisionsUnique
  <2>6. c.doc.number \in Numbers(revisions) \/ c.doc \in c.saved
    BY Zenon, <1>1, <2>2 DEF StoreInv, TargetsExist
  <2> QED
    BY Zenon, <1>0, <2>1, <2>2, <2>3, <2>4, <2>5, <2>6, MoveStore
<1> QED
  BY Zenon, <1>2, <1>3 DEF SetWithVersion

\* The version a request expects is the one of the row it has read, or 0.
Version(rows) == IF rows = {} THEN 0 ELSE (CHOOSE a \in rows : TRUE).version

LEMMA VersionOf ==
  ASSUME NEW rows \in SUBSET ActivationRow, AtMostOne(rows)
  PROVE  /\ Version(rows) \in Nat
         /\ rows = {} => Version(rows) = 0
         /\ \A a \in rows : Version(rows) = a.version
<1>1. CASE rows = {}
  BY Zenon, <1>1 DEF Version
<1>2. CASE rows # {}
  <2>1. PICK a \in rows : TRUE
    BY Zenon, <1>2
  <2>2. (CHOOSE b \in rows : TRUE) = a
    BY Zenon, <2>1 DEF AtMostOne
  <2>3. Version(rows) = a.version /\ a.version \in Nat
    BY Zenon, <1>2, <2>2 DEF Version, ActivationRow
  <2> QED
    BY Zenon, <1>2, <2>1, <2>3 DEF AtMostOne
<1> QED
  BY Zenon, <1>1, <1>2

LEMMA Expected == \A r \in Request : expectedVersion(r) = Version(call[r].seen)
BY Zenon DEF expectedVersion, Version

LEMMA Successor == \A n \in Nat : n + 1 \in Nat /\ n + 1 > n /\ n + 1 # n
OBVIOUS

\* Revision and activation row become visible together.
LEMMA CommitStore ==
  ASSUME StoreInv, NEW r \in Request, Commit(r)
  PROVE  StoreInv'
<1>0. UNCHANGED <<backend, calls>> /\ calls' \in Nat /\ Fail(r)
  BY Zenon DEF Commit, StoreInv, ActTypeOK
<1>1. call[r] \in Busy /\ call[r].step = "commit"
  BY Zenon, IdleFields DEF Commit, StoreInv, ActTypeOK
<1>2. CASE UNCHANGED <<revisions, activation>>
  BY Zenon, <1>0, <1>2, FailStore
<1>3. CASE /\ revisions' = revisions \cup call[r].saved
           /\ activation' = {[revision |-> call[r].doc.number, version |-> expectedVersion(r) + 1,
                              born |-> <<calls, r>>]}
  <2> DEFINE a == [revision |-> call[r].doc.number, version |-> expectedVersion(r) + 1,
                   born |-> <<calls, r>>]
  <2>1. \A q \in Request : call'[q] = IF q = r THEN IdleCall ELSE call[q]
    BY Zenon, <1>0 DEF Fail, StoreInv, ActTypeOK
  <2>2. call[r].doc \in Document /\ call[r].saved \subseteq Document
    BY Zenon, <1>1 DEF Busy
  <2>3. a \in ActivationRow /\ a.revision = call[r].doc.number
    <3>1. call[r].doc.number \in Numbers(Document)
      BY Zenon, <2>2 DEF Numbers
    <3>2. expectedVersion(r) + 1 \in Nat
      BY Zenon, <1>1, VersionOf, Expected, Successor DEF Busy, StoreInv, ActTypeOK
    <3>3. <<calls, r>> \in Nat \X Request
      BY Zenon DEF StoreInv, ActTypeOK
    <3> QED
      BY Zenon, <3>1, <3>2, <3>3 DEF ActivationRow
  <2> HIDE DEF a
  <2>4. activation' = {a}
    BY Zenon, <1>3 DEF a
  <2>5. ActTypeOK'
    <3>1. call' \in [Request -> Busy \cup {IdleCall}]
      BY Zenon, <1>0 DEF Fail, StoreInv, ActTypeOK
    <3>2. revisions' \subseteq Document /\ activation' \subseteq ActivationRow /\ AtMostOne(activation')
      BY Zenon, <1>3, <2>2, <2>3, <2>4 DEF StoreInv, ActTypeOK, AtMostOne
    <3>3. \A q \in Request : AtMostOne(call'[q].seen) /\ AtMostOne(call'[q].row)
      BY <2>1, IdleFields DEF StoreInv, ActTypeOK, AtMostOne
    <3> QED
      BY Zenon, <1>0, <3>1, <3>2, <3>3 DEF StoreInv, ActTypeOK
  <2>6. Numbers(revisions') = Numbers(revisions) \cup Numbers(call[r].saved)
    BY Zenon, <1>3 DEF Numbers
  <2>7. RevisionsUnique'
    <3>1. ASSUME NEW s \in revisions', NEW t \in revisions', s.number = t.number
          PROVE  s = t
      BY <1>3, <3>1 DEF StoreInv, RevisionsUnique, Numbers
    <3>2. ASSUME NEW q \in Request, NEW s \in call'[q].saved
          PROVE  s = call'[q].doc /\ s.number \notin Numbers(revisions')
      <4>1. q # r /\ s \in call[q].saved /\ call'[q] = call[q]
        BY Zenon, <2>1, <3>2, IdleFields
      <4>2. s = call[q].doc /\ s.number \notin Numbers(revisions)
        BY Zenon, <4>1 DEF StoreInv, RevisionsUnique
      <4>3. s.number \notin Numbers(call[r].saved)
        BY Zenon, <4>1 DEF StoreInv, RevisionsUnique, Numbers
      <4> QED
        BY Zenon, <2>6, <4>1, <4>2, <4>3
    <3>3. ASSUME NEW q \in Request, NEW v \in Request, q # v,
                 NEW s \in call'[q].saved, NEW t \in call'[v].saved
          PROVE  s.number # t.number
      BY <2>1, <3>3, IdleFields DEF StoreInv, RevisionsUnique
    <3> QED
      BY Zenon, <3>1, <3>2, <3>3 DEF RevisionsUnique
  <2>8. TargetsExist'
    BY Zenon, <2>1, <2>6, IdleFields DEF StoreInv, TargetsExist
  <2>9. ActiveExists'
    <3>1. call[r].doc.number \in Numbers(revisions')
      BY Zenon, <1>1, <2>6 DEF StoreInv, TargetsExist, Numbers
    <3> QED
      BY Zenon, <2>3, <2>4, <3>1 DEF ActiveExists
  <2> QED
    BY Zenon, <2>5, <2>7, <2>8, <2>9 DEF StoreInv
<1> QED
  BY Zenon, <1>2, <1>3 DEF Commit

LEMMA DeactivateStore == StoreInv /\ Deactivate => StoreInv'
<1> SUFFICES ASSUME StoreInv, Deactivate PROVE StoreInv'
  BY Zenon
<1>1. calls' \in Nat
  BY DEF Deactivate, StoreInv, ActTypeOK
<1> QED
  BY <1>1 DEF Deactivate, StoreInv, ActTypeOK, AtMostOne, RevisionsUnique, TargetsExist, ActiveExists

LEMMA StepStore == StoreInv /\ [ActNext]_actVars => StoreInv'
<1> SUFFICES ASSUME StoreInv, [ActNext]_actVars PROVE StoreInv'
  BY Zenon
<1>1. CASE UNCHANGED actVars
  BY <1>1 DEF actVars, StoreInv, ActTypeOK, RevisionsUnique, TargetsExist, ActiveExists
<1>2. CASE ActNext
  BY Zenon, <1>2, ActivateStore, SaveStore, GetStore, SetStore, CommitStore, DeactivateStore DEF ActNext
<1> QED
  BY Zenon, <1>1, <1>2

\* The activation row names exactly one stored revision, on both stores, however
\* activations and deactivations interleave and whichever commits fail.
THEOREM ActiveIsStored == ActSpec => []ActiveRevisionIsStored
<1>1. StoreInv => ActiveRevisionIsStored
  <2> SUFFICES ASSUME StoreInv, NEW a \in activation
               PROVE  Cardinality({s \in revisions : s.number = a.revision}) = 1
    BY Zenon DEF ActiveRevisionIsStored
  <2>1. PICK t \in revisions : t.number = a.revision
    BY Zenon DEF StoreInv, ActiveExists, Numbers
  <2>2. {s \in revisions : s.number = a.revision} = {t}
    BY Zenon, <2>1 DEF StoreInv, RevisionsUnique
  <2> QED
    BY Zenon, <2>2, FS_Singleton
<1> QED
  BY <1>1, InitStore, StepStore, PTL DEF ActSpec

-----------------------------------------------------------------------------
(* Activations serialise.                                                  *)

\* One transaction at a time has written the row; it found the version it
\* expected and, unless it was overtaken, the very row it had read.
OneWriter ==
    /\ \A r, q \in Request : call[r].step = "commit" /\ call[q].step = "commit" => r = q
    /\ \A r \in Request : call[r].step = "commit" =>
          /\ \A a \in activation : a.version = Version(call[r].seen)
          /\ r \in overtaken \/ activation = call[r].seen

\* PostgreSQL: what was read is the row, or the row has a newer version.
ReadIsOld ==
    \A r \in Request : backend = "postgres" /\ call[r].step = "set" =>
        \/ r \in overtaken
        \/ activation = call[r].seen
        \/ \E a \in activation : a.version > Version(call[r].seen)

\* MongoDB: what was read is the snapshot.
ReadIsSnapshot ==
    \A r \in Request : backend = "mongo" /\ call[r].step = "set" => call[r].seen = call[r].row

OrderInv == OneWriter /\ ReadIsOld /\ ReadIsSnapshot

LEMMA InitOrder == ActInit => OrderInv
BY Zenon, IdleFields DEF ActInit, OrderInv, OneWriter, ReadIsOld, ReadIsSnapshot

\* A request that is not between its read and its commit knows nothing.
LEMMA MoveOrder ==
  ASSUME OrderInv, NEW r \in Request, \A q \in Request \ {r} : call'[q] = call[q],
         call'[r].step \in {"idle", "save", "get"}, UNCHANGED <<backend, activation>>,
         \A q \in Request \ {r} : q \in overtaken => q \in overtaken'
  PROVE  OrderInv'
<1>1. OneWriter'
  BY DEF OrderInv, OneWriter
<1>2. ReadIsOld'
  BY Zenon DEF OrderInv, ReadIsOld
<1>3. ReadIsSnapshot'
  BY Zenon DEF OrderInv, ReadIsSnapshot
<1> QED
  BY Zenon, <1>1, <1>2, <1>3 DEF OrderInv

LEMMA FailOrder ==
  ASSUME StoreInv, OrderInv, NEW r \in Request, Fail(r), UNCHANGED <<backend, activation>>,
         \A q \in Request \ {r} : q \in overtaken => q \in overtaken'
  PROVE  OrderInv'
<1>1. call'[r] = IdleCall /\ \A q \in Request \ {r} : call'[q] = call[q]
  BY Zenon DEF Fail, StoreInv, ActTypeOK
<1> QED
  BY Zenon, <1>1, MoveOrder, IdleFields

LEMMA ActivateOrder ==
  ASSUME StoreInv, OrderInv, NEW r \in Request, NEW d \in Document, Activate(r, d)
  PROVE  OrderInv'
<1> DEFINE c == [IdleCall EXCEPT !.step = "save", !.doc = d]
<1>1. c.step = "save"
  BY Zenon DEF IdleCall
<1>2. UNCHANGED <<backend, activation>> /\ \A q \in Request \ {r} : q \in overtaken => q \in overtaken'
  BY Zenon DEF Activate
<1>3. CASE Fail(r)
  BY Zenon, <1>2, <1>3, FailOrder
<1>4. CASE call' = [call EXCEPT ![r] = c]
  <2> HIDE DEF c
  <2>1. call'[r] = c /\ \A q \in Request \ {r} : call'[q] = call[q]
    BY Zenon, <1>4 DEF StoreInv, ActTypeOK
  <2> QED
    BY Zenon, <1>1, <1>2, <2>1, MoveOrder
<1> QED
  BY Zenon, <1>3, <1>4 DEF Activate

LEMMA SaveOrder ==
  ASSUME StoreInv, OrderInv, NEW r \in Request, SaveRevision(r)
  PROVE  OrderInv'
<1>0. UNCHANGED <<backend, activation, overtaken>>
  BY Zenon DEF SaveRevision
<1>1. call[r] \in Busy
  BY Zenon, IdleFields DEF SaveRevision, StoreInv, ActTypeOK
<1>2. CASE Fail(r)
  BY Zenon, <1>0, <1>2, FailOrder
<1>3. CASE ~Fail(r)
  <2>1. call'[r].step = "get" /\ \A q \in Request \ {r} : call'[q] = call[q]
    BY <1>1, <1>3 DEF SaveRevision, StoreInv, ActTypeOK, Busy
  <2> QED
    BY Zenon, <1>0, <2>1, MoveOrder
<1> QED
  BY Zenon, <1>2, <1>3

\* PostgreSQL reads the row, MongoDB the snapshot of the transaction.
LEMMA GetOrder ==
  ASSUME StoreInv, OrderInv, NEW r \in Request, GetActivation(r)
  PROVE  OrderInv'
<1>0. UNCHANGED <<backend, activation, overtaken>>
  BY Zenon DEF GetActivation
<1>1. call[r] \in Busy
  BY Zenon, IdleFields DEF GetActivation, StoreInv, ActTypeOK
<1>2. /\ call'[r].step = "set" /\ call'[r].row = call[r].row
      /\ call'[r].seen = IF backend = "mongo" THEN call[r].row ELSE activation
      /\ \A q \in Request \ {r} : call'[q] = call[q]
  BY Zenon, <1>1 DEF GetActivation, StoreInv, ActTypeOK, Busy
<1>3. OneWriter'
  BY <1>0, <1>2 DEF OrderInv, OneWriter
<1>4. ReadIsOld'
  BY Zenon, <1>0, <1>2 DEF OrderInv, ReadIsOld
<1>5. ReadIsSnapshot'
  BY Zenon, <1>0, <1>2 DEF OrderInv, ReadIsSnapshot
<1> QED
  BY Zenon, <1>3, <1>4, <1>5 DEF OrderInv

\* A request that gets past SetWithVersion has read the current row.
LEMMA SetOrder ==
  ASSUME StoreInv, OrderInv, NEW r \in Request, SetWithVersion(r)
  PROVE  OrderInv'
<1>0. UNCHANGED <<backend, activation, overtaken>>
  BY Zenon DEF SetWithVersion
<1>1. call[r] \in Busy /\ call[r].step = "set"
  BY Zenon, IdleFields DEF SetWithVersion, StoreInv, ActTypeOK
<1>2. CASE Fail(r)
  BY Zenon, <1>0, <1>2, FailOrder
<1>3. CASE ~Fail(r)
  <2>1. call' = [call EXCEPT ![r].step = "commit"] /\ ~RowLocked(r)
    BY Zenon, <1>3 DEF SetWithVersion
  <2>2. /\ call'[r].step = "commit" /\ call'[r].seen = call[r].seen
        /\ \A q \in Request \ {r} : call'[q] = call[q]
    BY Zenon, <1>1, <2>1 DEF StoreInv, ActTypeOK, Busy
  <2>3. call[r].seen \in SUBSET ActivationRow /\ AtMostOne(call[r].seen) /\ activation \subseteq ActivationRow
    BY Zenon, <1>1 DEF StoreInv, ActTypeOK, Busy
  <2>4. /\ \A a \in activation : a.version = Version(call[r].seen)
        /\ r \in overtaken \/ activation = call[r].seen
    <3>1. backend \in {"postgres", "mongo"}
      BY Zenon DEF StoreInv, ActTypeOK
    <3>2. CASE backend = "postgres"
      <4>1. \A a \in activation : a.version = Version(call[r].seen)
        BY Zenon, <1>3, <3>2, Expected DEF SetWithVersion
      <4>2. ~\E a \in activation : a.version > Version(call[r].seen)
        BY <2>3, <4>1, VersionOf
      <4> QED
        BY Zenon, <1>1, <3>2, <4>1, <4>2 DEF OrderInv, ReadIsOld
    <3>3. CASE backend = "mongo"
      <4>1. activation = call[r].seen
        BY Zenon, <1>1, <1>3, <3>3 DEF SetWithVersion, OrderInv, ReadIsSnapshot
      <4> QED
        BY Zenon, <2>3, <4>1, VersionOf
    <3> QED
      BY Zenon, <3>1, <3>2, <3>3
  <2>5. OneWriter'
    BY <1>0, <2>1, <2>2, <2>4 DEF OrderInv, OneWriter, RowLocked
  <2>6. ReadIsOld' /\ ReadIsSnapshot'
    BY Zenon, <1>0, <2>2 DEF OrderInv, ReadIsOld, ReadIsSnapshot
  <2> QED
    BY Zenon, <2>5, <2>6 DEF OrderInv
<1> QED
  BY Zenon, <1>2, <1>3

\* A commit makes the row newer than what any other request has read.
LEMMA CommitOrder ==
  ASSUME StoreInv, OrderInv, NEW r \in Request, Commit(r)
  PROVE  OrderInv'
<1>0. UNCHANGED <<backend, overtaken>> /\ Fail(r) /\ call[r].step = "commit"
  BY Zenon DEF Commit
<1>1. call'[r] = IdleCall /\ \A q \in Request \ {r} : call'[q] = call[q]
  BY Zenon, <1>0 DEF Fail, StoreInv, ActTypeOK
<1>2. CASE UNCHANGED activation
  BY Zenon, <1>0, <1>2, FailOrder
<1>3. CASE ~UNCHANGED activation
  <2> DEFINE v == Version(call[r].seen)
  <2>1. PICK new : activation' = {new} /\ new.version = v + 1
    <3> DEFINE row == [revision |-> call[r].doc.number, version |-> expectedVersion(r) + 1,
                       born |-> <<calls, r>>]
    <3>1. activation' = {row} /\ row.version = v + 1
      BY Zenon, <1>3, Expected DEF Commit
    <3> QED
      BY Zenon, <3>1
  <2>2. \A a \in activation : a.version = v
    BY Zenon, <1>0 DEF OrderInv, OneWriter
  <2>3. \A q \in Request : call[q].seen \in SUBSET ActivationRow /\ AtMostOne(call[q].seen)
    BY Zenon, IdleFields DEF StoreInv, ActTypeOK, Busy
  <2>4. v \in Nat /\ v + 1 \in Nat /\ v + 1 > v
    BY Zenon, <2>3, VersionOf, Successor
  <2>5. OneWriter'
    BY Zenon, <1>0, <1>1, IdleFields DEF OrderInv, OneWriter
  <2>6. ReadIsOld'
    <3> SUFFICES ASSUME NEW q \in Request, backend = "postgres", call'[q].step = "set",
                        q \notin overtaken
                 PROVE  v + 1 > Version(call'[q].seen)
      BY Zenon, <1>0, <2>1 DEF ReadIsOld
    <3>1. q # r /\ call'[q] = call[q]
      BY Zenon, <1>1, IdleFields
    <3>2. Version(call[q].seen) \in Nat
      BY Zenon, <2>3, VersionOf
    <3>3. CASE activation = call[q].seen
      <4>1. CASE activation = {}
        <5>1. Version(call[q].seen) = 0
          BY Zenon, <2>3, <3>3, <4>1, VersionOf
        <5> QED
          BY <2>4, <3>1, <5>1
      <4>2. CASE activation # {}
        <5>1. PICK a \in activation : TRUE
          BY Zenon, <4>2
        <5>2. Version(call[q].seen) = a.version
          BY Zenon, <2>3, <3>3, <5>1, VersionOf
        <5> QED
          BY Zenon, <2>2, <2>4, <3>1, <5>1, <5>2
      <4> QED
        BY Zenon, <4>1, <4>2
    <3>4. CASE \E a \in activation : a.version > Version(call[q].seen)
      BY <2>2, <2>4, <3>1, <3>2, <3>4
    <3> QED
      BY Zenon, <3>1, <3>3, <3>4 DEF OrderInv, ReadIsOld
  <2>7. ReadIsSnapshot'
    BY Zenon, <1>0, <1>1, IdleFields DEF OrderInv, ReadIsSnapshot
  <2> QED
    BY Zenon, <2>5, <2>6, <2>7 DEF OrderInv
<1> QED
  BY Zenon, <1>2, <1>3

LEMMA DeactivateOrder ==
  ASSUME StoreInv, OrderInv, Deactivate
  PROVE  OrderInv'
<1>1. OneWriter' /\ ReadIsSnapshot'
  BY Zenon DEF Deactivate, OrderInv, OneWriter, ReadIsSnapshot
<1>2. ReadIsOld'
  BY Zenon DEF Deactivate, OrderInv, ReadIsOld
<1> QED
  BY Zenon, <1>1, <1>2 DEF OrderInv

LEMMA StepOrder == StoreInv /\ OrderInv /\ [ActNext]_actVars => OrderInv'
<1> SUFFICES ASSUME StoreInv, OrderInv, [ActNext]_actVars PROVE OrderInv'
  BY Zenon
<1>1. CASE UNCHANGED actVars
  BY Zenon, <1>1 DEF actVars, OrderInv, OneWriter, ReadIsOld, ReadIsSnapshot
<1>2. CASE ActNext
  BY Zenon, <1>2, ActivateOrder, SaveOrder, GetOrder, SetOrder, CommitOrder, DeactivateOrder DEF ActNext
<1> QED
  BY Zenon, <1>1, <1>2

\* The compare-and-set of activateWithCAS loses no activation, on both stores:
\* a call replaces the very row it read, unless a Deactivate removed that row.
THEOREM NoActivationLost == ActSpec => ActivationsSerialise
<1>1. OrderInv /\ [ActNext]_actVars => [SerialisedStep]_actVars
  BY Zenon DEF OrderInv, OneWriter, SerialisedStep
<1> QED
  BY <1>1, InitStore, StepStore, InitOrder, StepOrder, PTL DEF ActSpec, ActivationsSerialise

-----------------------------------------------------------------------------
InstanceRow == [tenant : Tenant, type : WorkflowType, state : AnyState, version : Nat,
        revision : {0, 1}, completed : BOOLEAN]

WfCall == [step : {"read", "write"}, id : WorkflowID, tenant : Tenant,
           from : AnyState \cup {""}, to : AnyState, seen : SUBSET InstanceRow]

WfTypeOK ==
    /\ instances \in [WorkflowID -> SUBSET InstanceRow]
    /\ wfCall \in [WfRequest -> WfCall \cup {NoCall}]
    /\ answeredOk \in [WorkflowID -> Nat]

\* One row per id.
OneRow == \A w \in WorkflowID : \A a, b \in instances[w] : a = b

FreshIsUnanswered == \A w \in WorkflowID : instances[w] = {} => answeredOk[w] = 0

\* The row a request has read before it writes.
Read(stored, c) ==
    \E s \in InstanceRow :
        /\ c.seen = {s} /\ s.tenant = c.tenant
        /\ CanTransition(s.state, c.to)
        /\ \E row \in stored[c.id] :
              s.version <= row.version /\ (s.version = row.version => s = row)

WritersHaveRead == \A r \in WfRequest : wfCall[r].step = "write" => Read(instances, wfCall[r])

WfInv == WfTypeOK /\ OneRow /\ FreshIsUnanswered /\ NoLostTransition /\ WritersHaveRead

-----------------------------------------------------------------------------
LEMMA NoCallIsIdle == NoCall.step = "idle"
BY Zenon DEF NoCall

LEMMA InitWfInv == WfInit => WfInv
BY NoCallIsIdle DEF WfInit, WfInv, WfTypeOK, OneRow, FreshIsUnanswered, NoLostTransition, WritersHaveRead

\* A new row has version 1 and no request has read it yet.
LEMMA CreateIInv ==
  ASSUME WfInv, NEW w \in WorkflowID, NEW row \in NewInstance, Create(w, row)
  PROVE  WfInv'
<1>1. row \in InstanceRow /\ row.version = 1
  BY DEF NewInstance, InstanceRow
<1>2. CASE instances[w] # {}
  BY Zenon, <1>2 DEF Create, SaveInstance, WfInv, WfTypeOK, OneRow, FreshIsUnanswered, NoLostTransition, WritersHaveRead, Read
<1>3. CASE instances[w] = {}
  <2>1. instances' = [instances EXCEPT ![w] = {row}] /\ UNCHANGED <<wfCall, answeredOk>>
    BY Zenon, <1>3 DEF Create, SaveInstance
  <2>2. WfTypeOK' /\ OneRow' /\ FreshIsUnanswered'
    BY <1>1, <2>1 DEF WfInv, WfTypeOK, OneRow, FreshIsUnanswered
  <2>3. NoLostTransition'
    BY <1>1, <1>3, <2>1 DEF WfInv, WfTypeOK, FreshIsUnanswered, NoLostTransition
  <2>4. WritersHaveRead'
    <3> SUFFICES ASSUME NEW r \in WfRequest, wfCall[r].step = "write"
                 PROVE  Read(instances', wfCall[r])
      BY Zenon, <2>1 DEF WritersHaveRead
    <3>1. Read(instances, wfCall[r]) /\ wfCall[r].id # w
      BY Zenon, <1>3 DEF WfInv, WritersHaveRead, Read
    <3> QED
      BY <2>1, <3>1 DEF Read, WfInv, WfTypeOK
  <2> QED
    BY Zenon, <2>2, <2>3, <2>4 DEF WfInv
<1> QED
  BY Zenon, <1>2, <1>3

LEMMA ReturnIInv ==
  ASSUME WfInv, NEW r \in WfRequest, WfReturn(r), UNCHANGED <<instances, answeredOk>>
  PROVE  WfInv'
<1>1. WfTypeOK'
  BY Zenon DEF WfReturn, WfInv, WfTypeOK
<1>2. WritersHaveRead'
  BY Zenon, NoCallIsIdle DEF WfReturn, WfInv, WfTypeOK, WritersHaveRead, Read
<1> QED
  BY Zenon, <1>1, <1>2 DEF WfInv, OneRow, FreshIsUnanswered, NoLostTransition

LEMMA TransitionIInv ==
  ASSUME WfInv, NEW r \in WfRequest, NEW t \in Tenant, NEW w \in WorkflowID,
         NEW from \in AnyState \cup {""}, NEW to \in AnyState,
         TransitionWorkflow(r, t, w, from, to)
  PROVE  WfInv'
<1> DEFINE c == [step |-> "read", id |-> w, tenant |-> t, from |-> from, to |-> to, seen |-> {}]
<1>1. c \in WfCall /\ c.step = "read"
  BY Zenon DEF WfCall
<1>2. UNCHANGED <<instances, answeredOk>>
      /\ (wfCall' = wfCall \/ wfCall' = [wfCall EXCEPT ![r] = c])
  BY Zenon DEF TransitionWorkflow
<1> HIDE DEF c
<1>3. WfTypeOK'
  BY Zenon, <1>1, <1>2 DEF WfInv, WfTypeOK
<1>4. WritersHaveRead'
  <2> SUFFICES ASSUME NEW q \in WfRequest, wfCall'[q].step = "write"
               PROVE  Read(instances', wfCall'[q])
    BY Zenon DEF WritersHaveRead
  <2>1. wfCall'[q] = wfCall[q]
    BY Zenon, <1>1, <1>2 DEF WfInv, WfTypeOK
  <2> QED
    BY Zenon, <1>2, <2>1 DEF WfInv, WritersHaveRead
<1> QED
  BY Zenon, <1>2, <1>3, <1>4 DEF WfInv, OneRow, FreshIsUnanswered, NoLostTransition

\* The service's read: what it sees is the stored row.
LEMMA ReadIInv ==
  ASSUME WfInv, NEW r \in WfRequest, ReadForTransition(r)
  PROVE  WfInv'
<1> DEFINE c == wfCall[r]
           stored == GetInstance(c.tenant, c.id)
<1>0. UNCHANGED <<instances, answeredOk>>
  BY Zenon DEF ReadForTransition
<1>1. c \in WfCall /\ c.step = "read"
  BY Zenon, NoCallIsIdle DEF ReadForTransition, WfInv, WfTypeOK
<1>2. CASE WfReturn(r)
  BY Zenon, <1>0, <1>2, ReturnIInv
<1>3. CASE /\ \E row \in stored : c.from \in {"", row.state} /\ CanTransition(row.state, c.to)
           /\ wfCall' = [wfCall EXCEPT ![r].step = "write", ![r].seen = stored]
  <2>1. PICK row \in stored : CanTransition(row.state, c.to)
    BY Zenon, <1>3
  <2>2. row \in instances[c.id] /\ row.tenant = c.tenant /\ row \in InstanceRow
    BY Zenon, <1>1, <2>1 DEF GetInstance, WfInv, WfTypeOK, WfCall
  <2>3. stored = {row}
    <3>1. \A x \in instances[c.id] : x = row
      BY Zenon, <1>1, <2>2 DEF WfInv, OneRow, WfCall
    <3> QED
      BY Zenon, <2>1, <3>1 DEF GetInstance
  <2> DEFINE d == [c EXCEPT !.step = "write", !.seen = {row}]
  <2>4. /\ d \in WfCall /\ d.seen = {row} /\ d.tenant = c.tenant /\ d.to = c.to /\ d.id = c.id
    BY Zenon, <1>1, <2>2 DEF WfCall
  <2>5. wfCall' = [wfCall EXCEPT ![r] = d]
    BY Zenon, <1>3, <2>3
  <2> HIDE DEF d
  <2>6. WfTypeOK'
    BY Zenon, <1>0, <2>4, <2>5 DEF WfInv, WfTypeOK
  <2>7. Read(instances', d)
    <3>1. row.version <= row.version
      BY <2>2 DEF InstanceRow
    <3> QED
      BY Zenon, <1>0, <2>1, <2>2, <2>4, <3>1 DEF Read
  <2>8. WritersHaveRead'
    <3> SUFFICES ASSUME NEW q \in WfRequest, wfCall'[q].step = "write"
                 PROVE  Read(instances', wfCall'[q])
      BY Zenon DEF WritersHaveRead
    <3>1. CASE q = r
      BY Zenon, <2>5, <2>7, <3>1 DEF WfInv, WfTypeOK
    <3>2. CASE q # r
      BY Zenon, <1>0, <2>5, <3>2 DEF WfInv, WfTypeOK, WritersHaveRead
    <3> QED
      BY Zenon, <3>1, <3>2
  <2> QED
    BY Zenon, <1>0, <2>6, <2>8 DEF WfInv, OneRow, FreshIsUnanswered, NoLostTransition
<1> QED
  BY Zenon, <1>2, <1>3 DEF ReadForTransition

\* What an update that succeeds does: the row it read is the stored one.
LEMMA UpdateWritesItsRow ==
  ASSUME WfInv, NEW r \in WfRequest, Update(r), ~UNCHANGED instances
  PROVE  /\ wfCall[r] \in WfCall
         /\ \E s \in InstanceRow :
              /\ instances[wfCall[r].id] = {s}
              /\ CanTransition(s.state, wfCall[r].to)
              /\ instances' = [instances EXCEPT ![wfCall[r].id] =
                                 {Transitioned(s, wfCall[r].from, wfCall[r].to)}]
              /\ answeredOk' = [answeredOk EXCEPT ![wfCall[r].id] = @ + 1]
              /\ WfReturn(r)
<1> DEFINE c == wfCall[r]
<1>1. c.step = "write" /\ c \in WfCall
  BY Zenon, NoCallIsIdle DEF Update, WfInv, WfTypeOK
<1>2. PICK s \in InstanceRow :
        /\ c.seen = {s} /\ CanTransition(s.state, c.to)
        /\ \E row \in instances[c.id] :
              s.version <= row.version /\ (s.version = row.version => s = row)
  BY Zenon, <1>1 DEF WfInv, WritersHaveRead, Read
<1>3. (CHOOSE row \in c.seen : TRUE) = s
  BY Zenon, <1>2
<1>4. PICK row \in GetInstance(c.tenant, c.id) : row.version = s.version
  BY Zenon, <1>1, <1>3 DEF Update
<1>5. row = s /\ instances[c.id] = {s}
  <2>1. row \in instances[c.id] /\ \A x \in instances[c.id] : x = row
    BY Zenon, <1>1, <1>4 DEF GetInstance, WfInv, OneRow, WfCall
  <2>2. row = s
    BY Zenon, <1>2, <1>4, <2>1
  <2> QED
    BY Zenon, <2>1, <2>2
<1>6. instances' = [instances EXCEPT ![c.id] = {Transitioned(s, c.from, c.to)}]
      /\ answeredOk' = [answeredOk EXCEPT ![c.id] = @ + 1] /\ WfReturn(r)
  BY Zenon, <1>1, <1>3 DEF Update
<1> QED
  BY Zenon, <1>1, <1>2, <1>5, <1>6

LEMMA TransitionedRow ==
  ASSUME NEW s \in InstanceRow, NEW from \in AnyState \cup {""}, NEW to \in AnyState
  PROVE  /\ Transitioned(s, from, to) \in InstanceRow
         /\ Transitioned(s, from, to).state = to
         /\ Transitioned(s, from, to).version = s.version + 1
         /\ Transitioned(s, from, to).tenant = s.tenant
         /\ Transitioned(s, from, to).type = s.type
<1>0. s.version \in Nat /\ s.tenant \in Tenant /\ s.type \in WorkflowType
  BY Zenon DEF InstanceRow
<1>1. s.version + 1 \in Nat
  BY Zenon, <1>0, Successor
<1> DEFINE rev == IF from = "" THEN 0 ELSE s.revision
           done == s.completed \/ to \in {"completed", "failed"}
<1>2. rev \in {0, 1} /\ done \in BOOLEAN
  BY Zenon DEF InstanceRow
<1>3. Transitioned(s, from, to) =
        [s EXCEPT !.state = to, !.version = s.version + 1, !.revision = rev, !.completed = done]
  BY Zenon DEF Transitioned, InstanceRow
<1> HIDE DEF rev, done
<1> DEFINE new == [tenant |-> s.tenant, type |-> s.type, state |-> to, version |-> s.version + 1,
                   revision |-> rev, completed |-> done]
<1>4. Transitioned(s, from, to) = new
  BY Zenon, <1>3 DEF InstanceRow
<1>5. /\ new \in InstanceRow /\ new.state = to /\ new.version = s.version + 1
      /\ new.tenant = s.tenant /\ new.type = s.type
  BY Zenon, <1>0, <1>1, <1>2 DEF InstanceRow
<1> QED
  BY Zenon, <1>4, <1>5

\* An update that finds another version answers with a conflict.
LEMMA UpdateUnchanged ==
  ASSUME WfInv, NEW r \in WfRequest, Update(r), UNCHANGED instances
  PROVE  WfReturn(r) /\ UNCHANGED answeredOk
<1> DEFINE c == wfCall[r]
<1>1. c.step = "write" /\ c \in WfCall
  BY Zenon, NoCallIsIdle DEF Update, WfInv, WfTypeOK
<1>2. PICK s \in InstanceRow :
        /\ c.seen = {s}
        /\ \E row \in instances[c.id] :
              s.version <= row.version /\ (s.version = row.version => s = row)
  BY Zenon, <1>1 DEF WfInv, WritersHaveRead, Read
<1>3. (CHOOSE row \in c.seen : TRUE) = s
  BY Zenon, <1>2
<1>4. CASE \E row \in GetInstance(c.tenant, c.id) : row.version = s.version
  <2>1. instances'[c.id] = {Transitioned(s, c.from, c.to)}
    BY Zenon, <1>1, <1>3, <1>4 DEF Update, WfInv, WfTypeOK, WfCall
  <2>2. Transitioned(s, c.from, c.to).version = s.version + 1
    BY <1>1, TransitionedRow DEF WfCall
  <2>3. s \in instances[c.id]
    BY Zenon, <1>1, <1>2, <1>4 DEF GetInstance, WfInv, OneRow, WfCall
  <2>4. s.version + 1 # s.version
    BY DEF InstanceRow
  <2> QED
    BY Zenon, <2>1, <2>2, <2>3, <2>4
<1>5. CASE ~\E row \in GetInstance(c.tenant, c.id) : row.version = s.version
  BY Zenon, <1>1, <1>3, <1>5 DEF Update
<1> QED
  BY Zenon, <1>4, <1>5

LEMMA UpdateIInv ==
  ASSUME WfInv, NEW r \in WfRequest, Update(r)
  PROVE  WfInv'
<1>1. CASE UNCHANGED instances
  <2>1. WfReturn(r) /\ UNCHANGED answeredOk
    BY Zenon, <1>1, UpdateUnchanged
  <2> QED
    BY Zenon, <1>1, <2>1, ReturnIInv
<1>2. CASE ~UNCHANGED instances
  <2> DEFINE w == wfCall[r].id
             to == wfCall[r].to
  <2>1. wfCall[r] \in WfCall /\ w \in WorkflowID /\ to \in AnyState
        /\ wfCall[r].from \in AnyState \cup {""}
    BY Zenon, <1>2, UpdateWritesItsRow DEF WfCall
  <2>2. PICK s \in InstanceRow :
          /\ instances[w] = {s}
          /\ instances' = [instances EXCEPT ![w] = {Transitioned(s, wfCall[r].from, to)}]
          /\ answeredOk' = [answeredOk EXCEPT ![w] = @ + 1]
          /\ WfReturn(r)
    BY Zenon, <1>2, UpdateWritesItsRow
  <2>3. PICK new \in InstanceRow :
          new = Transitioned(s, wfCall[r].from, to) /\ new.version = s.version + 1
    BY Zenon, <2>1, TransitionedRow
  <2> HIDE DEF w, to
  <2>4. instances' = [instances EXCEPT ![w] = {new}]
    BY Zenon, <2>2, <2>3
  <2>5. WfTypeOK' /\ OneRow'
    <3>1. wfCall' \in [WfRequest -> WfCall \cup {NoCall}]
      BY Zenon, <2>2 DEF WfReturn, WfInv, WfTypeOK
    <3>2. answeredOk' \in [WorkflowID -> Nat]
      <4>1. answeredOk[w] + 1 \in Nat
        BY Zenon, <2>1, Successor DEF WfInv, WfTypeOK
      <4> QED
        BY Zenon, <2>1, <2>2, <4>1 DEF WfInv, WfTypeOK
    <3>3. instances' \in [WorkflowID -> SUBSET InstanceRow]
      BY Zenon, <2>1, <2>4 DEF WfInv, WfTypeOK
    <3>4. OneRow'
      BY <2>1, <2>4 DEF WfInv, WfTypeOK, OneRow
    <3> QED
      BY Zenon, <3>1, <3>2, <3>3, <3>4 DEF WfTypeOK
  <2>6. FreshIsUnanswered'
    BY Zenon, <2>1, <2>2, <2>4 DEF WfInv, WfTypeOK, FreshIsUnanswered
  <2>7. NoLostTransition'
    <3> SUFFICES ASSUME NEW v \in WorkflowID, NEW row \in instances'[v]
                 PROVE  row.version = 1 + answeredOk'[v]
      BY Zenon DEF NoLostTransition
    <3>1. CASE v = w
      <4>1. row = new /\ answeredOk'[v] = answeredOk[w] + 1 /\ answeredOk[w] \in Nat
        BY <2>1, <2>2, <2>4, <3>1 DEF WfInv, WfTypeOK
      <4>2. s.version = 1 + answeredOk[w]
        BY Zenon, <2>1, <2>2 DEF WfInv, NoLostTransition
      <4> QED
        BY <2>3, <4>1, <4>2
    <3>2. CASE v # w
      BY Zenon, <2>1, <2>2, <2>4, <3>2 DEF WfInv, WfTypeOK, NoLostTransition
    <3> QED
      BY Zenon, <3>1, <3>2
  <2>8. WritersHaveRead'
    <3> SUFFICES ASSUME NEW q \in WfRequest, wfCall'[q].step = "write"
                 PROVE  Read(instances', wfCall'[q])
      BY Zenon DEF WritersHaveRead
    <3>1. wfCall'[q] = wfCall[q] /\ wfCall[q].step = "write"
      BY Zenon, <2>2, NoCallIsIdle DEF WfReturn, WfInv, WfTypeOK
    <3>2. Read(instances, wfCall[q])
      BY Zenon, <3>1 DEF WfInv, WritersHaveRead
    <3>3. CASE wfCall[q].id # w
      BY <2>4, <3>1, <3>2, <3>3 DEF Read, WfInv, WfTypeOK
    <3>4. CASE wfCall[q].id = w
      <4>1. instances'[w] = {new}
        BY Zenon, <2>1, <2>4 DEF WfInv, WfTypeOK
      <4>2. PICK x \in InstanceRow :
              /\ wfCall[q].seen = {x} /\ x.tenant = wfCall[q].tenant
              /\ CanTransition(x.state, wfCall[q].to)
              /\ x.version <= s.version
        BY Zenon, <2>2, <3>2, <3>4 DEF Read
      <4>3. x.version < new.version /\ x.version # new.version
        BY <2>3, <4>2 DEF InstanceRow
      <4> QED
        BY <3>1, <3>4, <4>1, <4>2, <4>3 DEF Read, InstanceRow
    <3> QED
      BY Zenon, <3>3, <3>4
  <2> QED
    BY Zenon, <2>5, <2>6, <2>7, <2>8 DEF WfInv
<1> QED
  BY Zenon, <1>1, <1>2

LEMMA StepIInv == WfInv /\ [WfNext]_wfVars => WfInv'
<1> SUFFICES ASSUME WfInv, [WfNext]_wfVars PROVE WfInv'
  BY Zenon
<1>1. CASE UNCHANGED wfVars
  BY Zenon, <1>1 DEF wfVars, WfInv, WfTypeOK, OneRow, FreshIsUnanswered, NoLostTransition, WritersHaveRead
<1>2. CASE WfNext
  BY Zenon, <1>2, CreateIInv, TransitionIInv, ReadIInv, UpdateIInv DEF WfNext
<1> QED
  BY Zenon, <1>1, <1>2

\* Every transition answered "ok" is in its row (the conditional UPDATE of the
\* stores), whatever the number of requests, workflows and calls.
THEOREM NothingOverwritten == WfSpec => []NoLostTransition
<1>1. WfInv => NoLostTransition
  BY Zenon DEF WfInv
<1> QED
  BY <1>1, InitWfInv, StepIInv, PTL DEF WfSpec

LEMMA StepFollowsGraph == WfInv /\ [WfNext]_wfVars => [GraphStep]_wfVars
<1> SUFFICES ASSUME WfInv, WfNext, NEW w \in WorkflowID, NEW old \in instances[w],
                    NEW new \in instances'[w], new # old
             PROVE  /\ CanTransition(old.state, new.state)
                    /\ new.version = old.version + 1
                    /\ new.tenant = old.tenant /\ new.type = old.type
  BY Zenon DEF GraphStep
<1>0. ~UNCHANGED instances
  BY Zenon DEF WfInv, OneRow
<1>1. CASE \E v \in WorkflowID, row \in NewInstance : Create(v, row)
  BY <1>0, <1>1 DEF Create, SaveInstance, WfInv, WfTypeOK, OneRow
<1>2. CASE \E r \in WfRequest : Update(r)
  <2>1. PICK r \in WfRequest : Update(r)
    BY Zenon, <1>2
  <2>2. wfCall[r] \in WfCall
    BY Zenon, <1>0, <2>1, UpdateWritesItsRow
  <2>3. PICK s \in InstanceRow :
          /\ instances[wfCall[r].id] = {s}
          /\ CanTransition(s.state, wfCall[r].to)
          /\ instances' = [instances EXCEPT ![wfCall[r].id] =
                             {Transitioned(s, wfCall[r].from, wfCall[r].to)}]
    BY Zenon, <1>0, <2>1, UpdateWritesItsRow
  <2>4. wfCall[r].id = w /\ old = s /\ new = Transitioned(s, wfCall[r].from, wfCall[r].to)
    BY <2>2, <2>3 DEF WfInv, WfTypeOK, OneRow, WfCall
  <2>5. wfCall[r].from \in AnyState \cup {""} /\ wfCall[r].to \in AnyState
    BY Zenon, <2>2 DEF WfCall
  <2>6. /\ new.state = wfCall[r].to /\ new.version = s.version + 1
        /\ new.tenant = s.tenant /\ new.type = s.type
    BY Zenon, <2>4, <2>5, TransitionedRow
  <2> QED
    BY Zenon, <2>3, <2>4, <2>6
<1>3. CASE \E r \in WfRequest : ReadForTransition(r)
  BY Zenon, <1>0, <1>3 DEF ReadForTransition
<1>4. CASE \E r \in WfRequest, t \in Tenant, v \in WorkflowID, from \in AnyState \cup {""},
              to \in AnyState : TransitionWorkflow(r, t, v, from, to)
  BY Zenon, <1>0, <1>4 DEF TransitionWorkflow
<1> QED
  BY Zenon, <1>1, <1>2, <1>3, <1>4 DEF WfNext

\* A workflow moves along the state graph only, one version at a time, and
\* terminal states are final (CanTransition and the conditional update).
THEOREM MovesAlongGraph == WfSpec => WorkflowFollowsGraph
  BY InitWfInv, StepIInv, StepFollowsGraph, PTL DEF WfSpec, WorkflowFollowsGraph

-----------------------------------------------------------------------------
\* The window over the sorted keys selects among the keys.
LEMMA SelectedIsMatching == \A keys, cur : Selected(keys, cur) \subseteq keys
  BY Zenon DEF Selected

LEMMA MatchingIsLocal == \A w \in Worker : Matching(w) \subseteq local[w]
  BY Zenon DEF Matching

\* A round works on consumers the worker has: reconciliation and fetch alternate
\* on one goroutine, so no consumer is removed between selection and hand-over.
RoundTypeOK ==
    /\ pc \in [Worker -> Phase]
    /\ local \in [Worker -> SUBSET Consumer] /\ todo \in [Worker -> SUBSET Consumer]
    /\ wanted \in [Worker -> SUBSET Consumer]
    /\ chosen \in [Worker -> SUBSET Consumer] /\ hand \in [Worker -> SUBSET Consumer]
RoundOK(w) ==
    /\ pc[w] \in {"pull", "process"} => chosen[w] \subseteq local[w]
    /\ hand[w] \subseteq chosen[w]
    /\ pc[w] # "process" => hand[w] = {}
RoundInv == RoundTypeOK /\ \A w \in Worker : RoundOK(w)

\* A step of one worker does not touch another one's round.
Untouched(w) ==
    /\ pc'[w] = pc[w] /\ local'[w] = local[w] /\ chosen'[w] = chosen[w] /\ hand'[w] = hand[w]

LEMMA UntouchedRound == ASSUME NEW w \in Worker, RoundOK(w), Untouched(w) PROVE RoundOK(w)'
  BY Zenon DEF RoundOK, Untouched

\* syncConsumers: the round is over.
LEMMA SyncRound ==
  ASSUME RoundInv, NEW w \in Worker,
         \/ Sync(w) \/ RemoveConsumer(w) \/ RemoveError(w) \/ RemoveDone(w)
         \/ EnsureConsumer(w) \/ EnsureError(w) \/ EnsureDone(w)
  PROVE  RoundInv'
<1> USE DEF RoundInv, RoundTypeOK
<1>1. InTurn(w) \subseteq Consumer
  BY Zenon DEF InTurn
<1>2. UNCHANGED <<chosen, hand>>
  BY Zenon DEF Sync, RemoveConsumer, RemoveError, RemoveDone, EnsureConsumer, EnsureError, EnsureDone, round
<1>3. RoundTypeOK'
  <2>1. CASE Sync(w)
    BY <2>1, <1>2 DEF Sync, Of, Phase
  <2>2. CASE RemoveConsumer(w) \/ RemoveError(w)
    BY <2>2, <1>1, <1>2 DEF RemoveConsumer, RemoveError
  <2>3. CASE RemoveDone(w) \/ EnsureDone(w)
    BY <2>3, <1>2 DEF RemoveDone, EnsureDone, Phase
  <2>4. CASE EnsureConsumer(w) \/ EnsureError(w)
    BY <2>4, <1>1, <1>2 DEF EnsureConsumer, EnsureError
  <2> QED
    BY Zenon, <2>1, <2>2, <2>3, <2>4
<1>4. /\ pc[w] \notin {"pull", "process"} /\ pc'[w] \notin {"pull", "process"}
  BY DEF Sync, RemoveConsumer, RemoveError, RemoveDone, EnsureConsumer, EnsureError, EnsureDone
<1>5. RoundOK(w)'
  BY Zenon, <1>2, <1>4 DEF RoundOK
<1>6. \A v \in Worker \ {w} : Untouched(v)
  BY <1>2 DEF Sync, RemoveConsumer, RemoveError, RemoveDone, EnsureConsumer, EnsureError, EnsureDone,
              Untouched
<1> QED
  BY Zenon, <1>3, <1>5, <1>6, UntouchedRound

LEMMA FetchRound ==
  ASSUME RoundInv, NEW w \in Worker,
         \/ Fetch(w) \/ Pull(w) \/ PullError(w) \/ RoundDone(w)
         \/ \E k \in Consumer : ProcessSingleDelivery(w, k)
  PROVE  RoundInv'
<1> USE DEF RoundInv, RoundTypeOK
<1>1. CASE Fetch(w)
  <2>1. Selected(Matching(w), cursor[w]) \subseteq local[w]
    BY Zenon, SelectedIsMatching, MatchingIsLocal
  <2>2. RoundTypeOK' /\ RoundOK(w)'
    BY <1>1, <2>1 DEF Fetch, round, Phase, RoundOK
  <2>3. \A v \in Worker \ {w} : Untouched(v)
    BY <1>1 DEF Fetch, round, Untouched
  <2> QED
    BY Zenon, <2>2, <2>3, UntouchedRound
<1>2. CASE Pull(w) \/ PullError(w)
  <2>1. Deliverable(w) \subseteq chosen[w]
    BY Zenon DEF Deliverable
  <2>2. RoundTypeOK' /\ RoundOK(w)'
    BY <1>2, <2>1 DEF Pull, PullError, round, Phase, RoundOK
  <2>3. \A v \in Worker \ {w} : Untouched(v)
    BY <1>2 DEF Pull, PullError, round, Untouched
  <2> QED
    BY Zenon, <2>2, <2>3, UntouchedRound
<1>3. CASE RoundDone(w)
  <2>2. RoundTypeOK' /\ RoundOK(w)'
    BY <1>3 DEF RoundDone, Phase, RoundOK
  <2>3. \A v \in Worker \ {w} : Untouched(v)
    BY <1>3 DEF RoundDone, Untouched
  <2> QED
    BY Zenon, <2>2, <2>3, UntouchedRound
<1>4. ASSUME NEW k \in Consumer, ProcessSingleDelivery(w, k) PROVE RoundInv'
  <2>2. RoundTypeOK' /\ RoundOK(w)'
    BY <1>4 DEF ProcessSingleDelivery, RoundOK
  <2>3. \A v \in Worker \ {w} : Untouched(v)
    BY <1>4 DEF ProcessSingleDelivery, Untouched
  <2> QED
    BY Zenon, <2>2, <2>3, UntouchedRound
<1> QED
  BY Zenon, <1>1, <1>2, <1>3, <1>4

LEMMA RoundStep == RoundInv /\ [Next]_vars => RoundInv'
<1> SUFFICES ASSUME RoundInv, [Next]_vars PROVE RoundInv'
  BY Zenon
<1>1. ASSUME NEW w \in Worker, Iterate(w) \/ Fault(w) PROVE RoundInv'
  BY Zenon, <1>1, SyncRound, FetchRound DEF Iterate, Fault
<1>2. CASE \/ \E w \in Worker, s \in Shard : Takeover(w, s) \/ Drop(w, s)
           \/ \E s \in Shard : Lapse(s) \/ \E t \in EventType : PublishEvent(s, t) \/ PublishError(s, t)
           \/ \E k \in Consumer : AckWait(k)
           \/ UNCHANGED vars
  <2>1. UNCHANGED <<pc, local, todo, wanted, chosen, hand>>
    BY Zenon, <1>2 DEF Takeover, Drop, Lapse, PublishEvent, PublishError, AckWait, vars, round
  <2> QED
    BY Zenon, <2>1 DEF RoundInv, RoundTypeOK, RoundOK
<1> QED
  BY Zenon, <1>1, <1>2 DEF Next

\* Only the hand-over takes a message out of the stream.
LEMMA StepOwned == RoundInv /\ [Next]_vars => [OwnedOnlyStep]_vars
<1> SUFFICES ASSUME RoundInv, Next PROVE OwnedOnlyStep
  BY Zenon
<1>1. ASSUME NEW w \in Worker, NEW k \in Consumer, ProcessSingleDelivery(w, k) PROVE OwnedOnlyStep
  <2>1. pc[w] = "process" /\ k \in local[w]
    BY Zenon, <1>1 DEF ProcessSingleDelivery, RoundInv, RoundOK
  <2>2. waiting \ waiting' \subseteq IF ShardOf(k) \in owns[w] THEN {k} ELSE {}
    BY <1>1 DEF ProcessSingleDelivery
  <2> QED
    BY Zenon, <2>1, <2>2 DEF OwnedOnlyStep
<1>2. ASSUME NEW w \in Worker, Iterate(w) \/ Fault(w),
             ~ \E k \in Consumer : ProcessSingleDelivery(w, k)
      PROVE  waiting' = waiting
  BY Zenon, <1>2 DEF Iterate, Fault, Sync, RemoveConsumer, RemoveDone, EnsureConsumer, EnsureDone,
              Fetch, Pull, RoundDone, RemoveError, EnsureError, PullError, broker
<1>3. ASSUME NEW s \in Shard, NEW t \in EventType, PublishEvent(s, t) \/ PublishError(s, t)
      PROVE  waiting \subseteq waiting'
  BY Zenon, <1>3 DEF PublishEvent, PublishError, Publish
<1>4. CASE \/ \E w \in Worker, s \in Shard : Takeover(w, s) \/ Drop(w, s)
           \/ \E s \in Shard : Lapse(s)
           \/ \E k \in Consumer : AckWait(k)
  BY Zenon, <1>4 DEF Takeover, Drop, Lapse, AckWait, broker, OwnedOnlyStep
<1> QED
  BY Zenon, <1>1, <1>2, <1>3, <1>4 DEF Next, OwnedOnlyStep

\* However long after the look at its shards a worker pulls and looks at its
\* deliveries, and whatever its leases do meanwhile, it takes a message only while
\* it owns the shard and through a consumer that it still has; for any number of
\* workers, shards and consumers.
THEOREM OwnedOnly == Spec => ConsumesOwnedOnly
<1>1. Init => RoundInv
  BY DEF Init, RoundInv, RoundTypeOK, RoundOK, Phase
<1> QED
  BY <1>1, RoundStep, StepOwned, PTL DEF Spec, ConsumesOwnedOnly
===============================================================================
