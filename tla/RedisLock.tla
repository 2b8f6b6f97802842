------------------------------ MODULE RedisLock ------------------------------
(***************************************************************************)
(* The distributed lock of internal/adapters/redis/lock.go: one Redis key  *)
(* that holds the token of a guard and lives for a TTL, a goroutine per    *)
(* guard that renews it, and the calls of the guard's holder.  A token is  *)
(* a fresh UUID, so a guard is its token here and is used once.            *)
(*                                                                         *)
(* Nothing bounds the delay of a renewal (a paused process, a slow         *)
(* network): a key that has aged may expire before it.                     *)
(***************************************************************************)
EXTENDS Integers, FiniteSets

CONSTANT Guard

VARIABLES
    lockKey,   \* {} or {guard}: the token in Redis
    aging,     \* the key's TTL has run since it was set or extended
    holder,    \* per guard: "none", "held", "dropped" (nobody has the guard) or "released"
    renewal,   \* per guard: its renewLoop is "off", "on" or "done"
    cancelled, \* guards whose watchCtx is done
    stopping,  \* guards with the stopping flag
    lost,      \* guards whose channel lost is closed
    given,     \* guards whose holder has asked for their release
    expired    \* history: a key has expired

lockVars == <<lockKey, aging, holder, renewal, cancelled, stopping, lost, given, expired>>

LockInit ==
    /\ lockKey = {} /\ aging = FALSE
    /\ holder = [g \in Guard |-> "none"]
    /\ renewal = [g \in Guard |-> "off"]
    /\ cancelled = {} /\ stopping = {} /\ lost = {} /\ given = {}
    /\ expired = FALSE

\* Redis.

KeyAges ==
    /\ lockKey # {} /\ ~aging /\ aging' = TRUE
    /\ UNCHANGED <<lockKey, holder, renewal, cancelled, stopping, lost, given, expired>>

KeyExpires ==
    /\ lockKey # {} /\ aging
    /\ lockKey' = {} /\ aging' = FALSE /\ expired' = TRUE
    /\ UNCHANGED <<holder, renewal, cancelled, stopping, lost, given>>

\* The scripts compare the token first.
extendScript(g) == aging' = (aging /\ lockKey # {g}) /\ UNCHANGED lockKey

\* A mistake: the key is deleted whatever token it holds.
DeleteAnyToken(g) == lockKey' = {} /\ aging' = FALSE

deleteScript(g) ==
    /\ lockKey' = lockKey \ {g}
    /\ aging' = (aging /\ lockKey # {g})

-----------------------------------------------------------------------------
\* SetNX and, with the key, a guard and its renewLoop.  Acquire is the same and
\* drops the guard, which goes on renewing.
Lock(g, as) ==
    /\ holder[g] = "none" /\ lockKey = {}
    /\ lockKey' = {g} /\ aging' = FALSE
    /\ holder' = [holder EXCEPT ![g] = as]
    /\ renewal' = [renewal EXCEPT ![g] = "on"]
    /\ UNCHANGED <<cancelled, stopping, lost, given, expired>>

\* SetNX takes effect and reports an error: the key is left to expire.
LockError(g) ==
    /\ holder[g] = "none" /\ lockKey = {}
    /\ lockKey' = {g} /\ aging' = FALSE
    /\ holder' = [holder EXCEPT ![g] = "dropped"]
    /\ given' = given \cup {g}
    /\ UNCHANGED <<renewal, cancelled, stopping, lost, expired>>

markLost(g) == lost' = lost \cup {g} /\ cancelled' = cancelled \cup {g}

LoopEnds(g) == renewal' = [renewal EXCEPT ![g] = "done"]

\* The context the caller passed to Lock ends.
ContextEnds(g) ==
    /\ renewal[g] = "on" /\ g \notin cancelled
    /\ cancelled' = cancelled \cup {g}
    /\ UNCHANGED <<lockKey, aging, holder, renewal, stopping, lost, given, expired>>

\* A tick of renewLoop.  A script under a done context fails; any other may fail
\* as well, with or without effect.
Renew(g) ==
    /\ renewal[g] = "on"
    /\ \/ /\ g \notin cancelled /\ extendScript(g)
          /\ IF lockKey = {g} THEN UNCHANGED <<renewal, lost, cancelled>>
             ELSE markLost(g) /\ LoopEnds(g)
       \/ /\ extendScript(g) \/ UNCHANGED <<lockKey, aging>>
          /\ markLost(g) /\ LoopEnds(g)
    /\ UNCHANGED <<holder, stopping, given, expired>>

\* renewLoop sees the end of its context.
StopRenewing(g) ==
    /\ renewal[g] = "on" /\ g \in cancelled
    /\ IF g \in stopping THEN UNCHANGED <<lost, cancelled>> ELSE markLost(g)
    /\ LoopEnds(g)
    /\ UNCHANGED <<lockKey, aging, holder, stopping, given, expired>>

\* Release of the guard: the loop is told to stop ...
Release(g) ==
    /\ holder[g] = "held"
    /\ stopping' = stopping \cup {g} /\ cancelled' = cancelled \cup {g} /\ given' = given \cup {g}
    /\ UNCHANGED <<lockKey, aging, holder, renewal, lost, expired>>

\* ... and once it is done the key is deleted.  After an error, with or without
\* effect, the holder may call Release again.
ReleaseKey(g) ==
    /\ holder[g] = "held" /\ g \in stopping /\ renewal[g] = "done"
    /\ \/ /\ deleteScript(g)
          /\ IF lockKey = {g} THEN UNCHANGED <<lost, cancelled>> ELSE markLost(g)
          /\ holder' = [holder EXCEPT ![g] = "released"]
       \/ (deleteScript(g) \/ UNCHANGED <<lockKey, aging>>) /\ UNCHANGED <<holder, lost, cancelled>>
    /\ UNCHANGED <<renewal, stopping, given, expired>>

\* Extend of the guard.
Extend(g) ==
    /\ holder[g] = "held" /\ g \notin lost
    /\ extendScript(g)
    /\ IF lockKey = {g} THEN UNCHANGED <<lost, cancelled>> ELSE markLost(g)
    /\ UNCHANGED <<holder, renewal, stopping, given, expired>>

\* Extend and Release of the manager go by key and token; the guard's loop finds
\* out with its next renewal.
ManagerExtend(g) ==
    /\ holder[g] = "held" /\ extendScript(g)
    /\ UNCHANGED <<holder, renewal, cancelled, stopping, lost, given, expired>>

ManagerRelease(g) ==
    /\ holder[g] = "held" /\ deleteScript(g)
    /\ given' = given \cup {g}
    /\ UNCHANGED <<holder, renewal, cancelled, stopping, lost, expired>>

LockNext ==
    \/ KeyAges \/ KeyExpires
    \/ \E g \in Guard :
         \/ Lock(g, "held") \/ Lock(g, "dropped") \/ LockError(g)
         \/ ContextEnds(g) \/ Renew(g) \/ StopRenewing(g)
         \/ Release(g) \/ ReleaseKey(g) \/ Extend(g) \/ ManagerExtend(g) \/ ManagerRelease(g)

LockSpec == LockInit /\ [][LockNext]_lockVars

-----------------------------------------------------------------------------
\* Guards that somebody may rely on.
InUse == {g \in Guard : holder[g] \in {"held", "dropped"} /\ g \notin given \cup lost}

\* While renewals come in time at most one guard is in use: neither a guard that
\* was given up nor one that is being released late frees another's key.
ExclusiveWhileRenewed == ~expired => Cardinality(InUse) <= 1

\* A guard in use is watched: its loop is running, so that a key that does expire
\* or is taken is noticed and Lost() fires.
WatchedOrTold == \A g \in InUse : renewal[g] = "on"
=============================================================================
