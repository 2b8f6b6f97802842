----------------------------- MODULE RateLimiter -----------------------------
(***************************************************************************)
(* The sliding-window limiter of internal/adapters/redis/rate_limiter.go:  *)
(* a sorted set of request times per key.  Every request enters the set,   *)
(* also one that is refused.  The caller reads its clock first and the     *)
(* transaction runs some time later, with that reading.  All callers and   *)
(* Redis share one clock here, in milliseconds.                            *)
(***************************************************************************)
EXTENDS Integers, FiniteSets

CONSTANTS Limit, Window,
          MaxClock, MaxRequests    \* bounds: instants, and requests

\* Allow refuses a limit that is not positive; a window below a millisecond is 0.
ASSUME LimiterAssumption == Limit \in Nat \ {0} /\ Window \in Nat

VARIABLES
    now,
    asked,     \* requests that have read the clock: [id, at]
    window,    \* members of the sorted set: [id, at], and ran, when they entered it (history)
    expires,   \* when the set expires as a whole
    allowed,   \* history: requests allowed since the last Reset
    delay,     \* history: the longest time between a reading and its transaction
    requests   \* requests so far, which are also the next member

limiterVars == <<now, asked, window, expires, allowed, delay, requests>>

LimInit ==
    /\ now = 0 /\ asked = {} /\ window = {} /\ expires = 0
    /\ allowed = {} /\ delay = 0 /\ requests = 0

ClockTick ==
    /\ now < MaxClock /\ now' = now + 1
    /\ window' = IF expires <= now' THEN {} ELSE window
    /\ UNCHANGED <<asked, expires, allowed, delay, requests>>

\* Allow up to its transaction.
Ask ==
    /\ requests < MaxRequests /\ requests' = requests + 1
    /\ asked' = asked \cup {[id |-> requests, at |-> now]}
    /\ UNCHANGED <<now, window, expires, allowed, delay>>

\* ZRemRangeByScore up to and with the start of the request's window.
Pruned(r) == {m \in window : m.at > r.at - Window}

Longer(d, e) == IF d < e THEN e ELSE d

\* One transaction: prune, add, count, PExpire (which takes no less than 1ms).
\* An error may hide its result, and then the request is not allowed.
Allow(r) ==
    LET member == [id |-> r.id, at |-> r.at, ran |-> now] IN
    /\ r \in asked /\ asked' = asked \ {r}
    /\ window' = Pruned(r) \cup {member} /\ expires' = now + Longer(Window, 1)
    /\ delay' = Longer(delay, now - r.at)
    /\ \/ Cardinality(window') <= Limit /\ allowed' = allowed \cup {member}
       \/ UNCHANGED allowed
    /\ UNCHANGED <<now, requests>>

\* The transaction does not run.
AllowError(r) ==
    /\ r \in asked /\ asked' = asked \ {r}
    /\ UNCHANGED <<now, window, expires, allowed, delay, requests>>

Reset == window' = {} /\ allowed' = {} /\ UNCHANGED <<now, asked, expires, delay, requests>>

LimNext == ClockTick \/ Ask \/ (\E r \in asked : Allow(r) \/ AllowError(r)) \/ Reset

LimSpec == LimInit /\ [][LimNext]_limiterVars

-----------------------------------------------------------------------------
\* Late transactions shorten the window the limiter keeps, and by no more than
\* their delay: no Window - delay milliseconds, wherever they start, let more than
\* Limit requests through, though the set is pruned by callers whose clock
\* readings are of different ages and expires as a whole.
AllowedWithinLimit ==
    \A t \in 0 .. MaxClock :
        Cardinality({m \in allowed : t <= m.ran /\ m.ran < t + Window - delay}) <= Limit
=============================================================================
