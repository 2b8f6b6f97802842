----------------------------- MODULE RedisAdapters -----------------------------
(***************************************************************************)
(* The two Redis adapters that change state, side by side: the distributed *)
(* lock and the rate limiter use keys of their own and never meet.         *)
(***************************************************************************)
EXTENDS RedisLock, RateLimiter

\* While renewals come in time at most one guard is in use, whoever releases late
\* or by token; a guard in use is watched by its renewLoop; and no window of time,
\* less the delay of the latest transaction, lets more requests through than the
\* limit ("a sliding-window limit", rate_limiter.go:14, is kept exactly only by
\* transactions that run in the millisecond their caller read).
RedisAdaptersSound == ExclusiveWhileRenewed /\ WatchedOrTold /\ AllowedWithinLimit
=============================================================================
