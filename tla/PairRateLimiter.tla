--------------------------- MODULE PairRateLimiter --------------------------
(***************************************************************************)
(* The sliding window of pairing attempts of one address (PairRateLimiter  *)
(* in src/server.rs): bucket is the VecDeque of the instants of attempts   *)
(* that were let through, oldest first.                                    *)
(***************************************************************************)
EXTENDS Sequences, FiniteSetsExt

\* Mutant of Expired: an attempt counts for less than the window.
ExpiredAtLimit(t, now, window) == now - t >= window

\* duration_since > 60 s.
Expired(t, now, window) == now - t > window

\* The bucket after the loop that pops from its front, up to the first attempt
\* that still counts.
Pruned(bucket, now, window) ==
    LET fresh == {i \in DOMAIN bucket : ~Expired(bucket[i], now, window)}
    IN  IF fresh = {} THEN <<>> ELSE SubSeq(bucket, Min(fresh), Len(bucket))

\* Mutant of AfterAttempt: an attempt that is refused counts as well.
AfterAnyAttempt(bucket, now, window, max) == Append(Pruned(bucket, now, window), now)

Allowed(bucket, now, window, max) == Len(Pruned(bucket, now, window)) < max

\* What `allow` leaves in the bucket.
AfterAttempt(bucket, now, window, max) ==
    IF Allowed(bucket, now, window, max)
    THEN Append(Pruned(bucket, now, window), now)
    ELSE Pruned(bucket, now, window)
=============================================================================
