----------------------------- MODULE RateLimiter -----------------------------
(***************************************************************************)
(* The sliding window of api/rate_limit.py.  A bucket holds the times of   *)
(* the requests let through for one key and path; the middleware calls     *)
(* check_rate_limit from the event loop, one request at a time.            *)
(***************************************************************************)
EXTENDS Integers, SequencesExt, FiniteSetsExt

CONSTANTS
  Limits,      \* requests per window by path; 0 or less is no limit
  RateWindow,  \* _RATE_WINDOW_SEC
  StaleAge,    \* _RATE_STALE_AGE_SEC
  PruneEvery,  \* seconds between two prunings
  MaxBuckets   \* _RATE_MAX_BUCKETS

ASSUME RateAssumption == RateWindow \in Nat \ {0} /\ StaleAge \in Nat /\ StaleAge >= RateWindow

(* buckets: the times of each bucket, oldest first; pruned: the last time  *)
(* the stale buckets were dropped.                                         *)
EmptyLimiter == [buckets |-> [b \in {} |-> <<>>], pruned |-> 0]

\* Bug form: a bucket is stale when nothing came since the last pruning.
Bug_StaleSincePruning(times, now) == times = <<>> \/ Last(times) <= now - PruneEvery

Stale(times, now) == times = <<>> \/ Last(times) <= now - StaleAge

Pruned(limiter, now) ==
  IF Cardinality(DOMAIN limiter.buckets) > MaxBuckets \/ now - limiter.pruned > PruneEvery
  THEN [buckets |-> [b \in {x \in DOMAIN limiter.buckets : ~Stale(limiter.buckets[x], now)} |->
                       limiter.buckets[b]],
        pruned |-> now]
  ELSE limiter

(* The times of a bucket within the window.  Time never goes back, so that *)
(* they are the end of it.                                                 *)
Recent(limiter, bucket, now) ==
  LET times == limiter.buckets[bucket]
      within == {i \in DOMAIN times : times[i] > now - RateWindow}
  IN  IF bucket \notin DOMAIN limiter.buckets \/ within = {} THEN <<>>
      ELSE SubSeq(times, Min(within), Len(times))

Put(buckets, bucket, times) ==
  [b \in DOMAIN buckets \cup {bucket} |-> IF b = bucket THEN times ELSE buckets[b]]

(* check_rate_limit: whether the request passes, when to come back, and    *)
(* the limiter afterwards.                                                 *)
CheckRateLimit(limiter, key, path, now) ==
  LET bucket == <<key, path>>
      kept == Pruned(limiter, now)
      recent == Recent(kept, bucket, now)
      put(times) == [kept EXCEPT !.buckets = Put(@, bucket, times)]
  IN  IF Limits[path] <= 0 THEN [allowed |-> TRUE, retry_after |-> 0, limiter |-> limiter]
      ELSE IF Len(recent) >= Limits[path]
      THEN [allowed |-> FALSE, limiter |-> put(recent),
            retry_after |-> Max({1, Head(recent) + RateWindow - now})]
      ELSE [allowed |-> TRUE, retry_after |-> 0, limiter |-> put(Append(recent, now))]
=============================================================================
