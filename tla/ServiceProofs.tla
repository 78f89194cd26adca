---------------------------- MODULE ServiceProofs ----------------------------
(***************************************************************************)
(* Theorems of the long-running service and what it keeps: the REST API    *)
(* (for any number of requests, of kinds, of threads and any timeout the   *)
(* rate limit holds in every window, and the circuit is what the recorded  *)
(* outcomes make it), the shadow ingestion daemon and the prediction       *)
(* feedback, whose files outlive restarts.                                 *)
(***************************************************************************)
EXTENDS ApiService, ShadowIngest, FeedbackTracker, SharedLemmas, SequenceTheorems

-----------------------------------------------------------------------------
(* The circuit breaker.                                                    *)

(* The failures at the end of a list of outcomes.                          *)
Trailing(seq) == {i \in DOMAIN seq : \A j \in i..Len(seq) : seq[j] = "failure"}

(* The counter is the number of failures at the end of the list, and the   *)
(* state goes by the counter.                                              *)
CircuitInv ==
  /\ outcomes \in Seq({"success", "failure"})
  /\ breaker.failures \in Nat
  /\ breaker.failures = Cardinality(Trailing(outcomes))
  /\ breaker.state \in {"closed", "open"}
  /\ breaker.state = "closed" <=> breaker.failures < FailureThreshold

(* The failures at the end of a list are finitely many.                    *)
LEMMA TrailingFinite ==
  ASSUME NEW seq \in Seq({"success", "failure"})
  PROVE  IsFiniteSet(Trailing(seq)) /\ Cardinality(Trailing(seq)) \in Nat
  <1>1. IsFiniteSet(1..Len(seq)) /\ DOMAIN seq = 1..Len(seq)
    BY FS_Interval, LenProperties
  <1>2. Trailing(seq) \in SUBSET (1..Len(seq))
    BY <1>1 DEF Trailing
  <1> QED
    BY <1>1, <1>2, FS_Subset, FS_CardinalityType

(* A success ends the failures.                                            *)
LEMMA SuccessEnds ==
  ASSUME NEW seq \in Seq({"success", "failure"})
  PROVE  LET longer == Append(seq, "success")
         IN  longer \in Seq({"success", "failure"}) /\ Cardinality(Trailing(longer)) = 0
  <1> DEFINE longer == Append(seq, "success")
  <1>1. /\ longer \in Seq({"success", "failure"})
        /\ Len(longer) = Len(seq) + 1
        /\ longer[Len(seq) + 1] = "success"
    BY AppendProperties
  <1>2. DOMAIN longer = 1..(Len(seq) + 1) /\ Len(seq) \in Nat
    BY <1>1, LenProperties
  <1> HIDE DEF longer
  <1>3. Trailing(longer) = {}
    <2> SUFFICES ASSUME NEW i \in Trailing(longer) PROVE FALSE
      OBVIOUS
    <2>1. i \in 1..(Len(seq) + 1) /\ \A j \in i..Len(longer) : longer[j] = "failure"
      BY <1>2 DEF Trailing
    <2>2. Len(seq) + 1 \in i..Len(longer)
      BY <1>1, <1>2, <2>1
    <2> QED
      BY <1>1, <2>1, <2>2
  <1> QED
    BY <1>1, <1>3, FS_EmptySet DEF longer

(* A failure is one more.                                                  *)
LEMMA FailureCounts ==
  ASSUME NEW seq \in Seq({"success", "failure"})
  PROVE  LET longer == Append(seq, "failure")
         IN  /\ longer \in Seq({"success", "failure"})
             /\ Cardinality(Trailing(longer)) = Cardinality(Trailing(seq)) + 1
  <1> DEFINE longer == Append(seq, "failure")
  <1>1. /\ longer \in Seq({"success", "failure"})
        /\ Len(longer) = Len(seq) + 1
        /\ \A j \in 1..Len(seq) : longer[j] = seq[j]
        /\ longer[Len(seq) + 1] = "failure"
    BY AppendProperties
  <1>2. /\ DOMAIN longer = 1..(Len(seq) + 1) /\ DOMAIN seq = 1..Len(seq)
        /\ Len(seq) \in Nat
    BY <1>1, LenProperties
  <1> HIDE DEF longer
  <1>3. Trailing(longer) = Trailing(seq) \cup {Len(seq) + 1}
    <2>1. ASSUME NEW i \in 1..(Len(seq) + 1)
          PROVE  i \in Trailing(longer) <=> (i \in Trailing(seq) \/ i = Len(seq) + 1)
      <3>1. CASE i = Len(seq) + 1
        <4>1. \A j \in i..Len(longer) : j = Len(seq) + 1
          BY <1>1, <1>2, <3>1
        <4> QED
          BY <1>1, <1>2, <3>1, <4>1 DEF Trailing
      <3>2. CASE i \in 1..Len(seq)
        <4>1. i..Len(longer) = (i..Len(seq)) \cup {Len(seq) + 1}
          BY <1>1, <1>2, <3>2
        <4>2. \A j \in i..Len(seq) : longer[j] = seq[j]
          BY <1>1, <1>2, <3>2
        <4>3. i # Len(seq) + 1
          BY <1>2, <3>2
        <4> QED
          BY <1>1, <1>2, <3>2, <4>1, <4>2, <4>3 DEF Trailing
      <3> QED
        BY <1>2, <3>1, <3>2
    <2> QED
      BY <1>2, <2>1 DEF Trailing
  <1>4. Len(seq) + 1 \notin Trailing(seq)
    BY <1>2 DEF Trailing
  <1> QED
    BY <1>1, <1>3, <1>4, TrailingFinite, FS_AddElement DEF longer

(* At first nothing is recorded and the circuit is closed.                 *)
LEMMA CircuitInit == Init => CircuitInv
  <1> SUFFICES ASSUME Init PROVE CircuitInv
    OBVIOUS
  <1>1. outcomes = <<>> /\ Trailing(outcomes) = {}
    BY DEF Init, Trailing
  <1>2. Cardinality({}) = 0
    BY FS_EmptySet
  <1>3. Cardinality(Trailing(outcomes)) = 0
    BY <1>1, <1>2
  <1>4. breaker.failures = 0 /\ breaker.state = "closed" /\ outcomes = <<>>
    BY DEF Init, NewBreaker
  <1>5. outcomes \in Seq({"success", "failure"})
    BY <1>4
  <1>6. 0 < FailureThreshold
    BY ServiceAssumption
  <1> QED
    BY <1>3, <1>4, <1>5, <1>6 DEF CircuitInv

(* Every step keeps the counter and the state in step with the outcomes.   *)
LEMMA CircuitStep == CircuitInv /\ [Next]_vars => CircuitInv'
  <1> SUFFICES ASSUME CircuitInv, [Next]_vars PROVE CircuitInv'
    OBVIOUS
  <1> USE ServiceAssumption
  <1>1. ASSUME UNCHANGED <<breaker, outcomes>> PROVE CircuitInv'
    BY <1>1 DEF CircuitInv
  <1>2. ASSUME NEW r \in Requests, PredictOK(r) PROVE CircuitInv'
    <2>1. breaker' = RecordSuccess(breaker) /\ outcomes' = Append(outcomes, "success")
      BY <1>2 DEF PredictOK
    <2> QED
      BY <2>1, SuccessEnds DEF CircuitInv, RecordSuccess
  <1>3. ASSUME NEW r \in Requests, PredictFails(r) PROVE CircuitInv'
    <2>1. breaker' = RecordFailure(breaker, clock) /\ outcomes' = Append(outcomes, "failure")
      BY <1>3 DEF PredictFails
    <2>2. /\ breaker'.failures = breaker.failures + 1
          /\ breaker'.state = IF breaker.failures + 1 >= FailureThreshold THEN "open" ELSE breaker.state
      BY <2>1 DEF RecordFailure
    <2>3. /\ outcomes' \in Seq({"success", "failure"})
          /\ Cardinality(Trailing(outcomes')) = Cardinality(Trailing(outcomes)) + 1
      BY <2>1, FailureCounts DEF CircuitInv
    <2> QED
      BY <2>2, <2>3 DEF CircuitInv, Trailing
  <1> QED
    BY <1>1, <1>2, <1>3
    DEF Next, vars, Arrive, TakeThread, ServePlain, ServeFallback, LoadPredictor, TimeOut,
        RequestShutdown, Tick

(* utils/resilience.py as routes_predict.py uses it: whatever requests come *)
(* and whenever their predictions end, before or after their timeouts, the *)
(* circuit is closed exactly while fewer failures than the threshold were  *)
(* recorded since the last success.                                        *)
THEOREM CircuitIsWhatWasRecorded == Spec => []CircuitFollowsOutcomes
  <1>1. CircuitInv => CircuitFollowsOutcomes
    BY DEF CircuitInv, CircuitFollowsOutcomes, SinceSuccess, Trailing
  <1> QED
    BY <1>1, CircuitInit, CircuitStep, PTL DEF Spec

-----------------------------------------------------------------------------
(* The rate limiter.                                                       *)

Buckets == UNION {{<<kind.key, kind.path>> : kind \in Kinds[r]} : r \in Requests}

(* The times of a bucket: in order, and none to come.                      *)
InOrder(times, now) ==
  /\ times \in Seq(Nat)
  /\ \A i, j \in DOMAIN times : i <= j => times[i] <= times[j]
  /\ \A i \in DOMAIN times : times[i] <= now

(* The places of a bucket's times after t, and of the requests admitted    *)
(* for it after t.                                                         *)
Later(times, t) == {i \in DOMAIN times : times[i] > t}
AdmittedLater(seq, bucket, t) == {j \in DOMAIN seq : seq[j][1] = bucket /\ seq[j][2] > t}

TimesOf(held, bucket) == IF bucket \in DOMAIN held THEN held[bucket] ELSE <<>>

LimiterOK(lim, now) ==
  /\ lim = [buckets |-> lim.buckets, pruned |-> lim.pruned]
  /\ \A b \in DOMAIN lim.buckets : InOrder(lim.buckets[b], now)

(* A bucket has at least as many times within the window as requests were  *)
(* admitted for it: those it forgot are too old to count.                  *)
Remembers(held, seq, now) ==
  \A b \in Buckets : Limits[b[2]] > 0 =>
    \A t \in Int : t >= now - RateWindow =>
      Cardinality(AdmittedLater(seq, b, t)) <= Cardinality(Later(TimesOf(held, b), t))

(* WithinRate of a list of admissions.                                     *)
Within(seq, i) ==
  {j \in 1..i : seq[j][1] = seq[i][1] /\ seq[j][2] > seq[i][2] - RateWindow}
Rated(seq) ==
  \A i \in DOMAIN seq : Limits[seq[i][1][2]] > 0 =>
    Cardinality(Within(seq, i)) <= Limits[seq[i][1][2]]

AdmittedOK(seq, now) ==
  /\ seq \in Seq(Buckets \X Nat)
  /\ \A j \in DOMAIN seq : seq[j][2] <= now

RateInv ==
  /\ clock \in Nat
  /\ AdmittedOK(admitted, clock)
  /\ LimiterOK(limiter, clock)
  /\ Remembers(limiter.buckets, admitted, clock)
  /\ Rated(admitted)

(* Every limit of a bucket is an integer.                                  *)
LEMMA LimitsAreIntegers == \A b \in Buckets : Limits[b[2]] \in Int
  BY ServiceAssumption DEF Buckets

(* The places after t of a list of times are finitely many.                *)
LEMMA LaterFinite ==
  ASSUME NEW times \in Seq(Nat), NEW t \in Int
  PROVE  /\ IsFiniteSet(Later(times, t))
         /\ Cardinality(Later(times, t)) \in Nat
         /\ Cardinality(Later(times, t)) <= Len(times)
  <1>1. /\ IsFiniteSet(1..Len(times)) /\ Cardinality(1..Len(times)) = Len(times)
        /\ DOMAIN times = 1..Len(times)
    <2>1. Len(times) \in Nat /\ DOMAIN times = 1..Len(times)
      BY LenProperties
    <2>2. IsFiniteSet(1..Len(times)) /\ Cardinality(1..Len(times)) = IF 1 > Len(times) THEN 0 ELSE Len(times) - 1 + 1
      BY <2>1, FS_Interval
    <2> QED
      BY <2>1, <2>2
  <1>2. Later(times, t) \in SUBSET (1..Len(times))
    BY <1>1 DEF Later
  <1> QED
    BY <1>1, <1>2, FS_Subset, FS_CardinalityType

(* So are the admissions.                                                  *)
LEMMA AdmittedFinite ==
  ASSUME NEW seq \in Seq(Buckets \X Nat), NEW b, NEW t
  PROVE  IsFiniteSet(AdmittedLater(seq, b, t)) /\ Cardinality(AdmittedLater(seq, b, t)) \in Nat
  <1>1. IsFiniteSet(1..Len(seq)) /\ DOMAIN seq = 1..Len(seq)
    BY FS_Interval, LenProperties
  <1>2. AdmittedLater(seq, b, t) \in SUBSET (1..Len(seq))
    BY <1>1 DEF AdmittedLater
  <1> QED
    BY <1>1, <1>2, FS_Subset, FS_CardinalityType

(* What Recent leaves out of a bucket is too old to count.                 *)
LEMMA RecentKeeps ==
  ASSUME NEW lim, NEW now \in Nat, LimiterOK(lim, now), NEW b,
         NEW t \in Int, t >= now - RateWindow
  PROVE  /\ InOrder(Recent(lim, b, now), now)
         /\ Cardinality(Later(TimesOf(lim.buckets, b), t)) <= Cardinality(Later(Recent(lim, b, now), t))
  <1> DEFINE times == lim.buckets[b]
             within == {i \in DOMAIN times : times[i] > now - RateWindow}
  <1>0. RateWindow \in Nat
    BY RateAssumption
  <1>1. InOrder(<<>>, now) /\ Later(<<>>, t) = {}
    BY DEF InOrder, Later
  <1>2. CASE b \notin DOMAIN lim.buckets
    <2>1. Recent(lim, b, now) = <<>> /\ TimesOf(lim.buckets, b) = <<>>
      BY <1>2 DEF Recent, TimesOf
    <2>2. Cardinality({}) <= Cardinality({})
      BY FS_EmptySet
    <2> QED
      BY <1>1, <2>1, <2>2
  <1>3. CASE b \in DOMAIN lim.buckets /\ within = {}
    <2>1. Recent(lim, b, now) = <<>> /\ TimesOf(lim.buckets, b) = times
      BY <1>3 DEF Recent, TimesOf
    <2>2. \A i \in DOMAIN times : times[i] \in Nat
      BY <1>3, ElementOfSeq, LenProperties DEF LimiterOK, InOrder
    <2>3. Later(times, t) = {}
      BY <1>0, <1>3, <2>2 DEF Later
    <2>4. Cardinality({}) <= Cardinality({})
      BY FS_EmptySet
    <2> QED
      BY <1>1, <2>1, <2>3, <2>4
  <1>4. CASE b \in DOMAIN lim.buckets /\ within # {}
    <2>1. InOrder(times, now)
      BY <1>4 DEF LimiterOK
    <2>2. /\ times \in Seq(Nat) /\ Len(times) \in Nat /\ DOMAIN times = 1..Len(times)
          /\ \A i \in 1..Len(times) : times[i] \in Nat
      BY <2>1, ElementOfSeq, LenProperties DEF InOrder
    <2>3. Min(within) \in within /\ \A i \in within : Min(within) <= i
      <3>1. within \in SUBSET Nat
        BY <2>2
      <3>2. PICK m \in within : \A i \in within : m <= i
        <4> HIDE DEF within
        <4> QED
          BY <1>4, <3>1, LeastNatural
      <3> HIDE DEF within
      <3> QED
        BY <3>1, <3>2 DEF Min
    <2> DEFINE first == Min(within)
               n == Len(times)
               recent == SubSeq(times, first, n)
    <2>4. first \in 1..n /\ n \in Nat
      BY <2>2, <2>3
    <2>5. Recent(lim, b, now) = recent /\ TimesOf(lim.buckets, b) = times
      BY <1>4 DEF Recent, TimesOf
    <2>6. \A i \in DOMAIN times : times[i] > t => i >= first
      <3> SUFFICES ASSUME NEW i \in DOMAIN times, times[i] > t PROVE i >= first
        OBVIOUS
      <3>1. times[i] > now - RateWindow
        BY <1>0, <2>2
      <3>2. i \in within
        BY <3>1
      <3> QED
        BY <2>2, <2>3, <2>4, <3>2
    <2> HIDE DEF first, n
    <2>7. /\ recent \in Seq(Nat) /\ Len(recent) = n - first + 1
          /\ \A i \in 1..(n - first + 1) : recent[i] = times[first + i - 1]
      <3>1. \A i \in first..n : times[i] \in Nat
        BY <2>2, <2>4 DEF n
      <3> QED
        BY <2>4, <3>1, SubSeqProperties
    <2> HIDE DEF recent
    <2>8. DOMAIN recent = 1..(n - first + 1)
      BY <2>7, LenProperties
    <2>9. \A i \in DOMAIN recent : first + i - 1 \in 1..n /\ recent[i] = times[first + i - 1]
      BY <2>4, <2>7, <2>8
    <2>10. InOrder(recent, now)
      <3>1. \A i, j \in 1..n : i <= j => times[i] <= times[j]
        BY <2>1, <2>2 DEF InOrder, n
      <3>2. \A i \in 1..n : times[i] <= now
        BY <2>1, <2>2 DEF InOrder, n
      <3>3. \A i, j \in DOMAIN recent : i <= j => first + i - 1 <= first + j - 1
        BY <2>4, <2>8
      <3> QED
        BY <2>7, <2>9, <3>1, <3>2, <3>3 DEF InOrder
    <2>11. Cardinality(Later(times, t)) <= Cardinality(Later(recent, t))
      <3> DEFINE f == [i \in Later(times, t) |-> i - first + 1]
      <3>1. \A i \in Later(times, t) : i \in first..n /\ times[i] > t
        BY <2>2, <2>4, <2>6 DEF Later, n
      <3>2. \A i \in Later(times, t) : i - first + 1 \in Later(recent, t)
        <4> SUFFICES ASSUME NEW i \in Later(times, t) PROVE i - first + 1 \in Later(recent, t)
          OBVIOUS
        <4>1. i - first + 1 \in 1..(n - first + 1)
          BY <2>4, <3>1
        <4>2. first + (i - first + 1) - 1 = i
          BY <2>4, <3>1
        <4>3. recent[i - first + 1] = times[i]
          BY <2>7, <4>1, <4>2
        <4> QED
          BY <2>8, <3>1, <4>1, <4>3 DEF Later
      <3>3. \A i, j \in Later(times, t) : i - first + 1 = j - first + 1 => i = j
        BY <2>4, <3>1
      <3>4. f \in Injection(Later(times, t), Later(recent, t))
        BY <3>2, <3>3 DEF Injection, IsInjective
      <3> QED
        BY <2>7, <3>4, LaterFinite, FS_Injection
    <2> QED
      BY <2>5, <2>10, <2>11
  <1> QED
    BY <1>2, <1>3, <1>4

(* What pruning drops is too old to count.                                 *)
LEMMA PrunedKeeps ==
  ASSUME NEW lim, NEW now \in Nat, LimiterOK(lim, now)
  PROVE  /\ LimiterOK(Pruned(lim, now), now)
         /\ \A b : \A t \in Int : t >= now - RateWindow =>
              Cardinality(Later(TimesOf(lim.buckets, b), t))
                <= Cardinality(Later(TimesOf(Pruned(lim, now).buckets, b), t))
  <1> DEFINE kept == Pruned(lim, now)
             live == {b \in DOMAIN lim.buckets : ~ Stale(lim.buckets[b], now)}
  <1>0. RateWindow \in Nat /\ StaleAge \in Int /\ StaleAge >= RateWindow
    BY RateAssumption
  <1>1. CASE kept = lim
    <2> SUFFICES ASSUME NEW b, NEW t \in Int
                 PROVE  Cardinality(Later(TimesOf(lim.buckets, b), t))
                          <= Cardinality(Later(TimesOf(lim.buckets, b), t))
      BY <1>1
    <2>1. TimesOf(lim.buckets, b) \in Seq(Nat)
      BY DEF TimesOf, LimiterOK, InOrder
    <2> QED
      BY <2>1, LaterFinite
  <1>2. CASE kept = [buckets |-> [b \in live |-> lim.buckets[b]], pruned |-> now]
    <2>1. LimiterOK(kept, now)
      BY <1>2 DEF LimiterOK
    <2>2. ASSUME NEW b, NEW t \in Int, t >= now - RateWindow
          PROVE  Cardinality(Later(TimesOf(lim.buckets, b), t))
                   <= Cardinality(Later(TimesOf(kept.buckets, b), t))
      <3> DEFINE times == TimesOf(lim.buckets, b)
      <3>1. times \in Seq(Nat) /\ InOrder(times, now)
        BY DEF TimesOf, LimiterOK, InOrder
      <3>2. /\ DOMAIN times = 1..Len(times) /\ Len(times) \in Nat
            /\ \A i \in 1..Len(times) : times[i] \in Nat
        BY <3>1, ElementOfSeq, LenProperties
      <3>3. CASE b \in live \/ b \notin DOMAIN lim.buckets
        <4>1. TimesOf(kept.buckets, b) = times
          BY <1>2, <3>3 DEF TimesOf
        <4>2. Cardinality(Later(times, t)) \in Nat
          BY <3>1, LaterFinite
        <4> QED
          BY <4>1, <4>2
      <3>4. CASE b \in DOMAIN lim.buckets /\ b \notin live
        <4>1. TimesOf(kept.buckets, b) = <<>>
          BY <1>2, <3>4 DEF TimesOf
        <4>2. Stale(times, now)
          BY <3>4 DEF TimesOf
        <4>3. Later(times, t) = {}
          <5> SUFFICES ASSUME NEW i \in DOMAIN times PROVE ~ (times[i] > t)
            BY DEF Later
          <5>1. times # <<>>
            OBVIOUS
          <5>2. times[Len(times)] <= now - StaleAge
            BY <4>2, <5>1 DEF Stale, Last
          <5>3. Len(times) \in DOMAIN times /\ i <= Len(times)
            BY <3>2
          <5>4. times[i] <= times[Len(times)]
            BY <3>1, <5>3 DEF InOrder
          <5>5. times[i] \in Nat /\ times[Len(times)] \in Nat
            BY <3>2, <5>3
          <5> HIDE DEF times
          <5> QED
            BY <1>0, <2>2, <5>2, <5>4, <5>5
        <4>4. Later(<<>>, t) = {} /\ Cardinality({}) <= Cardinality({})
          BY FS_EmptySet DEF Later
        <4> QED
          BY <4>1, <4>3, <4>4
      <3> QED
        BY <3>3, <3>4
    <2> QED
      BY <2>1, <2>2
  <1> QED
    BY <1>1, <1>2 DEF Pruned

(* The limiter once a list of times is put in a bucket.                    *)
PutIn(lim, b, times) == [lim EXCEPT !.buckets = Put(@, b, times)]

(* It changes that bucket and no other.                                    *)
LEMMA PutKeeps ==
  ASSUME NEW lim, NEW now \in Nat, LimiterOK(lim, now), NEW b, NEW times, InOrder(times, now)
  PROVE  /\ LimiterOK(PutIn(lim, b, times), now)
         /\ TimesOf(PutIn(lim, b, times).buckets, b) = times
         /\ \A c : c # b => TimesOf(PutIn(lim, b, times).buckets, c) = TimesOf(lim.buckets, c)
  <1>1. PutIn(lim, b, times) = [buckets |-> Put(lim.buckets, b, times), pruned |-> lim.pruned]
    BY DEF LimiterOK, PutIn
  <1>2. LimiterOK(PutIn(lim, b, times), now)
    BY <1>1 DEF LimiterOK, Put
  <1> QED
    BY <1>1, <1>2 DEF TimesOf, Put

(* A request let through now is one more of its bucket's times.            *)
LEMMA NowCounts ==
  ASSUME NEW now \in Nat, NEW times, InOrder(times, now)
  PROVE  /\ InOrder(Append(times, now), now)
         /\ \A t \in Int : t < now =>
              Cardinality(Later(Append(times, now), t)) = Cardinality(Later(times, t)) + 1
  <1> DEFINE longer == Append(times, now)
             n == Len(times)
  <1>0. times \in Seq(Nat)
    BY DEF InOrder
  <1>1. /\ longer \in Seq(Nat) /\ Len(longer) = n + 1
        /\ \A i \in 1..n : longer[i] = times[i]
        /\ longer[n + 1] = now
    BY <1>0, AppendProperties
  <1>2. /\ n \in Nat /\ DOMAIN times = 1..n /\ DOMAIN longer = 1..(n + 1)
        /\ \A i \in 1..n : times[i] \in Nat
    BY <1>0, <1>1, LenProperties, ElementOfSeq
  <1> HIDE DEF longer, n
  <1>3. \A i \in 1..(n + 1) : i \in 1..n \/ i = n + 1
    BY <1>2
  <1>4. InOrder(longer, now)
    <2>1. \A i \in 1..(n + 1) : longer[i] <= now
      BY <1>1, <1>2, <1>3 DEF InOrder
    <2>2. ASSUME NEW i \in 1..(n + 1), NEW j \in 1..(n + 1), i <= j PROVE longer[i] <= longer[j]
      <3>1. CASE j = n + 1
        BY <1>1, <2>1, <3>1
      <3>2. CASE j \in 1..n
        <4>1. i \in 1..n
          BY <1>2, <2>2, <3>2
        <4> QED
          BY <1>1, <1>2, <2>2, <3>2, <4>1 DEF InOrder
      <3> QED
        BY <1>3, <3>1, <3>2
    <2> QED
      BY <1>1, <1>2, <2>1, <2>2 DEF InOrder
  <1>5. ASSUME NEW t \in Int, t < now
        PROVE  Cardinality(Later(longer, t)) = Cardinality(Later(times, t)) + 1
    <2>1. Later(longer, t) = Later(times, t) \cup {n + 1}
      BY <1>1, <1>2, <1>3, <1>5 DEF Later
    <2>2. n + 1 \notin Later(times, t)
      BY <1>2 DEF Later
    <2> QED
      BY <1>0, <2>1, <2>2, LaterFinite, FS_AddElement
  <1> QED
    BY <1>4, <1>5 DEF longer

(* What one more admission does to the counts.                             *)
LEMMA AdmissionCounts ==
  ASSUME NEW now \in Nat, NEW seq, AdmittedOK(seq, now), NEW b \in Buckets
  PROVE  LET longer == Append(seq, <<b, now>>)
         IN  /\ AdmittedOK(longer, now)
             /\ \A c \in Buckets, t \in Int : c # b \/ t >= now =>
                  AdmittedLater(longer, c, t) = IF t >= now THEN {} ELSE AdmittedLater(seq, c, t)
             /\ \A t \in Int : t < now =>
                  Cardinality(AdmittedLater(longer, b, t)) = Cardinality(AdmittedLater(seq, b, t)) + 1
             /\ Within(longer, Len(longer)) = AdmittedLater(longer, b, now - RateWindow)
             /\ \A i \in DOMAIN seq : Within(longer, i) = Within(seq, i) /\ longer[i] = seq[i]
             /\ DOMAIN longer = DOMAIN seq \cup {Len(longer)}
             /\ longer[Len(longer)] = <<b, now>>
  <1> DEFINE longer == Append(seq, <<b, now>>)
             n == Len(seq)
  <1>0. seq \in Seq(Buckets \X Nat)
    BY DEF AdmittedOK
  <1>1. /\ longer \in Seq(Buckets \X Nat) /\ Len(longer) = n + 1
        /\ \A i \in 1..n : longer[i] = seq[i]
        /\ longer[n + 1] = <<b, now>>
    BY <1>0, AppendProperties
  <1>2. /\ n \in Nat /\ DOMAIN seq = 1..n /\ DOMAIN longer = 1..(n + 1)
        /\ \A i \in 1..n : seq[i] \in Buckets \X Nat
    BY <1>0, <1>1, LenProperties, ElementOfSeq
  <1> HIDE DEF longer, n
  <1>3. \A i \in 1..(n + 1) : i \in 1..n \/ i = n + 1
    BY <1>2
  <1>4. longer[n + 1][1] = b /\ longer[n + 1][2] = now
    BY <1>1
  <1>5. AdmittedOK(longer, now)
    <2>1. \A i \in 1..n : longer[i][2] <= now
      BY <1>1, <1>2 DEF AdmittedOK
    <2>2. \A i \in 1..(n + 1) : longer[i][2] <= now
      BY <1>3, <1>4, <2>1
    <2> QED
      BY <1>1, <1>2, <2>2 DEF AdmittedOK
  <1>6. ASSUME NEW c \in Buckets, NEW t \in Int, t >= now PROVE AdmittedLater(longer, c, t) = {}
    <2>1. \A i \in DOMAIN longer : longer[i][2] \in Nat /\ longer[i][2] <= now
      <3>1. \A i \in 1..(n + 1) : longer[i] \in Buckets \X Nat
        BY <1>1, ElementOfSeq
      <3> QED
        BY <1>2, <1>5, <3>1 DEF AdmittedOK
    <2> QED
      BY <1>6, <2>1 DEF AdmittedLater
  <1>7. ASSUME NEW c \in Buckets, NEW t \in Int, c # b
        PROVE  AdmittedLater(longer, c, t) = AdmittedLater(seq, c, t)
    BY <1>1, <1>2, <1>3, <1>4, <1>7 DEF AdmittedLater
  <1>8. ASSUME NEW t \in Int, t < now
        PROVE  Cardinality(AdmittedLater(longer, b, t)) = Cardinality(AdmittedLater(seq, b, t)) + 1
    <2>1. AdmittedLater(longer, b, t) = AdmittedLater(seq, b, t) \cup {n + 1}
      BY <1>1, <1>2, <1>3, <1>4, <1>8 DEF AdmittedLater
    <2>2. n + 1 \notin AdmittedLater(seq, b, t)
      BY <1>2 DEF AdmittedLater
    <2> QED
      BY <1>0, <2>1, <2>2, AdmittedFinite, FS_AddElement
  <1>9. Within(longer, n + 1) = AdmittedLater(longer, b, now - RateWindow)
    BY <1>2, <1>4 DEF Within, AdmittedLater
  <1>10. ASSUME NEW i \in 1..n PROVE Within(longer, i) = Within(seq, i)
    <2>1. \A j \in 1..i : j \in 1..n /\ longer[j] = seq[j]
      BY <1>1, <1>2
    <2> QED
      BY <1>1, <2>1 DEF Within
  <1>11. DOMAIN longer = DOMAIN seq \cup {n + 1}
    BY <1>2, <1>3
  <1> QED
    BY <1>1, <1>2, <1>5, <1>6, <1>7, <1>8, <1>9, <1>10, <1>11 DEF longer

-----------------------------------------------------------------------------
(* A request that the limit refuses changes only its bucket, which forgets *)
(* what is too old.                                                        *)
LEMMA RefusalKeeps ==
  ASSUME RateInv, NEW b \in Buckets
  PROVE  LET kept == Pruned(limiter, clock)
             recent == Recent(kept, b, clock)
             next == PutIn(kept, b, recent)
         IN  /\ InOrder(recent, clock) /\ LimiterOK(kept, clock)
             /\ LimiterOK(next, clock)
             /\ Remembers(next.buckets, admitted, clock)
  <1> DEFINE kept == Pruned(limiter, clock)
             recent == Recent(kept, b, clock)
             next == PutIn(kept, b, recent)
  <1>0. clock \in Nat /\ LimiterOK(limiter, clock) /\ RateWindow \in Nat
    BY RateAssumption DEF RateInv
  <1>1. LimiterOK(kept, clock)
    BY <1>0, PrunedKeeps
  <1>2. InOrder(recent, clock)
    <2>1. 0 - RateWindow + clock \in Int /\ clock >= clock - RateWindow /\ clock \in Int
      BY <1>0
    <2> QED
      BY <1>0, <1>1, <2>1, RecentKeeps
  <1>3. LimiterOK(next, clock)
    BY <1>0, <1>1, <1>2, PutKeeps
  <1>4. ASSUME NEW c \in Buckets, Limits[c[2]] > 0, NEW t \in Int, t >= clock - RateWindow
        PROVE  Cardinality(AdmittedLater(admitted, c, t)) <= Cardinality(Later(TimesOf(next.buckets, c), t))
    <2> DEFINE A == Cardinality(AdmittedLater(admitted, c, t))
               B == Cardinality(Later(TimesOf(limiter.buckets, c), t))
               C == Cardinality(Later(TimesOf(kept.buckets, c), t))
               D == Cardinality(Later(TimesOf(next.buckets, c), t))
    <2>1. A <= B
      BY <1>4 DEF RateInv, Remembers
    <2>2. B <= C
      BY <1>0, <1>4, PrunedKeeps
    <2>3. C <= D
      <3>1. CASE c = b
        <4>1. TimesOf(next.buckets, c) = recent
          BY <1>0, <1>1, <1>2, <3>1, PutKeeps
        <4> QED
          BY <1>0, <1>1, <1>4, <3>1, <4>1, RecentKeeps
      <3>2. CASE c # b
        <4>1. TimesOf(next.buckets, c) = TimesOf(kept.buckets, c)
          BY <1>0, <1>1, <1>2, <3>2, PutKeeps
        <4>2. TimesOf(kept.buckets, c) \in Seq(Nat)
          BY <1>1 DEF TimesOf, LimiterOK, InOrder
        <4>3. C \in Nat
          BY <4>2, LaterFinite
        <4> QED
          BY <4>1, <4>3
      <3> QED
        BY <3>1, <3>2
    <2>4. A \in Nat /\ B \in Nat /\ C \in Nat /\ D \in Nat
      <3>1. A \in Nat
        BY AdmittedFinite DEF RateInv, AdmittedOK
      <3>2. \A lim : LimiterOK(lim, clock) => TimesOf(lim.buckets, c) \in Seq(Nat)
        BY DEF TimesOf, LimiterOK, InOrder
      <3>3. /\ TimesOf(limiter.buckets, c) \in Seq(Nat)
            /\ TimesOf(kept.buckets, c) \in Seq(Nat)
            /\ TimesOf(next.buckets, c) \in Seq(Nat)
        BY <1>0, <1>1, <1>3, <3>2
      <3> QED
        BY <3>1, <3>3, LaterFinite
    <2> HIDE DEF A, B, C, D
    <2>5. A <= D
      BY <2>1, <2>2, <2>3, <2>4
    <2> QED
      BY <2>5 DEF A, D
  <1> QED
    BY <1>1, <1>2, <1>3, <1>4 DEF Remembers

(* A request that the limit lets through.                                  *)
LEMMA AdmissionKeeps ==
  ASSUME RateInv, NEW b \in Buckets, Limits[b[2]] > 0,
         Len(Recent(Pruned(limiter, clock), b, clock)) < Limits[b[2]]
  PROVE  LET kept == Pruned(limiter, clock)
             next == PutIn(kept, b, Append(Recent(kept, b, clock), clock))
             longer == Append(admitted, <<b, clock>>)
         IN  /\ LimiterOK(next, clock)
             /\ AdmittedOK(longer, clock)
             /\ Remembers(next.buckets, longer, clock)
             /\ Rated(longer)
  <1> DEFINE kept == Pruned(limiter, clock)
             recent == Recent(kept, b, clock)
             passed == PutIn(kept, b, recent)
             next == PutIn(kept, b, Append(recent, clock))
             longer == Append(admitted, <<b, clock>>)
             start == clock - RateWindow
  <1>0. clock \in Nat /\ AdmittedOK(admitted, clock) /\ RateWindow \in Nat \ {0}
    BY RateAssumption DEF RateInv
  <1>1. /\ InOrder(recent, clock) /\ LimiterOK(kept, clock)
        /\ LimiterOK(passed, clock) /\ Remembers(passed.buckets, admitted, clock)
    BY RefusalKeeps
  <1>2. /\ InOrder(Append(recent, clock), clock)
        /\ \A t \in Int : t < clock =>
             Cardinality(Later(Append(recent, clock), t)) = Cardinality(Later(recent, t)) + 1
    BY <1>0, <1>1, NowCounts
  <1>3. /\ LimiterOK(next, clock)
        /\ TimesOf(next.buckets, b) = Append(recent, clock)
        /\ \A c : c # b => TimesOf(next.buckets, c) = TimesOf(kept.buckets, c)
    <2> DEFINE grown == Append(recent, clock)
    <2>1. InOrder(grown, clock) /\ LimiterOK(kept, clock) /\ clock \in Nat
      BY <1>0, <1>1, <1>2
    <2> HIDE DEF grown, kept
    <2>2. /\ LimiterOK(PutIn(kept, b, grown), clock)
          /\ TimesOf(PutIn(kept, b, grown).buckets, b) = grown
          /\ \A c : c # b => TimesOf(PutIn(kept, b, grown).buckets, c) = TimesOf(kept.buckets, c)
      BY ONLY <2>1, PutKeeps
    <2> QED
      BY <2>2 DEF grown, kept
  <1>4. /\ TimesOf(passed.buckets, b) = recent
        /\ \A c : c # b => TimesOf(passed.buckets, c) = TimesOf(kept.buckets, c)
    BY <1>0, <1>1, PutKeeps
  <1>5. /\ AdmittedOK(longer, clock)
        /\ \A c \in Buckets, t \in Int : c # b \/ t >= clock =>
             AdmittedLater(longer, c, t) = IF t >= clock THEN {} ELSE AdmittedLater(admitted, c, t)
        /\ \A t \in Int : t < clock =>
             Cardinality(AdmittedLater(longer, b, t)) = Cardinality(AdmittedLater(admitted, b, t)) + 1
        /\ Within(longer, Len(longer)) = AdmittedLater(longer, b, start)
        /\ \A i \in DOMAIN admitted : Within(longer, i) = Within(admitted, i) /\ longer[i] = admitted[i]
        /\ DOMAIN longer = DOMAIN admitted \cup {Len(longer)}
        /\ longer[Len(longer)] = <<b, clock>>
    BY <1>0, AdmissionCounts
  <1>6. recent \in Seq(Nat) /\ admitted \in Seq(Buckets \X Nat)
    BY <1>0, <1>1 DEF InOrder, AdmittedOK
  <1>7. \A t \in Int : /\ Cardinality(Later(recent, t)) \in Nat
                       /\ Cardinality(Later(recent, t)) <= Len(recent)
                       /\ Cardinality(AdmittedLater(admitted, b, t)) \in Nat
    BY <1>6, LaterFinite, AdmittedFinite
  <1>8. \A t \in Int : t >= start =>
          Cardinality(AdmittedLater(admitted, b, t)) <= Cardinality(Later(recent, t))
    BY <1>1, <1>4 DEF Remembers
  <1>9. \A c \in Buckets : TimesOf(next.buckets, c) \in Seq(Nat)
    BY <1>3 DEF TimesOf, LimiterOK, InOrder
  <1>10. Remembers(next.buckets, longer, clock)
    <2> SUFFICES ASSUME NEW c \in Buckets, Limits[c[2]] > 0, NEW t \in Int, t >= start
                 PROVE  Cardinality(AdmittedLater(longer, c, t))
                          <= Cardinality(Later(TimesOf(next.buckets, c), t))
      BY <1>1, RateAssumption DEF Remembers
    <2>1. CASE t >= clock
      <3>1. Cardinality(AdmittedLater(longer, c, t)) = 0
        <4>1. AdmittedLater(longer, c, t) = {}
          BY <1>5, <2>1
        <4> HIDE DEF longer
        <4> QED
          BY <4>1, FS_EmptySet
      <3>2. Cardinality(Later(TimesOf(next.buckets, c), t)) \in Nat
        BY <1>9, LaterFinite
      <3> QED
        BY <3>1, <3>2
    <2>2. CASE t < clock /\ c # b
      <3>1. ~ (t >= clock)
        BY <1>0, <2>2
      <3>2. AdmittedLater(longer, c, t) = AdmittedLater(admitted, c, t)
        BY <1>5, <2>2, <3>1
      <3>3. TimesOf(next.buckets, c) = TimesOf(passed.buckets, c)
        BY <1>3, <1>4, <2>2
      <3> QED
        BY <1>1, <3>2, <3>3 DEF Remembers
    <2>3. CASE t < clock /\ c = b
      <3>1. Cardinality(AdmittedLater(longer, b, t)) = Cardinality(AdmittedLater(admitted, b, t)) + 1
        BY <1>5, <2>3
      <3>2. Cardinality(Later(Append(recent, clock), t)) = Cardinality(Later(recent, t)) + 1
        BY <1>2, <2>3
      <3>3. Cardinality(AdmittedLater(admitted, b, t)) <= Cardinality(Later(recent, t))
        BY <1>8
      <3>4. Cardinality(AdmittedLater(admitted, b, t)) \in Nat /\ Cardinality(Later(recent, t)) \in Nat
        BY <1>7
      <3>5. Cardinality(AdmittedLater(longer, b, t)) <= Cardinality(Later(Append(recent, clock), t))
        BY <3>1, <3>2, <3>3, <3>4
      <3> QED
        BY <1>3, <2>3, <3>5
    <2> QED
      BY <1>0, <2>1, <2>2, <2>3
  <1>11. Rated(longer)
    <2> SUFFICES ASSUME NEW i \in DOMAIN longer, Limits[longer[i][1][2]] > 0
                 PROVE  Cardinality(Within(longer, i)) <= Limits[longer[i][1][2]]
      BY DEF Rated
    <2>1. CASE i \in DOMAIN admitted
      <3>1. Within(longer, i) = Within(admitted, i) /\ longer[i] = admitted[i]
        BY <1>5, <2>1
      <3> QED
        BY <2>1, <3>1 DEF RateInv, Rated
    <2>2. CASE i = Len(longer)
      <3>1. start \in Int /\ start >= start /\ start < clock
        BY <1>0
      <3> HIDE DEF start
      <3>2. Cardinality(Within(longer, i)) = Cardinality(AdmittedLater(admitted, b, start)) + 1
        BY <1>5, <2>2, <3>1
      <3>3. Cardinality(AdmittedLater(admitted, b, start)) <= Cardinality(Later(recent, start))
        BY <1>8, <3>1
      <3>4. longer[i][1] = b
        BY <1>5, <2>2
      <3>5. Limits[b[2]] \in Int /\ Len(recent) < Limits[b[2]] /\ Len(recent) \in Nat
        BY <1>6, LimitsAreIntegers, LenProperties
      <3>6. /\ Cardinality(Later(recent, start)) \in Nat
            /\ Cardinality(Later(recent, start)) <= Len(recent)
            /\ Cardinality(AdmittedLater(admitted, b, start)) \in Nat
        BY <1>7, <3>1
      <3>7. Cardinality(AdmittedLater(admitted, b, start)) + 1 <= Limits[b[2]]
        BY <3>3, <3>5, <3>6
      <3> QED
        BY <3>2, <3>4, <3>7
    <2> QED
      BY <1>5, <2>1, <2>2
  <1> QED
    BY <1>3, <1>5, <1>10, <1>11

(* A request of a path without a limit is admitted without a time kept.    *)
LEMMA UnlimitedKeeps ==
  ASSUME RateInv, NEW b \in Buckets, ~ (Limits[b[2]] > 0)
  PROVE  LET longer == Append(admitted, <<b, clock>>)
         IN  /\ AdmittedOK(longer, clock)
             /\ Remembers(limiter.buckets, longer, clock)
             /\ Rated(longer)
  <1> DEFINE longer == Append(admitted, <<b, clock>>)
  <1>0. clock \in Nat /\ AdmittedOK(admitted, clock)
    BY DEF RateInv
  <1>1. /\ AdmittedOK(longer, clock)
        /\ \A c \in Buckets, t \in Int : c # b \/ t >= clock =>
             AdmittedLater(longer, c, t) = IF t >= clock THEN {} ELSE AdmittedLater(admitted, c, t)
        /\ \A i \in DOMAIN admitted : Within(longer, i) = Within(admitted, i) /\ longer[i] = admitted[i]
        /\ DOMAIN longer = DOMAIN admitted \cup {Len(longer)}
        /\ longer[Len(longer)] = <<b, clock>>
    BY <1>0, AdmissionCounts
  <1>2. Remembers(limiter.buckets, longer, clock)
    <2> SUFFICES ASSUME NEW c \in Buckets, Limits[c[2]] > 0, NEW t \in Int, t >= clock - RateWindow
                 PROVE  Cardinality(AdmittedLater(longer, c, t))
                          <= Cardinality(Later(TimesOf(limiter.buckets, c), t))
      BY <1>1, RateAssumption DEF Remembers
    <2>1. c # b
      OBVIOUS
    <2>2. CASE t >= clock
      <3>1. AdmittedLater(longer, c, t) = {} /\ Cardinality({}) = 0
        BY <1>1, <2>2, FS_EmptySet
      <3>2. TimesOf(limiter.buckets, c) \in Seq(Nat)
        BY DEF RateInv, TimesOf, LimiterOK, InOrder
      <3>3. Cardinality(Later(TimesOf(limiter.buckets, c), t)) \in Nat
        BY <3>2, LaterFinite
      <3> QED
        BY <3>1, <3>3
    <2>3. CASE ~ (t >= clock)
      <3>1. AdmittedLater(longer, c, t) = AdmittedLater(admitted, c, t)
        BY <1>1, <2>1, <2>3
      <3> QED
        BY <3>1 DEF RateInv, Remembers
    <2> QED
      BY <2>2, <2>3
  <1>3. Rated(longer)
    <2> SUFFICES ASSUME NEW i \in DOMAIN longer, Limits[longer[i][1][2]] > 0
                 PROVE  Cardinality(Within(longer, i)) <= Limits[longer[i][1][2]]
      BY DEF Rated
    <2>1. i \in DOMAIN admitted
      <3>1. longer[Len(longer)][1] = b
        BY <1>1
      <3> QED
        BY <1>1, <3>1
    <2>2. Within(longer, i) = Within(admitted, i) /\ longer[i] = admitted[i]
      BY <1>1, <2>1
    <2> QED
      BY <2>1, <2>2 DEF RateInv, Rated
  <1> QED
    BY <1>1, <1>2, <1>3

-----------------------------------------------------------------------------
(* At first nothing was admitted.                                          *)
LEMMA RateInit == Init => RateInv
  <1> SUFFICES ASSUME Init PROVE RateInv
    OBVIOUS
  <1>1. clock = 0 /\ admitted = <<>> /\ limiter = EmptyLimiter
    BY DEF Init
  <1>2. AdmittedOK(<<>>, 0) /\ Rated(<<>>)
    BY DEF AdmittedOK, Rated
  <1>3. LimiterOK(EmptyLimiter, 0)
    BY DEF LimiterOK, EmptyLimiter
  <1>4. Remembers(EmptyLimiter.buckets, <<>>, 0)
    <2>1. \A b, t : AdmittedLater(<<>>, b, t) = {}
      BY DEF AdmittedLater
    <2>2. \A b, t : Later(TimesOf(EmptyLimiter.buckets, b), t) = {}
      BY DEF Later, TimesOf, EmptyLimiter
    <2>3. Cardinality({}) <= Cardinality({})
      BY FS_EmptySet
    <2> QED
      BY <2>1, <2>2, <2>3 DEF Remembers
  <1> QED
    BY <1>1, <1>2, <1>3, <1>4 DEF RateInv

(* Time that goes by makes nothing younger.                                *)
LEMMA TickKeeps == ASSUME RateInv, Tick PROVE RateInv'
  <1>1. clock \in Nat /\ clock' = clock + 1 /\ UNCHANGED <<limiter, admitted>>
    BY DEF RateInv, Tick
  <1>2. AdmittedOK(admitted, clock + 1)
    <2>1. \A j \in DOMAIN admitted : admitted[j][2] \in Nat /\ admitted[j][2] <= clock
      <3>1. admitted \in Seq(Buckets \X Nat) /\ \A j \in DOMAIN admitted : admitted[j][2] <= clock
        BY DEF RateInv, AdmittedOK
      <3>2. \A j \in DOMAIN admitted : admitted[j] \in Buckets \X Nat
        BY <3>1, ElementOfSeq, LenProperties
      <3> QED
        BY <3>1, <3>2
    <2> QED
      BY <1>1, <2>1 DEF RateInv, AdmittedOK
  <1>3. LimiterOK(limiter, clock + 1)
    <2>1. ASSUME NEW b \in DOMAIN limiter.buckets PROVE InOrder(limiter.buckets[b], clock + 1)
      <3> DEFINE times == limiter.buckets[b]
      <3>1. InOrder(times, clock)
        BY DEF RateInv, LimiterOK
      <3>2. \A i \in DOMAIN times : times[i] \in Nat
        BY <3>1, ElementOfSeq, LenProperties DEF InOrder
      <3> HIDE DEF times
      <3>3. InOrder(times, clock + 1)
        BY <1>1, <3>1, <3>2 DEF InOrder
      <3> QED
        BY <3>3 DEF times
    <2> QED
      BY <2>1 DEF RateInv, LimiterOK
  <1>4. Remembers(limiter.buckets, admitted, clock + 1)
    <2>1. \A t \in Int : t >= clock + 1 - RateWindow => t >= clock - RateWindow
      BY <1>1, RateAssumption
    <2> SUFFICES ASSUME NEW b \in Buckets, Limits[b[2]] > 0, NEW t \in Int, t >= clock + 1 - RateWindow
                 PROVE  Cardinality(AdmittedLater(admitted, b, t))
                          <= Cardinality(Later(TimesOf(limiter.buckets, b), t))
      BY <1>1, RateAssumption DEF Remembers
    <2>2. t >= clock - RateWindow
      BY <2>1
    <2> QED
      BY <2>2 DEF RateInv, Remembers
  <1> QED
    BY <1>1, <1>2, <1>3, <1>4 DEF RateInv

(* A request that arrives is refused, or admitted within its limit.        *)
LEMMA ArrivalKeeps ==
  ASSUME RateInv, NEW r \in Requests, NEW kind \in Kinds[r], Arrive(r, kind)
  PROVE  RateInv'
  <1> DEFINE b == <<kind.key, kind.path>>
             kept == Pruned(limiter, clock)
             recent == Recent(kept, b, clock)
             check == CheckRateLimit(limiter, kind.key, kind.path, clock)
  <1>1. b \in Buckets /\ b[2] = kind.path /\ clock' = clock
    BY DEF Arrive, Buckets
  <1>2. \/ UNCHANGED <<limiter, admitted>>
        \/ /\ limiter' = check.limiter
           /\ IF check.allowed THEN admitted' = Append(admitted, <<b, clock>>)
              ELSE UNCHANGED admitted
    BY DEF Arrive
  <1>3. CASE UNCHANGED <<limiter, admitted>>
    BY <1>1, <1>3 DEF RateInv
  <1>4. CASE /\ limiter' = check.limiter
             /\ IF check.allowed THEN admitted' = Append(admitted, <<b, clock>>)
                ELSE UNCHANGED admitted
    <2>1. CASE Limits[kind.path] <= 0
      <3>1. check.limiter = limiter /\ check.allowed
        BY <2>1 DEF CheckRateLimit
      <3>2. limiter' = limiter /\ admitted' = Append(admitted, <<b, clock>>)
        BY <1>4, <3>1
      <3>3. ~ (Limits[b[2]] > 0)
        BY <1>1, <2>1, LimitsAreIntegers
      <3> HIDE DEF b, check
      <3> QED
        BY <1>1, <3>2, <3>3, UnlimitedKeeps DEF RateInv
    <2>2. CASE ~ (Limits[kind.path] <= 0) /\ Len(recent) >= Limits[kind.path]
      <3>1. check.limiter = PutIn(kept, b, recent) /\ ~ check.allowed
        BY <2>2 DEF CheckRateLimit, PutIn
      <3>2. limiter' = PutIn(kept, b, recent) /\ admitted' = admitted
        BY <1>4, <3>1
      <3> HIDE DEF b, check
      <3> QED
        BY <1>1, <3>2, RefusalKeeps DEF RateInv
    <2>3. CASE ~ (Limits[kind.path] <= 0) /\ ~ (Len(recent) >= Limits[kind.path])
      <3>1. check.limiter = PutIn(kept, b, Append(recent, clock)) /\ check.allowed
        BY <2>3 DEF CheckRateLimit, PutIn
      <3>2. limiter' = PutIn(kept, b, Append(recent, clock)) /\ admitted' = Append(admitted, <<b, clock>>)
        BY <1>4, <3>1
      <3>3. Limits[b[2]] > 0
        BY <1>1, <2>3, LimitsAreIntegers
      <3>4. InOrder(recent, clock)
        BY <1>1, RefusalKeeps
      <3>5. Len(recent) < Limits[b[2]]
        BY <1>1, <2>3, <3>4, LimitsAreIntegers, LenProperties DEF InOrder
      <3> HIDE DEF b, check
      <3> QED
        BY <1>1, <3>2, <3>3, <3>5, AdmissionKeeps DEF RateInv
    <2> QED
      BY <2>1, <2>2, <2>3
  <1> QED
    BY <1>2, <1>3, <1>4

(* Every other step leaves the limiter alone.                              *)
LEMMA RateStep == RateInv /\ [Next]_vars => RateInv'
  <1> SUFFICES ASSUME RateInv, [Next]_vars PROVE RateInv'
    OBVIOUS
  <1>1. ASSUME UNCHANGED <<clock, limiter, admitted>> PROVE RateInv'
    BY <1>1 DEF RateInv
  <1>2. ASSUME NEW r \in Requests, NEW kind \in Kinds[r], Arrive(r, kind) PROVE RateInv'
    BY <1>2, ArrivalKeeps
  <1>3. ASSUME Tick PROVE RateInv'
    BY <1>3, TickKeeps
  <1> QED
    BY <1>1, <1>2, <1>3
    DEF Next, vars, TakeThread, ServePlain, ServeFallback, LoadPredictor, PredictOK, PredictFails,
        TimeOut, RequestShutdown

(* api/rate_limit.py behind the middleware: no more requests of one key    *)
(* and one path pass within any window than the path's limit, whatever is  *)
(* pruned and whenever.                                                    *)
THEOREM RateHolds == Spec => []WithinRate
  <1>1. RateInv => WithinRate
    <2> SUFFICES ASSUME RateInv PROVE WithinRate
      OBVIOUS
    <2>1. Rated(admitted)
      BY DEF RateInv
    <2> QED
      BY <2>1 DEF WithinRate, Rated, Within
  <1> QED
    BY <1>1, RateInit, RateStep, PTL DEF Spec

-----------------------------------------------------------------------------
(* The shadow ingestion daemon.                                            *)

States == [last_ts : SUBSET Nat, rows_total : Nat, poll_count : Nat]
Polls == [pc : {"ingest", "filter", "save", "saving"}, loop : Loops, state : States]

ShadowTypeOK ==
  /\ source \in SUBSET Rows
  /\ watermark \in {Missing, Torn} \cup [file : {"saved"}, state : States]
  /\ datasets \in [DOMAIN datasets -> SUBSET Rows]
  /\ poll = NoPoll \/ poll \in Polls
  /\ torn \in BOOLEAN

(* What a watermark says of the committed files.                           *)
Tells(state, files) ==
  /\ 1..state.poll_count \subseteq DOMAIN files
  /\ \A m, n \in 1..state.poll_count : m # n => files[m] \cap files[n] = {}
  /\ state.rows_total = Cardinality(UNION {files[n] : n \in 1..state.poll_count})
  /\ \A n \in 1..state.poll_count : NewRows(files[n], state.last_ts) = {}

(* A poll that has written its file finds it again; once filtered it holds *)
(* the rows above the watermark and at least one.                          *)
PollFile == poll # NoPoll =>
  /\ poll.pc # "ingest" => DatasetId \in DOMAIN datasets
  /\ poll.pc \in {"save", "saving"} =>
       /\ datasets[DatasetId] # {}
       /\ NewRows(datasets[DatasetId], poll.state.last_ts) = datasets[DatasetId]

(* As long as no watermark was lost, the poll inside the lock goes by the  *)
(* watermark it loaded, which only that poll replaces.                     *)
PollGoesByWatermark ==
  /\ watermark = Torn => poll # NoPoll /\ poll.pc = "saving"
  /\ poll # NoPoll /\ poll.pc # "saving" => poll.state = Loaded

ShadowInv ==
  /\ ShadowTypeOK
  /\ PollFile
  /\ ~ torn => /\ PollGoesByWatermark
               /\ watermark # Torn => Tells(Loaded, datasets)
               /\ poll # NoPoll => Tells(poll.state, datasets)

(* The watermark as it is loaded is a state, whatever the file holds.      *)
LEMMA LoadedTyped == ASSUME ShadowTypeOK PROVE Loaded \in States
  <1>1. FreshState \in States
    BY DEF FreshState, States, NoTs
  <1> QED
    BY <1>1 DEF ShadowTypeOK, Loaded, Missing, Torn

(* The poll under way holds a state and writes the dataset after those it  *)
(* counts.                                                                 *)
LEMMA PollTyped == ASSUME ShadowTypeOK, poll # NoPoll
                   PROVE  /\ poll \in Polls /\ poll.state \in States /\ DatasetId \in Nat
                          /\ DatasetId = poll.state.poll_count + 1 /\ poll.loop \in Loops
  BY DEF ShadowTypeOK, Polls, States, DatasetId

(* Before anything is written the invariant holds.                         *)
LEMMA ShadowInitInv == ShadowInit => ShadowInv
  <1> SUFFICES ASSUME ShadowInit PROVE ShadowInv
    OBVIOUS
  <1>1. ShadowTypeOK /\ PollFile
    <2>1. <<>> \in [DOMAIN <<>> -> SUBSET Rows]
      OBVIOUS
    <2> QED
      BY <2>1 DEF ShadowInit, ShadowTypeOK, PollFile
  <1>2. PollGoesByWatermark
    BY DEF ShadowInit, PollGoesByWatermark, Missing, Torn
  <1>3. Tells(Loaded, datasets)
    <2>1. Loaded = FreshState
      BY DEF ShadowInit, Loaded
    <2>2. {datasets[n] : n \in 1..0} = {} /\ 1..0 = {}
      OBVIOUS
    <2> QED
      BY <2>1, <2>2, FS_EmptySet DEF Tells, FreshState
  <1> QED
    BY <1>1, <1>2, <1>3 DEF ShadowInit, ShadowInv

(* Steps that touch neither the files nor the poll keep the invariant.     *)
LEMMA QuietStep ==
  ASSUME ShadowInv, source' \in SUBSET Rows,
         UNCHANGED <<watermark, datasets, poll, torn>>
  PROVE  ShadowInv'
  BY DEF ShadowInv, ShadowTypeOK, PollFile, PollGoesByWatermark, Tells, Loaded, DatasetId, NewRows

(* The file of a poll is not one of those its watermark counts.            *)
LEMMA NextFile ==
  ASSUME ShadowInv, poll # NoPoll, NEW rows \in SUBSET Rows, WriteDataset(rows)
  PROVE  /\ datasets' \in [DOMAIN datasets' -> SUBSET Rows]
         /\ DOMAIN datasets' = DOMAIN datasets \cup {DatasetId}
         /\ datasets'[DatasetId] = rows
         /\ \A n \in 1..poll.state.poll_count : n \in DOMAIN datasets => datasets'[n] = datasets[n]
         /\ Tells(poll.state, datasets) => Tells(poll.state, datasets')
  <1> DEFINE state == poll.state
             id == DatasetId
             files == datasets'
  <1>1. state \in States /\ id = state.poll_count + 1 /\ id \in Nat
    BY PollTyped DEF ShadowInv
  <1>2. datasets \in [DOMAIN datasets -> SUBSET Rows]
    BY DEF ShadowInv, ShadowTypeOK, PollFile
  <1>3. files = [n \in DOMAIN datasets \cup {id} |-> IF n = id THEN rows ELSE datasets[n]]
    BY DEF WriteDataset
  <1>4. \A n \in DOMAIN datasets : n \in 1..state.poll_count => files[n] = datasets[n]
    <2> HIDE DEF files, id
    <2> QED
      BY <1>1, <1>3 DEF States
  <1>5. Tells(state, datasets) => Tells(state, files)
    <2> SUFFICES ASSUME Tells(state, datasets) PROVE Tells(state, files)
      OBVIOUS
    <2>1. \A n \in 1..state.poll_count : files[n] = datasets[n]
      BY <1>4 DEF Tells
    <2>2. {files[n] : n \in 1..state.poll_count} = {datasets[n] : n \in 1..state.poll_count}
      BY <2>1
    <2>3. 1..state.poll_count \subseteq DOMAIN files
      BY <1>3 DEF Tells
    <2> HIDE DEF files, state
    <2> QED
      BY <2>1, <2>2, <2>3 DEF Tells
  <1>6. files \in [DOMAIN files -> SUBSET Rows] /\ DOMAIN files = DOMAIN datasets \cup {id} /\ files[id] = rows
    <2> HIDE DEF files, id
    <2> QED
      BY <1>2, <1>3
  <1> QED
    BY <1>4, <1>5, <1>6

(* The watermark after a poll that found rows.                             *)
LEMMA AdvancedWatermark ==
  ASSUME NEW state \in States, NEW rows \in SUBSET Rows, rows # {}
  PROVE  /\ IsFiniteSet(rows)
         /\ Advanced(state, rows) \in States
         /\ Advanced(state, rows).poll_count = state.poll_count + 1
         /\ Advanced(state, rows).rows_total = state.rows_total + Cardinality(rows)
         /\ \E top \in Nat : /\ Advanced(state, rows).last_ts = {top}
                             /\ \A row \in rows : row.submit_ts \in Nat /\ row.submit_ts <= top
  <1> DEFINE times == {row.submit_ts : row \in rows}
             top == Max(times)
             next == Advanced(state, rows)
  <1>1. IsFiniteSet(rows)
    BY FS_Subset, ShadowAssumption
  <1>2. times \in SUBSET Nat /\ times # {} /\ \A row \in rows : row.submit_ts \in times
    BY ShadowAssumption
  <1>3. IsFiniteSet(times)
    <2> DEFINE f == [row \in rows |-> row.submit_ts]
    <2>1. f \in Surjection(rows, times)
      BY DEF Surjection
    <2> HIDE DEF f, times
    <2> QED
      BY <1>1, <2>1, FS_Surjection
  <1>4. top \in times /\ \A t \in times : t <= top
    <2> HIDE DEF times
    <2> QED
      BY <1>2, <1>3, MaxOfFinite
  <1>5. next = [last_ts |-> {top}, rows_total |-> state.rows_total + Cardinality(rows),
                poll_count |-> state.poll_count + 1]
    BY DEF Advanced
  <1>6. Cardinality(rows) \in Nat /\ state.rows_total \in Nat /\ state.poll_count \in Nat
    BY <1>1, FS_CardinalityType DEF States
  <1>7. top \in Nat /\ \A row \in rows : row.submit_ts \in Nat /\ row.submit_ts <= top
    <2> HIDE DEF top, times
    <2> QED
      BY <1>2, <1>4
  <1>8. next \in States /\ next.last_ts = {top}
    <2> HIDE DEF top, times, next
    <2> QED
      BY <1>5, <1>6, <1>7 DEF States
  <1> HIDE DEF top, times
  <1> QED
    BY <1>1, <1>5, <1>7, <1>8

(* The rows above the watermark, once saved, are committed and told of.    *)
LEMMA CommitTells ==
  ASSUME NEW state \in States, NEW files, files \in [DOMAIN files -> SUBSET Rows],
         state.poll_count + 1 \in DOMAIN files, Tells(state, files),
         NEW rows, rows = files[state.poll_count + 1], rows # {},
         NewRows(rows, state.last_ts) = rows
  PROVE  Tells(Advanced(state, rows), files)
  <1> DEFINE n == state.poll_count
             old == {files[k] : k \in 1..n}
             next == Advanced(state, rows)
  <1>1. n \in Nat /\ state.rows_total \in Nat /\ state.last_ts \in SUBSET Nat /\ rows \in SUBSET Rows
    BY DEF States
  <1>2. PICK top \in Nat :
          /\ next.poll_count = n + 1 /\ next.rows_total = state.rows_total + Cardinality(rows)
          /\ next.last_ts = {top}
          /\ \A row \in rows : row.submit_ts \in Nat /\ row.submit_ts <= top
    BY <1>1, AdvancedWatermark
  <1>3. IsFiniteSet(rows) /\ IsFiniteSet(UNION old)
    <2>1. UNION old \subseteq Rows
      BY DEF Tells
    <2> HIDE DEF old
    <2> QED
      BY <1>1, <2>1, FS_Subset, ShadowAssumption
  <1>4. \A row \in rows : \A ts \in state.last_ts : row.submit_ts > ts
    BY DEF NewRows
  <1>5. \A k \in 1..n : files[k] \cap rows = {} /\ NewRows(files[k], {top}) = {}
    <2> SUFFICES ASSUME NEW k \in 1..n
                 PROVE  files[k] \cap rows = {} /\ NewRows(files[k], {top}) = {}
      OBVIOUS
    <2>1. k \in DOMAIN files /\ NewRows(files[k], state.last_ts) = {}
      BY DEF Tells
    <2>2. \A row \in files[k] : row.submit_ts \in Nat /\ \E ts \in state.last_ts : ~ (row.submit_ts > ts)
      BY <2>1, ShadowAssumption DEF NewRows
    <2>3. PICK new \in rows : TRUE
      OBVIOUS
    <2>4. \A row \in files[k] : row.submit_ts <= top
      BY <1>1, <1>2, <1>4, <2>2, <2>3
    <2> QED
      BY <1>1, <1>4, <2>2, <2>4 DEF NewRows
  <1>6. NewRows(rows, {top}) = {}
    BY <1>2 DEF NewRows
  <1>7. UNION {files[k] : k \in 1..(n + 1)} = (UNION old) \cup rows
    BY <1>1
  <1>8. (UNION old) \cap rows = {}
    BY <1>5
  <1>9. Cardinality((UNION old) \cup rows) = state.rows_total + Cardinality(rows)
    <2>1. state.rows_total = Cardinality(UNION old)
      BY DEF Tells
    <2>2. Cardinality({}) = 0 /\ Cardinality(UNION old) \in Nat /\ Cardinality(rows) \in Nat
      BY <1>3, FS_EmptySet, FS_CardinalityType
    <2>3. Cardinality((UNION old) \cup rows)
            = Cardinality(UNION old) + Cardinality(rows) - Cardinality((UNION old) \cap rows)
      BY <1>3, FS_Union
    <2>4. Cardinality((UNION old) \cap rows) = 0
      BY <1>8, <2>2
    <2> HIDE DEF old
    <2> QED
      BY <2>1, <2>2, <2>3, <2>4
  <1>10. \A k \in 1..(n + 1) : k \in 1..n \/ k = n + 1
    BY <1>1
  <1>11. \A j, k \in 1..(n + 1) : j # k => files[j] \cap files[k] = {}
    BY <1>1, <1>5 DEF Tells
  <1>12. \A k \in 1..(n + 1) : NewRows(files[k], {top}) = {}
    BY <1>5, <1>6, <1>10
  <1>13. 1..(n + 1) \subseteq DOMAIN files
    BY <1>1 DEF Tells
  <1> HIDE DEF next, n
  <1>14. Tells(next, files)
    BY <1>2, <1>7, <1>9, <1>11, <1>12, <1>13 DEF Tells
  <1> QED
    BY <1>14 DEF next

(* Reading the source into a dataset keeps the invariant.                  *)
LEMMA IngestKeeps == ASSUME ShadowInv, IngestSource PROVE ShadowInv'
  <1>1. poll # NoPoll /\ poll \in Polls /\ source \in SUBSET Rows
    BY PollTyped DEF IngestSource, NoPoll, ShadowInv, ShadowTypeOK
  <1>2. poll' \in Polls /\ poll' # NoPoll /\ poll'.pc = "filter" /\ poll'.state = poll.state
    BY <1>1 DEF IngestSource, Polls, NoPoll
  <1>3. DatasetId' = DatasetId /\ Loaded' = Loaded /\ UNCHANGED <<watermark, torn, source>>
    BY <1>2 DEF DatasetId, Loaded, IngestSource
  <1>4. /\ datasets' \in [DOMAIN datasets' -> SUBSET Rows] /\ DatasetId \in DOMAIN datasets'
        /\ Tells(poll.state, datasets) => Tells(poll.state, datasets')
    BY <1>1, NextFile DEF IngestSource
  <1>5. ShadowTypeOK' /\ PollFile'
    BY <1>2, <1>3, <1>4 DEF ShadowInv, ShadowTypeOK, PollFile
  <1>6. ASSUME ~ torn PROVE PollGoesByWatermark' /\ Tells(Loaded, datasets') /\ Tells(poll.state, datasets')
    BY <1>1, <1>2, <1>3, <1>4, <1>6 DEF ShadowInv, PollGoesByWatermark, IngestSource
  <1> QED
    BY <1>2, <1>3, <1>5, <1>6 DEF ShadowInv

(* Keeping the rows above the watermark, or ending a poll without any,     *)
(* keeps the invariant.                                                    *)
LEMMA FilterKeeps == ASSUME ShadowInv, FilterRows PROVE ShadowInv'
  <1> DEFINE rows == NewRows(datasets[DatasetId], poll.state.last_ts)
  <1>1. poll # NoPoll /\ poll \in Polls /\ datasets \in [DOMAIN datasets -> SUBSET Rows] /\ poll.pc = "filter"
    BY PollTyped DEF FilterRows, NoPoll, ShadowInv, ShadowTypeOK
  <1>2. Loaded' = Loaded /\ UNCHANGED <<watermark, torn, source>>
    BY DEF Loaded, FilterRows
  <1>3. CASE rows = {}
    <2>1. poll' = NoPoll /\ UNCHANGED datasets
      BY <1>3 DEF FilterRows, EndPoll
    <2>2. ShadowTypeOK' /\ PollFile'
      BY <1>2, <2>1 DEF ShadowInv, ShadowTypeOK, PollFile
    <2> QED
      BY <1>1, <1>2, <2>1, <2>2 DEF ShadowInv, PollGoesByWatermark
  <1>4. CASE rows # {}
    <2>1. poll' = [poll EXCEPT !.pc = "save"] /\ WriteDataset(rows)
      BY <1>4 DEF FilterRows
    <2>2. poll' \in Polls /\ poll' # NoPoll /\ poll'.pc = "save" /\ poll'.state = poll.state
      BY <1>1, <2>1 DEF Polls, NoPoll
    <2>3. DatasetId' = DatasetId
      BY <2>2 DEF DatasetId
    <2>4. rows \in SUBSET Rows
      BY <1>1 DEF NewRows, ShadowInv, PollFile
    <2>5. /\ datasets' \in [DOMAIN datasets' -> SUBSET Rows]
          /\ DatasetId \in DOMAIN datasets' /\ datasets'[DatasetId] = rows
          /\ Tells(poll.state, datasets) => Tells(poll.state, datasets')
      BY <1>1, <2>1, <2>4, NextFile
    <2>6. NewRows(rows, poll.state.last_ts) = rows
      BY DEF NewRows
    <2> HIDE DEF rows
    <2>7. ShadowTypeOK' /\ PollFile'
      BY <1>2, <1>4, <2>2, <2>3, <2>5, <2>6 DEF ShadowInv, ShadowTypeOK, PollFile
    <2>8. ASSUME ~ torn PROVE PollGoesByWatermark' /\ Tells(Loaded, datasets') /\ Tells(poll.state, datasets')
      BY <1>1, <1>2, <1>4, <2>2, <2>3, <2>5, <2>6, <2>8 DEF ShadowInv, PollGoesByWatermark
    <2> QED
      BY <1>2, <2>2, <2>7, <2>8 DEF ShadowInv
  <1> QED
    BY <1>3, <1>4

(* Saving the watermark, which is what commits a dataset, keeps the        *)
(* invariant.                                                              *)
LEMMA SaveKeeps == ASSUME ShadowInv, SaveWatermark PROVE ShadowInv'
  <1>1. poll # NoPoll /\ poll \in Polls /\ datasets \in [DOMAIN datasets -> SUBSET Rows]
    BY PollTyped DEF SaveWatermark, NoPoll, ShadowInv, ShadowTypeOK
  <1>2. UNCHANGED <<datasets, torn, source>>
    BY DEF SaveWatermark
  <1>3. CASE poll.pc = "save"
    <2>1. watermark' = Torn /\ poll' = [poll EXCEPT !.pc = "saving"]
      BY <1>3 DEF SaveWatermark
    <2>2. poll' \in Polls /\ poll' # NoPoll /\ poll'.pc = "saving" /\ poll'.state = poll.state
      BY <1>1, <2>1 DEF Polls, NoPoll
    <2>3. DatasetId' = DatasetId
      BY <2>2 DEF DatasetId
    <2>4. ShadowTypeOK' /\ PollFile'
      BY <1>1, <1>2, <1>3, <2>1, <2>2, <2>3 DEF ShadowInv, ShadowTypeOK, PollFile
    <2> QED
      BY <1>1, <1>2, <1>3, <2>1, <2>2, <2>3, <2>4 DEF ShadowInv, PollGoesByWatermark
  <1>4. CASE poll.pc = "saving"
    <2> DEFINE kept == Advanced(poll.state, datasets[DatasetId])
    <2>1. watermark' = Saved(kept) /\ poll' = NoPoll
      BY <1>4 DEF SaveWatermark, EndPoll
    <2>2. PICK state \in States : state = poll.state /\ DatasetId = state.poll_count + 1
      BY <1>1, PollTyped DEF ShadowInv
    <2>3. DatasetId \in DOMAIN datasets
      BY <1>1, <1>4 DEF ShadowInv, ShadowTypeOK, PollFile
    <2>4. kept \in States
      BY <1>1, <1>4, <2>2, <2>3, AdvancedWatermark DEF ShadowInv, PollFile
    <2>5. ~ torn => Tells(kept, datasets)
      <3> SUFFICES ASSUME ~ torn PROVE Tells(kept, datasets)
        OBVIOUS
      <3>1. Tells(state, datasets) /\ datasets[DatasetId] # {}
            /\ NewRows(datasets[DatasetId], state.last_ts) = datasets[DatasetId]
        BY <1>1, <1>4, <2>2 DEF ShadowInv, PollFile
      <3> QED
        BY <1>1, <2>2, <2>3, <3>1, CommitTells
    <2> HIDE DEF kept
    <2>6. watermark' # Torn /\ watermark' # Missing /\ watermark'.state = kept
          /\ watermark' \in [file : {"saved"}, state : States]
      BY <2>1, <2>4 DEF Saved, Torn, Missing
    <2>7. Loaded' = kept
      BY <2>6 DEF Loaded
    <2>8. ShadowTypeOK' /\ PollFile'
      BY <1>1, <1>2, <2>1, <2>6 DEF ShadowInv, ShadowTypeOK, PollFile
    <2> QED
      BY <1>2, <2>1, <2>5, <2>6, <2>7, <2>8 DEF ShadowInv, PollGoesByWatermark
  <1> QED
    BY <1>3, <1>4 DEF SaveWatermark

(* A poll that fails or is cut short leaves the watermark as it is, so     *)
(* that one half-written is lost.                                          *)
LEMMA PollEndsShort ==
  ASSUME ShadowInv, poll' = NoPoll, torn' = (torn \/ watermark = Torn),
         UNCHANGED <<source, watermark, datasets>>
  PROVE  ShadowInv'
  BY DEF ShadowInv, ShadowTypeOK, PollFile, PollGoesByWatermark, Loaded

(* A loop that takes the lock begins a poll with the watermark as it is.   *)
LEMMA LockKeeps == ASSUME ShadowInv, NEW l \in Loops, TakeLock(l) PROVE ShadowInv'
  <1> DEFINE state == Loaded
  <1>1. state \in States
    BY LoadedTyped DEF ShadowInv
  <1>2. poll = NoPoll /\ poll' = [pc |-> "ingest", loop |-> l, state |-> state]
        /\ UNCHANGED <<source, watermark, datasets, torn>>
    BY DEF TakeLock
  <1>3. Loaded' = Loaded
    BY <1>2 DEF Loaded
  <1> HIDE DEF state
  <1>4. poll' \in Polls /\ poll' # NoPoll /\ poll'.pc = "ingest" /\ poll'.state = state
    BY <1>1, <1>2 DEF Polls, NoPoll
  <1>5. ShadowTypeOK' /\ PollFile'
    BY <1>2, <1>4 DEF ShadowInv, ShadowTypeOK, PollFile
  <1> QED
    BY <1>2, <1>3, <1>4, <1>5 DEF ShadowInv, PollGoesByWatermark, state

(* Every step of the daemon keeps the invariant.                           *)
LEMMA ShadowStep == ShadowInv /\ [ShadowNext]_shadowVars => ShadowInv'
  <1> SUFFICES ASSUME ShadowInv, [ShadowNext]_shadowVars PROVE ShadowInv'
    OBVIOUS
  <1>1. ASSUME NEW l \in Loops, Start(l) \/ PollOnce(l) \/ CheckStop(l) PROVE ShadowInv'
    <2>1. UNCHANGED <<source, watermark, datasets, poll, torn>>
      BY <1>1 DEF Start, PollOnce, CheckStop
    <2> QED
      BY <2>1, QuietStep DEF ShadowInv, ShadowTypeOK, PollFile
  <1>2. ASSUME NEW l \in Loops, TakeLock(l) PROVE ShadowInv'
    BY <1>2, LockKeeps
  <1>3. CASE Stop \/ UNCHANGED shadowVars
    <2>1. UNCHANGED <<source, watermark, datasets, poll, torn>>
      BY <1>3 DEF Stop, shadowVars
    <2> QED
      BY <2>1, QuietStep DEF ShadowInv, ShadowTypeOK, PollFile
  <1>4. ASSUME NEW row \in Rows, RowAppears(row) PROVE ShadowInv'
    BY <1>4, QuietStep DEF RowAppears, ShadowInv, ShadowTypeOK
  <1>5. CASE PollFails \/ Crash
    BY <1>5, PollEndsShort DEF PollFails, Crash, EndPoll
  <1> QED
    BY <1>1, <1>2, <1>3, <1>4, <1>5, IngestKeeps, FilterKeeps, SaveKeeps DEF ShadowNext, PollStep

(* ingest/shadow.py: whatever loops run, and wherever they fail or are cut *)
(* short, no two committed datasets share a row, the watermark counts the  *)
(* rows of all of them, and none of their rows is above it.                *)
THEOREM CommitsOnce == ShadowSpec => []RowsCommittedOnce
  <1>1. ShadowInv => RowsCommittedOnce
    BY DEF ShadowInv, RowsCommittedOnce, Tells, Committed
  <1> QED
    BY <1>1, ShadowInitInv, ShadowStep, PTL DEF ShadowSpec

-----------------------------------------------------------------------------
Lines == [record : Observations \cup {Garbage}, ended : BOOLEAN]

FeedbackTypeOK ==
  /\ records \in Seq(Observations) /\ observed \in Seq(Observations) /\ saved \in Seq(Observations)
  /\ lines \in Seq(Lines)
  /\ cut \in SUBSET Nat

(* seq is what all ends with.                                              *)
EndsWith(seq, all) ==
  /\ Len(seq) <= Len(all)
  /\ \A i \in 1..Len(seq) : seq[i] = all[Len(all) - Len(seq) + i]

(* Memory is the end of what was observed, all of it or enough.            *)
RecordsKept ==
  /\ EndsWith(records, observed)
  /\ Len(records) >= MaxMemory \/ Len(records) = Len(observed)

(* The first n records kept are in the first n lines.                      *)
SavedUpTo(n, file, kept) ==
  n <= Len(kept) /\ n <= Len(file) /\ \A i \in 1..n : file[i].record = kept[i]

(* Where a line was cut first, the file ends with that line or goes on     *)
(* with one that cannot be read, there or just after.                      *)
FileAfterCut(first, file, kept) ==
  \/ /\ first \in Nat \ {0} /\ Len(file) = first /\ SavedUpTo(first, file, kept)
     /\ ~ file[first].ended
  \/ \E bad \in {first, first + 1} :
       /\ bad \in 1..Len(file) /\ file[bad].record = Garbage /\ SavedUpTo(bad - 1, file, kept)

FileKept(file, kept, cuts) ==
  /\ cuts = {} => /\ Len(file) = Len(kept) /\ SavedUpTo(Len(kept), file, kept)
                  /\ \A i \in 1..Len(file) : file[i].ended
  /\ \A first \in cuts : (\A c \in cuts : first <= c) =>
       first <= Len(kept) /\ FileAfterCut(first, file, kept)

FeedbackInv == FeedbackTypeOK /\ RecordsKept /\ FileKept(lines, saved, cut)

-----------------------------------------------------------------------------
(* A load gives the records of the lines before the first bad one.         *)
LEMMA LoadGives ==
  ASSUME NEW file \in Seq(Lines)
  PROVE  /\ LoadRecords(file) \in Seq(Observations)
         /\ Len(LoadRecords(file)) <= Len(file)
         /\ \A i \in 1..Len(LoadRecords(file)) : LoadRecords(file)[i] = file[i].record
         /\ \/ Len(LoadRecords(file)) = Len(file)
            \/ file[Len(LoadRecords(file)) + 1].record = Garbage
  <1> DEFINE bad == {i \in DOMAIN file : file[i].record = Garbage}
             least == CHOOSE i \in bad : \A j \in bad : i <= j
             end == IF bad = {} THEN Len(file) ELSE least - 1
             loaded == [i \in 1..end |-> file[i].record]
  <1>1. loaded = LoadRecords(file)
    BY DEF LoadRecords
  <1>2. DOMAIN file = 1..Len(file) /\ Len(file) \in Nat /\ bad \in SUBSET Nat
    OBVIOUS
  <1>3. ASSUME bad # {} PROVE least \in bad /\ \A j \in bad : least <= j
    <2> HIDE DEF bad
    <2>1. \E i \in bad : \A j \in bad : i <= j
      BY <1>2, <1>3, LeastNatural
    <2> QED
      BY <2>1
  <1> HIDE DEF least
  <1>4. /\ end \in Nat /\ end <= Len(file)
        /\ \A i \in 1..end : i \in DOMAIN file /\ file[i].record # Garbage
        /\ end = Len(file) \/ file[end + 1].record = Garbage
    <2>1. CASE bad = {}
      BY <1>2, <2>1
    <2>2. CASE bad # {}
      <3>1. least \in 1..Len(file) /\ file[least].record = Garbage /\ \A j \in bad : least <= j
        BY <1>2, <1>3, <2>2
      <3>2. end = least - 1
        BY <2>2
      <3>3. \A i \in 1..end : i \notin bad /\ i \in DOMAIN file
        BY <1>2, <3>1, <3>2
      <3> QED
        BY <1>2, <3>1, <3>2, <3>3
    <2> QED
      BY <2>1, <2>2
  <1> HIDE DEF end, bad
  <1>5. \A i \in 1..end : file[i].record \in Observations
    <2> TAKE i \in 1..end
    <2>1. file[i] \in Lines
      <3>1. i \in 1..Len(file)
        BY <1>2, <1>4
      <3> QED
        BY <3>1
    <2> QED
      BY <1>4, <2>1 DEF Lines
  <1>6. loaded \in Seq(Observations) /\ Len(loaded) = end /\ \A i \in 1..end : loaded[i] = file[i].record
    BY <1>4, <1>5
  <1> HIDE DEF loaded
  <1> QED
    BY <1>1, <1>4, <1>6

(* A line appended is one more line.                                       *)
LEMMA AppendTyped ==
  ASSUME NEW file \in Seq(Lines), NEW record \in Observations \cup {Garbage}, NEW ended \in BOOLEAN
  PROVE  AppendTo(file, record, ended) \in Seq(Lines)
  <1>1. [record |-> record, ended |-> ended] \in Lines /\ [record |-> Garbage, ended |-> ended] \in Lines
    BY DEF Lines
  <1>2. file # <<>> => Front(file) \in Seq(Lines)
    <2> SUFFICES ASSUME file # <<>> PROVE SubSeq(file, 1, Len(file) - 1) \in Seq(Lines)
      BY DEF Front
    <2>1. Len(file) - 1 \in Nat /\ \A i \in 1..(Len(file) - 1) : file[i] \in Lines
      BY EmptySeq, ElementOfSeq
    <2> QED
      BY <2>1, SubSeqProperties
  <1> QED
    BY <1>1, <1>2, AppendProperties DEF AppendTo

(* A line after one that was cut makes that one unreadable.                *)
LEMMA SpoiledLine ==
  ASSUME NEW file \in Seq(Lines), NEW record, NEW ended \in BOOLEAN,
         file # <<>>, ~ file[Len(file)].ended,
         NEW file2 \in Seq(Lines), file2 = AppendTo(file, record, ended)
  PROVE  /\ Len(file2) = Len(file)
         /\ file2[Len(file)].record = Garbage
         /\ \A i \in 1..(Len(file) - 1) : file2[i] = file[i]
  <1> DEFINE bad == [record |-> Garbage, ended |-> ended]
             n == Len(file) - 1
  <1>1. bad \in Lines /\ bad.record = Garbage
    BY DEF Lines
  <1>2. file2 = Append(SubSeq(file, 1, n), bad)
    BY DEF AppendTo, Last, Front
  <1>3. n \in Nat /\ Len(file) = n + 1 /\ \A i \in 1..n : file[i] \in Lines
    BY EmptySeq, ElementOfSeq
  <1> HIDE DEF n, bad
  <1> DEFINE front == SubSeq(file, 1, n)
  <1>4. front \in Seq(Lines) /\ Len(front) = n /\ \A i \in 1..n : front[i] = file[i]
    <2>1. /\ SubSeq(file, 1, n) \in Seq(Lines)
          /\ Len(SubSeq(file, 1, n)) = IF 1 <= n THEN n - 1 + 1 ELSE 0
          /\ \A i \in 1..(n - 1 + 1) : SubSeq(file, 1, n)[i] = file[1 + i - 1]
      BY <1>3, SubSeqProperties
    <2>2. n - 1 + 1 = n /\ \A i \in 1..n : 1 + i - 1 = i
      BY <1>3
    <2> QED
      BY <1>3, <2>1, <2>2
  <1> HIDE DEF front
  <1>5. /\ Append(front, bad) \in Seq(Lines) /\ Len(Append(front, bad)) = n + 1
        /\ \A i \in 1..n : Append(front, bad)[i] = front[i]
        /\ Append(front, bad)[n + 1] = bad
    BY <1>1, <1>4, AppendProperties
  <1>6. file2 = Append(front, bad)
    BY <1>2 DEF front
  <1>7. Len(file) - 1 = n
    BY <1>3
  <1> QED
    BY <1>1, <1>3, <1>4, <1>5, <1>6, <1>7

(* Every way a line is written keeps what the file tells.                  *)
LEMMA FileStep ==
  ASSUME NEW file \in Seq(Lines), NEW kept \in Seq(Observations), NEW cuts \in SUBSET Nat,
         FileKept(file, kept, cuts),
         NEW record \in Observations \cup {Garbage}, NEW ended \in BOOLEAN,
         NEW kept2 \in Seq(Observations), NEW cuts2 \in SUBSET Nat,
         \/ record \in Observations /\ kept2 = Append(kept, record)
         \/ record = Garbage /\ ~ ended /\ kept2 = kept,
         \/ ended /\ cuts2 = cuts
         \/ ~ ended /\ cuts2 = cuts \cup {Len(kept2)}
  PROVE  /\ AppendTo(file, record, ended) \in Seq(Lines)
         /\ FileKept(AppendTo(file, record, ended), kept2, cuts2)
  <1> DEFINE file2 == AppendTo(file, record, ended)
  <1>1. Len(file) \in Nat /\ Len(kept) \in Nat
    BY LenProperties
  <1>2. file2 \in Seq(Lines) /\ Len(file2) \in Nat
    BY AppendTyped, LenProperties
  <1>3. /\ kept2 \in Seq(Observations) /\ Len(kept2) \in Nat /\ Len(kept2) >= Len(kept)
        /\ \A i \in 1..Len(kept) : kept2[i] = kept[i]
        /\ record \in Observations => Len(kept2) = Len(kept) + 1 /\ kept2[Len(kept) + 1] = record
        /\ record \notin Observations => Len(kept2) = Len(kept) /\ record = Garbage /\ ~ ended
    <2>1. Garbage \notin Observations
      BY DEF Garbage, Observations
    <2>2. CASE record \in Observations
      <3>1. kept2 = Append(kept, record)
        BY <2>1, <2>2
      <3>2. /\ Append(kept, record) \in Seq(Observations) /\ Len(Append(kept, record)) = Len(kept) + 1
            /\ \A i \in 1..Len(kept) : Append(kept, record)[i] = kept[i]
            /\ Append(kept, record)[Len(kept) + 1] = record
        BY <2>2, AppendProperties
      <3> QED
        BY <1>1, <2>2, <3>1, <3>2
    <2>3. CASE record \notin Observations
      BY <1>1, <2>3
    <2> QED
      BY <2>2, <2>3
  <1>4. ASSUME file = <<>> \/ file[Len(file)].ended
       PROVE  /\ Len(file2) = Len(file) + 1
              /\ file2[Len(file) + 1].record = record /\ (file2[Len(file) + 1].ended <=> ended)
              /\ \A i \in 1..Len(file) : file2[i] = file[i]
    <2> DEFINE new == [record |-> record, ended |-> ended]
    <2>1. new \in Lines /\ new.record = record /\ (new.ended <=> ended)
      BY DEF Lines
    <2>2. file2 = Append(file, new)
      BY <1>4 DEF AppendTo, Last
    <2> HIDE DEF new, file2
    <2> QED
      BY <2>1, <2>2, AppendProperties
  <1>5. ASSUME cuts = {} PROVE FileKept(file2, kept2, cuts2)
    <2>1. Len(file) = Len(kept) /\ SavedUpTo(Len(kept), file, kept) /\ \A i \in 1..Len(file) : file[i].ended
      BY <1>5 DEF FileKept
    <2>2. /\ Len(file2) = Len(file) + 1
          /\ file2[Len(file) + 1].record = record /\ (file2[Len(file) + 1].ended <=> ended)
          /\ \A i \in 1..Len(file) : file2[i] = file[i]
      <3>1. file = <<>> \/ file[Len(file)].ended
        BY <1>1, <2>1, EmptySeq
      <3> QED
        BY <3>1, <1>4
    <2> HIDE DEF file2
    <2>3. \A i \in 1..Len(kept) : file2[i].record = kept2[i]
      BY <1>3, <2>1, <2>2 DEF SavedUpTo
    <2>4. CASE record \in Observations
      <3>1. Len(file2) = Len(kept2) /\ SavedUpTo(Len(kept2), file2, kept2)
        <4>1. \A i \in 1..Len(kept2) : i \in 1..Len(kept) \/ i = Len(kept) + 1
          BY <1>1, <1>3, <2>4
        <4> QED
          BY <1>1, <1>3, <2>1, <2>2, <2>3, <2>4, <4>1 DEF SavedUpTo
      <3>2. CASE ended
        <4>1. cuts2 = {}
          BY <1>5, <3>2
        <4>2. \A i \in 1..Len(file2) : file2[i].ended
          <5>1. \A i \in 1..Len(file2) : i \in 1..Len(file) \/ i = Len(file) + 1
            BY <1>1, <2>2
          <5> QED
            BY <2>1, <2>2, <3>2, <5>1
        <4> QED
          BY <3>1, <4>1, <4>2 DEF FileKept
      <3>3. CASE ~ ended
        <4>1. cuts2 = {Len(kept2)} /\ ~ file2[Len(kept2)].ended /\ Len(kept2) # 0
          BY <1>1, <1>3, <1>5, <2>1, <2>2, <2>4, <3>3
        <4> QED
          BY <1>3, <3>1, <4>1 DEF FileKept, FileAfterCut
      <3> QED
        BY <3>2, <3>3
    <2>5. CASE record \notin Observations
      <3>1. cuts2 = {Len(kept)} /\ Len(kept2) = Len(kept)
        BY <1>3, <1>5, <2>5
      <3>2. file2[Len(kept) + 1].record = Garbage /\ Len(kept) + 1 \in 1..Len(file2)
        BY <1>1, <1>3, <2>1, <2>2, <2>5
      <3>3. SavedUpTo(Len(kept), file2, kept2)
        BY <1>1, <2>1, <2>2, <2>3, <3>1 DEF SavedUpTo
      <3>4. FileAfterCut(Len(kept), file2, kept2)
        BY <1>1, <3>2, <3>3 DEF FileAfterCut
      <3> QED
        BY <1>1, <3>1, <3>4 DEF FileKept
    <2> QED
      BY <2>4, <2>5
  <1>6. ASSUME cuts # {} PROVE FileKept(file2, kept2, cuts2)
    <2>1. PICK f \in cuts : \A c \in cuts : f <= c
      BY <1>6, LeastNatural
    <2>2. f \in Nat /\ f <= Len(kept) /\ FileAfterCut(f, file, kept)
      BY <2>1 DEF FileKept
    <2>3. \A first \in cuts2 : (\A c \in cuts2 : first <= c) => first = f
      <3> SUFFICES ASSUME NEW first \in cuts2, \A c \in cuts2 : first <= c PROVE first = f
        OBVIOUS
      <3>1. f \in cuts2 /\ first \in Nat /\ (first \in cuts \/ first = Len(kept2))
        OBVIOUS
      <3>2. first <= f /\ f <= first
        BY <1>1, <1>3, <2>1, <2>2, <3>1
      <3> QED
        BY <2>2, <3>1, <3>2
    <2>4. \A n \in Nat : SavedUpTo(n, file, kept) /\ n <= Len(file2) /\ (\A i \in 1..n : file2[i] = file[i])
                          => SavedUpTo(n, file2, kept2)
      <3> HIDE DEF file2
      <3> QED
        BY <1>1, <1>2, <1>3 DEF SavedUpTo
    <2>5. FileAfterCut(f, file2, kept2)
      <3>1. CASE file = <<>> \/ file[Len(file)].ended
        <4>1. /\ Len(file2) = Len(file) + 1 /\ \A i \in 1..Len(file) : file2[i] = file[i]
          BY <3>1, <1>4
        <4>2. PICK bad \in {f, f + 1} :
                bad \in 1..Len(file) /\ file[bad].record = Garbage /\ SavedUpTo(bad - 1, file, kept)
          BY <1>1, <2>2, <3>1, EmptySeq DEF FileAfterCut
        <4> HIDE DEF file2
        <4>3. bad \in 1..Len(file2) /\ file2[bad].record = Garbage
          BY <1>1, <4>1, <4>2
        <4>4. SavedUpTo(bad - 1, file2, kept2)
          <5>1. bad - 1 \in Nat /\ bad - 1 <= Len(file2) /\ \A i \in 1..(bad - 1) : i \in 1..Len(file)
            BY <1>1, <4>1, <4>2
          <5> QED
            BY <2>4, <4>1, <4>2, <5>1
        <4> QED
          BY <4>2, <4>3, <4>4 DEF FileAfterCut
      <3>2. CASE file # <<>> /\ ~ file[Len(file)].ended
        <4>1. /\ Len(file2) = Len(file) /\ file2[Len(file)].record = Garbage
              /\ \A i \in 1..(Len(file) - 1) : file2[i] = file[i]
          BY <1>2, <3>2, SpoiledLine
        <4> HIDE DEF file2
        <4>2. PICK bad \in {f, f + 1} :
                bad \in 1..Len(file) /\ file2[bad].record = Garbage /\ SavedUpTo(bad - 1, file, kept)
          <5>1. CASE f \in Nat \ {0} /\ Len(file) = f /\ SavedUpTo(f, file, kept)
            <6>1. SavedUpTo(f - 1, file, kept)
              BY <1>1, <5>1 DEF SavedUpTo
            <6> QED
              BY <4>1, <5>1, <6>1
          <5>2. ASSUME NEW bad \in {f, f + 1}, bad \in 1..Len(file), file[bad].record = Garbage,
                       SavedUpTo(bad - 1, file, kept)
                PROVE  file2[bad].record = Garbage
            <6>1. bad = Len(file) \/ bad \in 1..(Len(file) - 1)
              BY <1>1, <5>2
            <6> QED
              BY <4>1, <5>2, <6>1
          <5> QED
            BY <2>2, <5>1, <5>2 DEF FileAfterCut
        <4>3. bad \in 1..Len(file2)
          BY <4>1, <4>2
        <4>4. SavedUpTo(bad - 1, file2, kept2)
          <5>1. bad - 1 \in Nat /\ bad - 1 <= Len(file2) /\ \A i \in 1..(bad - 1) : i \in 1..(Len(file) - 1)
            BY <1>1, <2>2, <4>1, <4>2
          <5> QED
            BY <2>4, <4>1, <4>2, <5>1
        <4> QED
          BY <4>2, <4>3, <4>4 DEF FileAfterCut
      <3> QED
        BY <3>1, <3>2
    <2>6. cuts2 # {} /\ f <= Len(kept2)
      BY <1>1, <1>3, <1>6, <2>2
    <2> HIDE DEF file2
    <2> QED
      BY <2>3, <2>5, <2>6 DEF FileKept
  <1> QED
    BY <1>2, <1>5, <1>6

-----------------------------------------------------------------------------
(* The last n of a sequence.                                               *)
LEMMA LastNGives ==
  ASSUME NEW seq \in Seq(Observations), NEW n \in Nat
  PROVE  /\ LastN(seq, n) \in Seq(Observations)
         /\ Len(LastN(seq, n)) = IF Len(seq) > n THEN n ELSE Len(seq)
         /\ EndsWith(LastN(seq, n), seq)
  <1> DEFINE all == Len(seq)
             from == IF all > n THEN all - n + 1 ELSE 1
             size == IF all > n THEN n ELSE all
             last == SubSeq(seq, from, all)
  <1>1. all \in Nat /\ from \in Nat \ {0} /\ size \in Nat /\ size = all - from + 1 /\ size <= all
    BY LenProperties
  <1>2. \A i \in from..all : seq[i] \in Observations
    BY <1>1, ElementOfSeq
  <1> HIDE DEF from, all
  <1>3. /\ last \in Seq(Observations) /\ Len(last) = IF from <= all THEN all - from + 1 ELSE 0
        /\ \A i \in 1..(all - from + 1) : last[i] = seq[from + i - 1]
    BY <1>1, <1>2, SubSeqProperties
  <1> HIDE DEF last
  <1>4. Len(last) = size /\ \A i \in 1..size : last[i] = seq[all - size + i]
    <2>1. Len(last) = size
      BY <1>1, <1>3
    <2>2. ASSUME NEW i \in 1..size PROVE last[i] = seq[all - size + i]
      <3>1. from + i - 1 = all - size + i /\ i \in 1..(all - from + 1)
        BY <1>1
      <3> QED
        BY <1>3, <3>1
    <2> QED
      BY <2>1, <2>2
  <1>5. LastN(seq, n) = last
    BY DEF LastN, last, from, all
  <1> QED
    BY <1>1, <1>3, <1>4, <1>5 DEF EndsWith, all

(* What memory and what was observed end with is the same, up to the size  *)
(* of memory.                                                              *)
LEMMA SameRecent ==
  ASSUME FeedbackTypeOK, RecordsKept, NEW n \in 1..MaxMemory
  PROVE  LastN(records, n) = LastN(observed, n)
  <1> DEFINE r == LastN(records, n)
             o == LastN(observed, n)
  <1>1. records \in Seq(Observations) /\ observed \in Seq(Observations) /\ MaxMemory \in Nat /\ n \in Nat
    BY FeedbackAssumption DEF FeedbackTypeOK
  <1>2. Len(records) \in Nat /\ Len(observed) \in Nat
    BY <1>1, LenProperties
  <1>3. /\ r \in Seq(Observations) /\ Len(r) = (IF Len(records) > n THEN n ELSE Len(records)) /\ EndsWith(r, records)
        /\ o \in Seq(Observations) /\ Len(o) = (IF Len(observed) > n THEN n ELSE Len(observed)) /\ EndsWith(o, observed)
    BY <1>1, LastNGives
  <1> HIDE DEF r, o
  <1>4. Len(r) = Len(o)
    BY <1>1, <1>2, <1>3 DEF RecordsKept, EndsWith
  <1>5. ASSUME NEW i \in 1..Len(r) PROVE r[i] = o[i]
    <2> DEFINE at == Len(records) - Len(r) + i
    <2>1. at \in 1..Len(records) /\ Len(observed) - Len(records) + at = Len(observed) - Len(o) + i
      <3>1. Len(r) \in Nat /\ Len(r) <= Len(records)
        BY <1>1, <1>2, <1>3
      <3> QED
        BY <1>2, <1>4, <3>1
    <2>2. r[i] = records[at] /\ o[i] = observed[Len(observed) - Len(o) + i]
      BY <1>3, <1>4 DEF EndsWith
    <2> HIDE DEF at
    <2>3. records[at] = observed[Len(observed) - Len(records) + at]
      BY <2>1 DEF RecordsKept, EndsWith
    <2> QED
      BY <2>1, <2>2, <2>3
  <1>6. r = o
    BY <1>3, <1>4, <1>5, SeqEqual
  <1> QED
    BY <1>6 DEF r, o

(* A record made is the last of both.                                      *)
LEMMA BothEndWith ==
  ASSUME NEW seq \in Seq(Observations), NEW all \in Seq(Observations), EndsWith(seq, all),
         NEW record \in Observations
  PROVE  /\ Append(seq, record) \in Seq(Observations) /\ Append(all, record) \in Seq(Observations)
         /\ Len(Append(seq, record)) = Len(seq) + 1 /\ Len(Append(all, record)) = Len(all) + 1
         /\ EndsWith(Append(seq, record), Append(all, record))
  <1> DEFINE s == Append(seq, record)
             a == Append(all, record)
             d == Len(all) - Len(seq)
  <1>1. Len(seq) \in Nat /\ Len(all) \in Nat /\ d \in Nat /\ Len(all) = Len(seq) + d
    BY LenProperties DEF EndsWith
  <1>2. /\ s \in Seq(Observations) /\ Len(s) = Len(seq) + 1 /\ s[Len(seq) + 1] = record
        /\ \A i \in 1..Len(seq) : s[i] = seq[i]
    BY AppendProperties
  <1>3. /\ a \in Seq(Observations) /\ Len(a) = Len(all) + 1 /\ a[Len(all) + 1] = record
        /\ \A i \in 1..Len(all) : a[i] = all[i]
    BY AppendProperties
  <1> HIDE DEF s, a
  <1>4. ASSUME NEW i \in 1..Len(s) PROVE s[i] = a[Len(a) - Len(s) + i]
    <2>1. Len(a) - Len(s) + i = d + i
      BY <1>1, <1>2, <1>3
    <2>2. CASE i = Len(seq) + 1
      <3>1. d + i = Len(all) + 1
        BY <1>1, <2>2
      <3> QED
        BY <1>2, <1>3, <2>1, <2>2, <3>1
    <2>3. CASE i \in 1..Len(seq)
      <3>1. d + i \in 1..Len(all) /\ seq[i] = all[d + i]
        BY <1>1, <2>3 DEF EndsWith
      <3> QED
        BY <1>2, <1>3, <2>1, <2>3, <3>1
    <2> QED
      BY <1>1, <1>2, <2>2, <2>3
  <1>5. EndsWith(s, a)
    BY <1>1, <1>2, <1>3, <1>4 DEF EndsWith
  <1> QED
    BY <1>2, <1>3, <1>5 DEF s, a

(* Keeping the end of what is an end already.                              *)
LEMMA EndOfEnd ==
  ASSUME NEW a \in Seq(Observations), NEW b \in Seq(Observations), NEW c \in Seq(Observations),
         EndsWith(a, b), EndsWith(b, c)
  PROVE  EndsWith(a, c)
  <1>1. Len(a) \in Nat /\ Len(b) \in Nat /\ Len(c) \in Nat
    BY LenProperties
  <1>2. ASSUME NEW i \in 1..Len(a) PROVE a[i] = c[Len(c) - Len(a) + i]
    <2> DEFINE at == Len(b) - Len(a) + i
    <2>1. at \in 1..Len(b) /\ Len(c) - Len(b) + at = Len(c) - Len(a) + i
      BY <1>1 DEF EndsWith
    <2>2. a[i] = b[at]
      BY DEF EndsWith
    <2> HIDE DEF at
    <2>3. b[at] = c[Len(c) - Len(b) + at]
      BY <2>1 DEF EndsWith
    <2> QED
      BY <2>1, <2>2, <2>3
  <1> QED
    BY <1>1, <1>2 DEF EndsWith

(* What a record does to memory, whether its line is written or not.       *)
LEMMA RecordKeeps ==
  ASSUME FeedbackTypeOK, RecordsKept, NEW record \in Observations,
         observed' = Append(observed, record),
         \/ records' = Trimmed(Append(records, record))
         \/ records' = Append(records, record)
  PROVE  records' \in Seq(Observations) /\ observed' \in Seq(Observations) /\ RecordsKept'
  <1> DEFINE s == Append(records, record)
             a == Append(observed, record)
  <1>1. records \in Seq(Observations) /\ observed \in Seq(Observations) /\ MaxMemory \in Nat
        /\ Len(records) \in Nat /\ Len(observed) \in Nat
    BY FeedbackAssumption, LenProperties DEF FeedbackTypeOK
  <1>2. /\ s \in Seq(Observations) /\ a \in Seq(Observations) /\ EndsWith(s, a)
        /\ Len(s) = Len(records) + 1 /\ Len(a) = Len(observed) + 1
    BY <1>1, BothEndWith DEF RecordsKept
  <1>3. observed' = a /\ (records' = LastN(s, MaxMemory) \/ records' = s)
    BY DEF Trimmed
  <1> HIDE DEF s, a
  <1>4. Len(s) >= MaxMemory \/ Len(s) = Len(a)
    BY <1>1, <1>2 DEF RecordsKept
  <1>5. CASE records' = s
    BY <1>2, <1>3, <1>4, <1>5 DEF RecordsKept
  <1>6. CASE records' = LastN(s, MaxMemory)
    <2>1. /\ records' \in Seq(Observations) /\ EndsWith(records', s)
          /\ Len(records') = IF Len(s) > MaxMemory THEN MaxMemory ELSE Len(s)
      BY <1>1, <1>2, <1>6, LastNGives
    <2>2. EndsWith(records', a)
      BY <1>2, <2>1, EndOfEnd
    <2>3. Len(records') >= MaxMemory \/ Len(records') = Len(a)
      BY <1>1, <1>2, <1>4, <2>1
    <2> QED
      BY <1>2, <1>3, <2>1, <2>2, <2>3 DEF RecordsKept
  <1> QED
    BY <1>3, <1>5, <1>6

(* A process that has just loaded remembers what it observed.              *)
LEMMA ReloadKeeps ==
  ASSUME NEW file \in Seq(Lines), Reload(file)
  PROVE  records' \in Seq(Observations) /\ observed' \in Seq(Observations) /\ RecordsKept'
  <1>1. records' = observed' /\ records' \in Seq(Observations)
    BY LoadGives DEF Reload
  <1>2. Len(records') \in Nat
    BY <1>1, LenProperties
  <1> QED
    BY <1>1, <1>2 DEF RecordsKept, EndsWith

-----------------------------------------------------------------------------
(* An empty file and an empty memory satisfy the invariant.                *)
LEMMA FeedbackInitInv == FeedbackInit => FeedbackInv
  <1> SUFFICES ASSUME FeedbackInit PROVE FeedbackInv
    OBVIOUS
  <1>1. records = <<>> /\ observed = <<>> /\ saved = <<>> /\ lines = <<>> /\ cut = {}
    BY DEF FeedbackInit
  <1>2. FeedbackTypeOK
    BY <1>1, EmptySeq DEF FeedbackTypeOK
  <1>3. Len(<<>>) = 0
    OBVIOUS
  <1> QED
    BY <1>1, <1>2, <1>3 DEF FeedbackInv, RecordsKept, EndsWith, FileKept, SavedUpTo

(* Every step of the tracker keeps the invariant.                          *)
LEMMA FeedbackStep == FeedbackInv /\ [FeedbackNext]_feedbackVars => FeedbackInv'
  <1> SUFFICES ASSUME FeedbackInv, [FeedbackNext]_feedbackVars PROVE FeedbackInv'
    OBVIOUS
  <1>1. /\ FeedbackTypeOK /\ RecordsKept /\ FileKept(lines, saved, cut)
        /\ lines \in Seq(Lines) /\ saved \in Seq(Observations) /\ cut \in SUBSET Nat
    BY DEF FeedbackInv, FeedbackTypeOK
  <1>2. ASSUME NEW record \in Observations, Record(record) PROVE FeedbackInv'
    <2>1. records' \in Seq(Observations) /\ observed' \in Seq(Observations) /\ RecordsKept'
      BY <1>1, <1>2, RecordKeeps DEF Record
    <2>2. /\ lines' \in Seq(Lines) /\ saved' \in Seq(Observations) /\ cut' \in SUBSET Nat
          /\ FileKept(lines', saved', cut')
      <3>1. lines' = AppendTo(lines, record, TRUE) /\ saved' = Append(saved, record) /\ cut' = cut
        BY <1>2 DEF Record
      <3>2. saved' \in Seq(Observations) /\ cut' \in SUBSET Nat
        BY <1>1, <3>1, AppendProperties
      <3> QED
        BY <1>1, <3>1, <3>2, FileStep
    <2> QED
      BY <2>1, <2>2 DEF FeedbackInv, FeedbackTypeOK
  <1>3. ASSUME NEW record \in Observations, RecordFails(record) PROVE FeedbackInv'
    <2>1. records' \in Seq(Observations) /\ observed' \in Seq(Observations) /\ RecordsKept'
      BY <1>1, <1>3, RecordKeeps DEF RecordFails
    <2> QED
      BY <1>1, <1>3, <2>1 DEF FeedbackInv, FeedbackTypeOK, RecordFails
  <1>4. ASSUME NEW record \in Observations, CrashInRecord(record) PROVE FeedbackInv'
    <2>1. PICK written \in {record, Garbage} :
            /\ Reload(AppendTo(lines, written, FALSE))
            /\ \/ written \in Observations /\ saved' = Append(saved, written)
               \/ written = Garbage /\ saved' = saved
            /\ cut' = cut \cup {Len(saved')}
      BY <1>4 DEF CrashInRecord
    <2> DEFINE file == AppendTo(lines, written, FALSE)
    <2>2. /\ file \in Seq(Lines) /\ saved' \in Seq(Observations) /\ cut' \in SUBSET Nat
          /\ FileKept(file, saved', cut')
      <3>1. written \in Observations \cup {Garbage} /\ saved' \in Seq(Observations)
        <4>1. CASE written \in Observations /\ saved' = Append(saved, written)
          BY <1>1, <4>1, AppendProperties
        <4> QED
          BY <1>1, <2>1, <4>1
      <3>2. cut' \in SUBSET Nat
        BY <1>1, <2>1, <3>1, LenProperties
      <3> QED
        BY <1>1, <2>1, <3>1, <3>2, FileStep
    <2> HIDE DEF file
    <2>3. records' \in Seq(Observations) /\ observed' \in Seq(Observations) /\ RecordsKept' /\ lines' = file
      BY <2>1, <2>2, ReloadKeeps DEF Reload, file
    <2> QED
      BY <2>2, <2>3 DEF FeedbackInv, FeedbackTypeOK
  <1>5. CASE Restart
    <2>1. records' \in Seq(Observations) /\ observed' \in Seq(Observations) /\ RecordsKept'
      BY <1>1, <1>5, ReloadKeeps DEF Restart
    <2> QED
      BY <1>1, <1>5, <2>1 DEF FeedbackInv, FeedbackTypeOK, Restart, Reload
  <1>6. CASE Collect \/ UNCHANGED feedbackVars
    BY <1>1, <1>6 DEF FeedbackInv, FeedbackTypeOK, RecordsKept, Collect, feedbackVars
  <1> QED
    BY <1>2, <1>3, <1>4, <1>5, <1>6 DEF FeedbackNext

(* What a reload would give now.                                           *)
LEMMA LoadFaithful ==
  ASSUME FeedbackInv
  PROVE  /\ cut = {} => LoadRecords(lines) = saved
         /\ \A first \in cut : (\A d \in cut : first <= d) =>
              IsPrefix(LoadRecords(lines), saved) /\ Len(LoadRecords(lines)) >= first - 1
  <1> DEFINE load == LoadRecords(lines)
  <1>1. /\ lines \in Seq(Lines) /\ saved \in Seq(Observations) /\ cut \in SUBSET Nat
        /\ FileKept(lines, saved, cut)
    BY DEF FeedbackInv, FeedbackTypeOK
  <1>2. /\ load \in Seq(Observations) /\ Len(load) <= Len(lines)
        /\ \A i \in 1..Len(load) : load[i] = lines[i].record
        /\ Len(load) = Len(lines) \/ lines[Len(load) + 1].record = Garbage
    BY <1>1, LoadGives
  <1>3. Len(lines) \in Nat /\ Len(saved) \in Nat /\ Len(load) \in Nat
    BY <1>1, <1>2, LenProperties
  <1> HIDE DEF load
  <1>4. \A n \in Nat : SavedUpTo(n, lines, saved) => n <= Len(load)
    <2> SUFFICES ASSUME NEW n \in Nat, SavedUpTo(n, lines, saved), n > Len(load) PROVE FALSE
      BY <1>3
    <2>1. Len(load) + 1 \in 1..n /\ Len(load) # Len(lines) /\ Len(load) + 1 \in 1..Len(saved)
      BY <1>3 DEF SavedUpTo
    <2>2. lines[Len(load) + 1].record = saved[Len(load) + 1] /\ lines[Len(load) + 1].record = Garbage
      BY <1>2, <2>1 DEF SavedUpTo
    <2>3. saved[Len(load) + 1] \in Observations
      BY <1>1, <2>1, ElementOfSeq
    <2> QED
      BY <2>2, <2>3 DEF Observations, Garbage
  <1>5. ASSUME cut = {} PROVE load = saved
    <2>1. Len(lines) = Len(saved) /\ SavedUpTo(Len(saved), lines, saved)
      BY <1>1, <1>5 DEF FileKept
    <2>2. Len(load) = Len(saved)
      BY <1>2, <1>3, <1>4, <2>1
    <2>3. \A i \in 1..Len(load) : load[i] = saved[i]
      BY <1>2, <2>1, <2>2 DEF SavedUpTo
    <2> QED
      BY <1>1, <1>2, <2>2, <2>3, SeqEqual
  <1>6. ASSUME NEW first \in cut, \A d \in cut : first <= d
        PROVE  IsPrefix(load, saved) /\ Len(load) >= first - 1
    <2>1. first \in Nat /\ first <= Len(saved) /\ FileAfterCut(first, lines, saved)
      BY <1>1, <1>6 DEF FileKept
    <2>2. SavedUpTo(Len(load), lines, saved) /\ Len(load) >= first - 1
      <3>1. CASE first \in Nat \ {0} /\ Len(lines) = first /\ SavedUpTo(first, lines, saved)
        <4>1. Len(load) = first
          BY <1>2, <1>3, <1>4, <3>1
        <4> QED
          BY <3>1, <4>1
      <3>2. ASSUME NEW bad \in {first, first + 1}, bad \in 1..Len(lines), lines[bad].record = Garbage,
                   SavedUpTo(bad - 1, lines, saved)
            PROVE  Len(load) = bad - 1
        <4>1. bad - 1 \in Nat /\ bad - 1 <= Len(load)
          BY <1>4, <2>1, <3>2
        <4>2. ~ bad <= Len(load)
          <5> SUFFICES ASSUME bad <= Len(load) PROVE FALSE
            OBVIOUS
          <5>1. bad \in 1..Len(load) /\ load[bad] = Garbage
            BY <1>2, <1>3, <2>1, <3>2
          <5>2. load[bad] \in Observations
            BY <1>2, <5>1, ElementOfSeq
          <5> QED
            BY <5>1, <5>2 DEF Observations, Garbage
        <4> QED
          BY <1>3, <2>1, <3>2, <4>1, <4>2
      <3> QED
        BY <1>3, <2>1, <3>1, <3>2 DEF FileAfterCut
    <2>3. Len(load) <= Len(saved) /\ \A i \in 1..Len(load) : load[i] = saved[i]
      BY <1>2, <2>2 DEF SavedUpTo
    <2>4. SubSeq(load, 1, Len(load)) = SubSeq(saved, 1, Len(load))
      <3> DEFINE a == SubSeq(load, 1, Len(load))
                 b == SubSeq(saved, 1, Len(load))
                 n == Len(load)
      <3>1. \A i \in 1..n : load[i] \in Observations /\ saved[i] \in Observations
        BY <1>1, <1>2, <1>3, <2>3, ElementOfSeq
      <3>2. n \in Nat
        BY <1>3
      <3> HIDE DEF n
      <3>3. /\ SubSeq(load, 1, n) \in Seq(Observations) /\ Len(SubSeq(load, 1, n)) = (IF 1 <= n THEN n - 1 + 1 ELSE 0)
            /\ \A i \in 1..(n - 1 + 1) : SubSeq(load, 1, n)[i] = load[1 + i - 1]
            /\ SubSeq(saved, 1, n) \in Seq(Observations) /\ Len(SubSeq(saved, 1, n)) = (IF 1 <= n THEN n - 1 + 1 ELSE 0)
            /\ \A i \in 1..(n - 1 + 1) : SubSeq(saved, 1, n)[i] = saved[1 + i - 1]
        BY <3>1, <3>2, SubSeqProperties
      <3>4. n - 1 + 1 = n /\ \A i \in 1..n : 1 + i - 1 = i
        BY <3>2
      <3>5. \A i \in 1..n : SubSeq(load, 1, n)[i] = SubSeq(saved, 1, n)[i]
        BY <2>3, <3>3, <3>4 DEF n
      <3> QED
        BY <3>2, <3>3, <3>4, <3>5, SeqEqual DEF n
    <2> QED
      BY <2>2, <2>3, <2>4 DEF IsPrefix
  <1> QED
    BY <1>5, <1>6 DEF load

(* integrations/feedback.py: through failed writes, lines cut short and    *)
(* restarts, what memory holds is the end of what was observed since the   *)
(* last load, and what a reload gives is the longest faithful start of     *)
(* what was saved.                                                         *)
THEOREM FeedbackStaysFaithful == FeedbackSpec => []FeedbackFaithful
  <1>1. FeedbackInv => FeedbackFaithful
    <2> SUFFICES ASSUME FeedbackInv PROVE FeedbackFaithful
      OBVIOUS
    <2>1. \A n \in 1..MaxMemory : Report(records, n) = Report(observed, n)
      BY SameRecent, FeedbackAssumption DEF FeedbackInv, Report
    <2>2. cut # {} => LET first == CHOOSE c \in cut : \A d \in cut : c <= d
                      IN  first \in cut /\ \A d \in cut : first <= d
      BY LeastNatural DEF FeedbackInv, FeedbackTypeOK
    <2> QED
      BY <2>1, <2>2, LoadFaithful DEF FeedbackFaithful
  <1> QED
    BY <1>1, FeedbackInitInv, FeedbackStep, PTL DEF FeedbackSpec
=============================================================================
