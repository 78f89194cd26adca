-------------------------- MODULE ScheduleMetrics --------------------------
(***************************************************************************)
(* simulate/metrics.py and simulate/fidelity.py: the figures of a finished *)
(* schedule, and the gate that holds a replay against what was observed.   *)
(* A figure that is a fraction is kept exact: a percentile in twentieths,  *)
(* a slowdown as <<numerator, denominator>> or, in a list to sort, over    *)
(* one denominator.                                                        *)
(***************************************************************************)
EXTENDS Integers, Sequences, FiniteSetsExt, SequencesExt

Clip(x) == IF x < 0 THEN 0 ELSE x

(* What a stable sort makes of a sequence: key gives for each place a pair *)
(* of integers, and those with the same key keep the order they came in.   *)
KeyBefore(key, i, j) ==
  \/ key[i][1] < key[j][1]
  \/ key[i][1] = key[j][1] /\ (key[i][2] < key[j][2] \/ (key[i][2] = key[j][2] /\ i < j))
PlaceOf(key, i) == 1 + Cardinality({j \in DOMAIN key : KeyBefore(key, j, i)})
Sorted(items, key) ==
  [p \in DOMAIN items |-> items[CHOOSE i \in DOMAIN items : PlaceOf(key, i) = p]]

(* A sum over a set, counted unit by unit.                                 *)
TotalOf(size, S) == Cardinality(UNION {{i} \X (1..size[i]) : i \in S})

(* Twenty times the 95th percentile, interpolated as numpy does.           *)
P95(values) ==
  IF values = <<>> THEN 0
  ELSE LET sorted == Sorted(values, [i \in DOMAIN values |-> <<values[i], 0>>])
           pos    == 19 * (Len(values) - 1)
           lower  == sorted[1 + pos \div 20]
           upper  == sorted[1 + (pos + 19) \div 20]
       IN  20 * lower + (upper - lower) * (pos % 20)

(* (wait + runtime) / max(runtime, floor), over (floor + 1) * floor: exact *)
(* for the runtimes up to floor + 1 that the instances use.                *)
Bsld(wait, runtime, floor) == ((wait + runtime) * floor * (floor + 1)) \div Max({runtime, floor})

Utilization(seconds, capacity, makespan) ==
  IF makespan <= 0 THEN <<0, 1>>
  ELSE <<Min({seconds, capacity * makespan}), capacity * makespan>>

(* compute_job_metrics; a row has submit_ts, start_ts, end_ts and          *)
(* requested_cpus.                                                         *)
ComputeJobMetrics(rows, capacity, floor) ==
  LET wait(r)    == Clip(r.start_ts - r.submit_ts)
      runtime(r) == Clip(r.end_ts - r.start_ts)
      places     == DOMAIN rows
      makespan   == Clip(Max({rows[i].end_ts : i \in places}) - Min({rows[i].submit_ts : i \in places}))
      seconds    == TotalOf([i \in places |-> rows[i].requested_cpus * runtime(rows[i])], places)
  IN  IF rows = <<>>
      THEN [job_count |-> 0, wait_sec |-> 0, p95_wait |-> 0, p95_bsld |-> 0,
            makespan_sec |-> 0, utilization |-> <<0, 1>>]
      ELSE [job_count |-> Len(rows),
            wait_sec |-> TotalOf([i \in places |-> wait(rows[i])], places),
            p95_wait |-> P95([i \in places |-> wait(rows[i])]),
            p95_bsld |-> P95([i \in places |-> Bsld(wait(rows[i]), runtime(rows[i]), floor)]),
            makespan_sec |-> makespan,
            utilization |-> Utilization(seconds, capacity, makespan)]

-----------------------------------------------------------------------------
(* simulate/fidelity.py and the statistics of simulate/metrics.py that the *)
(* gate reads: is a replay of a trace close enough to what was observed?   *)
(* Thresholds and statistics are integers in hundredths; the divergence    *)
(* of the wait histograms and the correlation of two series that do vary   *)
(* are figures of the input (real arithmetic).                             *)

CoreKeys == {"mean_wait_sec", "p95_wait_sec", "throughput", "makespan_sec"}

(* _CORE_DIVERGENCE_DENOM_FLOORS, and what stands for 1.0, in the unit of  *)
(* each figure: seconds, and hundredths of a job per second.               *)
DenomFloor == [mean_wait_sec |-> 60, p95_wait_sec |-> 60, throughput |-> 5, makespan_sec |-> 300]
Unit == [mean_wait_sec |-> 1, p95_wait_sec |-> 1, throughput |-> 100, makespan_sec |-> 1]

Abs(x) == IF x < 0 THEN 0 - x ELSE x

(* relative_divergence exceeds a threshold in hundredths.                  *)
Denominator(key, observed) ==
  Max({IF observed = 0 THEN Unit[key] ELSE Abs(observed), DenomFloor[key]})
DivergesBy(key, observed, simulated, threshold) ==
  100 * Abs(simulated - observed) > threshold * Denominator(key, observed)

(* ks_statistic exceeds a threshold: two samples of slowdowns compared at  *)
(* every value of either.                                                  *)
AtMost(sample, x) == Cardinality({i \in DOMAIN sample : sample[i] <= x})
KsExceeds(observed, simulated, threshold) ==
  /\ observed # <<>> /\ simulated # <<>>
  /\ \E i \in DOMAIN observed, j \in DOMAIN simulated : \E x \in {observed[i], simulated[j]} :
       100 * Abs(AtMost(observed, x) * Len(simulated) - AtMost(simulated, x) * Len(observed))
         > threshold * Len(observed) * Len(simulated)

(* resample_queue_series_right_hold: the length last recorded at or before *)
(* each sample, 0 before the first.  A series has distinct ascending times.*)
SampleTimes(start, end, cadence) ==
  {start + n * cadence : n \in 0..((Max({end, start}) - start) \div cadence)}
HeldAt(series, t) ==
  LET known == {i \in DOMAIN series : series[i].ts <= t}
  IN  IF known = {} THEN 0 ELSE series[Max(known)].len
Resampled(series, start, end, cadence) ==
  [t \in SampleTimes(start, end, cadence) |-> HeldAt(series, t)]

Constant(f) == Cardinality({f[t] : t \in DOMAIN f}) = 1

(* queue_series_correlation, in hundredths.                                *)
QueueCorrelation(observed, simulated, start, end, cadence, pearson) ==
  LET obs == Resampled(observed, start, end, cadence)
      sim == Resampled(simulated, start, end, cadence)
  IN  CASE Constant(obs) /\ Constant(sim) -> IF obs = sim THEN 100 ELSE 0
        [] Constant(obs) # Constant(sim) -> 0
        [] OTHER -> IF obs = sim THEN 100 ELSE pearson

MIN_DISTRIBUTION_SAMPLE_SIZE == 30

(* _policy_fidelity over the figures of an observed and a simulated run:   *)
(* copies is how often the slowdowns of the sample stand in each, wait_kl  *)
(* the divergence of the waits.                                            *)
FailReasons(fig) ==
  LET diverging(threshold) ==
        {key \in CoreKeys : DivergesBy(key, fig.observed[key], fig.simulated[key], threshold)}
      sampled == fig.copies * Min({Len(fig.observed_slowdown), Len(fig.simulated_slowdown)})
                   >= MIN_DISTRIBUTION_SAMPLE_SIZE
      corr == QueueCorrelation(fig.observed_queue, fig.simulated_queue, 0, fig.end, 60, fig.pearson)
  IN  (IF diverging(20) # {} THEN {"aggregate_single_metric_divergence_exceeded"} ELSE {})
        \cup (IF Cardinality(diverging(15)) >= 2 THEN {"aggregate_two_metric_divergence_exceeded"} ELSE {})
        \cup (IF sampled /\ fig.wait_kl > 20 THEN {"wait_kl_exceeded"} ELSE {})
        \cup (IF sampled /\ KsExceeds(fig.observed_slowdown, fig.simulated_slowdown, 15)
              THEN {"slowdown_ks_exceeded"} ELSE {})
        \cup (IF corr < 85 THEN {"queue_correlation_below_min"} ELSE {})

(* run_baseline_fidelity_gate: every baseline policy must be close.        *)
BaselinePolicies == {"FIFO_STRICT", "EASY_BACKFILL_BASELINE"}
GateStatus(figures) ==
  IF \A p \in BaselinePolicies : FailReasons(figures[p]) = {} THEN "pass" ELSE "fail"
=============================================================================
