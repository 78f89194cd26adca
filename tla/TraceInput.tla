----------------------------- MODULE TraceInput -----------------------------
(***************************************************************************)
(* What simulate/core_helpers.py does to a trace before it is replayed:    *)
(* coerce_trace_df cleans and sorts the rows, attach_runtime_estimates     *)
(* gives each job the runtimes its policy plans with.                      *)
(*                                                                         *)
(* The answer of the runtime predictor for a row (predict_one: a model     *)
(* outside this module) is the row's field prediction, already rounded;    *)
(* Missing when there is no predictor or it raised.  The guard factor      *)
(* runtime_guard_k is k.num / k.den.                                       *)
(***************************************************************************)
EXTENDS HistoryEstimates, TLC

CONSTANT Missing   \* NaN, None, or a value to_numeric cannot read

MlPolicies == {"ML_BACKFILL_P50", "ML_BACKFILL_P10"}

AtLeast(low, x) == IF x < low THEN low ELSE x

(* Python's round of n / d, for n >= 0 and d > 0: half to even.            *)
Rounded(n, d) ==
  LET q == n \div d
      rest == 2 * (n % d)
  IN  IF rest > d \/ (rest = d /\ q % 2 = 1) THEN q + 1 ELSE q

RowBefore(a, b) ==
  a.submit_ts < b.submit_ts \/ (a.submit_ts = b.submit_ts /\ a.job_id < b.job_id)

IsComplete(row) == Missing \notin {row.job_id, row.submit_ts, row.runtime_actual_sec, row.requested_cpus}

Bug_NoCpuClip(row) ==
  [row EXCEPT !.runtime_actual_sec = AtLeast(0, @),
              !.runtime_requested_sec = IF @ = Missing \/ @ <= 0 THEN Missing ELSE @]

(* A runtime is not negative, a job holds at least one CPU, and a request  *)
(* for no time is no request.                                              *)
Clipped(row) ==
  [row EXCEPT !.runtime_actual_sec = AtLeast(0, @),
              !.requested_cpus = AtLeast(1, @),
              !.runtime_requested_sec = IF @ = Missing \/ @ <= 0 THEN Missing ELSE @]

(* A trace left empty raises ValueError: no run.                           *)
CoerceTrace(raw) ==
  LET kept == SelectSeq(raw, IsComplete)
  IN  SortSeq([r \in DOMAIN kept |-> Clipped(kept[r])], RowBefore)

(* The wall time the user asked for, or what the job really takes.         *)
Fallback(row) ==
  IF row.runtime_requested_sec # Missing
  THEN [seconds |-> row.runtime_requested_sec, source |-> "requested_fallback"]
  ELSE [seconds |-> row.runtime_actual_sec, source |-> "actual_fallback"]

(* The estimate of a prediction is one quantile; the guard lies a fraction *)
(* k of the way to the next.                                               *)
Predicted(prediction, policy, k) ==
  LET p50 == AtLeast(1, prediction.p50)
      p90 == AtLeast(p50, prediction.p90)
      p10 == AtLeast(1, prediction.p10)
      low == IF policy = "ML_BACKFILL_P10" THEN p10 ELSE p50
      high == IF policy = "ML_BACKFILL_P10" THEN p50 ELSE p90
  IN  [estimate |-> low, p90 |-> p90, guard |-> Rounded(low * k.den + k.num * (high - low), k.den)]

(* The row as the loop takes it.                                           *)
Planned(row, plan, source, score) ==
  [job_id |-> row.job_id,
   submit_ts |-> row.submit_ts,
   requested_cpus |-> row.requested_cpus,
   runtime_actual_sec |-> row.runtime_actual_sec,
   runtime_estimate_sec |-> plan.estimate,
   runtime_p90_sec |-> plan.p90,
   runtime_guard_sec |-> plan.guard,
   estimate_source |-> source,
   priority_score |-> score]

Flat(seconds) == [estimate |-> seconds, p90 |-> seconds, guard |-> seconds]

(* An ML policy never plans with a guard below a second.                   *)
WithEstimate(row, policy, k) ==
  LET fallback == Fallback(row)
      by_model == policy \in MlPolicies /\ row.prediction # Missing
      plan == IF by_model THEN Predicted(row.prediction, policy, k) ELSE Flat(fallback.seconds)
  IN  Planned(row, IF policy \in MlPolicies THEN [plan EXCEPT !.guard = AtLeast(1, @)] ELSE plan,
              IF by_model THEN "prediction" ELSE fallback.source, 0)

(* One or two runtimes of history count as one source in the report.       *)
TsafrirSource(count) == IF count = 0 THEN "tsafrir_cold_start" ELSE "tsafrir_history"

AttachEstimates(jobs, policy, k) ==
  CASE policy = "EASY_BACKFILL_TSAFRIR" ->
         LET tsafrir == TsafrirEstimates(jobs, [r \in DOMAIN jobs |-> Fallback(jobs[r]).seconds])
         IN  [r \in DOMAIN jobs |-> Planned(jobs[r], Flat(tsafrir[r].estimate),
                                            TsafrirSource(tsafrir[r].count), 0)]
    [] policy = "FAIRSHARE_BACKFILL" ->
         LET scores == FairsharePriorities(jobs)
         IN  [r \in DOMAIN jobs |->
                [WithEstimate(jobs[r], policy, k) EXCEPT !.priority_score = scores[r]]]
    [] OTHER -> [r \in DOMAIN jobs |-> WithEstimate(jobs[r], policy, k)]
=============================================================================
