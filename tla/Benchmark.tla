----------------------------- MODULE Benchmark -----------------------------
(***************************************************************************)
(* The regression gate of artifacts/benchmark.py: the rate of a simulation *)
(* is held against the last passing runs of the same profile, which a file *)
(* of lines remembers.  The rates are measured (external); the file may be *)
(* cut short by a crash.                                                   *)
(***************************************************************************)
EXTENDS Integers, Sequences, FiniteSetsExt

CONSTANTS
  BenchProfiles,   \* what identifies runs that compare: dataset, policy, capacity, samples
  Figures,         \* [profile -> [p50, p99, mean_wait, waits]] of the dataset
  HistoryWindow,   \* history_window: passing runs looked back at
  Rates,           \* events per second a run may measure
  MaxRuns          \* bound on the benchmark runs

ASSUME BenchAssumption ==
  HistoryWindow \in Nat \ {0} /\ Rates \subseteq Nat

VARIABLES
  regression_config,   \* whether the runs are given configs/benchmark (rigid)
  history,   \* lines of the file: a record, or "garbled"
  torn,      \* the last line has no newline
  results    \* history: <<profile, rate, status>> of every run

benchVars == <<regression_config, history, torn, results>>

(* _detect_workload_class                                                  *)
DetectWorkloadClass(fig) ==
  IF fig.p50 > 0 /\ fig.p99 > 50 * fig.p50 THEN "heavy_tail"
  ELSE IF fig.waits /\ fig.mean_wait < 10 THEN "low_congestion"
  ELSE "balanced"

(* The largest drop, in percent: of a class by                             *)
(* _load_regression_thresholds over configs/benchmark; else, and from the  *)
(* command line, 10.                                                       *)
RegressionMaxDrop(class) ==
  IF ~ regression_config THEN 10
  ELSE CASE class = "heavy_tail" -> 15 [] class = "low_congestion" -> 8 [] OTHER -> 10

(* The lines of the file that are records (_load_history passes over the   *)
(* others).                                                                *)
LoadHistory == {i \in DOMAIN history : history[i] # <<"garbled">>}

(* Twice the median of a function's values, 0 of none: the k-th smallest is *)
(* the least that k of them do not exceed.                                 *)
Smallest(values, k) ==
  Min({v \in Range(values) : Cardinality({i \in DOMAIN values : values[i] <= v}) >= k})
Median2(values) ==
  LET n == Cardinality(DOMAIN values)
  IN  IF n = 0 THEN 0 ELSE Smallest(values, (n + 1) \div 2) + Smallest(values, n \div 2 + 1)

Bug_AnyPriorRun(profile) == {i \in LoadHistory : history[i][1] = profile}

(* The lines of the passing runs of a profile, and the last of them.       *)
PriorPasses(profile) == {i \in LoadHistory : history[i][1] = profile /\ history[i][3] = "pass"}

PriorTail(profile) ==
  {i \in PriorPasses(profile) :
     Cardinality({j \in PriorPasses(profile) : j > i}) < HistoryWindow}

RegressionFail(profile, rate) ==
  LET base == Median2([i \in PriorTail(profile) |-> history[i][2]])
      drop == RegressionMaxDrop(DetectWorkloadClass(Figures[profile]))
  IN  base > 0 /\ 200 * rate < base * (100 - drop)

BenchInit == regression_config \in BOOLEAN /\ history = <<>> /\ torn = FALSE /\ results = <<>>

(* The next record is written on the line that was cut, and reads as none. *)
AppendHistory(record) ==
  /\ history' = IF torn THEN [history EXCEPT ![Len(history)] = <<"garbled">>] ELSE Append(history, record)
  /\ torn' = FALSE

RunBenchmarkSuite(profile, rate) ==
  LET record == <<profile, rate, IF RegressionFail(profile, rate) THEN "fail" ELSE "pass">>
  IN  /\ Len(results) < MaxRuns
      /\ results' = Append(results, record)
      /\ AppendHistory(record)
      /\ UNCHANGED regression_config

(* The report is written, the history line only in part.                   *)
CrashInAppend(profile, rate) ==
  LET record == <<profile, rate, IF RegressionFail(profile, rate) THEN "fail" ELSE "pass">>
  IN  /\ Len(results) < MaxRuns
      /\ results' = Append(results, record)
      /\ history' = IF torn THEN history ELSE Append(history, <<"garbled">>)
      /\ torn' = TRUE
      /\ UNCHANGED regression_config

BenchNext ==
  \E profile \in BenchProfiles, rate \in Rates :
    RunBenchmarkSuite(profile, rate) \/ CrashInAppend(profile, rate)

(* A regression is not passed by trying again: until a run of its profile  *)
(* passes, whatever is no faster than a run that failed fails as well.     *)
(* Crashes in between may lose records but bring no rate back.             *)
NoPassByRetry ==
  \A i, j \in DOMAIN results :
    /\ i < j /\ results[i][1] = results[j][1] /\ results[i][3] = "fail"
    /\ results[j][2] <= results[i][2]
    /\ \A k \in i..(j - 1) : results[k][1] = results[i][1] => results[k][3] = "fail"
    => results[j][3] = "fail"
=============================================================================
