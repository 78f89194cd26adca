------------------------------ MODULE Pipeline ------------------------------
(***************************************************************************)
(* The commands over finished traces: `credibility run-suite`, `recommend  *)
(* generate`, `whatif run`, the benchmark and the `simulate batsim-*` pair.*)
(* They share no file, so that a behaviour is one of them, picked at its   *)
(* start.                                                                  *)
(***************************************************************************)
EXTENDS Credibility, Benchmark, BatsimRun

CONSTANTS
  Candidates,      \* figures a candidate's report may have
  Baseline,        \* figures of the baseline's report
  Profiles,        \* figures of a trace profile
  MaxCandidates,
  WhatIfTraces     \* observed schedules

(* What is replayed has a job at least, and a slowdown is one at least.    *)
PolicyFigures == [p95_bsld : Nat \ {0}, utilization_cpu : Int, fairness_dev : Int,
                  jain : Int, starved_rate : Int]
ObservedTimes == [start_ts : Int, end_ts : Int, requested_cpus : Nat \cup {-1}]
ASSUME FiguresAssumption ==
  /\ Candidates \subseteq PolicyFigures /\ Baseline \in PolicyFigures /\ MaxCandidates \in Nat
  /\ \A trace \in WhatIfTraces : trace \in Seq(ObservedTimes)

VARIABLES
  command,
  asked      \* the recommendation or the what-if report made, or <<>>

vars == <<credVars, benchVars, batsimVars, command, asked>>

-----------------------------------------------------------------------------
(* whatif/engine.py: the capacity inferred from an observed schedule, and  *)
(* the verdict on a change of policy from the figures of two replays.  The *)
(* replays are those of the loop, their figures the records of             *)
(* Recommendation.  A row is [start_ts, end_ts, requested_cpus]; NoValue   *)
(* stands for a value that is missing.                                     *)
NoValue == -1

Cpus(row) == IF row.requested_cpus = NoValue THEN 1 ELSE row.requested_cpus

(* Rows without both times, or that took no time, are left out.            *)
Observed(row) == NoValue \notin {row.start_ts, row.end_ts} /\ row.end_ts > row.start_ts

(* infer_capacity_cpus: the highest of the running sums over the starts    *)
(* and ends in their order, at one time the smallest change first (of two  *)
(* that are equal either, here by the row).                                *)
ObservedRows(trace) == {i \in DOMAIN trace : Observed(trace[i])}
StartOf(trace, i) == <<trace[i].start_ts, Cpus(trace[i]), i>>
EndOf(trace, i) == <<trace[i].end_ts, 0 - Cpus(trace[i]), 0 - i>>
UpTo(a, b) == \/ a[1] < b[1]
              \/ a[1] = b[1] /\ (a[2] < b[2] \/ (a[2] = b[2] /\ a[3] <= b[3]))
Sizes(trace) == [i \in DOMAIN trace |-> Cpus(trace[i])]
Current(trace, change) ==
  TotalOf(Sizes(trace), {i \in ObservedRows(trace) : UpTo(StartOf(trace, i), change)})
    - TotalOf(Sizes(trace), {i \in ObservedRows(trace) : UpTo(EndOf(trace, i), change)})
InferCapacity(trace) ==
  LET ran == ObservedRows(trace)
      changes == {StartOf(trace, i) : i \in ran} \cup {EndOf(trace, i) : i \in ran}
  IN  Max({1} \cup {Current(trace, change) : change \in changes})

(* The verdict: a change of p95_bsld of one percent or less is noise.      *)
Verdict(cand, base) ==
  LET gain == IF base.p95_bsld > 0 THEN base.p95_bsld - cand.p95_bsld ELSE 0
  IN  IF Violations(cand, base) # {} THEN "blocked_constraints"
      ELSE IF 100 * gain > base.p95_bsld THEN "improvement"
      ELSE IF 100 * gain < 0 - base.p95_bsld THEN "regression"
      ELSE "no_material_change"

(* run_whatif: given_capacity is NoValue when it is to be inferred; gate   *)
(* is the fidelity of the baseline's replay.                               *)
RunWhatIf(trace, given_capacity, cand, base, gate) ==
  [verdict |-> Verdict(cand, base),
   confidence |-> IF gate = "pass" THEN "high" ELSE "low",
   capacity_cpus |-> IF given_capacity = NoValue THEN InferCapacity(trace) ELSE given_capacity,
   capacity_inferred_from_trace |-> given_capacity = NoValue]

-----------------------------------------------------------------------------
Init ==
  /\ command \in {"credibility", "recommend", "whatif", "benchmark", "batsim"}
  /\ CredInit
  /\ command # "credibility" => raw = [t \in Traces |-> "absent"]
  /\ BenchInit
  /\ command # "benchmark" => ~ regression_config
  /\ BatsimInit
  /\ asked = <<>>

(* Both forms of the report over the same candidates.  No command gives a  *)
(* trace profile or no candidate at all; the functions take both.          *)
Generate(cands, fidelity, profile) ==
  asked' = <<[cands |-> cands, fidelity |-> fidelity,
              report |-> GenerateRecommendation(cands, Baseline, fidelity, profile),
              frontier |-> ParetoFrontier(cands)]>>

RecommendCommand ==
  /\ command = "recommend"
  /\ asked = <<>>
  /\ \E n \in 0..MaxCandidates : \E cands \in [1..n -> Candidates],
        fidelity \in {"not_provided", "pass", "fail"}, profile \in {<<>>} \cup {<<p>> : p \in Profiles} :
       Generate(cands, fidelity, profile)
  /\ UNCHANGED <<credVars, benchVars, batsimVars, command>>

(* Figures of one or the other policy, over any of the traces.             *)
WhatIfCommand ==
  /\ command = "whatif"
  /\ asked = <<>>
  /\ \E trace \in WhatIfTraces, capacity \in {NoValue, 4}, cand, base \in Candidates, gate \in {"pass", "fail"} :
       asked' = <<[trace |-> trace, cand |-> cand, base |-> base,
                   report |-> RunWhatIf(trace, capacity, cand, base, gate)]>>
  /\ UNCHANGED <<credVars, benchVars, batsimVars, command>>

CredibilityCommand ==
  command = "credibility" /\ CredNext /\ UNCHANGED <<benchVars, batsimVars, command, asked>>
BenchmarkCommand ==
  command = "benchmark" /\ BenchNext /\ UNCHANGED <<credVars, batsimVars, command, asked>>
BatsimCommands ==
  command = "batsim" /\ BatsimNext /\ UNCHANGED <<credVars, benchVars, command, asked>>

Next == RecommendCommand \/ WhatIfCommand \/ CredibilityCommand \/ BenchmarkCommand \/ BatsimCommands

Spec == Init /\ [][Next]_vars

-----------------------------------------------------------------------------

(* A candidate is on the frontier exactly when no other one is at least as *)
(* good in everything and better in something, and there is always one.    *)
FrontierExact(ask) ==
  /\ ask.frontier = {i \in DOMAIN ask.cands : \A j \in DOMAIN ask.cands :
                       ~ IsDominated(ParetoPoint(ask.cands[i]), ParetoPoint(ask.cands[j]))}
  /\ ask.cands # <<>> => ask.frontier # {}

Sound(cand, fidelity) == fidelity # "fail" /\ RejectionReasons(cand, Baseline, fidelity) = {}
Beats(other, cand) ==
  /\ other.p95_bsld < cand.p95_bsld /\ other.utilization_cpu >= cand.utilization_cpu
  /\ other.fairness_dev <= cand.fairness_dev /\ other.jain >= cand.jain

(* A recommendation is made exactly when some candidate improves on the    *)
(* baseline within every limit and the gate did not fail, and no other     *)
(* such candidate is better than the one selected at all it is scored by;  *)
(* what is not recommended has its reasons.  And the Pareto frontier is    *)
(* what it is by definition, although the loop never compares a candidate  *)
(* with one already found dominated.                                       *)
Recommends(ask) ==
  LET sound == {i \in DOMAIN ask.cands : Sound(ask.cands[i], ask.fidelity)}
  IN  /\ ask.report.status = "accepted" <=> sound # {}
      /\ ask.report.status = "accepted" <=> ask.report.selected # <<>>
      /\ \A s \in DOMAIN ask.report.selected :
           /\ \E i \in sound : ask.cands[i] = ask.report.selected[s]
           /\ \A i \in sound : ~ Beats(ask.cands[i], ask.report.selected[s])
      /\ Cardinality(DOMAIN ask.report.failure_modes) = Len(ask.cands) - Cardinality(sound)
      /\ \A p \in DOMAIN ask.report.failure_modes : ask.report.failure_modes[p] # {}
      /\ ask.report.narrative # <<>> <=> sound = {} /\ ask.cands # <<>>
      /\ FrontierExact(ask)

(* A what-if report agrees with the recommendation on the same figures:    *)
(* what it calls an improvement would be recommended, what it calls a      *)
(* regression or blocks would not, and turned round an improvement is none.*)
(* The inferred capacity is what the observed schedule takes at its peak.  *)
InUse(trace, ts) ==
  TotalOf(Sizes(trace), {i \in ObservedRows(trace) : trace[i].start_ts <= ts /\ ts < trace[i].end_ts})
Answers(ask) ==
  LET recommended == GenerateRecommendation(<<ask.cand>>, ask.base, "pass", <<>>).status
      peaks == {InUse(ask.trace, ask.trace[i].start_ts) : i \in DOMAIN ask.trace}
  IN  /\ ask.report.verdict = "improvement" => recommended = "accepted"
      /\ ask.report.verdict \in {"regression", "blocked_constraints"} => recommended = "blocked"
      /\ ask.report.verdict = "improvement" => Verdict(ask.base, ask.cand) \in {"regression", "blocked_constraints"}
      /\ ask.report.capacity_inferred_from_trace => ask.report.capacity_cpus = Max({1} \cup peaks)

(* What the commands advise is what the figures and the schedule say.      *)
RecommendationSound == \A i \in DOMAIN asked :
  IF command = "whatif" THEN Answers(asked[i]) ELSE Recommends(asked[i])
=============================================================================
