--------------------------- MODULE Recommendation ---------------------------
(***************************************************************************)
(* recommend/engine.py and simulate/objective.py: what is recommended from *)
(* the figures of simulated policies.  A policy's figures are integers in  *)
(* hundredths: p95_bsld, utilization_cpu, fairness_dev, jain and           *)
(* starved_rate.                                                           *)
(***************************************************************************)
EXTENDS ScheduleMetrics

Pos(x) == IF x > 0 THEN x ELSE 0

(* evaluate_constraint_contract                                            *)
Violations(cand, base) ==
  {v \in {"starved_rate_exceeded", "fairness_dev_delta_exceeded", "jain_delta_exceeded"} :
     \/ v = "starved_rate_exceeded" /\ cand.starved_rate > 2
     \/ v = "fairness_dev_delta_exceeded" /\ cand.fairness_dev - base.fairness_dev > 5
     \/ v = "jain_delta_exceeded" /\ base.jain - cand.jain > 3}

(* compute_weighted_analysis_score with the default weights, times 1000.   *)
WeightedScore(cand, base) ==
  10 * (base.p95_bsld - cand.p95_bsld)
    + 3 * (cand.utilization_cpu - base.utilization_cpu)
    - 20 * (Pos(cand.fairness_dev - base.fairness_dev) + Pos(base.jain - cand.jain))

(* _fidelity_gate_ok: no report at all is as good as a passed gate.        *)
FidelityGateOK(fidelity) == fidelity \in {"not_provided", "pass"}

PrimaryImproved(cand, base) == base.p95_bsld - cand.p95_bsld > 0

RejectionReasons(cand, base, fidelity) ==
  Violations(cand, base)
    \cup (IF FidelityGateOK(fidelity) THEN {} ELSE {"fidelity_failed"})
    \cup (IF PrimaryImproved(cand, base) THEN {} ELSE {"primary_kpi_not_improved"})

Evaluated(cand, base, fidelity) ==
  [objective |-> cand, score |-> WeightedScore(cand, base),
   reasons |-> RejectionReasons(cand, base, fidelity),
   accepted |-> /\ FidelityGateOK(fidelity)
                /\ Violations(cand, base) = {}
                /\ PrimaryImproved(cand, base)]

(* The order of the report, whose first candidate is the winner; the sort  *)
(* keeps the given order of equals.                                        *)
Bug_ByScoreOnly(e) == <<0, 0 - e.score>>

RankKey(e) == <<IF e.accepted THEN 0 ELSE 1, 0 - e.score>>

Ranked(evaluated) == Sorted(evaluated, [i \in DOMAIN evaluated |-> RankKey(evaluated[i])])

(* workload_regime_analysis; a profile gives its figures in hundredths,    *)
(* and stands in a sequence of one, which is empty when there is none.     *)
Regime(profile) ==
  IF profile.tail_ratio > 5000 THEN "heavy_tail"
  ELSE IF profile.queue_len_mean < 200 THEN "low_congestion"
  ELSE IF profile.top_user_share > 50 THEN "user_skew"
  ELSE "balanced"
WorkloadRegime(given) == IF given = <<>> THEN "balanced" ELSE Regime(given[1])

(* generate_recommendation_report; no candidate is a blocked report with   *)
(* no narrative.                                                           *)
GenerateRecommendation(cands, base, fidelity, profile) ==
  LET ranked == Ranked([i \in DOMAIN cands |-> Evaluated(cands[i], base, fidelity)])
      won    == ranked # <<>> /\ ranked[1].accepted
  IN  [status |-> IF won THEN "accepted" ELSE "blocked",
       selected |-> IF won THEN <<ranked[1].objective>> ELSE <<>>,
       failure_modes |-> [p \in {q \in DOMAIN ranked : ~ ranked[q].accepted} |-> ranked[p].reasons],
       narrative |-> IF won \/ ranked = <<>> THEN <<>>
                     ELSE <<[causes |-> ranked[1].reasons, regime |-> WorkloadRegime(profile)]>>]

-----------------------------------------------------------------------------

(* The objectives of generate_pareto_recommendation, all to be maximized;  *)
(* the baseline's part in them is the same for all candidates.             *)
ParetoPoint(cand) == <<0 - cand.p95_bsld, cand.utilization_cpu, 0 - cand.fairness_dev>>

IsDominated(point, other) ==
  /\ \A o \in DOMAIN point : other[o] >= point[o]
  /\ \E o \in DOMAIN point : other[o] > point[o]

(* The loop visits the candidates in order.  At the i-th those before it   *)
(* are marked or not, those after it not yet, and the marked are passed    *)
(* over as rivals.                                                         *)
MarkedBefore(dominated, i) == {j \in dominated : j < i}
ParetoDominated(cands) ==
  CHOOSE dominated \in SUBSET DOMAIN cands : \A i \in DOMAIN cands :
    i \in dominated <=> \E j \in DOMAIN cands \ (MarkedBefore(dominated, i) \cup {i}) :
                         IsDominated(ParetoPoint(cands[i]), ParetoPoint(cands[j]))

ParetoFrontier(cands) == DOMAIN cands \ ParetoDominated(cands)
=============================================================================
