---------------------------- MODULE MCSimPolicy -----------------------------
(***************************************************************************)
(* Simulation runs on small traces.  Rows are numbered in the order of     *)
(* submission, so that raw traces are sorted already; TracePreparation     *)
(* checks TraceInput on unsorted ones.                                     *)
(***************************************************************************)
EXTENDS SimPolicy

(* What a row runs for, requests and is predicted to run for.              *)
Kind(actual, requested, prediction) ==
  [actual |-> actual, requested |-> requested, prediction |-> prediction]

NoRequest(actual) == Kind(actual, Missing, Missing)
Requested(actual, requested) == Kind(actual, requested, Missing)
Predict(p10, p50, p90) == [p10 |-> p10, p50 |-> p50, p90 |-> p90]

(* Traces of rows of the given kinds, with the given submit times and      *)
(* requests for CPUs.                                                      *)
TracesOf(n, times, cpus, kinds) ==
  {[r \in 1..n |->
      [job_id |-> r, user_id |-> r % 2, submit_ts |-> ts[r], requested_cpus |-> cpu[r],
       runtime_actual_sec |-> kind[r].actual, runtime_requested_sec |-> kind[r].requested,
       prediction |-> kind[r].prediction]] :
     ts \in times, cpu \in [1..n -> cpus], kind \in [1..n -> kinds]}

(* Exact, too short and too long requests.                                 *)
AnyKinds == {NoRequest(1), Requested(3, 1), Requested(0, 2)}
(* Exact but for the predicted median, which is too short.                 *)
SureKinds == {NoRequest(2), Kind(3, 3, Predict(1, 1, 5))}

(* With Capacity 3: three jobs, some larger than the machine, and four     *)
(* that fit it, of which one or two are there from the start.  Odd rows    *)
(* are of one user, even ones of another.                                  *)
MCRuleTraces ==
  TracesOf(3, {<<0, 0, 1>>}, {1, 2, 4}, AnyKinds)
  \cup TracesOf(4, {<<0, 0, 1, 1>>}, 1..3, SureKinds)
  \cup TracesOf(3, {<<0, 0, 0>>, <<0, 1, 1>>}, 1..3, {NoRequest(0), Kind(4, 4, Predict(1, 1, 5))})

MCTraces == {Prepared(raw, p) : raw \in RawTraces, p \in Policies}
MCDecisionLists == Seq(Int)
MCGuardK == [num |-> 1, den |-> 2]
=============================================================================
