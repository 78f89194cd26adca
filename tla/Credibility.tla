---------------------------- MODULE Credibility ----------------------------
(***************************************************************************)
(* orchestrate/credibility.py: every trace of the reference suite goes     *)
(* through ingestion, training, replays, the fidelity gate and the         *)
(* recommendation, which leave reports in its directory; the suite leaves  *)
(* a summary.  artifacts/credibility_dossier.py reads what is there.  What *)
(* the replays of a trace give is a function of the trace file (Replays):  *)
(* the loop is deterministic.  Commands run one after another; two suites  *)
(* do not start in the same second, so that the number of a suite stands   *)
(* for the time stamp in the names of its reports.  The trace profile has  *)
(* none in its name.                                                       *)
(***************************************************************************)
EXTENDS Recommendation, ScheduleMetrics, TLC

CONSTANTS
  SuiteTraces,   \* the traces of the suite in their order
  Replays,       \* [file -> [fits, figures, easy, ml]]
  MaxSuites,     \* bound on the suites run
  MaxFailures    \* bound on steps that fail and crashes

VARIABLES
  raw,        \* [trace -> its file in raw_dir, or "absent"]
  suites,     \* how many suites were started
  run,        \* the suite that runs, or Idle
  dirs,       \* traces that have an output directory
  reports,    \* reports on disk: [trace, kind, suite, content]
  summary,    \* credibility_suite_summary.json, or NoSummary
  failures

credVars == <<raw, suites, run, dirs, reports, summary, failures>>

Traces == {SuiteTraces[i] : i \in DOMAIN SuiteTraces}
ASSUME SuiteAssumption ==
  /\ SuiteTraces \in Seq(Traces)
  /\ \A i, j \in DOMAIN SuiteTraces : SuiteTraces[i] = SuiteTraces[j] => i = j

Idle == [step |-> "idle"]
NoSummary == [status |-> "none"]
Steps == <<"ingest", "profile", "features", "train", "replay_fifo", "replay_easy",
           "simulate_ml", "fidelity", "recommend", "manifest">>
StepAfter(step) == Steps[1 + CHOOSE i \in DOMAIN Steps : Steps[i] = step]
SimReport == [replay_fifo |-> "FIFO_STRICT", replay_easy |-> "EASY_BACKFILL_BASELINE",
              simulate_ml |-> "ML_BACKFILL_P50"]

CredInit ==
  /\ raw \in [Traces -> DOMAIN Replays \cup {"absent"}]
  /\ suites = 0
  /\ run = Idle
  /\ dirs = {} /\ reports = {}
  /\ summary = NoSummary
  /\ failures = 0

Trace == SuiteTraces[run.pos]

(* TraceRunResult as run_credibility_protocol makes it.                    *)
FreshResult(trace) == [trace |-> trace, status |-> "error", fidelity |-> "none", recommendation |-> "none"]

StartSuite ==
  /\ run = Idle
  /\ suites < MaxSuites
  /\ suites' = suites + 1
  /\ run' = [step |-> "next", pos |-> 1, per_trace |-> <<>>]
  /\ UNCHANGED <<raw, dirs, reports, summary, failures>>

(* A missing file is an error of its trace, and the suite goes on.         *)
Closed(result) == [step |-> "next", pos |-> run.pos + 1, per_trace |-> Append(run.per_trace, result)]

NextTrace ==
  /\ run.step = "next"
  /\ run.pos <= Len(SuiteTraces)
  /\ run' = IF raw[Trace] = "absent" THEN Closed(FreshResult(Trace))
            ELSE [step |-> "ingest", pos |-> run.pos, per_trace |-> run.per_trace,
                  data |-> "none", result |-> FreshResult(Trace)]
  /\ dirs' = IF raw[Trace] = "absent" THEN dirs ELSE dirs \cup {Trace}
  /\ UNCHANGED <<raw, suites, reports, summary, failures>>

To(step) == [run EXCEPT !.step = step]
(* The files of the name that a report of this suite gets: the profile's   *)
(* name is that of the trace, whichever suite wrote it.                    *)
Files(kind) ==
  {r \in reports : r.trace = Trace /\ r.kind = kind /\ (kind = "trace_profile" \/ r.suite = suites)}
Write(kind, content) ==
  reports' = (reports \ Files(kind)) \cup
               {[trace |-> Trace, kind |-> kind, suite |-> suites, content |-> content]}
ReadBack(kind) == (CHOOSE r \in Files(kind) : TRUE).content

(* ingest_swf; a hash that differs from the locked one is only warned of.  *)
Ingest ==
  /\ run.step = "ingest"
  /\ run' = [run EXCEPT !.step = StepAfter("ingest"), !.data = raw[Trace]]
  /\ UNCHANGED <<raw, suites, dirs, reports, summary, failures>>

(* The profile replaces the one of an earlier suite; features and models   *)
(* are files of their own.  A LightGBM model that cannot be trained is left *)
(* out of the predictor.                                                   *)
BuildProfile ==
  /\ run.step = "profile"
  /\ run' = To(StepAfter("profile"))
  /\ Write("trace_profile", run.data)
  /\ UNCHANGED <<raw, suites, dirs, summary, failures>>

BuildModels ==
  /\ run.step \in {"features", "train"}
  /\ run' = To(StepAfter(run.step))
  /\ UNCHANGED <<raw, suites, dirs, reports, summary, failures>>

(* run_simulation_from_trace over the ingested dataset; a report of a run  *)
(* is written here as the file it was made of.                             *)
Simulate ==
  /\ run.step \in DOMAIN SimReport
  /\ Replays[run.data].fits
  /\ run' = To(StepAfter(run.step))
  /\ Write(SimReport[run.step], run.data)
  /\ UNCHANGED <<raw, suites, dirs, summary, failures>>

(* A job larger than the machine ends the loop with a RuntimeError, which  *)
(* no handler here takes: the whole suite ends, and its summary is not     *)
(* written.                                                                *)
SimulationRaises ==
  /\ run.step \in DOMAIN SimReport
  /\ ~ Replays[run.data].fits
  /\ run' = Idle
  /\ UNCHANGED <<raw, suites, dirs, reports, summary, failures>>

(* run_baseline_fidelity_gate replays the baselines again.                 *)
GateOf == [file \in DOMAIN Replays |-> GateStatus(Replays[file].figures)]

RunFidelityGate ==
  /\ run.step = "fidelity"
  /\ run' = [run EXCEPT !.step = StepAfter("fidelity"), !.result.fidelity = GateOf[run.data]]
  /\ Write("fidelity_report", GateOf[run.data])
  /\ UNCHANGED <<raw, suites, dirs, summary, failures>>

(* generate_recommendation_report over the reports of this run.            *)
RecommendationOf ==
  [file \in DOMAIN Replays, base \in DOMAIN Replays, fidelity \in {"pass", "fail"} |->
     GenerateRecommendation(<<Replays[file].ml>>, Replays[base].easy, fidelity, <<>>).status]

Recommend ==
  /\ run.step = "recommend"
  /\ LET status == RecommendationOf[<<ReadBack("ML_BACKFILL_P50"), ReadBack("EASY_BACKFILL_BASELINE"),
                                    ReadBack("fidelity_report")>>]
     IN  /\ run' = [run EXCEPT !.step = StepAfter("recommend"), !.result.recommendation = status]
         /\ Write("recommendation_report", status)
  /\ UNCHANGED <<raw, suites, dirs, summary, failures>>

(* The manifest and, with it, the verdict on the trace.                    *)
WriteManifest ==
  /\ run.step = "manifest"
  /\ Write("credibility_manifest", raw[Trace])
  /\ run' = Closed([run.result EXCEPT !.status = IF run.result.fidelity = "pass" THEN "pass" ELSE "fail"])
  /\ UNCHANGED <<raw, suites, dirs, summary, failures>>

(* What a step leaves of the reports when it is cut short: the one it was  *)
(* writing is new, and not readable, or it is the profile, whose earlier   *)
(* file may be half overwritten.                                           *)
CutShort == IF run.step = "profile" THEN {reports, reports \ Files("trace_profile")} ELSE {reports}

(* An OSError or a ValueError in any step: what was done stays, the result *)
(* keeps its status "error", and the suite goes on.                        *)
StepFails ==
  /\ run.step \in Range(Steps)
  /\ failures < MaxFailures
  /\ failures' = failures + 1
  /\ run' = Closed(run.result)
  /\ reports' \in CutShort
  /\ UNCHANGED <<raw, suites, dirs, summary>>

Bug_ErrorsSkipped(results) ==
  LET statuses == {results[i].status : i \in DOMAIN results} \ {"error"}
  IN  IF statuses \subseteq {"pass"} THEN "pass" ELSE IF "pass" \in statuses THEN "partial" ELSE "fail"

Aggregate(results) ==
  LET statuses == {results[i].status : i \in DOMAIN results}
  IN  IF statuses \subseteq {"pass"} THEN "pass" ELSE IF "pass" \in statuses THEN "partial" ELSE "fail"

EndSuite ==
  /\ run.step = "next"
  /\ run.pos > Len(SuiteTraces)
  /\ summary' = [status |-> Aggregate(run.per_trace), suite |-> suites, per_trace |-> run.per_trace]
  /\ run' = Idle
  /\ UNCHANGED <<raw, suites, dirs, reports, failures>>

(* The process dies; a summary being written is lost with the one before.  *)
CrashInSuite ==
  /\ run # Idle
  /\ failures < MaxFailures
  /\ failures' = failures + 1
  /\ run' = Idle
  /\ summary' \in IF run.step = "next" /\ run.pos > Len(SuiteTraces) THEN {summary, NoSummary} ELSE {summary}
  /\ reports' \in CutShort
  /\ UNCHANGED <<raw, suites, dirs>>

(* External: between two suites a trace is fetched, replaced or removed.   *)
ReplaceTrace ==
  /\ run = Idle
  /\ suites \in 1..(MaxSuites - 1)
  /\ \E t \in Traces, file \in DOMAIN Replays \cup {"absent"} : raw' = [raw EXCEPT ![t] = file]
  /\ UNCHANGED <<suites, run, dirs, reports, summary, failures>>

Protocol ==
  \/ NextTrace \/ Ingest \/ BuildProfile \/ BuildModels \/ Simulate \/ SimulationRaises
  \/ RunFidelityGate \/ Recommend \/ WriteManifest \/ EndSuite

CredNext == StartSuite \/ Protocol \/ StepFails \/ CrashInSuite \/ ReplaceTrace

-----------------------------------------------------------------------------

(* assemble_credibility_dossier: of each kind the report read last, in the *)
(* order of the names, which is that of the time stamps.                   *)
Named(trace, kind) == {r \in reports : r.trace = trace /\ r.kind = kind}
Bug_FirstKept(trace, kind) ==
  IF Named(trace, kind) = {} THEN "not_run"
  ELSE (CHOOSE r \in Named(trace, kind) : \A q \in Named(trace, kind) : r.suite <= q.suite).content
Collected(trace, kind) ==
  IF Named(trace, kind) = {} THEN "not_run"
  ELSE (CHOOSE r \in Named(trace, kind) : \A q \in Named(trace, kind) : q.suite <= r.suite).content

Dossier ==
  [fidelity |-> [t \in dirs |-> Collected(t, "fidelity_report")],
   recommendation |-> [t \in dirs |-> Collected(t, "recommendation_report")],
   all_pass |-> \A t \in dirs : Collected(t, "fidelity_report") = "pass",
   accepted_count |-> Cardinality({t \in dirs : Collected(t, "recommendation_report") = "accepted"})]

(* A suite whose summary says pass has, for every trace of the suite, all  *)
(* the reports that carry the stamp of that very run, made of one and the  *)
(* same trace file, with a fidelity gate that passed; a trace that failed  *)
(* or is missing is never lost in the verdict, and partial means that some *)
(* but not all passed.  The trace profile, whose name has no stamp, is of  *)
(* that run and that file until another suite starts; from then on it may  *)
(* be that of the later one, or cut short by it, but of no earlier one.    *)
KindsOfARun == {"fidelity_report", "recommendation_report", "credibility_manifest",
                "FIFO_STRICT", "EASY_BACKFILL_BASELINE", "ML_BACKFILL_P50"}
OfTheFile(kind) == kind \notin {"fidelity_report", "recommendation_report"}
ReportsOf(trace, suite) ==
  {r \in reports : r.trace = trace /\ r.suite = suite /\ r.kind # "trace_profile"}
ProfileStands(trace, suite) ==
  /\ suite = suites => Named(trace, "trace_profile") # {}
  /\ \A p \in Named(trace, "trace_profile") :
       /\ p.suite >= suite
       /\ p.suite = suite => \A r \in ReportsOf(trace, suite) : OfTheFile(r.kind) => r.content = p.content
Passed(trace, suite) ==
  /\ {r.kind : r \in ReportsOf(trace, suite)} = KindsOfARun
  /\ \A r \in ReportsOf(trace, suite) : r.kind = "fidelity_report" => r.content = "pass"
  /\ Cardinality({r.content : r \in {q \in ReportsOf(trace, suite) : OfTheFile(q.kind)}}) = 1
  /\ ProfileStands(trace, suite)

SuiteVerdictSound == summary # NoSummary =>
  /\ {summary.per_trace[i].trace : i \in DOMAIN summary.per_trace} = Traces
  /\ \A passed \in {{t \in Traces : Passed(t, summary.suite)}} :
       /\ summary.status = "pass" <=> passed = Traces
       /\ summary.status = "partial" <=> passed \notin {{}, Traces}

(* While no suite runs and the last one wrote its summary, the dossier of  *)
(* the same directory agrees with it on every trace whose steps were all   *)
(* done: fidelity, recommendation, and so the number of accepted ones.  Of *)
(* a trace that ended in an error it tells what an earlier suite found.    *)
DossierMatchesSummary == run = Idle /\ summary # NoSummary /\ summary.suite = suites =>
  LET done == {i \in DOMAIN summary.per_trace : summary.per_trace[i].status # "error"}
      said(i) == summary.per_trace[i]
  IN  \A dossier \in {Dossier} :
        /\ \A i \in done : /\ said(i).trace \in dirs
                           /\ dossier.fidelity[said(i).trace] = said(i).fidelity
                           /\ dossier.recommendation[said(i).trace] = said(i).recommendation
        /\ done = DOMAIN summary.per_trace =>
             /\ dossier.all_pass <=> summary.status = "pass"
             /\ dossier.accepted_count = Cardinality({i \in done : said(i).recommendation = "accepted"})
=============================================================================
