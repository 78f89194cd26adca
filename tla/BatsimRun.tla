----------------------------- MODULE BatsimRun -----------------------------
(***************************************************************************)
(* simulate/batsim.py and the `simulate batsim-*` commands: a trace is     *)
(* made a workload for the external simulator Batsim, which is started,    *)
(* and its jobs.csv is read back as a simulation report.  Times that may   *)
(* be fractional are counted in half seconds; NoNumber stands for a value  *)
(* that is missing or cannot be read.                                      *)
(***************************************************************************)
EXTENDS ScheduleMetrics

CONSTANTS
  BatsimTraces,     \* sequences of rows of the canonical dataset, ids distinct
  AskedCapacities,  \* capacity_cpus, 0 when it is not given
  MaxDelay          \* bound: half seconds a job waits in the external simulation

(* Ids are distinct; what a row does not give is NoNumber, -1.             *)
BatsimRow == [job_id : Int, submit : Int, requested_cpus : Int, allocated_cpus : Int,
              runtime_actual : Int, runtime_requested : Int, user_id : Int]
ASSUME BatsimAssumption ==
  /\ \A trace \in BatsimTraces : trace \in Seq(BatsimRow) /\
       \A i, j \in DOMAIN trace : trace[i].job_id = trace[j].job_id => i = j
  /\ AskedCapacities \subseteq Nat /\ MaxDelay \in Nat

VARIABLES
  config,      \* the run configuration with the workload it names
  sim_report,  \* the normalized report
  run_report   \* <<status, reason>> of the last `simulate batsim-run`

batsimVars == <<config, sim_report, run_report>>

NoNumber == -1
NoConfig == [file |-> "missing"]
TornConfig == [file |-> "torn"]
NoSim == [status |-> "none"]

(* coerce_positive_int and coerce_positive_float *)
Positive(value, fallback) == IF value > 0 THEN value ELSE fallback

-----------------------------------------------------------------------------
(* _infer_capacity: 64 when no row gives a number.                         *)
InferPeak(trace) ==
  LET given == UNION {{row.requested_cpus, row.allocated_cpus} : row \in ToSet(trace)} \ {NoNumber}
  IN  IF given = {} THEN 64 ELSE Max({1} \cup given)

RuntimeHalves(row) == Positive(row.runtime_actual, Positive(row.runtime_requested, 2))

RequestedResources(row, capacity) ==
  Max({1, Min({Positive(row.requested_cpus, Positive(row.allocated_cpus, 1)), capacity})})

(* generate_batsim_workload_from_trace; of the metadata, the user.         *)
Workload(trace, capacity) ==
  LET rows == Sorted(trace, [i \in DOMAIN trace |-> <<trace[i].submit, trace[i].job_id>>])
  IN  [nb_res |-> capacity,
       jobs |-> [i \in DOMAIN rows |->
                   [id |-> rows[i].job_id, subtime |-> Positive(rows[i].submit, 0),
                    res |-> RequestedResources(rows[i], capacity),
                    delay |-> RuntimeHalves(rows[i]),
                    walltime |-> Positive(rows[i].runtime_requested, 0),
                    user_id |-> rows[i].user_id]]]

Configured(trace, workload, source, capacity) ==
  [file |-> "written", source |-> source, workload |-> workload, capacity |-> capacity, trace |-> trace]

(* build_batsim_run_config: the workload is generated, or is one generated *)
(* before, given beside the trace or in its place.                         *)
BuildConfig(trace, asked) ==
  \/ LET capacity == Positive(asked, InferPeak(trace))
     IN  config' = Configured(trace, Workload(trace, capacity), "generated_from_trace", capacity)
  \/ \E before \in AskedCapacities \ {0} :
       \/ config' = Configured(trace, Workload(trace, before), "provided", Positive(asked, InferPeak(trace)))
       \/ config' = Configured(trace, Workload(trace, before), "trace_json", Positive(asked, before))

(* Every run has a configuration of its own, by the time in its name; one  *)
(* that a crash cut short is written again.                                *)
BatsimConfig ==
  /\ config \in {NoConfig, TornConfig}
  /\ \E trace \in BatsimTraces, asked \in AskedCapacities : BuildConfig(trace, asked)
  /\ UNCHANGED <<sim_report, run_report>>

CrashInConfig == config = NoConfig /\ config' = TornConfig /\ UNCHANGED <<sim_report, run_report>>

-----------------------------------------------------------------------------
(* External: any schedule of the jobs that fit the machine; the others are *)
(* rejected, their times left blank.  A job is killed at its wall time.    *)
(* The export is in the order of completion.                               *)
Rejected(job) == job.res > config.capacity
Ran(job) == IF job.walltime > 0 THEN Min({job.delay, job.walltime}) ELSE job.delay

Schedules ==
  LET jobs == config.workload.jobs
      ran == {i \in DOMAIN jobs : ~ Rejected(jobs[i])}
      busy(delays, t) ==
        TotalOf([i \in DOMAIN jobs |-> jobs[i].res],
          {i \in ran : jobs[i].subtime + delays[i] <= t /\ t < jobs[i].subtime + delays[i] + Ran(jobs[i])})
  IN  {delays \in [DOMAIN jobs -> 0..MaxDelay] :
         \A i \in DOMAIN jobs : /\ Rejected(jobs[i]) => delays[i] = 0
                                /\ busy(delays, jobs[i].subtime + delays[i]) <= config.capacity}

Exported(delays) ==
  LET jobs == config.workload.jobs
      started(i) == IF Rejected(jobs[i]) THEN NoNumber ELSE jobs[i].subtime + delays[i]
      row(i) == [job_id |-> jobs[i].id, submission_time |-> jobs[i].subtime, starting_time |-> started(i),
                 finish_time |-> IF Rejected(jobs[i]) THEN NoNumber ELSE started(i) + Ran(jobs[i]),
                 execution_time |-> IF Rejected(jobs[i]) THEN NoNumber ELSE Ran(jobs[i]),
                 requested_number_of_resources |-> jobs[i].res]
  IN  Sorted([i \in DOMAIN jobs |-> row(i)], [i \in DOMAIN jobs |-> <<row(i).finish_time, 0>>])

-----------------------------------------------------------------------------
Bug_RoundsUp(value, fallback) == IF value = NoNumber THEN fallback ELSE (value + 1) \div 2

(* to_int_ts *)
ToIntTs(value, fallback) == IF value = NoNumber THEN fallback ELSE value \div 2

(* _load_workload_job_metadata: a later job of the same id replaces it.    *)
UserOf(id) ==
  LET jobs == config.workload.jobs
  IN  jobs[Max({i \in DOMAIN jobs : jobs[i].id = id})].user_id

JobRow(row) ==
  LET submit == ToIntTs(row.submission_time, 0)
      start == ToIntTs(row.starting_time, submit)
      finish == Max({ToIntTs(row.finish_time, start), start})
      runtime == Max({finish - start, ToIntTs(row.execution_time, 0)})
  IN  [job_id |-> row.job_id, submit_ts |-> submit, start_ts |-> start, end_ts |-> start + runtime,
       requested_cpus |-> Positive(row.requested_number_of_resources, 1), user_id |-> UserOf(row.job_id)]

BuildJobs(csv) ==
  LET rows == [i \in DOMAIN csv |-> JobRow(csv[i])]
  IN  Sorted(rows, [i \in DOMAIN csv |-> <<rows[i].submit_ts, rows[i].job_id>>])

(* _invariant_report_from_jobs: the rows that fail, each with its reasons. *)
FailedInvariants(row) ==
  {f \in {"job_start_before_submit", "job_end_before_start", "job_nonpositive_cpu"} :
     \/ f = "job_start_before_submit" /\ row.start_ts < row.submit_ts
     \/ f = "job_end_before_start" /\ row.end_ts < row.start_ts
     \/ f = "job_nonpositive_cpu" /\ row.requested_cpus <= 0}

(* normalize_batsim_run_outputs: every job counts as planned with what it  *)
(* asked for.  "of" is history: the configuration the report was made of.  *)
Normalized(csv) ==
  LET rows == BuildJobs(csv)
  IN  [status |-> "ok", jobs |-> rows, requested_fallback_count |-> Len(rows),
       violations |-> {<<rows[i].job_id, FailedInvariants(rows[i])>> :
                         i \in {j \in DOMAIN rows : FailedInvariants(rows[j]) # {}}},
       of |-> config]

(* invoke_batsim_run up to the start of the process.                       *)
RefusedFor(opts) ==
  IF config = TornConfig THEN "invalid_batsim_run_config"
  ELSE IF opts.use_wsl /\ ~ opts.distro_named THEN "invalid_wsl_distro"
  ELSE IF opts.use_wsl /\ ~ opts.installed THEN "missing_wsl_runtime"
  ELSE IF opts.dry_run THEN "dry_run"
  ELSE IF ~ opts.use_wsl /\ ~ opts.installed THEN "missing_batsim_binary"
  ELSE "none"

(* `simulate batsim-run`: refused or a dry run; an exit that reports an    *)
(* error, whatever was exported; or a run that is normalized, if that is   *)
(* asked for.  An export that is not there raises: nothing is reported.    *)
BatsimRunCommand(opts) ==
  /\ config # NoConfig
  /\ UNCHANGED config
  /\ \/ /\ RefusedFor(opts) # "none"
        /\ run_report' = <<IF RefusedFor(opts) = "dry_run" THEN "dry_run" ELSE "failed", RefusedFor(opts)>>
        /\ UNCHANGED sim_report
     \/ /\ RefusedFor(opts) = "none"
        /\ \/ run_report' = <<"failed", "batsim_exit_nonzero">> /\ UNCHANGED sim_report
           \/ run_report' = <<"ok", "none">> /\ UNCHANGED sim_report
           \/ /\ run_report' = <<"ok", "none">>
              /\ \E delays \in Schedules : sim_report' = Normalized(Exported(delays))

BatsimInit == config = NoConfig /\ sim_report = NoSim /\ run_report = <<"none", "none">>

BatsimNext ==
  \/ BatsimConfig \/ CrashInConfig
  \/ \E opts \in [dry_run : BOOLEAN, use_wsl : BOOLEAN, distro_named : BOOLEAN, installed : BOOLEAN] :
       BatsimRunCommand(opts)

-----------------------------------------------------------------------------
CpusInUse(rows, ts) ==
  TotalOf([i \in DOMAIN rows |-> rows[i].requested_cpus],
          {i \in DOMAIN rows : rows[i].start_ts <= ts /\ ts < rows[i].end_ts})

(* The report of an external run tells of every job of the trace once, in  *)
(* the order of the simulator's own reports, with its submission, its user *)
(* and the CPUs it asked for as far as the workload's machine has them;    *)
(* cut to whole seconds its schedule still starts nothing early and fits   *)
(* the machine at every time, so that the invariant report is clean.       *)
NormalizedFaithful == sim_report # NoSim =>
  LET rows == sim_report.jobs
      of == sim_report.of
  IN  /\ {[job_id |-> r.job_id, submit_ts |-> r.submit_ts, user_id |-> r.user_id, cpus |-> r.requested_cpus]
            : r \in ToSet(rows)}
           = {[job_id |-> t.job_id, submit_ts |-> Positive(t.submit, 0) \div 2, user_id |-> t.user_id,
               cpus |-> RequestedResources(t, of.workload.nb_res)] : t \in ToSet(of.trace)}
      /\ Len(rows) = Len(of.trace)
      /\ \A i, j \in DOMAIN rows : i < j =>
           <<rows[j].submit_ts, rows[j].job_id>> # <<rows[i].submit_ts, rows[i].job_id>>
             /\ rows[i].submit_ts <= rows[j].submit_ts
      /\ \A i \in DOMAIN rows : CpusInUse(rows, rows[i].start_ts) <= of.capacity
      /\ sim_report.violations = {}
=============================================================================
