------------------------------ MODULE SimCore ------------------------------
(***************************************************************************)
(* The discrete-event loop of simulate/core.py: the referee that replays a *)
(* trace of batch jobs on Capacity CPUs and asks a scheduling policy, once *)
(* per tick, which queued jobs to start.                                   *)
(*                                                                         *)
(* The policy is not part of this module: a tick receives any decision     *)
(* list of DecisionLists, which is what a plug-in may return.  SimPolicy   *)
(* composes this loop with the built-in policies.                          *)
(*                                                                         *)
(* A row of the trace is named by its position in the coerced trace, which *)
(* is sorted by (submit_ts, job_id); the Python lists that are kept in     *)
(* that order (queue, jobs[submit_idx:]) are sets of rows here.  Every     *)
(* start appends a record to starts; the lists running and completed hold  *)
(* such records and are sets of positions of starts.                       *)
(***************************************************************************)
EXTENDS Integers, Sequences, FiniteSets

CONSTANTS
  Capacity,       \* capacity_cpus
  Traces,         \* coerced traces the loop may be given
  DecisionLists,  \* lists of job ids a policy may answer a snapshot with
  StrictModes     \* values of strict_invariants

Sources == {"prediction", "requested_fallback", "tsafrir_cold_start",
            "tsafrir_history", "actual_fallback"}

(* What coerce_trace_df and attach_runtime_estimates guarantee of a trace. *)
IsTrace(t) ==
  /\ Len(t) \in Nat \ {0}
  /\ DOMAIN t = 1..Len(t)
  /\ \A r \in DOMAIN t :
       /\ t[r].job_id \in Int
       /\ t[r].submit_ts \in Int
       /\ t[r].requested_cpus \in Nat \ {0}
       /\ t[r].runtime_actual_sec \in Nat
       /\ t[r].estimate_source \in Sources
  /\ \A q, r \in DOMAIN t : q < r =>
       \/ t[q].submit_ts < t[r].submit_ts
       \/ t[q].submit_ts = t[r].submit_ts /\ t[q].job_id <= t[r].job_id

ASSUME CapacityAssumption == Capacity \in Nat \ {0}
ASSUME TracesAssumption == \A t \in Traces : IsTrace(t)
ASSUME StrictAssumption == StrictModes \subseteq BOOLEAN

VARIABLES
  jobs,             \* the coerced trace of this run
  strict,           \* strict_invariants
  pc,               \* where the loop stands, or how the run ended
  clock_ts,
  future,           \* rows not yet admitted: jobs[submit_idx:]
  queue,            \* rows waiting
  starts,           \* every start so far, in order: the appended dicts
  running,          \* positions of starts
  completed,        \* positions of starts
  free_cpus,
  decision,         \* the list returned by the policy in this tick
  pos,              \* next element of decision to apply
  dispatched_ids,   \* ids started in this tick
  violations,       \* the violations of the invariant report
  queue_series,     \* one row per tick
  fallback_counts   \* starts per estimate source

vars == <<jobs, strict, pc, clock_ts, future, queue, starts, running,
          completed, free_cpus, decision, pos, dispatched_ids, violations,
          queue_series, fallback_counts>>

Rows == 1..Len(jobs)
Raised == {"deadlock", "stuck", "strict_error"}
Ended == Raised \cup {"finished"}

(* CPUs of a set of positions of list (trace rows, or starts), counted as  *)
(* one element per CPU held: the sum of requested_cpus.                    *)
CpuSlots(S, list) == UNION {{s} \X (1..list[s].requested_cpus) : s \in S}
Cpus(S, list) == Cardinality(CpuSlots(S, list))

RowId(r) == jobs[r].job_id
StartId(s) == jobs[starts[s].row].job_id
QueuedIds == {RowId(r) : r \in queue}

(* queue_by_id: a later row with the same id replaces the earlier one.     *)
QueueById(id) ==
  CHOOSE r \in queue : RowId(r) = id /\ \A q \in queue : RowId(q) = id => q <= r

(* The state of a run before its first tick, over the trace in jobs.       *)
StartRun ==
  /\ strict \in StrictModes
  /\ pc = "loop"
  /\ clock_ts = jobs[1].submit_ts
  /\ future = Rows
  /\ queue = {}
  /\ starts = <<>>
  /\ running = {}
  /\ completed = {}
  /\ free_cpus = Capacity
  /\ decision = <<>>
  /\ pos = 1
  /\ dispatched_ids = {}
  /\ violations = <<>>
  /\ queue_series = <<>>
  /\ fallback_counts = [src \in Sources |-> 0]

Init == jobs \in Traces /\ StartRun

-----------------------------------------------------------------------------

(* Times at which something is due: the submit times ahead and the ends of *)
(* the running jobs.                                                       *)
EventTimes == {jobs[r].submit_ts : r \in future} \cup {starts[s].end_ts : s \in running}

AllCompleted == Cardinality(completed) >= Len(jobs)

(* The Bug_ definitions of this project are mutated forms of the one that  *)
(* follows them: bugs the properties must notice.                          *)
Bug_EarlyCompletion(ts) == {s \in running : starts[s].end_ts <= ts + 1}
Completing(ts) == {s \in running : starts[s].end_ts = ts}

Bug_ReleaseRequestOnce(done) == Cardinality(done)
Released(done) == Cpus(done, starts)

(* The head of an iteration: jump to the next event, complete what ends    *)
(* there (running loses every job whose id completed), admit what is       *)
(* submitted there.                                                        *)
NextEvent ==
  /\ pc = "loop"
  /\ ~ AllCompleted
  /\ \E next_ts \in EventTimes :
       LET completed_now == Completing(next_ts)
           completed_ids == {StartId(s) : s \in completed_now}
           arrivals      == {r \in future : jobs[r].submit_ts = next_ts}
       IN  /\ \A ts \in EventTimes : next_ts <= ts
           /\ clock_ts' = next_ts
           /\ running' = {s \in running : StartId(s) \notin completed_ids}
           /\ completed' = completed \cup completed_now
           /\ free_cpus' = free_cpus + Released(completed_now)
           /\ future' = future \ arrivals
           /\ queue' = queue \cup arrivals
  /\ pc' = "decide"
  /\ UNCHANGED <<jobs, strict, starts, decision, pos, dispatched_ids,
                 violations, queue_series, fallback_counts>>

Bug_SentinelSpins ==
  /\ pc = "loop"
  /\ ~ AllCompleted
  /\ EventTimes = {}
  /\ UNCHANGED vars

(* No event is left although a job is missing: RuntimeError.               *)
RaiseDeadlock ==
  /\ pc = "loop"
  /\ ~ AllCompleted
  /\ EventTimes = {}
  /\ pc' = "deadlock"
  /\ UNCHANGED <<jobs, strict, clock_ts, future, queue, starts, running,
                 completed, free_cpus, decision, pos, dispatched_ids,
                 violations, queue_series, fallback_counts>>

Finish ==
  /\ pc = "loop"
  /\ AllCompleted
  /\ pc' = "finished"
  /\ UNCHANGED <<jobs, strict, clock_ts, future, queue, starts, running,
                 completed, free_cpus, decision, pos, dispatched_ids,
                 violations, queue_series, fallback_counts>>

(* The policy answers the snapshot.                                        *)
ReceiveDecision ==
  /\ pc = "decide"
  /\ decision' \in DecisionLists
  /\ pos' = 1
  /\ dispatched_ids' = {}
  /\ pc' = "apply"
  /\ UNCHANGED <<jobs, strict, clock_ts, future, queue, starts, running,
                 completed, free_cpus, violations, queue_series, fallback_counts>>

Fits(job) == job.requested_cpus <= free_cpus

(* A decision that names no queued job, or a job that does not fit, is     *)
(* skipped.                                                                *)
SkipDecision ==
  /\ pc = "apply"
  /\ pos <= Len(decision)
  /\ \/ decision[pos] \notin QueuedIds
     \/ /\ decision[pos] \in QueuedIds
        /\ ~ Fits(jobs[QueueById(decision[pos])])
  /\ pos' = pos + 1
  /\ UNCHANGED <<jobs, strict, pc, clock_ts, future, queue, starts, running,
                 completed, free_cpus, decision, dispatched_ids, violations,
                 queue_series, fallback_counts>>

(* A decision that fits starts the job now.  The queue keeps it until the  *)
(* end of the tick.                                                        *)
StartJob ==
  /\ pc = "apply"
  /\ pos <= Len(decision)
  /\ decision[pos] \in QueuedIds
  /\ LET row == QueueById(decision[pos])
         job == jobs[row]
     IN  /\ Fits(job)
         /\ dispatched_ids' = dispatched_ids \cup {decision[pos]}
         /\ starts' = Append(starts,
                        [row |-> row,
                         requested_cpus |-> job.requested_cpus,
                         start_ts |-> clock_ts,
                         end_ts |-> clock_ts + job.runtime_actual_sec])
         /\ running' = running \cup {Len(starts) + 1}
         /\ free_cpus' = free_cpus - job.requested_cpus
         /\ fallback_counts' = [fallback_counts EXCEPT ![job.estimate_source] = @ + 1]
  /\ pos' = pos + 1
  /\ UNCHANGED <<jobs, strict, pc, clock_ts, future, queue, completed,
                 decision, violations, queue_series>>

-----------------------------------------------------------------------------

Bug_QueueNotFiltered == queue
RemainingQueue == {r \in queue : RowId(r) \notin dispatched_ids}

(* check_invariants: the names of the checks the state fails, where queued *)
(* is the queue after this tick's starts have left it.                     *)
FailedInvariants(queued) ==
  {name \in {"free_cpus_negative"} : free_cpus < 0}
  \cup {name \in {"free_cpus_exceeds_capacity"} : free_cpus > Capacity}
  \cup {name \in {"cpu_conservation_broken"} : Cpus(running, starts) + free_cpus # Capacity}
  \cup {name \in {"job_exists_in_queue_and_running"} :
          \E r \in queued, s \in running : RowId(r) = StartId(s)}
  \cup {name \in {"job_start_before_submit"} :
          \E s \in running : starts[s].start_ts < jobs[starts[s].row].submit_ts}
  \cup {name \in {"job_end_before_start"} :
          \E s \in running : starts[s].end_ts < starts[s].start_ts}
  \cup {name \in {"job_nonpositive_cpu"} : \E s \in running : starts[s].requested_cpus <= 0}
  \cup {name \in {"queued_job_submit_in_future"} :
          \E r \in queued : jobs[r].submit_ts > clock_ts}

Bug_SeriesBeforeStarts ==
  [ts |-> clock_ts, queue_len_jobs |-> Cardinality(queue),
   queue_len_cpu_demand |-> Cpus(queue, jobs)]
SeriesRow ==
  [ts |-> clock_ts, queue_len_jobs |-> Cardinality(RemainingQueue),
   queue_len_cpu_demand |-> Cpus(RemainingQueue, jobs)]

CheckNames ==
  {"free_cpus_negative", "free_cpus_exceeds_capacity", "cpu_conservation_broken",
   "job_exists_in_queue_and_running", "job_start_before_submit", "job_end_before_start",
   "job_nonpositive_cpu", "queued_job_submit_in_future"}

Report(failed) ==
  IF failed = {} THEN violations
  ELSE Append(violations, [step_index |-> Len(queue_series), failed |-> failed])

(* The end of an iteration: the started jobs leave the queue, the checks   *)
(* run, the queue-length row is recorded, and a run in which nothing can   *)
(* happen any more is abandoned.                                           *)
EndTick ==
  /\ pc = "apply"
  /\ pos > Len(decision)
  /\ LET failed == FailedInvariants(RemainingQueue)
     IN  /\ ~ (strict /\ failed # {})
         /\ violations' = Report(failed)
  /\ queue' = RemainingQueue
  /\ queue_series' = Append(queue_series, SeriesRow)
  /\ pc' = IF running = {} /\ future = {} /\ RemainingQueue # {} THEN "stuck" ELSE "loop"
  /\ decision' = <<>>
  /\ pos' = 1
  /\ dispatched_ids' = {}
  /\ UNCHANGED <<jobs, strict, clock_ts, future, starts, running, completed,
                 free_cpus, fallback_counts>>

(* strict_invariants: a failed check raises before the row is recorded.    *)
RaiseStrict ==
  /\ pc = "apply"
  /\ pos > Len(decision)
  /\ strict
  /\ LET failed == FailedInvariants(RemainingQueue)
     IN  /\ failed # {}
         /\ violations' = Report(failed)
  /\ queue' = RemainingQueue
  /\ pc' = "strict_error"
  /\ UNCHANGED <<jobs, strict, clock_ts, future, starts, running, completed,
                 free_cpus, decision, pos, dispatched_ids, queue_series,
                 fallback_counts>>

Terminated == pc \in Ended /\ UNCHANGED vars

Next ==
  \/ NextEvent
  \/ RaiseDeadlock
  \/ Finish
  \/ ReceiveDecision
  \/ SkipDecision
  \/ StartJob
  \/ EndTick
  \/ RaiseStrict
  \/ Terminated

Spec == Init /\ [][Next]_vars

(* The loop runs to its end: nothing but its own steps can hold it up.     *)
FairSpec == Spec /\ WF_vars(Next)
-----------------------------------------------------------------------------
(* Properties.                                                             *)

StartRecord == [row : Rows, requested_cpus : Nat \ {0}, start_ts : Int, end_ts : Int]
Violation == [step_index : Nat, failed : SUBSET CheckNames]
Series == [ts : Int, queue_len_jobs : Nat, queue_len_cpu_demand : Nat]

TypeOK ==
  /\ jobs \in Traces
  /\ strict \in BOOLEAN
  /\ pc \in Ended \cup {"loop", "decide", "apply"}
  /\ clock_ts \in Int
  /\ future \in SUBSET Rows
  /\ queue \in SUBSET Rows
  /\ starts \in Seq(StartRecord)
  /\ running \in SUBSET (DOMAIN starts)
  /\ completed \in SUBSET (DOMAIN starts)
  /\ free_cpus \in Int
  /\ pos \in Nat \ {0}
  /\ violations \in Seq(Violation)
  /\ queue_series \in Seq(Series)
  /\ fallback_counts \in [Sources -> Nat]

UniqueIds(t) == \A q, r \in 1..Len(t) : t[q].job_id = t[r].job_id => q = r
RepeatFree(d) == \A i, j \in 1..Len(d) : d[i] = d[j] => i = j

(* Whatever the policy answers, and even when rows share an id, no CPU is  *)
(* handed out twice.                                                       *)
NeverOvercommitted == free_cpus >= 0 /\ free_cpus + Cpus(running, starts) <= Capacity

CpusAddUp == free_cpus >= 0 /\ free_cpus + Cpus(running, starts) = Capacity

(* Over unique ids no CPU is lost either, while jobs start, end together,  *)
(* are named twice, or fail to fit.                                        *)
CpuConservation == UniqueIds(jobs) => CpusAddUp

(* A CPU lost to an id shared by two rows is in the report, or raised: the *)
(* run does not go on, or end, without a word of it.                       *)
CpuLossReported ==
  pc \in {"loop", "stuck", "finished", "deadlock"} => CpusAddUp \/ violations # <<>>

NoneReported == violations = <<>> /\ pc # "strict_error"

(* The invariant report of a run over unique ids is empty and strict mode  *)
(* never raises, whatever a plug-in answers: check_invariants guards       *)
(* against nothing a policy can do.                                        *)
ReportClean == UniqueIds(jobs) => NoneReported

(* Completions come before submissions and submissions before starts: when *)
(* decisions are applied nothing due at the clock is left, except jobs     *)
(* that this very tick has started with no runtime.                        *)
DueEventsFirst == pc = "apply" =>
  /\ \A r \in future : jobs[r].submit_ts > clock_ts
  /\ \A s \in running : starts[s].end_ts > clock_ts \/ StartId(s) \in dispatched_ids

(* A trace with unique ids never runs out of events with a job missing.    *)
NoDeadlockError == UniqueIds(jobs) => pc # "deadlock"

(* What the proofs need: each started row left the queue in its own tick.  *)
StartsApart ==
  /\ \A s, t \in running : StartId(s) = StartId(t) => starts[s].end_ts = starts[t].end_ts
  /\ \A s \in DOMAIN starts : starts[s].row \notin future
  /\ \A s \in DOMAIN starts : starts[s].row \in queue =>
       /\ pc = "apply"
       /\ s \in running
       /\ StartId(s) \in dispatched_ids
       /\ starts[s].start_ts = clock_ts
  /\ \A s \in DOMAIN starts :
       /\ starts[s].requested_cpus = jobs[starts[s].row].requested_cpus
       /\ starts[s].end_ts = starts[s].start_ts + jobs[starts[s].row].runtime_actual_sec
  /\ queue \cap future = {}
  /\ running \cap completed = {}

(* What keeps the sentinel from being raised: a row is always somewhere,   *)
(* and a run that goes on has something left to wait for.                  *)
NothingLost ==
  /\ Rows = future \cup queue \cup {starts[s].row : s \in DOMAIN starts}
  /\ DOMAIN starts = running \cup completed
  /\ \A r \in queue : RowId(r) \in dispatched_ids => r \in {starts[s].row : s \in DOMAIN starts}
  /\ pc \in {"loop", "decide"} => dispatched_ids = {}
  /\ pc = "loop" /\ running = {} /\ future = {} => queue = {}
  /\ pc # "deadlock"

ClockInOrder ==
  /\ \A r \in queue : jobs[r].submit_ts <= clock_ts
  /\ \A r \in future : clock_ts <= jobs[r].submit_ts
  /\ \A s \in running : starts[s].end_ts >= clock_ts
  /\ \A s \in DOMAIN starts :
       jobs[starts[s].row].submit_ts <= starts[s].start_ts /\ starts[s].start_ts <= clock_ts

UniqueRun == CpusAddUp /\ StartsApart /\ NothingLost /\ ClockInOrder /\ NoneReported

(* The inductive invariant: what holds of every trace, and what holds of   *)
(* one with unique ids.                                                    *)
LoopInvariant ==
  /\ TypeOK
  /\ NeverOvercommitted
  /\ CpuLossReported
  /\ UniqueIds(jobs) => UniqueRun

(* The denominators of the fallback rates are right: every completed job   *)
(* was counted once, under its own source.                                 *)
AccountingExact == pc = "finished" =>
  \A src \in Sources :
    fallback_counts[src] = Cardinality({s \in completed : jobs[starts[s].row].estimate_source = src})

(* A finished run completed every row of the trace, and accounts for each  *)
(* of them once.                                                           *)
NoJobLost ==
  /\ pc = "finished" => {starts[s].row : s \in completed} = Rows
  /\ AccountingExact

(* build_observed_queue_series, the rule the observed series of a trace is *)
(* built by, applied to the schedule of this run: at each submit and start *)
(* time, the rows submitted by then less those started by then.            *)
SubmittedBy(ts) == {r \in Rows : jobs[r].submit_ts <= ts}
StartedBy(ts) == {s \in DOMAIN starts : starts[s].start_ts <= ts}
ObservedRow(ts) ==
  [ts |-> ts,
   queue_len_jobs |-> Cardinality(SubmittedBy(ts)) - Cardinality(StartedBy(ts)),
   queue_len_cpu_demand |-> Cpus(SubmittedBy(ts), jobs) - Cpus(StartedBy(ts), starts)]

Recorded(ts) == {i \in DOMAIN queue_series : queue_series[i].ts = ts}

EventsOfRun == {jobs[r].submit_ts : r \in Rows} \cup {starts[s].start_ts : s \in DOMAIN starts}

(* The simulated queue series agrees with the rule of the observed one: of *)
(* the ticks of a time, the last records the queue as it is left.  Each    *)
(* tick takes everything that is due before its row.                       *)
QueueSeriesMatches ==
  /\ DueEventsFirst
  /\ pc = "finished" => \A ts \in EventsOfRun : \E i \in Recorded(ts) :
       /\ queue_series[i] = ObservedRow(ts)
       /\ \A j \in Recorded(ts) : j <= i

(* Every run ends.                                                         *)
Terminates == <>(pc \in Ended)

(* The lifecycle of jobs this loop implements.                             *)
PhaseOf(r) ==
  IF \E s \in completed : starts[s].row = r THEN "completed"
  ELSE IF \E s \in running : starts[s].row = r THEN "running"
  ELSE IF r \in queue THEN "queued" ELSE "future"

StartOf(r) ==
  IF \E s \in DOMAIN starts : starts[s].row = r
  THEN starts[CHOOSE s \in DOMAIN starts : starts[s].row = r].start_ts
  ELSE 0

Lifecycle == INSTANCE JobLifecycle WITH
  now <- clock_ts,
  phase <- [r \in Rows |-> PhaseOf(r)],
  started <- [r \in Rows |-> StartOf(r)]

(* A policy that names no job twice cannot make the loop leave the job     *)
(* lifecycle: no early or repeated start, no missed or late completion, no *)
(* lost job, no overcommitted CPU.                                         *)
LifecycleSpec == Lifecycle!Spec
=============================================================================
