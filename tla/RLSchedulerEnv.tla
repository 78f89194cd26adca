--------------------------- MODULE RLSchedulerEnv ---------------------------
(***************************************************************************)
(* The Gymnasium environment of rl/env.py: an agent picks one waiting job  *)
(* at a time, the environment advances to where a job can be picked.       *)
(*                                                                         *)
(* A job is named by its place in the window jobs of the trace.            *)
(***************************************************************************)
EXTENDS ScheduleMetrics

CONSTANTS
  EnvCapacity,    \* capacity_cpus
  AllJobs,        \* traces: sequences of [job_id, submit_ts, runtime_actual_sec, requested_cpus]
  MaxJobs,        \* max_jobs
  MaxQueueSize,   \* MAX_QUEUE_SIZE
  MaxSteps,       \* max_steps: the events an advance takes before it gives up
  RewardFloorSec, \* the 10 s under the slowdown of a short job
  Agents          \* subset of {"legal", "any"}: whether the agent heeds the mask

TraceRow ==
  [job_id : Int, submit_ts : Int, runtime_actual_sec : Int, requested_cpus : Int]

ASSUME EnvAssumption ==
  /\ EnvCapacity \in Nat \ {0}
  /\ AllJobs \subseteq Seq(TraceRow)
  /\ MaxJobs \in Nat
  /\ MaxSteps \in Nat /\ 2 * MaxJobs < MaxSteps
  /\ RewardFloorSec \in Nat \ {0}

VARIABLES
  all_jobs, agent,
  env_pc,      \* "off", "advance", "decide" or "terminated"
  jobs, clock_ts, free_cpus, submit_idx,
  queued,      \* set of jobs: the queue is in the order of the window
  running,     \* set of [job, start_ts, end_ts]
  completed,   \* set of the completed, as running
  advanced,    \* completed_during_advance
  steps,       \* iterations of the advance so far
  reward       \* history: what the steps of the episode paid

envVars == <<all_jobs, agent, env_pc, jobs, clock_ts, free_cpus, submit_idx, queued, running,
             completed, advanced, steps, reward>>

(* __init__: rows are sorted; a row holds a CPU at least, and runs for no  *)
(* negative time.                                                          *)
Coerced(row) ==
  [job_id |-> row.job_id, submit_ts |-> row.submit_ts,
   runtime_actual_sec |-> Clip(row.runtime_actual_sec),
   requested_cpus |-> IF row.requested_cpus < 1 THEN 1 ELSE row.requested_cpus]
SortedTrace(trace) ==
  Sorted([i \in DOMAIN trace |-> Coerced(trace[i])],
         [i \in DOMAIN trace |-> <<trace[i].submit_ts, trace[i].job_id>>])

(* The jobs of a window, with its first submission at 0.                   *)
Window(trace, offset) ==
  [i \in 1..Min({Len(trace) - offset, MaxJobs}) |->
     [trace[offset + i] EXCEPT !.submit_ts = @ - trace[offset + 1].submit_ts]]

EnvInit ==
  /\ \E trace \in AllJobs : all_jobs = SortedTrace(trace)
  /\ agent \in Agents
  /\ env_pc = "advance"
  /\ \E offset \in 0..Max({0, Len(all_jobs) - MaxJobs}) : jobs = Window(all_jobs, offset)
  /\ clock_ts = 0
  /\ free_cpus = EnvCapacity
  /\ submit_idx = 0
  /\ queued = {}
  /\ running = {}
  /\ completed = {}
  /\ advanced = {}
  /\ steps = 0
  /\ reward = [slowdowns |-> 0, penalties |-> 0]

FitsNow(job) == jobs[job].requested_cpus <= free_cpus
Shown  == {job \in queued : Cardinality({other \in queued : other < job}) < MaxQueueSize}
Masked == {job \in Shown : FitsNow(job)}

(* Slowdowns are over one denominator.                                     *)
EnvBsld(r) == LET over == RewardFloorSec * (RewardFloorSec + 1)
                  wait == r.start_ts - jobs[r.job].submit_ts
              IN  Max({over, (wait * over) \div Max({r.end_ts - r.start_ts, RewardFloorSec})})
Slowdowns(records) == TotalOf([r \in records |-> EnvBsld(r)], records)

Bug_NextSubmission == {jobs[i].submit_ts : i \in {submit_idx + 1} \cap DOMAIN jobs}

NextEventTs ==
  {jobs[i].submit_ts : i \in {submit_idx + 1} \cap DOMAIN jobs} \cup {r.end_ts : r \in running}

Over == submit_idx >= Len(jobs) /\ queued = {} /\ running = {}

(* The loop of _admit_arrivals: up to the first that has not arrived.      *)
HasArrived(i, ts) == i \in DOMAIN jobs /\ jobs[i].submit_ts <= ts
AdmitArrivals(ts) ==
  /\ submit_idx' \in submit_idx..Len(jobs)
  /\ \A i \in (submit_idx + 1)..submit_idx' : HasArrived(i, ts)
  /\ ~ HasArrived(submit_idx' + 1, ts)
  /\ queued' = queued \cup ((submit_idx + 1)..submit_idx')

Bug_SomethingWaits == queued # {}
SomethingFits == \E job \in queued : FitsNow(job)

(* A waiting job fits, nothing more will happen, or the advance gives up:  *)
(* the agent is asked, and paid for what was completed meanwhile.          *)
ReturnToAgent ==
  /\ env_pc = "advance"
  /\ ~ HasArrived(submit_idx + 1, clock_ts)
  /\ SomethingFits \/ NextEventTs = {} \/ steps = MaxSteps
  /\ env_pc' = IF Over THEN "terminated" ELSE "decide"
  /\ reward' = [reward EXCEPT !.slowdowns = @ + Slowdowns(advanced)]
  /\ advanced' = {}
  /\ steps' = 0
  /\ UNCHANGED <<all_jobs, agent, jobs, clock_ts, free_cpus, submit_idx, queued, running, completed>>

AdmitNow ==
  /\ env_pc = "advance"
  /\ HasArrived(submit_idx + 1, clock_ts)
  /\ AdmitArrivals(clock_ts)
  /\ UNCHANGED <<all_jobs, agent, env_pc, jobs, clock_ts, free_cpus, running, completed, advanced, steps,
                 reward>>

Meanwhile(records) == advanced \cup records

Due(ts) == {r \in running : r.end_ts <= ts}
CpusOf(records) == TotalOf([r \in records |-> jobs[r.job].requested_cpus], records)

(* No waiting job fits: on to the next event.  What is due is found in     *)
(* running by job_id, and so is what is dropped there.                     *)
AdvanceClock ==
  /\ env_pc = "advance"
  /\ ~ HasArrived(submit_idx + 1, clock_ts)
  /\ ~ SomethingFits
  /\ NextEventTs # {}
  /\ steps < MaxSteps
  /\ LET ts == Max({clock_ts, Min(NextEventTs)})
         finished == Due(ts)
         finished_ids == {jobs[r.job].job_id : r \in finished}
     IN  /\ clock_ts' = ts
         /\ running' = {r \in running : jobs[r.job].job_id \notin finished_ids}
         /\ free_cpus' = free_cpus + CpusOf(finished)
         /\ completed' = completed \cup finished
         /\ advanced' = Meanwhile(finished)
         /\ steps' = steps + 1
         /\ AdmitArrivals(ts)
  /\ UNCHANGED <<all_jobs, agent, env_pc, jobs, reward>>

(* step: a job the mask allows starts; any other action costs a penalty.   *)
StepLegal ==
  /\ env_pc = "decide"
  /\ \E job \in Masked :
       /\ queued' = queued \ {job}
       /\ running' = running \cup
            {[job |-> job, start_ts |-> clock_ts,
              end_ts |-> clock_ts + jobs[job].runtime_actual_sec]}
       /\ free_cpus' = free_cpus - jobs[job].requested_cpus
  /\ env_pc' = "advance"
  /\ UNCHANGED <<all_jobs, agent, jobs, clock_ts, submit_idx, completed, advanced, steps, reward>>

(* The penalty count is kept to MaxJobs + 1.                               *)
StepIllegal ==
  /\ env_pc = "decide"
  /\ agent = "any" \/ Masked = {}
  /\ reward' = [reward EXCEPT !.penalties = Min({MaxJobs + 1, @ + 1})]
  /\ env_pc' = "advance"
  /\ UNCHANGED <<all_jobs, agent, jobs, clock_ts, free_cpus, submit_idx, queued, running, completed,
                 advanced, steps>>

EnvNext == ReturnToAgent \/ AdmitNow \/ AdvanceClock \/ StepLegal \/ StepIllegal

EnvSpec == EnvInit /\ [][EnvNext]_envVars

-----------------------------------------------------------------------------
(* Properties.                                                             *)

DistinctIds == \A i, j \in DOMAIN jobs : jobs[i].job_id = jobs[j].job_id => i = j

(* Over distinct ids each job of the window is in one place, its CPUs are  *)
(* taken while it runs, and the agent has been paid once for each job that *)
(* is complete, at the slowdown it had; no advance gives up half-way.      *)
EnvConserves == env_pc # "off" /\ DistinctIds =>
  /\ free_cpus >= 0 /\ free_cpus + CpusOf(running) = EnvCapacity
  /\ queued \subseteq 1..submit_idx /\ running \cap completed = {}
  /\ \A i \in 1..submit_idx :
       Cardinality({r \in running \cup completed : r.job = i}) = IF i \in queued THEN 0 ELSE 1
  /\ \A r \in running \cup completed : r.job \in 1..submit_idx /\ r.start_ts >= jobs[r.job].submit_ts
  /\ reward.slowdowns + Slowdowns(advanced) = Slowdowns(completed)
  /\ steps < MaxSteps

(* The agent is asked when there is something it may do.  Otherwise what   *)
(* remains is too large for the machine, or what fits lies past the part   *)
(* of the queue that the agent is shown.  Between the decisions nothing is *)
(* lost and nothing rewarded twice.                                        *)
DecisionHasAction ==
  /\ EnvConserves
  /\ env_pc = "decide" /\ DistinctIds /\ Masked = {} =>
       \/ \E job \in queued \ Shown : FitsNow(job)
       \/ /\ running = {} /\ submit_idx = Len(jobs)
          /\ \A job \in queued : jobs[job].requested_cpus > EnvCapacity

(* No such job, and the whole queue shown.                                 *)
Visible == /\ Len(jobs) <= MaxQueueSize
           /\ \A i \in DOMAIN jobs : jobs[i].requested_cpus <= EnvCapacity
=============================================================================
