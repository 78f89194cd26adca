------------------------------ MODULE RustLoop ------------------------------
(***************************************************************************)
(* The sim-runner of rust/sim-runner/src/main.rs: the replay loop over     *)
(* several resources and a facility power cap, with its own FIFO and EASY. *)
(*                                                                         *)
(* A job is named by its place in the sorted trace.  Watts are integers: a *)
(* sum of floats drifts, which the code undoes when the machine is idle.   *)
(***************************************************************************)
EXTENDS ScheduleMetrics

CONSTANTS
  Capacity,    \* [cpus, gpus, mem]; 0 gpus or mem: not modelled
  RecordLists, \* input arrays of job records
  PowerCaps,   \* values of --power-cap-watts, NoCap among them
  NoCap,
  NEVER,       \* i64::MAX: after every event
  StrictModes, \* values of --strict-invariants
  BsldFloorSec \* the 60 s under the slowdown of a short job

Modelled == {"cpus", "gpus", "mem"}

JobRecord ==
  [job_id : Nat, submit_ts : Int, runtime_actual_sec : Int, requested : [Modelled -> Nat],
   power_mean_watts : Int]

ASSUME RustAssumption ==
  /\ Capacity \in [Modelled -> Nat]
  /\ Capacity.cpus > 0
  /\ RecordLists \subseteq Seq(JobRecord)
  /\ PowerCaps \subseteq Nat \cup {NoCap}
  /\ NEVER \notin Int
  /\ StrictModes \subseteq BOOLEAN
  /\ BsldFloorSec \in Nat \ {0}

VARIABLES
  jobs, policy, power_cap_watts, enforce_power_cap, strict_invariants,
  pc,           \* "loop", "dispatch", or how the run ended
  clock_ts,
  submit_idx,   \* jobs admitted so far
  queued,       \* set of jobs: the queue is in the order of the trace
  running,      \* set of [job, start_ts, end_ts]
  completed,    \* set of [job, start_ts, end_ts]
  free,
  power,        \* PowerProfile
  totals,       \* [cpu_seconds, gpu_seconds, max_end_ts]
  report,       \* what is written at the end
  violations,
  shadow        \* history: first shadow time computed for a job

arguments == <<jobs, policy, power_cap_watts, enforce_power_cap, strict_invariants>>
rvars == <<arguments, pc, clock_ts, submit_idx, queued, running, completed, free,
           power, totals, report, violations, shadow>>

(* Requests in a dimension that is not modelled are zeroed.                *)
Normalized(record) ==
  [job_id |-> record.job_id,
   submit_ts |-> record.submit_ts,
   runtime_actual_sec |-> record.runtime_actual_sec,
   requested |-> [d \in Modelled |->
      IF d # "cpus" /\ Capacity[d] = 0 THEN 0 ELSE record.requested[d]],
   power_mean_watts |-> Clip(record.power_mean_watts)]

(* The sort is stable: records of one time and one id stay in order.       *)
Precedes(records, i, j) ==
  \/ records[i].submit_ts < records[j].submit_ts
  \/ /\ records[i].submit_ts = records[j].submit_ts
     /\ \/ records[i].job_id < records[j].job_id
        \/ records[i].job_id = records[j].job_id /\ i < j

(* There is one such order.                                                *)
LoadJobs(records) ==
  {[i \in DOMAIN records |-> Normalized(records[place[i]])] :
     place \in {p \in [DOMAIN records -> DOMAIN records] :
       \A i, j \in DOMAIN records : i < j => Precedes(records, p[i], p[j])}}

MinSubmit == IF jobs = <<>> THEN 0 ELSE jobs[1].submit_ts

NewPowerProfile(start_ts) ==
  [current_watts |-> 0, peak_watts |-> 0, energy_joules |-> 0,
   seconds_above_cap |-> 0, joules_above_cap |-> 0, last_ts |-> start_ts]

(* An enforced cap needs a cap: otherwise the run is refused.              *)
RustInit ==
  /\ \E records \in RecordLists : jobs \in LoadJobs(records)
  /\ policy \in {"FIFO_STRICT", "EASY_BACKFILL_BASELINE"}
  /\ power_cap_watts \in PowerCaps
  /\ enforce_power_cap \in BOOLEAN
  /\ strict_invariants \in StrictModes
  /\ pc = IF enforce_power_cap /\ power_cap_watts = NoCap THEN "refused" ELSE "loop"
  /\ clock_ts = MinSubmit
  /\ submit_idx = 0
  /\ queued = {}
  /\ running = {}
  /\ completed = {}
  /\ free = Capacity
  /\ power = NewPowerProfile(MinSubmit)
  /\ totals = [cpu_seconds |-> 0, gpu_seconds |-> 0, max_end_ts |-> MinSubmit]
  /\ report = <<>>
  /\ violations = {}
  /\ shadow = <<>>

-----------------------------------------------------------------------------

(* Watts are limited under an enforced cap; otherwise headroom is infinite.*)
Limited == Modelled \cup (IF enforce_power_cap THEN {"watts"} ELSE {})

Asks(job, d) == IF d = "watts" THEN jobs[job].power_mean_watts ELSE jobs[job].requested[d]

(* What holders have of a dimension, counted unit by unit.                 *)
Units(holders, d) == UNION {{h} \X (1..Asks(h.job, d)) : h \in holders}
Held(holders, d) == Cardinality(Units(holders, d))
Watts(holders) == Held(holders, "watts")

Left == [d \in Limited |->
  IF d = "watts" THEN Clip(power_cap_watts - power.current_watts) ELSE free[d]]

FitsIn(job, left) == \A d \in Limited : Asks(job, d) <= left[d]
Startable(job, left) == jobs[job].requested.cpus > 0 /\ FitsIn(job, left)

Starting(job) ==
  [job |-> job, start_ts |-> clock_ts, end_ts |-> clock_ts + Clip(jobs[job].runtime_actual_sec)]
Startings(started) == {Starting(job) : job \in started}

Bug_TakenCpusOnly(left, started) ==
  [d \in Limited |-> IF d = "watts" THEN left[d] ELSE left[d] - Held(Startings(started), d)]
Taken(left, started) == [d \in Limited |-> left[d] - Held(Startings(started), d)]

(* dispatch_fifo: start jobs from the front until one cannot start.        *)
FromFront(left) ==
  {job \in queued : \A other \in queued : other <= job =>
     Startable(other, Taken(left, {k \in queued : k < other}))}

(* What is left once the holders that end by ts have given back theirs.    *)
LeftAt(left, holders, ts) == [d \in Limited |-> left[d] + Held({h \in holders : h.end_ts <= ts}, d)]
EndsEnough(head, left, holders) ==
  {ts \in {h.end_ts : h \in holders} : FitsIn(head, LeftAt(left, holders, ts))}

Bug_ShadowOfEarlierStarts(head, left, holders) ==
  LET enough == EndsEnough(head, left, holders \cap running)
  IN  IF enough = {} THEN NEVER ELSE Min(enough)

Bug_ShadowNowIfNone(head, left, holders) ==
  LET enough == EndsEnough(head, left, holders)
  IN  IF enough = {} THEN clock_ts ELSE Min(enough)

(* The earliest end of a holder by which enough comes free for the head.   *)
ShadowTime(head, left, holders) ==
  LET enough == EndsEnough(head, left, holders)
  IN  IF enough = {} THEN NEVER ELSE Min(enough)

NoLater(ts, time) == time = NEVER \/ ts <= time

(* Behind a blocked head start, in order, the jobs that fit in what is left*)
(* and are over by its shadow time.  There is one such set.                *)
Backfills(followers, left, time) ==
  {started \in SUBSET followers : \A job \in followers :
     job \in started <=> /\ Startable(job, Taken(left, {k \in started : k < job}))
                         /\ NoLater(Starting(job).end_ts, time)}

Bug_AdvanceToAfterEvents(now_ts) == [power EXCEPT !.last_ts = now_ts]

(* advance_to: the draw since the last event, times the time since then.   *)
AdvancedTo(now_ts) ==
  LET dt == Clip(now_ts - power.last_ts)
      excess == IF power_cap_watts = NoCap THEN 0 ELSE Clip(power.current_watts - power_cap_watts)
  IN  [power EXCEPT !.last_ts = now_ts,
                    !.energy_joules = @ + power.current_watts * dt,
                    !.seconds_above_cap = @ + (IF excess > 0 THEN dt ELSE 0),
                    !.joules_above_cap = @ + excess * dt]

CpuSeconds(r) == jobs[r.job].requested.cpus * (r.end_ts - r.start_ts)
GpuSeconds(r) == jobs[r.job].requested.gpus * (r.end_ts - r.start_ts)

EventTimes ==
  {r.end_ts : r \in running} \cup {jobs[i].submit_ts : i \in (submit_idx + 1)..Len(jobs)}

AllCompleted == Cardinality(completed) >= Len(jobs)

(* The clock goes to the next event; what ends there is completed and gives*)
(* back what it held, what is submitted there is queued.                   *)
Advance ==
  /\ pc = "loop"
  /\ ~ AllCompleted
  /\ \E now \in EventTimes :
       /\ \A ts \in EventTimes : now <= ts
       /\ clock_ts' = now
       /\ LET done == {r \in running : r.end_ts = now}
          IN  /\ running' = running \ done
              /\ completed' = completed \cup done
              /\ free' = [d \in Modelled |-> free[d] + Held(done, d)]
              /\ power' = [AdvancedTo(now) EXCEPT
                   !.current_watts = IF running' = {} THEN 0 ELSE Clip(@ - Watts(done))]
              /\ totals' = [totals EXCEPT
                   !.cpu_seconds = @ + TotalOf([r \in done |-> CpuSeconds(r)], done),
                   !.gpu_seconds = @ + TotalOf([r \in done |-> GpuSeconds(r)], done),
                   !.max_end_ts = IF done = {} THEN @ ELSE Max({@, now})]
       /\ submit_idx' \in submit_idx..Len(jobs)
       /\ \A i \in (submit_idx + 1)..submit_idx' : jobs[i].submit_ts = now
       /\ submit_idx' < Len(jobs) => jobs[submit_idx' + 1].submit_ts # now
  /\ queued' = queued \cup ((submit_idx + 1)..submit_idx')
  /\ pc' = "dispatch"
  /\ UNCHANGED <<arguments, report, violations, shadow>>

(* check_invariants, of the state after the dispatch.                      *)
FailedChecks(queue, holders, left) ==
  {name \in {"free_resources_exceed_capacity"} : \E d \in Modelled : left[d] > Capacity[d]}
  \cup {name \in {"resource_conservation_broken"} :
          \E d \in Modelled : Held(holders, d) + left[d] # Capacity[d]}
  \cup {name \in {"job_start_before_submit"} :
          \E h \in holders : h.start_ts < jobs[h.job].submit_ts}
  \cup {name \in {"queued_job_submit_in_future"} :
          \E job \in queue : jobs[job].submit_ts > clock_ts}

Start(started) ==
  LET newly_started == Startings(started)
      draw == power.current_watts + Watts(newly_started)
  IN  /\ queued' = queued \ started
      /\ running' = running \cup newly_started
      /\ free' = [d \in Modelled |-> free[d] - Held(newly_started, d)]
      /\ power' = [power EXCEPT !.current_watts = draw, !.peak_watts = Max({@, draw})]

(* A head that is not started but fits (it asks for no CPU) is not blocked.*)
Dispatch ==
  /\ pc = "dispatch"
  /\ LET front == FromFront(Left)
         left == Taken(Left, front)
         rest == queued \ front
         head == Min(rest)
         time == ShadowTime(head, left, running \cup Startings(front))
         blocked == policy = "EASY_BACKFILL_BASELINE" /\ rest # {} /\ ~ FitsIn(head, left)
     IN  \/ /\ ~ blocked
            /\ Start(front)
            /\ UNCHANGED shadow
         \/ /\ blocked
            /\ \E behind \in Backfills(rest \ {head}, left, time) : Start(front \cup behind)
            /\ shadow' = [job \in DOMAIN shadow \cup {head} |->
                            IF job \in DOMAIN shadow THEN shadow[job] ELSE time]
  /\ LET failed == FailedChecks(queued', running', free')
     IN  /\ violations' = violations \cup failed
         /\ pc' = IF strict_invariants /\ failed # {} THEN "strict_error" ELSE "loop"
  /\ UNCHANGED <<arguments, clock_ts, submit_idx, completed, totals, report>>

(* What is completed, in the order of the trace.                           *)
ByJob == [i \in 1..Cardinality(completed) |->
            CHOOSE h \in completed : Cardinality({g \in completed : g.job < h.job}) = i - 1]
WaitOf(h) == Clip(h.start_ts - jobs[h.job].submit_ts)

Makespan == Clip(totals.max_end_ts - MinSubmit)

HasPowerData == \E i \in DOMAIN jobs : jobs[i].power_mean_watts > 0

(* Power figures are left out of a trace without power data.               *)
Metrics ==
  [jobs_completed |-> Cardinality(completed),
   wait_sec |-> TotalOf([h \in completed |-> WaitOf(h)], completed),
   p95_wait |-> P95([i \in DOMAIN ByJob |-> WaitOf(ByJob[i])]),
   p95_bsld |-> P95([i \in DOMAIN ByJob |->
                  Bsld(WaitOf(ByJob[i]), ByJob[i].end_ts - ByJob[i].start_ts, BsldFloorSec)]),
   makespan_sec |-> Makespan,
   utilization |-> Utilization(totals.cpu_seconds, Capacity.cpus, Makespan),
   utilization_gpu |-> IF Capacity.gpus = 0 THEN <<>>
                       ELSE Utilization(totals.gpu_seconds, Capacity.gpus, Makespan),
   invariant_violations |-> Cardinality(violations),
   energy |-> IF HasPowerData THEN power ELSE <<>>]

(* Everything completed, or nothing more will happen: the report is        *)
(* written either way, with what is still queued left out of it.           *)
WriteReport ==
  /\ pc = "loop"
  /\ AllCompleted \/ EventTimes = {}
  /\ pc' = "reported"
  /\ report' = Metrics
  /\ UNCHANGED <<arguments, clock_ts, submit_idx, queued, running, completed, free,
                 power, totals, violations, shadow>>

Ended == pc \in {"refused", "strict_error", "reported"}
RustTerminated == Ended /\ UNCHANGED rvars

RustNext == Advance \/ Dispatch \/ WriteReport \/ RustTerminated

RustSpec == RustInit /\ [][RustNext]_rvars

-----------------------------------------------------------------------------
(* Properties.                                                             *)

(* In every dimension what is free and what runs add up, the draw is that  *)
(* of what runs, and an enforced cap is never exceeded, not for a second.  *)
ResourcesAccounted ==
  /\ violations = {}
  /\ \A d \in Modelled : free[d] >= 0 /\ free[d] + Held(running, d) = Capacity[d]
  /\ power.current_watts = Watts(running)
  /\ enforce_power_cap /\ pc # "refused" =>
       power.current_watts <= power_cap_watts /\ power.seconds_above_cap = 0

(* Under EASY a blocked head starts at the very shadow time that was       *)
(* computed when it came to be the head: no dimension, and no power, is    *)
(* taken past that time by what was let through.  (A head that asks for no *)
(* CPU may be given a shadow time for its power, but is never started.)    *)
ShadowKept ==
  /\ \A h \in running \cup completed : h.job \in DOMAIN shadow => h.start_ts = shadow[h.job]
  /\ pc # "dispatch" => \A job \in queued \cap DOMAIN shadow :
       jobs[job].requested.cpus > 0 => NoLater(clock_ts, shadow[job])

Impossible(job) ==
  \/ jobs[job].requested.cpus = 0
  \/ \E d \in Modelled : jobs[job].requested[d] > Capacity[d]
  \/ enforce_power_cap /\ jobs[job].power_mean_watts > power_cap_watts

(* The loop leaves without an error when no event remains.  The jobs it    *)
(* leaves behind could never have run: under FIFO the first of them, under *)
(* EASY all of them, unless the first asks for no CPU and so blocks the    *)
(* queue without being a head to reserve for.                              *)
StrandedNeverRuns == pc = "reported" /\ queued # {} =>
  \/ policy = "FIFO_STRICT" /\ Impossible(Min(queued))
  \/ jobs[Min(queued)].requested.cpus = 0
  \/ \A job \in queued : Impossible(job)

(* The metric parity contract of the two engines: a run that completes all *)
(* its jobs reports the figures the Python formulas give for its schedule, *)
(* and the utilization they share is never cut at 1.                       *)
MetricParity == pc = "reported" /\ Cardinality(completed) = Len(jobs) =>
  LET rows == [i \in DOMAIN ByJob |->
                 [submit_ts |-> jobs[ByJob[i].job].submit_ts,
                  start_ts |-> ByJob[i].start_ts, end_ts |-> ByJob[i].end_ts,
                  requested_cpus |-> jobs[ByJob[i].job].requested.cpus]]
      python == ComputeJobMetrics(rows, Capacity.cpus, BsldFloorSec)
  IN  /\ report.jobs_completed = python.job_count
      /\ \A figure \in {"wait_sec", "p95_wait", "p95_bsld", "makespan_sec", "utilization"} :
           report[figure] = python[figure]
      /\ totals.cpu_seconds <= Capacity.cpus * Makespan

Draw(ts) == Watts({h \in completed : h.start_ts <= ts /\ ts < h.end_ts})
Seconds == LET ends == {h.end_ts : h \in completed}
           IN  IF ends = {} THEN {} ELSE MinSubmit..(Max(ends) - 1)

(* The report says of the schedule what it was.  The power metrics are     *)
(* what a meter read second by second would give: the schedule decides the *)
(* peak and the exposure, not the energy.  The other figures are those of  *)
(* the Python formulas.                                                    *)
ReportIsMetered == pc = "reported" =>
  /\ MetricParity
  /\ power.energy_joules =
       TotalOf([h \in completed |-> jobs[h.job].power_mean_watts * Clip(jobs[h.job].runtime_actual_sec)],
               completed)
  /\ power_cap_watts # NoCap =>
       /\ power.seconds_above_cap = Cardinality({ts \in Seconds : Draw(ts) > power_cap_watts})
       /\ power.joules_above_cap =
            TotalOf([ts \in Seconds |-> Clip(Draw(ts) - power_cap_watts)], Seconds)
  /\ \A ts \in Seconds : Draw(ts) <= power.peak_watts
=============================================================================
