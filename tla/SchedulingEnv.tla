---------------------------- MODULE SchedulingEnv ----------------------------
(***************************************************************************)
(* The policy search of simulate/rl_env.py: episodes of a simulation whose *)
(* dispatch is governed by an action, and the search for the best action.  *)
(*                                                                         *)
(* A job is named by its place in the trace.  An action is a backfill      *)
(* threshold, as a fraction of the capacity, and the boost of short jobs   *)
(* in seconds; the starvation factor is read by nothing.                   *)
(***************************************************************************)
EXTENDS ScheduleMetrics

CONSTANTS
  SearchCapacity,   \* capacity_cpus
  SearchTraces,     \* traces sorted by submit time
  Actions,          \* [threshold |-> [num, den], boost |-> seconds]
  DecisionInterval, \* events in a step
  NTrials,          \* trials of the search
  WaitFloorSec      \* the 10 s under the slowdown of a short job

(* Jobs of no CPU: none, as the trace is coerced; a job of no runtime ends *)
(* in the event after its start.                                           *)
SearchRow == [job_id : Int, submit_ts : Int, runtime_actual_sec : Nat, requested_cpus : Nat \ {0}]
SearchAction == [threshold : [num : Nat, den : Nat \ {0}], boost : Nat]

ASSUME SearchAssumption ==
  /\ SearchCapacity \in Nat \ {0}
  /\ SearchTraces \subseteq Seq(SearchRow)
  /\ Actions \subseteq SearchAction
  /\ DecisionInterval \in Nat \ {0}
  /\ NTrials \in Nat \ {0}
  /\ WaitFloorSec \in Nat \ {0}

VARIABLES
  search_pc,   \* "off", "trial", "step" or "chosen"
  sim,         \* the environment, with its trace and the action of the episode
  results,     \* sequence of [action, result] of the trials so far
  best         \* place in results of best_result; 0: None

searchVars == <<search_pc, sim, results, best>>

NoAction == [threshold |-> [num |-> 0, den |-> 1], boost |-> 0]

(* queue is a sequence of jobs, active and finished are sets of records    *)
(* [job, start_ts, end_ts], events is events_processed in this step.       *)
NewEpisode(trace, action) ==
  [trace |-> trace, action |-> action, clock |-> 0, free |-> SearchCapacity, job_idx |-> 0,
   queue |-> <<>>, active |-> {}, finished |-> {}, events |-> 0, cpu_time_used |-> 0, total_time |-> 0]

SearchInit ==
  /\ search_pc = "trial"
  /\ \E trace \in SearchTraces : sim = NewEpisode(trace, NoAction)
  /\ results = <<>>
  /\ best = 0

Bug_ResetKeepsUsage(action) ==
  [NewEpisode(sim.trace, action) EXCEPT !.cpu_time_used = sim.cpu_time_used, !.total_time = sim.total_time]

(* _reset_state                                                            *)
ResetState(action) == NewEpisode(sim.trace, action)

(* run_episode with the next action of the grid, or a random one.          *)
StartTrial ==
  /\ search_pc = "trial"
  /\ Len(results) < NTrials
  /\ \E action \in Actions : sim' = ResetState(action)
  /\ search_pc' = "step"
  /\ UNCHANGED <<results, best>>

-----------------------------------------------------------------------------
(* One event, in the environment s.                                        *)

Cpus(s, job) == s.trace[job].requested_cpus
CpusAt(s, jobs, places) == TotalOf([i \in DOMAIN jobs |-> Cpus(s, jobs[i])], places)

(* job_idx once the jobs that have arrived are admitted, and the queue.    *)
Admitted(s) == Min({n \in s.job_idx..Len(s.trace) :
                      n < Len(s.trace) => s.trace[n + 1].submit_ts > s.clock})
Waiting(s) == s.queue \o [n \in 1..(Admitted(s) - s.job_idx) |-> s.job_idx + n]

(* Twice the median runtime of the jobs of a queue.                        *)
Median2(s, jobs) ==
  LET runtimes == SortSeq([i \in DOMAIN jobs |-> s.trace[jobs[i]].runtime_actual_sec], <)
      n == Len(runtimes)
  IN  IF n % 2 = 1 THEN 2 * runtimes[(n + 1) \div 2] ELSE runtimes[n \div 2] + runtimes[n \div 2 + 1]

(* Short jobs are put forward as if submitted earlier.                     *)
Boosted(s, jobs) ==
  LET short(job) == 2 * s.trace[job].runtime_actual_sec < Median2(s, jobs)
      key(job)   == s.trace[job].submit_ts - (IF short(job) THEN s.action.boost ELSE 0)
  IN  IF s.action.boost = 0 THEN jobs ELSE Sorted(jobs, [i \in DOMAIN jobs |-> <<key(jobs[i]), 0>>])

(* A pass over jobs with left CPUs: the places of those that start, each   *)
(* in its turn if it fits in what the ones before it have left.            *)
Pass(s, jobs, left) ==
  CHOOSE pass \in [jobs : {jobs}, left : {left}, started : SUBSET DOMAIN jobs] :
    \A i \in DOMAIN pass.jobs :
      i \in pass.started <=>
        Cpus(s, pass.jobs[i]) + CpusAt(s, pass.jobs, {k \in pass.started : k < i}) <= pass.left
NoPass(jobs, left) == [jobs |-> jobs, left |-> left, started |-> {}]
CpusLeft(s, pass) == pass.left - CpusAt(s, pass.jobs, pass.started)

(* What starts is dropped, and the rest stays in its order.                *)
Kept(pass) ==
  SubSeq(Sorted(pass.jobs, [i \in DOMAIN pass.jobs |-> <<IF i \in pass.started THEN 1 ELSE 0, 0>>]),
         1, Len(pass.jobs) - Cardinality(pass.started))

Bug_BackfillAnyTime(s, left) == left > 0

(* Backfill is for when enough of the machine is free.                     *)
MayBackfill(s, left) ==
  /\ left > 0
  /\ left >= SearchCapacity - (s.action.threshold.num * SearchCapacity) \div s.action.threshold.den

(* _dispatch: a first pass that a blocked head keeps from starting at all, *)
(* and a second behind it.                                                 *)
Blocked(s, jobs) == jobs # <<>> /\ Cpus(s, jobs[1]) > s.free
FirstPass(s, jobs) == IF Blocked(s, jobs) THEN NoPass(jobs, s.free) ELSE Pass(s, jobs, s.free)
SecondPass(s, first) ==
  IF MayBackfill(s, CpusLeft(s, first)) THEN Pass(s, Kept(first), CpusLeft(s, first))
  ELSE NoPass(Kept(first), CpusLeft(s, first))
Started(first, second) ==
  {first.jobs[i] : i \in first.started} \cup {second.jobs[i] : i \in second.started}

CpusOfRecords(s, records) == TotalOf([r \in records |-> Cpus(s, r.job)], records)

(* What runs once jobs are started, and the times of the next events.      *)
Running(s, started) ==
  s.active \cup {[job |-> j, start_ts |-> s.clock, end_ts |-> s.clock + s.trace[j].runtime_actual_sec] :
                   j \in started}
Upcoming(s) == {r.end_ts : r \in s.active} \cup {s.trace[i].submit_ts : i \in {s.job_idx + 1} \cap DOMAIN s.trace}

(* The clock moves, and what is over completes.                            *)
Elapsed(s, next) == Clip(next - s.clock)
MovedTo(s, next) ==
  LET over == {r \in s.active : r.end_ts <= next}
  IN  [s EXCEPT !.events = @ + 1,
                !.cpu_time_used = @ + (SearchCapacity - s.free) * Elapsed(s, next),
                !.total_time = @ + SearchCapacity * Elapsed(s, next),
                !.clock = next,
                !.active = @ \ over,
                !.finished = @ \cup over,
                !.free = @ + CpusOfRecords(s, over)]

(* The rest of a round of the loop of step, after the two passes.          *)
Dispatched(s, first, second) ==
  [s EXCEPT !.job_idx = Admitted(s), !.queue = Kept(second), !.free = CpusLeft(s, second),
            !.active = Running(s, Started(first, second))]
AfterDispatch(s) ==
  IF Upcoming(s) = {} THEN [s EXCEPT !.events = DecisionInterval] ELSE MovedTo(s, Min(Upcoming(s)))

ProcessEvent ==
  /\ search_pc = "step"
  /\ sim.events < DecisionInterval
  /\ \E ordered \in {Boosted(sim, Waiting(sim))} :
       \E first \in {FirstPass(sim, ordered)} :
         \E second \in {SecondPass(sim, first)} :
           \E dispatched \in {Dispatched(sim, first, second)} : sim' = AfterDispatch(dispatched)
  /\ UNCHANGED <<search_pc, results, best>>

(* step returns: the episode goes on with the same action until done.      *)
Done(s) == \/ Cardinality(s.finished) = Len(s.trace)
           \/ s.job_idx >= Len(s.trace) /\ s.queue = <<>> /\ s.active = {}

SearchBsld(s, r) == LET over == WaitFloorSec * (WaitFloorSec + 1)
                        wait == r.start_ts - s.trace[r.job].submit_ts
                    IN  Max({over, (wait * over) \div Max({s.trace[r.job].runtime_actual_sec, WaitFloorSec})})

(* _episode_metrics, with what has ended in a sequence.                    *)
EpisodeMetrics(s, ended) ==
  [p95_bsld |-> P95([i \in DOMAIN ended |-> SearchBsld(s, ended[i])]),
   wait_sec |-> TotalOf([r \in s.finished |-> r.start_ts - s.trace[r.job].submit_ts], s.finished),
   utilization |-> <<s.cpu_time_used, Max({1, s.total_time})>>,
   makespan_sec |-> s.clock]

NextStep ==
  /\ search_pc = "step"
  /\ sim.events = DecisionInterval
  /\ ~ Done(sim)
  /\ sim' = [sim EXCEPT !.events = 0]
  /\ UNCHANGED <<search_pc, results, best>>

Better(result) == best = 0 \/ result.p95_bsld < results[best].result.p95_bsld

EndTrial ==
  /\ search_pc = "step"
  /\ sim.events = DecisionInterval
  /\ Done(sim)
  /\ \E ended \in {SetToSeq(sim.finished)} : \E result \in {EpisodeMetrics(sim, ended)} :
       /\ results' = Append(results, [action |-> sim.action, result |-> result])
       /\ best' = IF Better(result) THEN Len(results') ELSE best
  /\ search_pc' = IF Len(results') = NTrials THEN "chosen" ELSE "trial"
  /\ UNCHANGED sim

SearchNext == StartTrial \/ ProcessEvent \/ NextStep \/ EndTrial

SearchSpec == SearchInit /\ [][SearchNext]_searchVars

-----------------------------------------------------------------------------
(* Properties.                                                             *)

(* The CPU seconds that records have used by the clock.                    *)
Used(s, records) ==
  TotalOf([r \in records |-> Cpus(s, r.job) * (Min({r.end_ts, s.clock}) - r.start_ts)], records)

(* The search compares like with like: a trial has the result its action   *)
(* has in any other trial, whatever ran before it, the best is the first   *)
(* of the least p95 slowdowns, and the figures are those of the schedule.  *)
TrialsComparable ==
  /\ \A m, n \in DOMAIN results : results[m].action = results[n].action =>
       results[m].result = results[n].result
  /\ search_pc = "chosen" =>
       /\ \A n \in DOMAIN results : results[best].result.p95_bsld <= results[n].result.p95_bsld
       /\ \A n \in 1..(best - 1) : results[best].result.p95_bsld < results[n].result.p95_bsld
  /\ search_pc = "step" =>
       /\ sim.free + CpusOfRecords(sim, sim.active) = SearchCapacity
       /\ sim.total_time = SearchCapacity * sim.clock
       /\ sim.cpu_time_used = Used(sim, sim.active \cup sim.finished)

(* What the threshold decides, round by round.  When the head of the queue *)
(* is blocked, nothing starts at threshold 0, as long as the head fits the *)
(* machine.  When it is not, the threshold decides nothing: jobs go past a *)
(* later one that is blocked, at 0 as well, for the docstring's "no        *)
(* backfill" is of a blocked head alone, and none that stays would fit.    *)
(* Nor would one at threshold 1, whether the head is blocked or not.       *)
BackfillByThreshold == search_pc = "step" =>
  \A ordered \in {Boosted(sim, Waiting(sim))} : \A first \in {FirstPass(sim, ordered)} :
    \A second \in {SecondPass(sim, first)} :
      LET blocked == Blocked(sim, ordered)
          threshold == sim.action.threshold
      IN  /\ blocked /\ Cpus(sim, ordered[1]) <= SearchCapacity /\ threshold.num = 0 =>
               Started(first, second) = {}
          /\ ~ blocked => second.started = {}
          /\ ~ blocked \/ threshold.num = threshold.den =>
               \A i \in DOMAIN Kept(second) : Cpus(sim, Kept(second)[i]) > CpusLeft(sim, second)
=============================================================================
