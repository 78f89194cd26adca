# Specifications of the HPC workload optimizer

TLA+ modules for the parts of this repository whose behaviour over time matters: the
replay simulators that referee scheduling policies, the policies themselves, what is done to
a trace before it is replayed or learnt from, the environments for reinforcement learning, the
model registry with the files it owns, the HTTP service, the polling daemon, and the suite
that turns all of it into a verdict. TLC checks them on small instances. For every value of the
constants TLAPS proves: that the replay loop conserves CPUs, loses no job and implements the
lifecycle promised of each; that the Rust loop accounts for every resource and starts a blocked
head when it promised to; that registry, model files and cleanup stay sound through overlapping
operations and crashes; that the service keeps its rates and its circuit its count; that the
daemon ingests a row once and feedback survives restarts; and that the verdict of a suite, its
dossier and the benchmark gate say what happened; and that the availability profile under
conservative backfill is the free count at every time and finds the earliest windows.

Paths below are relative to `src/python/hpcopt` unless they start with `src/`.

## 1. The system

A trace of batch jobs (submit time, CPUs, runtimes) is *ingested*, *replayed* under a
scheduling policy by an event-driven simulator, compared with what the cluster really did
(*fidelity gate*), and turned into a *recommendation*. Around this core are runtime models
with a registry, an HTTP API, a daemon that polls the cluster, and reinforcement-learning
environments over the same loop. A Rust program repeats the simulation with more resources.

| Component (source) | State it keeps | Operations | Works with | What is hard | What makes it correct |
|---|---|---|---|---|---|
| Simulation loop (`simulate/core.py`) | clock, queue, running, completed, free CPUs, report, queue series | next event, complete, admit, ask policy, apply each decision, check, record, two deadlock errors | policies (callback with a snapshot), trace helpers | decisions applied one by one against an index made before; completion by id; several ticks at one time | CPUs conserved, each job runs once for its runtime, order within a tick, every run ends, report clean |
| Loop helpers (`simulate/core_helpers.py`) | none | coerce and sort rows, attach estimates, choose policy, check invariants | predictor, fairshare, Tsafrir | missing and invalid values, crossing quantiles, `or` over 0 | what the loop assumes of a trace; ordered gates |
| Policies (`simulate/adapter.py`, `plugins/uarp.py`, `rl/inference.py`) | none: functions of a snapshot | FIFO, EASY, SJF, LJF, fairshare, conservative, ML, UARP, RL | availability profile, reservation | promises span ticks although nothing is kept between them | lists fit; head reservation kept; bound at submission; no starvation of a job that fits |
| Availability profile (`simulate/availability_profile.py`) | sorted events of free CPUs | build, free at, earliest window, insert | conservative backfill | interval splitting | equals the free count at every time |
| Fairshare, Tsafrir (`simulate/fairshare.py`, `models/baseline_tsafrir.py`) | per-user usage or history during one scan | event scan | loop helpers | ties between completions and submissions | history holds only what has ended |
| Rust simulator, contract binary (`src/rust/sim-runner`) | as the loop, plus GPUs, memory, power | as the loop | Rust bridge | leaves when no event remains; takes and gives back resources while scanning | nothing lost or taken twice; same decisions as Python |
| RL environments (`rl/env.py`, `simulate/rl_env.py`) | as the loop, plus episode, usage, trials | reset, step, search | trainer | when the agent is asked, when an episode ends, what a reset forgets | a decision has an action; trials compare |
| Fidelity gate, metrics, objective, recommendation (`simulate/fidelity.py`, `metrics.py`, `objective.py`, `recommend/engine.py`) | none | gate, score, accept or block, rank | reports | judged in four places; a missing report | no claim without its conditions |
| Credibility suite, dossier, benchmark (`orchestrate/credibility.py`, `artifacts/`) | reports and a summary on disk; a history file | run each trace through every stage, summarise, collect | everything above | a stage that fails halfway, reports of earlier runs | verdict and dossier tell what happened |
| Model registry, retention (`models/registry.py`, `artifacts/retention.py`) | a JSONL file, model files | register, promote, archive, delete by age | API, pipeline | read before the file lock, crash in an append, scan while others write | one production model; writes stand; nothing protected is deleted |
| Runtime models, cache (`models/runtime_quantile.py`, `api/model_cache.py`) | model files, pointer, cached predictor | train, resolve, verify, load with retries | registry, API | files change while they are read | what is served is one model, whole |
| API (`api/`), circuit breaker (`utils/resilience.py`) | buckets, requests in flight, breaker, shutdown flag | admit, limit, time out, serve, count outcomes | model cache | outcomes after the answer, pruning of buckets | limit kept, each request answered |
| Shadow ingestion (`ingest/shadow.py`) | watermark, datasets, threads, stop event | start, poll, write rows, write watermark, stop | scheduler dump | crash between two writes; double start | each new row ingested, once |
| Feedback, exporter (`integrations/feedback.py`, `metrics_exporter.py`) | records in memory and in a file | record, reload, trim, report | API | a line cut short, a failed append | memory and file tell what was observed |
| Ingestion formats, connectors (`ingest/*.py`, `integrations/slurm_connector.py`, `pbs_connector.py`, `src/rust/swf-parser`) | counters of one pass | read lines, derive what is missing, sync | manager commands | five formats, each with its own blanks | a row says what the log says |
| Features (`features/pipeline.py`) | none | queue and lookback features, folds | runtime models | what was known at submission | causal features, ordered folds |

`PROJECT.json` lists every component with its files and what is modelled, and 40 hazards at
the line where each bites, with the properties that watch it or the reason none does.

## 2. The modules

```
 JobLifecycle   (abstract: what is promised of each job)
      ^ implemented by (LifecycleSpec)
   SimCore  <------ SimPolicy ----> AdapterContract --> Dispatchers --> AvailabilityProfile
                    ^  |  ^                                  ^                ^
              ReplayProofs                                   |         ProfileTimeline <-- ProfileProofs
                       |                                     |
                       +---> TraceInput --> HistoryEstimates |
                                 ^                           |
              LogFormats <-- Ingestion <-- TracePreparation -+--> FeaturePipeline

 ScheduleMetrics <-- RustLoop <-- RustLoopProofs
 RLSchedulerEnv, SchedulingEnv <-- MCEnvironments;  RLSchedulerEnv, SchedulingEnv <-- EnvironmentProofs
 ModelRegistry, RuntimeModels <-- ModelLifecycle <-- ModelLifecycleProofs
 RateLimiter <-- ApiService <-- ServiceProofs
 ShadowIngest, FeedbackTracker <-- MCShadowFeedback, ServiceProofs
 ScheduleMetrics, Recommendation <-- Credibility;  Credibility, Benchmark, BatsimRun <-- Pipeline <-- PipelineProofs
 SharedLemmas   (finite sets of numbers, CPU counts, profiles, sums, stable sorts; for all proof modules)
```

An arrow points from the module that uses to the one that is used. Modules named `MC...` give
the constants of the runs. Definitions named `Bug_...` are mutated forms of the definition
they precede (a dropped filter, a missing break-point, a swapped order); no specification
uses them, they exist to check that the properties notice such a bug. `PROJECT.json` maps
every definition that stands for code to its lines.

### The replay

**SimCore** is the loop of `run_simulation_from_trace`. `pc` is where the loop stands:
`loop` (top of an iteration), `decide` (the policy is asked), `apply` (decision `pos` is
next), and the ways a run ends: `finished`, `deadlock` (no event left), `stuck` (queued jobs
and nothing else), `strict_error`. One action per step of the code: `NextEvent` (jump,
complete, admit), `RaiseDeadlock`, `Finish`, `ReceiveDecision`, `SkipDecision`, `StartJob`
(one decision each), `EndTick` (filter the queue, check, record, stuck test) and
`RaiseStrict`. A row is named by its place in the sorted trace; `starts` lists every start
and `running` and `completed` hold places in it, because the code keeps dicts per start and
the same job can, through a bad plug-in, be started twice. The policy may return **any**
list of ids: that is what the plug-in API allows. `Cpus(S, list)` is the sum of requests,
written as the size of a set of (holder, index) pairs so that it can be reasoned about
without recursion.

**JobLifecycle** is the abstract specification: each row is in the future, queued, running,
then completed; it starts once, when it fits, and runs for exactly its runtime; time never
passes a due event. `SimCore` maps to it by `Lifecycle` (an INSTANCE with `now`, `phase`,
`started` computed from the lists), and `LifecycleSpec` is checked as a property.

**AvailabilityProfile** and **Dispatchers** are the pure functions: a profile is a function
from event times to free CPUs; a policy maps a snapshot to a list of jobs, an RL policy to
every list its mask allows (the neural model is external). The queue of a snapshot is a function
of rows. A sorted queue is the order of its rows, a set of pairs, and a walk that takes what fits in
what is left is stated by the set it has taken in the end (`Packings`, of which there is one): both
can be reasoned about for a queue of any length. **AdapterContract** is the same
contract as the Rust binary implements it, with its own sort, walk and fallbacks.
**ProfileTimeline** runs the profile beside the plain count of free CPUs time by time. CPUs are
counted one by one, as the size of a set, here too.

**SimPolicy** composes these: a prepared trace, the loop, and one built-in policy per
run. `promise` is a history variable with the first reservation a policy gave each row; the
code keeps none.

**RustLoop** is the Rust program: vectors of resources, a power cap that may be enforced,
FIFO and EASY dispatch over what is left of each dimension, power accounting between events
(`AdvancedTo`), the checks of the report and the report itself. The queue is the set of places
admitted and not started, as the code keeps it in the order of the trace; what a scan of the
queue starts is therefore a set too: those from the front as long as each fits what is left of
those before it (`FromFront`), then, under EASY, those behind the head that fit when their turn
comes and end in time (`Backfills`, of which there is one).
**ScheduleMetrics** holds the figures of a finished schedule, which the Rust report and the
Python metrics both compute, and the fidelity gate over them.

### What comes before a replay

**LogFormats** is how each of the five ingesters reads one job, and what it puts in the place
of what the log leaves out. **Ingestion** is the loop over the lines with its counters, the
row limit and `finalize_ingest`; `Written` is the other side, what a workload manager prints
of a job (external); the live connectors read the same jobs beside it, from a command whose output
may also be unusable (`Fetched`), with times as text that PBS may print in either of two forms (`Shown`).
**TraceInput** is `coerce_trace_df` and `attach_runtime_estimates`, **HistoryEstimates** the
two scans that give estimates and scores from the past; both are walked event by event and
stand beside their definition job by job (`LastTwo`, `UsageOver`). **FeaturePipeline** is the
feature frame, its folds and the split of the runtime models. **TracePreparation** drives all
of it, from raw rows or from lines.

### Environments

**RLSchedulerEnv** is the Gymnasium environment: a window of the trace, an agent that is shown
the first `MaxQueueSize` jobs, a mask, and a clock that moves until there is a decision to
make. The queue is a set of places in the window, as the code keeps it in that order; an advance may
give up after `MaxSteps` iterations. An agent is `legal` (heeds the mask) or `any`. **SchedulingEnv** is the policy search:
an action is a backfill threshold and a boost, a trial is an episode under one action. `sim` is the
environment with its trace and action: the helpers are functions of such a record, so that what an
event does (`ProcessEvent`: admit, boost, two passes, move the clock) can be reasoned about without the search.

### Models and service

**ModelRegistry**: an operation reads, waits for the file lock, writes and lets go, in steps
of its own; the entries it writes are those of its read, in which a line that was skipped keeps
its place as a blank one. `ledger` is history: the status that the last completed write
promised of each model. **RuntimeModels**: training writes file after file; a request
resolves the directory, waits for the cache lock, reads the hashes, then verifies and loads
file after file, with retries. A file has the version of the training that wrote it.
**ModelLifecycle** adds the cleanup job and composes the three, with crashes of trainings
and of registry operations.

**ApiService**: a request passes shutdown, authentication, rate limit and size, then waits
for a thread of the pool; `TimeOut` answers it 504 while its work may go on. Work that still waits
for a thread may be withdrawn or run all the same: which of the two is the framework's, so both are
steps. The circuit breaker
is part of this module, **RateLimiter** is the function the middleware calls under its lock.

**ShadowIngest**: loops and single polls that take one lock; a poll writes the dump's rows,
filters them and saves the watermark in two steps, as the file is truncated before it is
written. **FeedbackTracker**: memory, the lines of the file, whole or cut short.

### Verdicts

The fidelity gate of **ScheduleMetrics** compares an observed and a simulated run in exact
integer arithmetic; **Recommendation** judges candidates against a baseline, ranks them and finds
the Pareto frontier; **Credibility** is the suite, step by step, with the reports it leaves on
disk, and the dossier that reads them (every report has the time of its run in its name but the trace
profile, which a later suite therefore replaces, or leaves half written); **Benchmark** is the regression gate over its history file.
**BatsimRun** makes a trace a workload, starts the external simulator, whose schedule may be any
that fits its machine, and reads its export back as a report. **Pipeline** puts them together and
adds the what-if verdict and the capacity it infers: a behaviour is one of five commands, which
share no file.

### Kept out of all modules

Wording and hashes of reports, logging, JSON and argument parsing, schemas and headers, fields
no modelled decision reads, and Python's sort and dictionary details except where a result
depends on them. Times are small integers; `10**18` and `i64::MAX` are values above every time
of a run. Real numbers are integers of a fixed unit, chosen so that the comparisons of an
instance are exact (slowdowns, quantiles, hundredths of a ratio).

## 3. What TLC checks

| Run | Question | Instance |
|---|---|---|
| `core_any_policy` | The loop under any decision list: the inductive invariant of the proofs, the CPU count, termination | Capacity 2; 3 rows of distinct ids with 1 or 2 CPUs, 2 rows with one too large for the machine, 2 and 3 rows that share ids; submit times 0 and 1, runtimes 0 and 2; lists of no or two ids out of three; strict and not |
| `core_repeat_free` | Under lists without repetition the loop implements `JobLifecycle`, loses nothing, counts exactly | Capacity 2; 3 rows, up to 3 CPUs; all lists of distinct ids |
| `profile_timeline` | The profile against the free count | Capacity 3; up to two running jobs, some overdue; sequences of up to three planned jobs, 16 time units |
| `policy_rules` | Ten built-in policies, each with the loop; the Rust contract on every snapshot they meet | Capacity 3; 3 rows of 1, 2 or 4 CPUs with exact, too short and too long requests; 4 rows of 1 to 3 CPUs in two waves; two users; RL shown 2 jobs |
| `trace_preparation` | From a log, or from raw rows, to a prepared trace, its features and folds; what the connectors make of the same jobs or of unusable output | 1 to 3 raw rows with missing, zero and negative values and 4 rows of two users; logs of up to 3 lines in five formats, cut at 2 rows; guard factors 0, 1/2, 1; splits of up to 60 rows, up to 5 folds |
| `feature_lookback` | The same, for what the paper says of the lookback | as `trace_preparation`; must be violated, see below |
| `rust_loop` | The Rust loop | 2 CPUs, 1 GPU, power cap 3 or none; 4 jobs of three shapes, 3 jobs of six shapes (over the cap, over the GPUs, no CPU), no job |
| `rl_environments` | Both environments | 2 CPUs; windows of 3 jobs of traces of up to 4, of which 2 are shown; advances of 7 iterations (10,000 in the code); legal and careless agents; two trials of three actions |
| `model_lifecycle` | Registry, trainings, a request and a cleanup, with crashes | 2 processes, 2 models of 2 quantiles; 3 registry operations, 2 trainings, 1 cleanup, 4 steps of work in all, 2 load attempts |
| `service` | Requests through the middleware to the model and the circuit | 3 requests of eight kinds; limit 2 in a window of 2; one bucket kept, pruned at every request; 1 pool thread; clock up to 3 |
| `shadow_feedback` | The daemon; the feedback tracker | 3 rows of which two share a time, 2 loops, 1 failed write, 1 crash; memory of 2 out of 4 predictions |
| `pipeline` | Credibility suites, benchmarks, recommendations, what-if verdicts, Batsim runs | 2 suites over 2 traces out of four outcomes, 2 failures; 4 benchmarks at rates around the largest drop; up to 3 of 7 candidates placed at the limits, 3 workload profiles; what-if over every pair of rows with a time or a request missing; 3 traces for Batsim, one without figures and one wider than the machine, every schedule that delays a job by up to 3 half seconds |

The bounds are small but the cases occur. Two ends and a start at one time; jobs with no
runtime that end in the tick after the one that starts them; a head that waits for one or for
two running jobs and a hole in front of it that a short job fills and a long one must not;
lists that name a job twice. Two processes read the registry before either has the file lock,
and one of them crashes in the middle of an append. A training replaces the second file of
a model while a request has read the first. A thread of the pool hangs for good and the
outcome of another comes after its 504. A poll saves its rows and crashes before the
watermark, and a second loop starts while the first ends. A suite ends halfway and the next
one finds its reports. Every property has a mutated definition in `PROJECT.json` under which
it fails in the same instance, so none holds for want of cases. Symmetry is used only on the
registry's processes, where no liveness is checked.

Properties worth naming; each is stated in words where it is defined:

- `LoopInvariant` holds of **every** trace: completion drops running jobs *by id* but gives
  back only the CPUs of those that end now, so rows that share an id can lose CPUs; they are
  never handed out twice, and the run does not go on without a violation in its report.
- `CpuConservation`, with `ReportClean` and `NoDeadlockError` inside `LoopInvariant`: over
  distinct ids nothing a plug-in returns breaks the accounting.
- `QueueSeriesMatches`: the series recorded tick by tick is the one that
  `build_observed_queue_series` builds from the finished schedule.
- `HeadWaitsForCpus` (no decision is ever skipped, no head waits for nothing, a policy is
  stuck only over what is too large) and `CompletesAll`.
- `HolPromiseKept`: under EASY, ML and UARP the first reservation of a head is the very time it
  starts, if no job outruns the runtime it was gated by. `CbfBoundKept`: no job starts after its
  first conservative reservation, if estimates are exact. `ShadowKept`: the same of the Rust
  loop, in every dimension and under the power cap.
- `ContractParity`: two implementations in two languages decide alike; their completions
  differ only where a runtime of 0 is passed over by `or`.
- `ReportIsMetered`: energy, peak and exposure are those a meter would read second by second.
- `OneProduction` although operations read before they lock; `WritesStand` says what an
  interrupted write may cost; `CleanupSpares` what a scan must leave whatever changes under it.
- `WithinRate`: pruning by age never forgives a request that still counts.
- `RowsCommittedOnce`: a crash between the two files of a poll repeats work, not rows.
- `SuiteVerdictSound`: a suite that says pass has all the reports of its own run; the trace profile beside
  them may be that of a later suite, never of an earlier one.
- `BackfillByThreshold`: the threshold of the policy search binds behind a blocked head only.
- `DossierMatchesSummary`: two programs read the same directory and tell the same story.
- `NormalizedFaithful`: whatever the external simulator schedules, the report tells of every job of the
  trace, within the machine, although times were doubled, rounded, missing or out of order.

**Fairness.** The simulator and the environments are one thread whose callbacks return, so weak
fairness of the next step is what Python gives them: `FairSpec` of `SimCore` and
`MCEnvironments` ask it of `Next`, `FairPolicySpec` of the policy's answer and of the
loop's steps. In `ApiService` time passes and a timeout fires once it is due (an event loop that
is not blocked); nothing is asked of the handlers in the pool, which may hang. In `ShadowIngest` a
poll that has the lock goes on, a loop looks at its stop event, and a loop that waits for the lock
gets it in the end: strong fairness, since others take and release the lock in between, and
without it one loop could starve the other. `RustLoop`, the registry, the suite and the
benchmark have no liveness property. Deadlock is checked in the runs of the loops, where
`Terminated` is the only step of a finished run; the other runs stop after their bounded work
and their configurations say so.

### Where the code differs from what is said of it

`feature_lookback` must be violated: the lookback features of a user shift by one row in the
order of submission (`features/pipeline.py:246`), so they take in the runtime of a job that was
submitted earlier but still runs, while `src/paper/hpcopt_paper.md:221` says the features are
computed causally from "historical jobs visible at prediction time".

Others were met on the way. They are modelled as the code has them and have no run of their own:

- A list that names a job twice starts it twice, and the run can finish without another job
  (`core.py:180`; `src/docs/plugin-api.md:45` says decisions are re-validated). `NoJobLost` is
  therefore a property of lists without repetition.
- Of several ticks at one time, `sort_values("ts")` at `core.py:279` is not stable, and may keep an
  earlier row than the last.
- Once its head starts, EASY starts what fits behind it without regard for the job that is head by
  then (`adapter.py:230`; `src/design_docs/policy_spec_baselines_mvp.md:235`).
- Replanning when jobs end early can move a start beyond the worst case announced at submission
  (`adapter.py:414`; docstring at line 401), so `CbfBoundKept` needs exact estimates.
- A backfill threshold of 0 is no backfill (docstring, `simulate/rl_env.py:35`) only while the head is
  blocked: the first pass stops at a job that does not fit only if that is the first one
  (`rl_env.py:273-281`), so once the head starts, jobs go past a blocked second one at any threshold.
  `BackfillByThreshold` says when the threshold decides and when it does not.
- The gate of the P10 policy is shorter, not tighter (`core_helpers.py:222`; comment at line 100).
- The registry reads its entries before it takes the file lock (`models/registry.py:288`; the
  docstring at line 119 speaks of several processes): `WritesStand` needs operations that do not
  overlap.
- `predict` records outcomes in the circuit breaker but never asks it, so an open circuit does not
  skip the model as section 11 of `src/docs/07` says.

## 4. What TLAPS proves

`ReplayProofs` proves for **every** `Capacity`, `Traces`, `DecisionLists` and
`StrictModes`:

| Theorem | Statement |
|---|---|
| `LoopInvariantHolds` | `Spec => []LoopInvariant` |
| `TypeCorrect` | `Spec => []TypeOK` |
| `NeverOvercommits` | `Spec => []NeverOvercommitted` (any trace) |
| `LossReported` | `Spec => []CpuLossReported` (any trace) |
| `CpusConserved` | `Spec => []CpuConservation` (distinct ids) |
| `ReportAlwaysClean` | `Spec => []ReportClean` (distinct ids) |
| `NoDeadlockRaised` | `Spec => []NoDeadlockError` (distinct ids) |

Assumptions: the capacity is positive (the code raises otherwise), and a trace is what
`coerce_trace_df` yields: not empty, sorted, at least one CPU per row, no negative runtime
(`IsTrace`). TLC evaluates them in every run, and `SimPolicy` asserts that prepared traces
are among them.

The argument. None of the properties is inductive alone. `NeverOvercommitted` survives
`NextEvent` because what stays running is *part* of what does not complete (`CpusPart`,
`CpusDifference`), and `StartJob` because a queued id, even a shared one, names a queued row
(`QueueByIdQueued`, which needs the last row of a nonempty set to exist: `LastRow`). A lost
CPU is in the report because `cpu_conservation_broken` is checked between any start or
completion and the next top of the loop. Over distinct ids the strengthening is `UniqueRun`:

- `StartsApart`: a started row left the queue in its own tick, so starts that share an id are
  repetitions made in one tick and end together. This is why removal by id removes exactly
  what completes.
- `ClockInOrder`: the clock is between what is queued and what is to come, and no running job
  is overdue.
- `NothingLost`: each row is in the future, queued or started; each start is running or
  completed; a run that goes on with nothing running and nothing to come has an empty queue.
  With no event left every row has then completed (`EventLeft`, by a surjection from
  completions to rows), so the sentinel is not raised.
- `CpusAddUp` and `NoneReported`.

`LoopInvariant` itself is an invariant of the run `core_any_policy`.

It proves the first of these of every run, and the others of the runs
in which rows have distinct ids and no list names a job twice (`Distinct`, a hypothesis of the
theorems; the run `core_repeat_free` checks an instance of it, `core_any_policy` shows what
holds without it):

| Theorem | Statement |
|---|---|
| `DueEventsTaken` | `Spec => []DueEventsFirst` (any trace, any policy) |
| `EachRowStartsOnce` | `Spec => []StartsOnce` |
| `NoJobIsLost` | `Spec => []NoJobLost` |
| `QueueSeriesIsObserved` | `Spec => []QueueSeriesMatches` |
| `LoopImplementsLifecycle` | `Spec => LifecycleSpec`: the loop implements `JobLifecycle` |

To `LoopInvariant` it adds `StartsOnce`: no two starts are of one row, since a row stays in the
queue until the end of the tick that starts it, and what is left of the list names nothing
that this tick has started. A run is finished when it has as many completions as rows; with one
start per row these are all the rows (`FinishedRun`, counting an injection). For the queue series
the invariant is `SeriesSoFar`: every event time of the past has its row and no later row of the
same time is wrong, because at the end of a tick the queue is what was submitted and not started by
then (`PastIsPast`: nothing later can change that). For the
refinement `Phases` reads the phase of a row off the lists; the times that are due are the same
(`NextEventTicks`), a start is a start of a queued row, whose CPUs fit because the slots of the
running list and those of the running rows correspond one to one (`BusyCpusRunning`), and all
other steps are stutters, as what leaves the queue at the end of a tick has started.

The same module carries this to the built-in policies, for every set of policies and raw
traces: `PolicyRefinesLoop` (`PolicySpec => Spec`, as the trace of a run is one of
`Traces` by `PreparedAssumption` and each step of a run is a step of the loop), and
`PolicyRunsAreSound`, which concludes the five safety properties above.

It is also about the built-in policies themselves, in the loop, for every capacity, raw trace,
guard factor and set of policies:

| Theorem | Statement |
|---|---|
| `HeadsWaitForCpus` | `PolicySpec => []HeadWaitsForCpus`: no decision is skipped, no head waits for nothing, only what cannot run is given up |
| `PoliciesLoseNoJob` | `PolicySpec => []NoJobLost` |
| `PoliciesAreObserved` | `PolicySpec => []QueueSeriesMatches` |
| `PoliciesImplementLifecycle` | `PolicySpec => LifecycleSpec` |
| `HeadsStartAsReserved` | `PolicySpec => []HolPromiseKept`: a head starts at the time first reserved for it |

The second to fourth carry no hypothesis on what the policies answer: that no list names a job twice, which
the theorems before have to suppose of plug-ins (`Distinct`), is here proved of every policy. What remains is
`DistinctIds`: the rows of a trace have ids of their own, as the ids of a log do unless it is an array (section 5).
Assumptions: `PoliciesAssumption`, `MaxQueueAssumption`, `PreparedAssumption` and `PlannedAssumption`: what
`attach_runtime_estimates` leaves is a natural, and the trace run one job after the other ends before the
number that stands for never.

- Each policy answers with lists of queued rows, each once, that fit together in the free CPUs
  (`Answered`). For the EASY rule it follows from the last row picked, which fits in what the others leave
  (`PackingIs`, `EasyAnswers`). For an RL policy the last pick that is not masked does it (`RlAnswered`); for
  conservative backfill an induction over the rounds of the plan, whose reservations take their CPUs from the
  profile and nothing else (`RoundStep`, `ReserveTakes`): what starts at the clock fits together there (`CbfAnswers`).
- `AnswerFits` is the strengthening: before each decision of a tick the jobs not yet started fit together,
  and the first of those that are not named does not fit in what they leave.
- After a tick with nothing running all CPUs are free, so that what waits can never run (`IdleAnswer`, `EndTickServes`). This
  needs that a reservation at `NEVER_TS` is later than any gate, hence that times stay small: `TimesBounded` says
  that the clock and the ends of starts are below a bound that grows with each start.
- `PromiseInv` is why a reservation stands. It is the earliest time at which enough CPUs are free (`EarliestFor`,
  `ReservationIs`), so the one computed again is the one first given, if nothing started since ends later and the
  clock has not passed it. What is let past the head is over by then (`EasyHead`; a gate is no shorter than the
  run time), so each start of a tick keeps it (`StartKeeps`), and the next event is no later (`EventInTime`),
  because the reservation is itself the end of a running job. Only the head is promised a time, as rows arrive in
  order (`QueuedFirst`).

`ModelLifecycleProofs` is about the composition of registry, trainings, request and cleanup, for
**every** number of processes, models, quantiles, operations and trainings, with crashes anywhere:

| Theorem | Statement |
|---|---|
| `LifecycleInvariantHolds` | `Spec => []LifecycleInv` |
| `AtMostOneProduction` | `Spec => []OneProduction` |
| `CleanupsSpare` | `Spec => []CleanupSpares` |
| `WhatIsWrittenStands` | `Spec => []WritesStand` |
| `ServesWholeModels` | `Spec => []ServedIsWhole` |

Assumptions: `RegistryAssumption`, `RuntimeAssumption` and `LifecycleAssumption` say that the
installed models and those trained are among the model ids and that the walk visits model files
and the registry; TLC evaluates them in `model_lifecycle`. `LifecycleInv` has four parts:

- `RegistryInv`: not only the file but *whatever a process is about to write* has one production
  entry at most, and that is the first of its model (`Sole`). A process that read before
  another wrote replaces a sound list by a sound list, so that losing an update cannot make two
  models production; a torn append makes entries disappear, which keeps `Sole`.
- `FilesInv` and `ServedInv`: types of files and loads, and for each load what its hashes say of
  the files it has read and of the one it has verified (`Whole`). Whoever changes a file of a
  model disturbs the loads of that model (`DiskChange`, `Disturb`); a load that was not
  disturbed has read the hashes and files of one directory, so that what it serves is whole.
- `CleanupInv`: what the scan protects is what it found at its start, and none of it goes
  (`NoneGoes`), as deletions skip it and nothing else deletes.

`WritesStand` needs `StandInv` beside it. As long as operations did not overlap, one process at
most is inside (`Alone`), and what it read is still what the file holds (`Current`). `Tally` bounds
what crashes cost: the promised statuses the file no longer gives, plus one if its last line has no
newline, are at most the appends cut short. The line without a newline has to be counted before it
does harm, since only the next append spoils it; without that term the claim is not inductive.
A rewrite goes through a temporary file and costs nothing, a completed one even ends the last line.

`RustLoopProofs` is about the Rust loop, for **every** capacity, list of records, cap and mode:

| Theorem | Statement |
|---|---|
| `AllIsAccounted` | `RustSpec => []ResourcesAccounted` |
| `HeadsStartWhenPromised` | `RustSpec => []ShadowKept` |
| `OnlyTheImpossibleAreLeft` | `RustSpec => []StrandedNeverRuns` |
| `ReportsWhatAMeterReads` | `RustSpec => []ReportIsMetered` |

Assumption: `RustAssumption`. Capacities and requests are naturals (unsigned in the program), the
machine has a CPU, times may be any integers, a cap is no cap or a natural; `NEVER` is beyond all times.

- `RustInv`: an admitted job is queued, runs or is completed, in one place (`Places`); nothing that runs
  is overdue (`InTime`). Resources are counted by the units that holders have of a dimension (`Held`), so
  that taking and giving back are unions and differences of finite sets (`HeldUnion`,
  `HeldDifference`); that the scan may take what it lets start is an induction along the queue
  (`GreedyFits`, by the least job for which it fails).
- `ShadowInv` is why a promise is kept. Until its time the head does not fit and its shadow time *computed
  again* is the one first computed (`Expected`). A backfill keeps that: what it takes is back
  by then (`BackfillKeeps`). An event that ends jobs before then keeps it too (`EndingKeeps`), and the one
  that comes at the time brings enough (`EndingBrings`). Heads are not overtaken in the order of the
  queue (`HeadKept`).
- `WaitInv`: after a dispatch the head cannot start. With nothing running, all of the machine is left, so
  that what cannot start then never could (`IdleImpossible`). A first job that asks for no CPU
  has no reservation, and the code then starts nothing behind it, which is the exception in the statement.
- `MeterInv` is why the report is true. The program adds up at events, the statement adds up jobs and
  seconds; in between stands what holders have had so far: energy is what the completed have had plus what
  the running have had until now (`Metered`), and so are CPU seconds, which with the running included never
  exceed capacity times time (`Totalled`) - that the reported utilization is not cut at 1 follows only with
  them. Between two events the draw is constant (`LiveUntil`), so that the product the program adds is
  the sum of the seconds in between (`AreaAdvances`, `MeterReads`; `TotalLinear` for the sums). After
  the last end nothing is drawn (`QuietAfter`), so seconds the clock spent on later submissions do not count.
  The Python figures are over rows and the Rust ones over a set: `ByJobIs` numbers each completed job once,
  and equal sizes in another order sum alike. Percentiles agree because both engines take them of the same list.

`ProfileProofs` is about the availability profile, for every capacity, all running jobs and any number
of planned ones:

| Theorem | Statement |
|---|---|
| `ProfileAlwaysTimeline` | `Spec => []ProfileIsTimeline` |
| `WindowsAreEarliest` | `Spec => []EarliestWindow` |

Assumption: `ProfileAssumption`, which makes the compared times long enough for all plans; the running
jobs of a snapshot have no more than the capacity. A break-point changes no free count
(`BreakpointKeeps`), so that a reservation takes its CPUs from its start to its end and only then
(`ReserveTakes`). To look at events is to look at every moment (`WindowIs`). A window that starts between
events can be moved back to the event before (`WindowBefore`), which is why candidates at events are
enough, and there always is one: after `LastEnd` of the plans so far all CPUs are free, which
`ProfileInv` keeps beside the agreement of the two counts.

`ServiceProofs` is about the HTTP service, for any number of requests, kinds and threads:

| Theorem | Statement |
|---|---|
| `RateHolds` | `Spec => []WithinRate` |
| `CircuitIsWhatWasRecorded` | `Spec => []CircuitFollowsOutcomes` |

Assumptions: `ServiceAssumption` (positive pool and threshold, integer limits) and `RateAssumption`: a
bucket is stale no sooner than the window ends, as the code's 90 and 60 seconds are. `RateInv` says that
a bucket remembers every request admitted within the window, whatever was pruned (`Remembers`), and that
a bucket which was dropped had none. `CircuitInv`: the counter is the number of failures at the end of the
list of outcomes, in the order in which they were recorded.

The same module is about the parts that live across restarts, for every dump, number of loops,
failures and crashes, and every limit of memory:

| Theorem | Statement |
|---|---|
| `CommitsOnce` | `ShadowSpec => []RowsCommittedOnce` |
| `FeedbackStaysFaithful` | `FeedbackSpec => []FeedbackFaithful` |

Assumptions: a dump has finitely many rows (`ShadowAssumption`); the memory holds a record and the
warning threshold is not above the critical one (`FeedbackAssumption`). `ShadowInv`: as long as no
watermark was lost, the poll inside the lock goes by the watermark on disk, and both the file and the poll
in hand `Tell` of the committed files: disjoint, as many rows as counted, none above. `FeedbackInv`: memory
is the end of what was observed; the file has every record in its place up to the first line that was
cut, which is the last or is followed by one that cannot be read.

`PipelineProofs` is about the verdicts, what is recommended, and the Batsim path:

| Theorem | Statement |
|---|---|
| `RetriesDoNotPass` | `Spec => []NoPassByRetry` |
| `VerdictIsSound` | `Spec => []SuiteVerdictSound` |
| `DossierIsTheSummary` | `Spec => []DossierMatchesSummary` |
| `AdviceIsSound` | `Spec => []RecommendationSound` |
| `ReportIsFaithful` | `Spec => []NormalizedFaithful` |

Assumptions: `BenchAssumption` (a window of one run at least, rates that are naturals) and
`SuiteAssumption` (the traces of a suite are distinct). `BenchInv` has `FailsStill`: a run that failed would
fail now, unless a run of its profile passed since. A failing run adds a line that is no passing one,
so the median it is held against stays, whatever other profiles add. `CredInv` says of the suite that runs
which reports it has written of the trace it is at (`KindsBefore`) and that they are of one replay
(`Says`), that the profile is this run's once it is past that step (`ProfileIs`), and of each entry of a
summary that it `Stands`: it passed exactly when the reports of *that* suite are whole, and then the profile
is kept (`ProfileKept`). Reports of earlier suites are never those of this one, so they cannot help it. A
profile may be replaced, or lost by a step cut short, only while a later suite is at that trace
(`Carried`), so `ProfileStays`.

The other two are made in one step, and what is proved of them is what the computation gives for inputs of
any size. A stable sort is modelled by the place of each entry (`Sorted` in `ScheduleMetrics`), and `SortedIs` (in `SharedLemmas`)
shows that it permutes any sequence into the order of its keys; a sum is counted unit by unit (`TotalOf`), so
that parts add up (`TotalSplit`) and equal sizes elsewhere sum alike (`TotalMoved`). For
`RecommendationSound`: whoever beats another at all it is scored by has the higher score (`BeatsScores`), and
refused candidates are counted through the permutation. The frontier's loop passes over rivals it has marked;
it still finds all that are dominated, because whoever is dominated is dominated by a candidate that is not,
the one with the greatest sum (`BestRival`, `FrontierIs`). The inferred capacity is a running sum over starts
and ends: no partial sum is above what is in use at some time (`SumIsInUse`), what is in use at any time is in
use at some start (`PeakAtStart`), and the last start of a time has them all in its sum (`LastStart`). For
`NormalizedFaithful`: three sorts make one permutation (`ReportIs`); a row that runs at second t is a
job that runs at half second 2t + 1, and all that run then run when the last of them starts, so that they fit
(`ReportFits`). Assumptions: `FiguresAssumption` (figures are integers and a slowdown is one at least; times
of a schedule are integers) and `BatsimAssumption` (rows of integers with distinct ids).

`EnvironmentProofs` is about the Gymnasium environment, for every capacity, trace, window, limit of what
is shown and agent, whether it heeds the mask or not, and about the policy search, for every trace, set of
actions, decision interval and number of trials:

| Theorem | Statement |
|---|---|
| `AgentsAreAskedToAct` | `EnvSpec => []DecisionHasAction` |
| `TrialsCompare` | `SearchSpec => []TrialsComparable` |
| `ThresholdDecidesBackfill` | `SearchSpec => []BackfillByThreshold` |

Assumption: `EnvAssumption`. Rows are of any integers, which the constructor coerces; the windows have fewer
than half as many jobs as an advance has iterations (5,000 jobs in the code; beyond that an advance may give up and
ask an agent that can do nothing). `EnvInv` is over windows of distinct ids, for which what is dropped from
`running` by id is what was due (`DueOnly`):

- `EnvPlaces`, `EnvTimes`: a job that was admitted waits, runs or is complete, in one place, and did not start early.
- `EnvAccounts`: free CPUs and those of what runs are the capacity, as sums split over what ends and what goes
  on (`CpusSplit`); what was paid and what is to be paid is what is complete (`SlowdownsSplit`).
- `EnvAsked`: when the agent is asked, something fits or no event is left. With no event nothing runs, so
  that the machine is free and what does not fit never will.
- `EnvSteps`: each iteration admits or completes a job (`EventTaken`), so that there are no more of them than
  twice the jobs of the window (`StepsBounded`). Without it `EnvAsked` is not inductive, as an advance
  that gave up would ask too.

The policy search has `SearchAssumption`: jobs of at least one CPU and no negative runtime, and fractions with a
denominator. `SearchInv`:

- `SimInv`, of any environment. `SimQueue`: the queue is a line of admitted jobs, each once; `SimPlaces`: a record is of
  a job that is not in the queue, started no earlier than it was submitted, and ends no earlier than the clock
  if it runs; `SimAccounts`: free and held CPUs are the capacity, total time is the clock's, and the CPU time used is
  that of the records up to the clock. A pass leaves what its places do not take (`PassIs`: the places gone through
  in turn exist, `GreedyExists`); what is kept is what did not start, in a line (`KeptIs`), and a boost is a
  permutation (`BoostedIs`), so that the two passes start no job twice (`DispatchedInv`). When the clock moves by
  t, each record that runs has used t more of its CPUs, and none ends before (`NextIs`, `MovedInv`).
- What makes trials comparable: `ComesTo`, an environment is where a path of rounds leads from the reset
  on this trace under this action. A round is a function of the environment, so paths agree as far as they
  both go (`PathsAgree`) and are over at one place (`OneOutcome`). Each result is the figures of such a place
  (`Outcomes`). That a reset forgets everything is what `StartTrialInv` needs: a reset that kept usage would start on no such path.
- `BestSoFar`: the best is the first of the least; p95 slowdowns are integers (`ResultIs`), as `<` needs.

`BackfillByThreshold` follows from `SimInv`. At 0 the head is blocked and fits the machine, so something
runs, while the threshold wants all of it free (`NoneAtZero`, `NoneStarts`). A pass that wants nothing to be
left (`WantsNothing`: the first one behind a head that starts, the second one at threshold 1) leaves no job that
would fit, because it has passed each over with more CPUs free than are left (`NoneFits`, `NoneThatFits`).

`SharedLemmas` holds what these proofs share: least and greatest elements of sets of numbers, the CPUs
of a set of holders counted one by one, what the profile of a snapshot gives, sums over finite sets, the order a stable sort gives, and a set put in a sequence.

### Only model-checked

- Liveness (`Terminates`, `CompletesAll`, `EpisodesEnd`, `EveryRequestAnswered`, `NewRowsIngested`) and
  whatever needs ENABLED: outside TLAPS.
- What a fold or a recursive function computes for inputs of any length: `PreparedForLoop`,
  `HistoryIsCausal`, `RowsFaithful`, `TrainingDataSound`, and the
  plan of a whole queue, on which `CbfBoundKept` rests. `ContractParity` compares two programs whose sorts and walks are such
  functions.

## 5. Remarks on the code

Behaviour of the code that the models keep and a reader may not expect:

- *Ingestion*: job arrays lose their index; every user that is no number becomes user −1; PM100
  reads a missing run time as 0; a limit of `UNLIMITED` fails a whole Slurm sync; the PBS connector
  reads a walltime of four parts as 0, takes PBS times as UTC in whatever zone they were printed, one in
  neither of two forms as 0, and `mtime` as a job's end; a sync takes in no job and lists no error when `qstat` prints no
  JSON, which is only warned of (`pbs_connector.py:128-132`), or `sacct` only lines that begin with no number; the line at which `max_rows` stops is counted, not handled;
  the Rust SWF parser counts by the number of tokens only.
- *Features*: in small frames the last row is tested by several folds; the split of the runtime
  models tests six rows or fewer on validation rows.
- *Models*: an unreadable `metadata.json` means that no hash is verified and that no logarithm is
  inverted; a hash that differs is an error of the request (500); the cache is keyed by directory,
  so that a model trained again under its name is not loaded again; the service follows
  `runtime_latest.json`, not the production model of the registry, while cleanup protects the latter.
- *Shadow*: rows at or below the watermark that appear late are never ingested.
- *What-if*: jobs of no duration are not counted when the capacity is inferred, so one of them that is
  wider than the peak of the others ends the replay with an error (`whatif/engine.py:64`).
- *Batsim*: the run command looks for the source trace under `workload` (`cli/simulate.py:273`), where
  the run configuration never has it (`simulate/batsim.py:670` writes `inputs`), so the fidelity report
  of `src/docs/07-interfaces-cli-and-api.md:274` is not written.
- *Suite*: a job larger than the machine ends the suite without a summary; a different hash of a
  reference trace only warns; the verdict on a trace does not depend on the recommendation; a
  missing fidelity report counts as a passed gate; the dossier shows what an earlier suite left for
  a trace that ended in an error; reports are not written atomically; the trace profile is named after the
  trace alone (`trace_profile.py:102`), so that after a later suite the hash an older manifest has of it
  no longer matches (the quality and feature reports are so named too, and nothing in the suite reads them); the command line passes
  neither a regression configuration nor a trace profile.

Assumptions of the models: one training at a time; two suites do not start within one second (the
name of a run); raw traces do not change during a suite; the service has one event loop, so the
rate limiter is never called by two threads; no power cap of the Rust program is negative, although
its parser takes one; watts are integers (sums of floats drift, and are reset when the machine is idle).

## 6. Not modelled, and the plan

- The Batsim runner in Rust and `simulate/stress.py`: a process wrapper and random generation. Of
  `simulate/batsim.py`, platform files and paths are left out.
- `models/tuning.py`, resource fit, ensemble weights, drift, model cards, `rl/train`, observation
  vectors: numeric learning; no protocol, no state that another component reads but the files
  `RuntimeModels` has.
- Most of the command line, the inputs and wording of what-if, profiles, analysis, reference data, manifest and export formats: they call
  components above and print, or compute figures.
- `rust_bridge`: finds and starts a binary. Plug-in discovery imports foreign modules; what
  plug-ins may answer is in `core_any_policy`.
- JSON and argument parsing, logging, audit, configuration, secrets.

Left in the plan, in this order:

1. Strict FIFO starts rows in order.
2. An atomic registry as an abstract specification, which non-overlapping operations implement.
