----------------------------- MODULE SimPolicy ------------------------------
(***************************************************************************)
(* A simulation run: the loop of SimCore, fed by a prepared trace and      *)
(* driven by one of the built-in policies (run_simulation_from_trace with  *)
(* attach_runtime_estimates and choose_decisions).                         *)
(*                                                                         *)
(* promise records what the policy said of the future: the first           *)
(* reservation it gave to each row.  The code recomputes reservations at   *)
(* every tick and keeps none; promise is history.                          *)
(***************************************************************************)
EXTENDS SimCore, AdapterContract

CONSTANTS
  Policies,    \* policies of the runs
  RawTraces,   \* raw traces
  GuardK,      \* runtime_guard_k, a record [num, den]
  Missing

INSTANCE TraceInput

ASSUME PoliciesAssumption == Policies \subseteq BuiltInPolicies

(* What attach_runtime_estimates guarantees of a trace.                    *)
IsPlanned(job) ==
  /\ job.runtime_estimate_sec \in Nat
  /\ job.runtime_guard_sec \in Nat
  /\ job.runtime_p90_sec \in Nat
  /\ job.priority_score \in Int

(* The jobs of a trace one after the other, each for the longest of all    *)
(* the runtimes there are, and once more, end before the time taken for    *)
(* never.                                                                  *)
LongestOf(t) ==
  Max(UNION {{t[r].runtime_actual_sec, t[r].runtime_estimate_sec, t[r].runtime_guard_sec,
              t[r].runtime_p90_sec} : r \in DOMAIN t})
EndsBeforeNever(t) == t[Len(t)].submit_ts + (Len(t) + 1) * LongestOf(t) < NEVER_TS

ASSUME PlannedAssumption ==
  \A t \in Traces : EndsBeforeNever(t) /\ \A r \in DOMAIN t : IsPlanned(t[r])

VARIABLES
  policy,
  strict_uncertainty,   \* strict_uncertainty_mode
  promise               \* promise[r]: first reservation of row r, if it had one

policyVars == <<policy, strict_uncertainty, promise>>

Prepared(raw, p) == AttachEstimates(CoerceTrace(raw), p, GuardK)

ASSUME PreparedAssumption ==
  {Prepared(raw, p) : raw \in RawTraces, p \in Policies} \subseteq Traces

PolicyInit ==
  /\ policy \in Policies
  /\ strict_uncertainty \in (IF policy \in MlPolicies THEN BOOLEAN ELSE {FALSE})
  /\ promise = <<>>
  /\ \E raw \in RawTraces : jobs = Prepared(raw, policy)
  /\ StartRun

RunningJobs ==
  {[job_id |-> StartId(s), end_ts |-> starts[s].end_ts,
    allocated_cpus |-> starts[s].requested_cpus] : s \in running}

(* SchedulerStateSnapshot of the loop.                                     *)
Snapshot ==
  [clock_ts |-> clock_ts,
   capacity_cpus |-> Capacity,
   free_cpus |-> free_cpus,
   queued_jobs |-> [r \in queue |-> jobs[r]],
   running_jobs |-> RunningJobs]

EasyFamily == {"EASY_BACKFILL_BASELINE", "EASY_BACKFILL_TSAFRIR", "ML_BACKFILL_P50", "ML_BACKFILL_P10", "UARP_BACKFILL"}

(* The reservations of this tick, by row.  EASY reserves for the head of   *)
(* the queue, conservative backfill for every job.                         *)
Reservations(snap) ==
  IF queue = {} THEN <<>>
  ELSE IF policy \in EasyFamily
  THEN [r \in {Min(queue)} |-> ReservationTs(snap, jobs[r].requested_cpus)]
  ELSE IF policy = "CONSERVATIVE_BACKFILL_BASELINE"
  THEN LET list == CHOOSE list \in PlannedLists(snap) : TRUE
           plan == ConservativePlan(snap, list)
       IN  [r \in Range(list) |-> plan[CHOOSE n \in DOMAIN list : list[n] = r].start]
  ELSE <<>>

(* What was said first stands.                                             *)
FirstOf(known, new) ==
  [r \in DOMAIN known \cup DOMAIN new |-> IF r \in DOMAIN known THEN known[r] ELSE new[r]]

PolicyDecide ==
  /\ pc = "decide"
  /\ \E snap \in {Snapshot} :
       /\ decision' \in ChooseDecisions(policy, strict_uncertainty, snap)
       /\ promise' = FirstOf(promise, Reservations(snap))
  /\ ReceiveDecision
  /\ UNCHANGED <<policy, strict_uncertainty>>

LoopStep == pc # "decide" /\ Next /\ UNCHANGED policyVars

PolicyNext == PolicyDecide \/ LoopStep

PolicySpec == PolicyInit /\ [][PolicyNext]_<<vars, policyVars>>

(* Nothing but the steps of the run can hold it up: the chooser returns    *)
(* and the loop goes on.                                                   *)
FairPolicySpec ==
  /\ PolicySpec
  /\ WF_pc(pc = "decide" /\ pc' = "apply")
  /\ WF_<<vars, policyVars>>(LoopStep)

-----------------------------------------------------------------------------
(* Properties.                                                             *)

Oversize(r) == jobs[r].requested_cpus > Capacity

(* The engine never has to skip a decision of a built-in policy: each list *)
(* names queued jobs, once, that fit together in the CPUs free.            *)
NoDecisionSkipped == pc = "apply" /\ pos <= Len(decision) =>
  /\ decision[pos] \in QueuedIds
  /\ decision[pos] \notin dispatched_ids
  /\ Fits(jobs[QueueById(decision[pos])])

(* The order in which the policy of the run serves its queue.              *)
ServiceOrder(waiting) ==
  CASE policy = "SJF_BACKFILL" -> SortedBy(waiting, Estimates(waiting))
    [] policy = "LJF_BACKFILL" -> SortedBy(waiting, Longest(waiting))
    [] policy = "FAIRSHARE_BACKFILL" -> SortedBy(waiting, Deprioritized(waiting))
    [] OTHER -> Fifo(waiting)

(* When a tick ends, the job the policy puts first is waiting for CPUs, or *)
(* can never run: no policy leaves CPUs idle that its own head could use.  *)
HeadServed == pc \in {"loop", "stuck"} /\ queue # {} =>
  jobs[FirstIn(queue, ServiceOrder(Snapshot.queued_jobs))].requested_cpus > free_cpus

(* What a policy cannot help waiting: the head of the queue blocks         *)
(* everything behind it under strict FIFO, the jobs an RL model is shown   *)
(* hide what waits behind them, and every other policy runs all it can.    *)
OversizeLeft ==
  LET shown == {r \in queue : Cardinality({q \in queue : q <= r}) <= MaxQueueSize}
  IN  CASE policy = "FIFO_STRICT" -> Oversize(Min(queue))
        [] policy = "RL_TRAINED"  -> Oversize(Min(queue)) \/ \A r \in shown : Oversize(r)
        [] OTHER -> \A r \in queue : Oversize(r)

(* A run is abandoned only over jobs larger than the machine.              *)
StuckOnlyOversize == pc = "stuck" => OversizeLeft

(* A policy gives what it may give: its decisions are all carried out, its *)
(* head waits only for CPUs, and it never gives up on a job it could run.  *)
HeadWaitsForCpus == NoDecisionSkipped /\ HeadServed /\ StuckOnlyOversize

(* The two implementations of the adapter contract answer every snapshot   *)
(* of a run alike, whichever policy led to it: the same jobs in the same   *)
(* order against the same reservation, and with the same completions too   *)
(* when no job has a runtime of 0, which `or` passes over in one of them.  *)
ContractParity == pc = "decide" =>
  \A contract \in {"FIFO_STRICT", "EASY_BACKFILL_BASELINE", "ML_BACKFILL_P50"}, is_strict \in BOOLEAN :
    LET there == ContractReport(contract, is_strict, Snapshot)
        Names(report) == [i \in DOMAIN report.decisions |-> report.decisions[i].job_id]
    IN  /\ ~ Refused(Snapshot)
        /\ \E here \in ReferenceReports(contract, is_strict, Snapshot) :
             /\ here.reservation_ts = there.reservation_ts
             /\ Names(here) = Names(there)
             /\ (\A r \in queue : jobs[r].runtime_p90_sec > 0) => here = there

(* The runtime a policy takes a job to hold its CPUs for when it decides   *)
(* whether to let it past the head.                                        *)
GateRuntime(job) ==
  CASE policy = "UARP_BACKFILL" -> job.runtime_guard_sec
    [] policy \in {"ML_BACKFILL_P50", "ML_BACKFILL_P10"} -> MlGate(job, strict_uncertainty)
    [] OTHER -> job.runtime_estimate_sec

NoJobOutrunsItsGate == \A r \in Rows : GateRuntime(jobs[r]) >= jobs[r].runtime_actual_sec
EstimatesExact == \A r \in Rows : LaterOf(1, jobs[r].runtime_estimate_sec) = jobs[r].runtime_actual_sec

(* Under the EASY family, when no gate runtime is below the real one, the  *)
(* first reservation of a job that came to the head of the queue is the    *)
(* very time it starts: no job let past it delays it, and the reservation  *)
(* was not pessimistic.                                                    *)
HolPromiseKept == policy \in EasyFamily /\ NoJobOutrunsItsGate =>
  /\ \A s \in DOMAIN starts : starts[s].row \in DOMAIN promise =>
       starts[s].start_ts = promise[starts[s].row]
  /\ \A r \in queue \cap DOMAIN promise : pc \in {"loop", "stuck"} => clock_ts < promise[r]

(* What the docstring of choose_conservative_backfill promises: no job     *)
(* starts later than the first reservation it was given, on the tick it    *)
(* was submitted.                                                          *)
WorstCaseKnown == policy = "CONSERVATIVE_BACKFILL_BASELINE" =>
  /\ \A s \in DOMAIN starts : starts[s].start_ts <= promise[starts[s].row]
  /\ \A r \in queue \cap DOMAIN promise : pc \in {"loop", "stuck"} => clock_ts < promise[r]

(* It is so when estimates are exact, though the plan is made anew at      *)
(* every tick and jobs submitted later are planned with the others.        *)
CbfBoundKept == EstimatesExact => WorstCaseKnown

(* With every job small enough for the machine, every job is run.          *)
CompletesAll == (\A r \in Rows : ~ Oversize(r)) =>
  <>(pc = "finished" /\ {starts[s].row : s \in completed} = Rows)
=============================================================================
