-------------------------- MODULE AdapterContract ---------------------------
(***************************************************************************)
(* The second implementation of the adapter contract: bin/adapter_contract *)
(* of the Rust runner, which answers a snapshot under three policies.      *)
(*                                                                         *)
(* A decision is [job_id, runtime, completion]; reasons are left out.  The *)
(* optional runtimes of a queued job are given in every snapshot the loop  *)
(* makes; unwrap_or passes over a missing one, not over a 0.               *)
(***************************************************************************)
EXTENDS Dispatchers, SequencesExt

(* normalize_snapshot refuses a snapshot or sorts its jobs.                *)
Refused(snap) == snap.capacity_cpus = 0 \/ snap.free_cpus > snap.capacity_cpus

NormalizedQueue(snap) ==
  LET rows == SetToSortSeq(DOMAIN snap.queued_jobs, <)
  IN  SortSeq([i \in DOMAIN rows |-> snap.queued_jobs[rows[i]]], SubmitBefore)
NormalizedRunning(snap) ==
  SetToSortSeq(snap.running_jobs,
               LAMBDA a, b : a.end_ts < b.end_ts \/ (a.end_ts = b.end_ts /\ a.job_id < b.job_id))

(* reservation_ts_for_hol walks the running jobs in the order they end.    *)
ReservationTsForHol(snap, hol) ==
  LET walk == FoldLeft(LAMBDA acc, r :
                 IF acc.free >= hol.requested_cpus THEN acc
                 ELSE [free |-> acc.free + r.allocated_cpus, ts |-> LaterOf(snap.clock_ts, r.end_ts)],
               [free |-> snap.free_cpus, ts |-> snap.clock_ts], NormalizedRunning(snap))
  IN  IF hol.requested_cpus > snap.capacity_cpus \/ walk.free < hol.requested_cpus
      THEN NEVER_TS ELSE walk.ts

Dispatch(snap, job, runtime) ==
  [job_id |-> job.job_id, runtime |-> runtime, completion |-> snap.clock_ts + runtime]

FifoDecisions(snap) ==
  FoldLeft(LAMBDA acc, job :
             IF acc.blocked \/ job.requested_cpus = 0 THEN acc
             ELSE IF job.requested_cpus > acc.available THEN [acc EXCEPT !.blocked = TRUE]
             ELSE [acc EXCEPT !.available = @ - job.requested_cpus,
                              !.decisions = Append(@, Dispatch(snap, job, job.runtime_estimate_sec))],
           [available |-> snap.free_cpus, decisions |-> <<>>, blocked |-> FALSE],
           NormalizedQueue(snap)).decisions

(* The two loops choose_easy and choose_ml have behind the head.           *)
Followers(snap, jobs, available) ==
  FoldLeft(LAMBDA acc, job :
             IF job.requested_cpus \in 1..acc.available
             THEN [available |-> acc.available - job.requested_cpus,
                   decisions |-> Append(acc.decisions, Dispatch(snap, job, job.runtime_estimate_sec))]
             ELSE acc,
           [available |-> available, decisions |-> <<>>], jobs).decisions

Backfills(snap, jobs, gate, reservation_ts) ==
  FoldLeft(LAMBDA acc, job :
             IF job.requested_cpus \in 1..acc.available /\ snap.clock_ts + gate[job] <= reservation_ts
             THEN [available |-> acc.available - job.requested_cpus,
                   decisions |-> Append(acc.decisions, Dispatch(snap, job, gate[job]))]
             ELSE acc,
           [available |-> snap.free_cpus, decisions |-> <<>>], jobs).decisions

EasyReport(snap, gate) ==
  LET queue == NormalizedQueue(snap)
      hol   == Head(queue)
      reservation_ts == ReservationTsForHol(snap, hol)
  IN  IF queue = <<>> THEN [reservation_ts |-> NEVER_TS, decisions |-> <<>>]
      ELSE [reservation_ts |-> reservation_ts,
            decisions |->
              IF hol.requested_cpus \in 1..snap.free_cpus
              THEN <<Dispatch(snap, hol, hol.runtime_estimate_sec)>>
                   \o Followers(snap, Tail(queue), snap.free_cpus - hol.requested_cpus)
              ELSE Backfills(snap, Tail(queue), gate, reservation_ts)]

(* The two gates of choose_ml.                                             *)
Bug_GateAlwaysGuard(job, strict) == job.runtime_guard_sec
ContractGate(job, strict) == IF strict THEN job.runtime_p90_sec ELSE job.runtime_guard_sec

(* The runtime gates of the jobs, by the job as this program reads it.     *)
Gates(snap, Gate(_)) == [job \in Range(snap.queued_jobs) |-> Gate(job)]

ContractReport(policy, strict, snap) ==
  CASE policy = "FIFO_STRICT" -> [reservation_ts |-> NEVER_TS, decisions |-> FifoDecisions(snap)]
    [] policy = "EASY_BACKFILL_BASELINE" ->
         EasyReport(snap, Gates(snap, LAMBDA job : job.runtime_estimate_sec))
    [] policy = "ML_BACKFILL_P50" ->
         EasyReport(snap, Gates(snap, LAMBDA job : ContractGate(job, strict)))

(* The same report by the reference policies: there is one.                *)
ReferenceReports(policy, strict, snap) ==
  LET queue  == snap.queued_jobs
      hol    == queue[FirstIn(DOMAIN queue, Fifo(queue))]
      chosen == CASE policy = "FIFO_STRICT" -> ChooseFifoStrict(snap)
                  [] policy = "EASY_BACKFILL_BASELINE" -> ChooseEasyBackfill(snap)
                  [] policy = "ML_BACKFILL_P50" -> ChooseMlBackfill(snap, strict)
      past_head == policy = "ML_BACKFILL_P50" /\ hol.requested_cpus > snap.free_cpus
  IN  {[reservation_ts |-> IF policy = "FIFO_STRICT" \/ DOMAIN queue = {} THEN NEVER_TS
                           ELSE ReservationTs(snap, hol.requested_cpus),
        decisions |-> [i \in DOMAIN list |->
          Dispatch(snap, queue[list[i]], IF past_head THEN MlGate(queue[list[i]], strict)
                                         ELSE queue[list[i]].runtime_estimate_sec)]] :
         list \in chosen}
=============================================================================
