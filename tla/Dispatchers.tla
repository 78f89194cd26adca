---------------------------- MODULE Dispatchers -----------------------------
(***************************************************************************)
(* The built-in scheduling policies: pure functions from a snapshot of the *)
(* cluster to the list of jobs to start now (simulate/adapter.py, the      *)
(* bundled plug-in plugins/uarp.py, rl/inference.py).                      *)
(*                                                                         *)
(* A snapshot is a record [clock_ts, capacity_cpus, free_cpus,             *)
(* queued_jobs, running_jobs].  queued_jobs gives the jobs by their rows:  *)
(* the list of the code is in the order of the rows.  running_jobs is a    *)
(* set: the code walks it in the order of end_ts, adding up what is        *)
(* released, which is ReleasedBy.                                          *)
(*                                                                         *)
(* A sorted queue is the order of its rows, a set of pairs.  The loops     *)
(* that walk it and take what fits in what is left are stated by what they *)
(* have taken in the end: the set of rows picked, listed in that order.    *)
(***************************************************************************)
EXTENDS AvailabilityProfile, Sequences

CONSTANT MaxQueueSize   \* MAX_QUEUE_SIZE: jobs an RL model is shown

ASSUME MaxQueueAssumption == MaxQueueSize \in Nat \ {0}

SubmitBefore(a, b) ==
  a.submit_ts < b.submit_ts \/ (a.submit_ts = b.submit_ts /\ a.job_id < b.job_id)

(* By (key, submit_ts, job_id); sorted() leaves equals as they were.       *)
Precedes(queue, key, i, j) ==
  \/ key[i] < key[j]
  \/ /\ key[i] = key[j]
     /\ \/ SubmitBefore(queue[i], queue[j])
        \/ ~ SubmitBefore(queue[j], queue[i]) /\ i < j

Pairs(queue) == (DOMAIN queue) \X (DOMAIN queue)

SortedBy(queue, key) ==
  {ij \in Pairs(queue) : Precedes(queue, key, ij[1], ij[2])}

NoKey(queue) == [r \in DOMAIN queue |-> 0]
Fifo(queue) == SortedBy(queue, NoKey(queue))

(* queued_jobs as it is.                                                   *)
AsQueued(queue) == {ij \in Pairs(queue) : ij[1] < ij[2]}

FirstIn(rows, order) == CHOOSE r \in rows : \A q \in rows \ {r} : <<r, q>> \in order
Before(rows, order, r) == {q \in rows : <<q, r>> \in order}

(* The lists of a set of rows in an order: there is one.                   *)
Lists(rows, order) ==
  {list \in [1..Cardinality(rows) -> rows] :
     \A i, j \in DOMAIN list : i < j => <<list[i], list[j]>> \in order}

(* The CPUs a set of rows asks for, counted one by one.                    *)
Demand(rows, queue) == Cardinality(UNION {{r} \X (1..queue[r].requested_cpus) : r \in rows})

Bug_ReservationLastEnd(snap, requested) ==
  IF requested > snap.capacity_cpus THEN NEVER_TS
  ELSE IF requested <= snap.free_cpus \/ snap.running_jobs = {} THEN snap.clock_ts
  ELSE Max({rj.end_ts : rj \in snap.running_jobs})

(* _reservation_ts_for_hol, and earliest_start_for of the plug-in API: the *)
(* earliest time at which the request fits, counting what is running.      *)
ReservationTs(snap, requested) ==
  LET enough == {rj \in snap.running_jobs :
        snap.free_cpus + ReleasedBy(snap.running_jobs, rj.end_ts) >= requested}
  IN  IF requested > snap.capacity_cpus THEN NEVER_TS
      ELSE IF requested <= snap.free_cpus THEN snap.clock_ts
      ELSE IF enough = {} THEN NEVER_TS
      ELSE LaterOf(snap.clock_ts, Min({rj.end_ts : rj \in enough}))

(* Of the rows behind the head, those a walk in order picks: each admitted *)
(* row that fits in what the picks before it leave.  There is one such set.*)
Packings(queue, order, rows, available, admitted) ==
  {picks \in SUBSET rows : \A r \in rows :
     r \in picks <=>
       /\ r \in admitted
       /\ queue[r].requested_cpus \in 1..(available - Demand(Before(picks, order, r), queue))}

-----------------------------------------------------------------------------

Bug_FifoStrictlyLess(snap) ==
  LET queue == snap.queued_jobs
  IN  Lists({r \in DOMAIN queue : Demand({q \in DOMAIN queue : q <= r}, queue) < snap.free_cpus},
            AsQueued(queue))

(* choose_fifo_strict: the rows that fit together with all before them.    *)
ChooseFifoStrict(snap) ==
  LET queue == snap.queued_jobs
  IN  Lists({r \in DOMAIN queue : Demand({q \in DOMAIN queue : q <= r}, queue) <= snap.free_cpus},
            AsQueued(queue))

(* The EASY rule: a head that fits starts, and everything behind it that   *)
(* fits follows; behind a head that waits, a job may only fill the gap if  *)
(* by its gate runtime it is over when the head's reservation begins.      *)
EasyPicks(snap, order, gate) ==
  LET queue == snap.queued_jobs
      head  == FirstIn(DOMAIN queue, order)
      tail  == DOMAIN queue \ {head}
      size  == queue[head].requested_cpus
      brief == {r \in tail : snap.clock_ts + gate[r] <= ReservationTs(snap, size)}
  IN  IF DOMAIN queue = {} THEN {{}}
      ELSE IF size \in 1..snap.free_cpus
      THEN {{head} \cup picks : picks \in Packings(queue, order, tail, snap.free_cpus - size, tail)}
      ELSE Packings(queue, order, tail, snap.free_cpus, brief)

EasyRule(snap, order, gate) == UNION {Lists(picks, order) : picks \in EasyPicks(snap, order, gate)}

(* The runtimes of the jobs in a queue, by row.                            *)
Estimates(queue) == [r \in DOMAIN queue |-> queue[r].runtime_estimate_sec]
Guards(queue) == [r \in DOMAIN queue |-> queue[r].runtime_guard_sec]
Longest(queue) == [r \in DOMAIN queue |-> 0 - queue[r].runtime_estimate_sec]

(* choose_easy_backfill, choose_sjf_backfill, choose_ljf_backfill          *)
ChooseEasyBackfill(snap) == EasyRule(snap, Fifo(snap.queued_jobs), Estimates(snap.queued_jobs))

Bug_SjfUnsorted(snap) == EasyRule(snap, Fifo(snap.queued_jobs), Estimates(snap.queued_jobs))

ChooseSjfBackfill(snap) ==
  EasyRule(snap, SortedBy(snap.queued_jobs, Estimates(snap.queued_jobs)), Estimates(snap.queued_jobs))

ChooseLjfBackfill(snap) ==
  EasyRule(snap, SortedBy(snap.queued_jobs, Longest(snap.queued_jobs)), Estimates(snap.queued_jobs))

(* choose_fairshare_backfill: the highest score goes first.                *)
Deprioritized(queue) == [r \in DOMAIN queue |-> 0 - queue[r].priority_score]

ChooseFairshareBackfill(snap) ==
  EasyRule(snap, SortedBy(snap.queued_jobs, Deprioritized(snap.queued_jobs)),
           Estimates(snap.queued_jobs))

(* a or b: 0 is false in Python.                                           *)
OrElse(a, b) == IF a # 0 THEN a ELSE b

MlGate(job, strict_uncertainty) ==
  LET guarded == OrElse(job.runtime_guard_sec, job.runtime_estimate_sec)
  IN  IF strict_uncertainty THEN OrElse(job.runtime_p90_sec, guarded) ELSE guarded

ChooseMlBackfill(snap, strict_uncertainty) ==
  EasyRule(snap, Fifo(snap.queued_jobs),
           [r \in DOMAIN snap.queued_jobs |-> MlGate(snap.queued_jobs[r], strict_uncertainty)])

(* choose_uarp_backfill: behind the head, the shortest guard goes first.   *)
UarpOrder(queue) ==
  LET head == FirstIn(DOMAIN queue, Fifo(queue))
  IN  {ij \in Pairs(queue) :
         ij[2] # head /\ (ij[1] = head \/ ij \in SortedBy(queue, Guards(queue)))}

ChooseUarpBackfill(snap) ==
  EasyRule(snap, UarpOrder(snap.queued_jobs), Guards(snap.queued_jobs))

-----------------------------------------------------------------------------

Bug_PlanNotReserved(profile, job, clock_ts) ==
  LET start == FindEarliestWindow(profile, job.requested_cpus,
                                  LaterOf(1, job.runtime_estimate_sec), clock_ts)
  IN  [profile |-> profile, start |-> start]

(* One round of the loop of choose_conservative_backfill: reserve the      *)
(* earliest window of the job, which no job planned later may take.        *)
PlanJobOn(profile, job, clock_ts) ==
  LET runtime == LaterOf(1, job.runtime_estimate_sec)
      start == FindEarliestWindow(profile, job.requested_cpus, runtime, clock_ts)
  IN  [profile |-> Reserve(profile, start, runtime, job.requested_cpus), start |-> start]

(* A job that can never fit has no reservation; the others are planned in  *)
(* the order of the queue.                                                 *)
PlannedLists(snap) ==
  Lists({r \in DOMAIN snap.queued_jobs : snap.queued_jobs[r].requested_cpus \in 1..snap.capacity_cpus},
        Fifo(snap.queued_jobs))

(* The rounds over a list: of each the profile it leaves and its start.    *)
ConservativePlan(snap, list) ==
  LET plan[n \in 0..Len(list)] ==
        IF n = 0
        THEN [profile |-> FromSnapshot(snap.clock_ts, snap.free_cpus, snap.running_jobs),
              start |-> snap.clock_ts]
        ELSE PlanJobOn(plan[n - 1].profile, snap.queued_jobs[list[n]], snap.clock_ts)
  IN  plan

StartingNow(snap, list) ==
  {list[n] : n \in {n \in 1..Len(list) : ConservativePlan(snap, list)[n].start = snap.clock_ts}}

ChooseConservativeBackfill(snap) ==
  UNION {Lists(StartingNow(snap, list), Fifo(snap.queued_jobs)) : list \in PlannedLists(snap)}

-----------------------------------------------------------------------------

(* What the mask leaves an RL model to choose from when rows are taken.    *)
Pickable(snap, taken) ==
  LET queue == snap.queued_jobs
      rest  == {r \in DOMAIN queue : \A q \in taken : queue[r].job_id # queue[q].job_id}
  IN  {r \in rest : /\ Cardinality(Before(rest, Fifo(queue), r)) < MaxQueueSize
                    /\ queue[r].requested_cpus <= snap.free_cpus - Demand(taken, queue)}

Firsts(list, n) == {list[i] : i \in 1..n}

(* choose_rl_trained: the model (external) picks among what the mask       *)
(* leaves until nothing is left; every such list may be its answer.  The   *)
(* loop would also stop at a masked pick: MaskablePPO makes none.          *)
RlAnswers(snap) ==
  {list \in UNION {[1..n -> DOMAIN snap.queued_jobs] : n \in 0..Cardinality(DOMAIN snap.queued_jobs)} :
     /\ \A i \in DOMAIN list : list[i] \in Pickable(snap, Firsts(list, i - 1))
     /\ Pickable(snap, Firsts(list, Len(list))) = {}}

BuiltInPolicies == {"FIFO_STRICT", "EASY_BACKFILL_BASELINE", "SJF_BACKFILL", "LJF_BACKFILL",
                    "CONSERVATIVE_BACKFILL_BASELINE", "ML_BACKFILL_P50", "ML_BACKFILL_P10",
                    "UARP_BACKFILL", "RL_TRAINED", "EASY_BACKFILL_TSAFRIR", "FAIRSHARE_BACKFILL"}

(* choose_decisions: what a policy may answer.  RL_TRAINED answers as FIFO *)
(* when no model is loaded; Tsafrir's is EASY on other estimates.          *)
Answers(policy, strict_uncertainty, snap) ==
  CASE policy = "FIFO_STRICT"            -> ChooseFifoStrict(snap)
    [] policy \in {"EASY_BACKFILL_BASELINE", "EASY_BACKFILL_TSAFRIR"} -> ChooseEasyBackfill(snap)
    [] policy = "FAIRSHARE_BACKFILL"     -> ChooseFairshareBackfill(snap)
    [] policy = "SJF_BACKFILL"           -> ChooseSjfBackfill(snap)
    [] policy = "LJF_BACKFILL"           -> ChooseLjfBackfill(snap)
    [] policy = "CONSERVATIVE_BACKFILL_BASELINE" -> ChooseConservativeBackfill(snap)
    [] policy \in {"ML_BACKFILL_P50", "ML_BACKFILL_P10"} -> ChooseMlBackfill(snap, strict_uncertainty)
    [] policy = "UARP_BACKFILL"          -> ChooseUarpBackfill(snap)
    [] policy = "RL_TRAINED"             -> RlAnswers(snap) \cup ChooseFifoStrict(snap)

ChooseDecisions(policy, strict_uncertainty, snap) ==
  {[i \in 1..Len(list) |-> snap.queued_jobs[list[i]].job_id] :
     list \in Answers(policy, strict_uncertainty, snap)}
=============================================================================
