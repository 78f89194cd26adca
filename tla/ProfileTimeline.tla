-------------------------- MODULE ProfileTimeline --------------------------
(***************************************************************************)
(* The availability profile against what it stands for: the number of free *)
(* CPUs at every single time.  A behaviour builds a profile from a         *)
(* snapshot and then plans jobs on it one after another, the way           *)
(* choose_conservative_backfill does; timeline is the free count kept time *)
(* by time.                                                                *)
(***************************************************************************)
EXTENDS AvailabilityProfile

CONSTANTS
  Capacity,
  RunningIds,  \* jobs that may run when the profile is built
  MaxEnd,      \* running jobs end by MaxEnd
  MaxRuntime,  \* planned jobs run for 1..MaxRuntime
  MaxPlanned,  \* jobs planned on one profile
  Horizon      \* times 0..Horizon are compared

ASSUME ProfileAssumption ==
  /\ Capacity \in Nat \ {0} /\ IsFiniteSet(RunningIds)
  /\ MaxEnd \in Nat \ {0} /\ MaxRuntime \in Nat \ {0}
  /\ MaxPlanned \in Nat /\ Horizon \in Nat
  /\ MaxEnd + (MaxPlanned + 1) * MaxRuntime <= Horizon

VARIABLES prof, timeline, planned

vars == <<prof, timeline, planned>>

Times == 0..Horizon
Clock == 1

(* Jobs that run at Clock, some of them overdue.                           *)
RunningOf(ids) ==
  {{[job_id |-> i, end_ts |-> ends[i], allocated_cpus |-> cpus[i]] : i \in ids} :
     ends \in [ids -> 0..MaxEnd], cpus \in [ids -> 1..Capacity]}
RunningSets ==
  {jobsRunning \in UNION {RunningOf(ids) : ids \in SUBSET RunningIds} :
     AllocatedCpus(jobsRunning) <= Capacity}

(* Before Clock, and while it has not ended, a job holds its CPUs.         *)
Init ==
  \E jobsRunning \in RunningSets :
    /\ prof = FromSnapshot(Clock, Capacity - AllocatedCpus(jobsRunning), jobsRunning)
    /\ timeline = [t \in Times |->
         Capacity - AllocatedCpus({rj \in jobsRunning : t < Clock \/ rj.end_ts > t})]
    /\ planned = 0

(* One queued job is planned: the earliest window is found and reserved.   *)
PlanJob(req, runtime) ==
  LET start == FindEarliestWindow(prof, req, runtime, Clock)
  IN  /\ planned < MaxPlanned
      /\ prof' = Reserve(prof, start, runtime, req)
      /\ timeline' = [t \in Times |->
           IF start <= t /\ t < start + runtime THEN timeline[t] - req ELSE timeline[t]]
      /\ planned' = planned + 1

Next == \E req \in 1..Capacity, runtime \in 1..MaxRuntime : PlanJob(req, runtime)

Spec == Init /\ [][Next]_vars

-----------------------------------------------------------------------------

(* free_at agrees with the free count at every time, through any sequence  *)
(* of reservations that split and merge intervals, and reservations made   *)
(* at the windows found never oversubscribe a moment.                      *)
ProfileIsTimeline ==
  \A t \in Times : FreeAt(prof, t) = timeline[t] /\ timeline[t] \in 0..Capacity

FitsThroughout(req, runtime, start) ==
  \A t \in start..(start + runtime - 1) : timeline[t] >= req

(* find_earliest_window tries the event times only; still no earlier start *)
(* has the CPUs free for the whole runtime, and its own answer has.        *)
EarliestWindow == \A req \in 1..Capacity, runtime \in 1..MaxRuntime :
  LET start == FindEarliestWindow(prof, req, runtime, Clock)
  IN  /\ start \in Times
      /\ start + runtime - 1 <= Horizon => FitsThroughout(req, runtime, start)
      /\ \A t \in Clock..(start - 1) : ~ FitsThroughout(req, runtime, t)
=============================================================================
