---------------------------- MODULE JobLifecycle ----------------------------
(***************************************************************************)
(* What the replay promises of every job, whatever the policy: the state   *)
(* transitions of the policy contract (design_docs/policy_spec_baselines   *)
(* _mvp.md, 2.2 to 2.4), as the loop of simulate/core.py carries them out. *)
(* Each row of the trace waits for its submit time, is queued, starts once *)
(* when it fits, holds its CPUs for exactly its actual runtime and         *)
(* completes.  No loop, no lists, no decision: SimCore implements this.    *)
(***************************************************************************)
EXTENDS Integers, Sequences, FiniteSets

CONSTANTS
  Capacity,
  Traces

VARIABLES
  jobs,     \* the trace
  now,
  phase,    \* phase[r] of row r
  started   \* started[r]: start time of row r, once it has started

vars == <<jobs, now, phase, started>>

Rows == 1..Len(jobs)
In(p) == {r \in Rows : phase[r] = p}
EndOf(r) == started[r] + jobs[r].runtime_actual_sec

BusyCpus ==
  Cardinality(UNION {{r} \X (1..jobs[r].requested_cpus) : r \in In("running")})

Init ==
  /\ jobs \in Traces
  /\ now = jobs[1].submit_ts
  /\ phase = [r \in Rows |-> "future"]
  /\ started = [r \in Rows |-> 0]

(* Time moves to the next submission or completion, never past one.  All   *)
(* jobs that end at that time complete (job_complete), then all jobs       *)
(* submitted at it are queued (job_submit).                                *)
Tick ==
  LET due == {jobs[r].submit_ts : r \in In("future")} \cup {EndOf(r) : r \in In("running")}
  IN  \E t \in due :
        /\ \A u \in due : t <= u
        /\ now' = t
        /\ phase' = [r \in Rows |->
             IF phase[r] = "running" /\ EndOf(r) = t THEN "completed"
             ELSE IF phase[r] = "future" /\ jobs[r].submit_ts = t THEN "queued"
             ELSE phase[r]]
        /\ UNCHANGED <<jobs, started>>

(* job_start: a queued job that fits starts now.                           *)
Start(r) ==
  /\ phase[r] = "queued"
  /\ BusyCpus + jobs[r].requested_cpus <= Capacity
  /\ phase' = [phase EXCEPT ![r] = "running"]
  /\ started' = [started EXCEPT ![r] = now]
  /\ UNCHANGED <<jobs, now>>

Next == Tick \/ \E r \in Rows : Start(r)

Spec == Init /\ [][Next]_vars
=============================================================================
