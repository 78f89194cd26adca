----------------------------- MODULE MCSimCore -----------------------------
(***************************************************************************)
(* SimCore on small traces, its properties, and the job lifecycle it       *)
(* implements.                                                             *)
(***************************************************************************)
EXTENDS SimCore

CONSTANTS
  MaxSubmit,    \* rows are submitted at 0..MaxSubmit
  MaxCpus,      \* rows request 1..MaxCpus; more than Capacity never fits
  Runtimes,     \* actual runtimes
  MaxId         \* decision lists name ids 1..MaxId, queued or not

MCRow(id, ts, cpus, runtime) ==
  [job_id |-> id, submit_ts |-> ts, requested_cpus |-> cpus,
   runtime_actual_sec |-> runtime,
   estimate_source |-> IF runtime = 1 THEN "prediction" ELSE "actual_fallback"]

MCRows(ids) == {MCRow(i, ts, cpus, runtime) :
  i \in ids, ts \in 0..MaxSubmit, cpus \in 1..MaxCpus, runtime \in Runtimes}

(* Ids run with the rows here: which of two ids is the smaller matters     *)
(* only between rows submitted together, and those are sorted by it.       *)
TracesOf(n) == {t \in [1..n -> MCRows(1..n)] : \A r \in 1..n : t[r].job_id = r}

SortedTraces(n) == {t \in TracesOf(n) :
  \A r \in 1..(n - 1) : t[r].submit_ts <= t[r + 1].submit_ts}

(* Rows of at most cpus CPUs, some sharing an id.  Which id the first row  *)
(* has makes no difference: the decision lists name them all.              *)
DuplicateTraces(n, cpus) == {t \in [1..n -> MCRows(1..(n - 1))] :
  /\ t[1].job_id = 1
  /\ ~ UniqueIds(t)
  /\ \A r \in 1..n : t[r].requested_cpus <= cpus
  /\ \A r \in 1..(n - 1) :
       \/ t[r].submit_ts < t[r + 1].submit_ts
       \/ t[r].submit_ts = t[r + 1].submit_ts /\ t[r].job_id <= t[r + 1].job_id}

(* Distinct ids.  The runtime of a row that never starts is left at 0.     *)
DistinctTraces(n, cpus) == {t \in SortedTraces(n) : \A r \in 1..n :
  /\ t[r].requested_cpus <= cpus
  /\ t[r].requested_cpus > Capacity => t[r].runtime_actual_sec = 0}

Lists(n) == UNION {[1..k -> 1..MaxId] : k \in 0..n}

MCTraces3 == DistinctTraces(3, MaxCpus)
MCAnyTraces == DistinctTraces(3, Capacity) \cup DistinctTraces(2, MaxCpus)
  \cup DuplicateTraces(3, 1) \cup DuplicateTraces(2, Capacity)
MCPairs == {<<>>} \cup [1..2 -> 1..MaxId]
MCRepeatFree == {d \in Lists(3) : RepeatFree(d)}
=============================================================================
