---------------------------- MODULE ReplayProofs ----------------------------
(***************************************************************************)
(* Proofs about the replay loop, for every capacity, every set of traces   *)
(* and every decision list a policy may return.                            *)
(*                                                                         *)
(* Of any trace: no CPU is handed out twice, a CPU that is lost is         *)
(* reported, and nothing that is due is left when decisions are applied.   *)
(* Of a trace whose rows have distinct ids: no CPU is lost,                *)
(* check_invariants never reports, and the loop never runs out of events   *)
(* with a job missing.  If besides the policy names no job twice: each row *)
(* starts once, a finished run has completed and counted every row, the    *)
(* queue series it recorded is the one its starts tell of, and the loop    *)
(* implements JobLifecycle.  Of a run under a built-in policy: it is a run *)
(* of the loop, and has what is proved of every run.                       *)
(*                                                                         *)
(* Of the built-in policies: they lose and repeat no row, a run of theirs  *)
(* implements JobLifecycle, the head of a queue waits only for CPUs, and a *)
(* head is started no later than a reservation it was observed under says. *)
(***************************************************************************)
EXTENDS SimPolicy, SharedLemmas, SequenceTheorems

-----------------------------------------------------------------------------
(* Counting CPUs.                                                          *)

CpuList(S, list) == \A s \in S : list[s].requested_cpus \in Nat

(* An interval from 1 has as many elements as its end says.                *)
LEMMA CountTo ==
  ASSUME NEW n \in Nat
  PROVE  IsFiniteSet(1..n) /\ Cardinality(1..n) = n
BY FS_Interval

(* A finite set of starts holds finitely many CPUs.                        *)
LEMMA CpuSlotsFinite ==
  ASSUME NEW S, NEW list, IsFiniteSet(S), CpuList(S, list)
  PROVE  IsFiniteSet(CpuSlots(S, list)) /\ Cpus(S, list) \in Nat
<1> DEFINE Held == {{s} \X (1..list[s].requested_cpus) : s \in S}
<1> DEFINE f == [s \in S |-> {s} \X (1..list[s].requested_cpus)]
<1>1. f \in Surjection(S, Held)
  BY DEF Surjection
<1>2. IsFiniteSet(Held)
  BY <1>1, FS_Surjection
<1>3. \A T \in Held : IsFiniteSet(T)
  <2> SUFFICES ASSUME NEW s \in S
               PROVE  IsFiniteSet({s} \X (1..list[s].requested_cpus))
    OBVIOUS
  <2>1. IsFiniteSet({s})
    BY FS_Singleton
  <2>2. IsFiniteSet(1..list[s].requested_cpus)
    BY FS_Interval DEF CpuList
  <2> QED
    BY <2>1, <2>2, FS_Product
<1>4. IsFiniteSet(CpuSlots(S, list))
  BY <1>2, <1>3, FS_UNION DEF CpuSlots
<1> QED
  BY <1>4, FS_CardinalityType DEF Cpus

(* Taking a subset out takes out its CPUs.                                 *)
LEMMA CpusDifference ==
  ASSUME NEW S, NEW D \in SUBSET S, NEW list, IsFiniteSet(S), CpuList(S, list)
  PROVE  Cpus(S \ D, list) = Cpus(S, list) - Cpus(D, list)
<1>1. IsFiniteSet(CpuSlots(S, list))
  BY CpuSlotsFinite
<1>2. CpuSlots(S \ D, list) = CpuSlots(S, list) \ CpuSlots(D, list)
  BY DEF CpuSlots
<1>3. CpuSlots(S, list) \cap CpuSlots(D, list) = CpuSlots(D, list)
  BY DEF CpuSlots
<1> QED
  BY <1>1, <1>2, <1>3, FS_Difference DEF Cpus

(* A part of the jobs holds no more CPUs than all of them.                 *)
LEMMA CpusPart ==
  ASSUME NEW S, NEW D \in SUBSET S, NEW list, IsFiniteSet(S), CpuList(S, list)
  PROVE  /\ Cpus(S, list) \in Nat /\ Cpus(D, list) \in Nat
         /\ Cpus(D, list) <= Cpus(S, list)
<1>1. IsFiniteSet(D) /\ CpuList(D, list) /\ IsFiniteSet(S \ D) /\ CpuList(S \ D, list)
  BY FS_Subset DEF CpuList
<1>2. Cpus(S, list) \in Nat /\ Cpus(D, list) \in Nat /\ Cpus(S \ D, list) \in Nat
  BY <1>1, CpuSlotsFinite
<1>3. Cpus(S \ D, list) = Cpus(S, list) - Cpus(D, list)
  BY CpusDifference
<1> QED
  BY <1>2, <1>3

(* A start adds the CPUs of its job.                                       *)
LEMMA CpusAdd ==
  ASSUME NEW S, NEW x, x \notin S, NEW list, IsFiniteSet(S), CpuList(S \cup {x}, list)
  PROVE  Cpus(S \cup {x}, list) = Cpus(S, list) + list[x].requested_cpus
<1>1. PICK c \in Nat : c = list[x].requested_cpus
  BY DEF CpuList
<1> DEFINE added == {x} \X (1..c)
<1>2. IsFiniteSet(CpuSlots(S, list)) /\ Cpus(S, list) \in Nat
  BY CpuSlotsFinite DEF CpuList
<1>3. IsFiniteSet(added) /\ Cardinality(added) = c
  <2>1. IsFiniteSet({x}) /\ Cardinality({x}) = 1
    BY FS_Singleton
  <2>2. IsFiniteSet(1..c) /\ Cardinality(1..c) = c
    BY CountTo
  <2>3. IsFiniteSet(added) /\ Cardinality(added) = Cardinality({x}) * Cardinality(1..c)
    BY <2>1, <2>2, FS_Product
  <2> QED
    BY <2>1, <2>2, <2>3
<1>4. CpuSlots(S \cup {x}, list) = CpuSlots(S, list) \cup added
  BY <1>1 DEF CpuSlots
<1>5. CpuSlots(S, list) \cap added = {}
  BY DEF CpuSlots
<1> HIDE DEF added
<1>6. Cardinality(CpuSlots(S, list) \cup added)
        = Cardinality(CpuSlots(S, list)) + Cardinality(added) - Cardinality({})
  BY <1>2, <1>3, <1>5, FS_Union
<1>7. Cardinality({}) = 0
  BY FS_EmptySet
<1>8. Cpus(S \cup {x}, list) = Cpus(S, list) + c - 0
  BY <1>3, <1>4, <1>6, <1>7 DEF Cpus
<1> QED
  BY <1>1, <1>2, <1>8

(* CPUs depend only on the records counted.                                *)
LEMMA CpusSame ==
  ASSUME NEW S, NEW list, NEW other,
         \A s \in S : list[s].requested_cpus = other[s].requested_cpus
  PROVE  Cpus(S, list) = Cpus(S, other)
<1>1. CpuSlots(S, list) = CpuSlots(S, other)
  BY DEF CpuSlots
<1> QED
  BY <1>1 DEF Cpus

(* One more start adds its row to those started.                           *)
LEMMA RowsAdd ==
  ASSUME NEW S, NEW x, NEW list, NEW other,
         \A s \in S : other[s].row = list[s].row
  PROVE  {other[s].row : s \in S \cup {x}} = {list[s].row : s \in S} \cup {other[x].row}
OBVIOUS

-----------------------------------------------------------------------------
(* The trace and the lists of starts.                                      *)

(* What TracesAssumption says of the trace of a run.                       *)
LEMMA TraceFacts ==
  ASSUME jobs \in Traces
  PROVE  /\ Len(jobs) \in Nat \ {0}
         /\ DOMAIN jobs = Rows
         /\ \A r \in Rows :
              /\ jobs[r].job_id \in Int
              /\ jobs[r].submit_ts \in Int
              /\ jobs[r].requested_cpus \in Nat \ {0}
              /\ jobs[r].runtime_actual_sec \in Nat
              /\ jobs[r].estimate_source \in Sources
         /\ \A r \in Rows : jobs[1].submit_ts <= jobs[r].submit_ts
<1>1. IsTrace(jobs)
  BY TracesAssumption
<1>2. /\ Len(jobs) \in Nat \ {0}
      /\ DOMAIN jobs = Rows
      /\ \A r \in Rows :
           /\ jobs[r].job_id \in Int
           /\ jobs[r].submit_ts \in Int
           /\ jobs[r].requested_cpus \in Nat \ {0}
           /\ jobs[r].runtime_actual_sec \in Nat
           /\ jobs[r].estimate_source \in Sources
  BY <1>1 DEF IsTrace, Rows
<1>3. ASSUME NEW r \in Rows
      PROVE  jobs[1].submit_ts <= jobs[r].submit_ts
  <2>1. CASE r = 1
    BY <2>1, <1>2
  <2>2. CASE r # 1
    <3>1. 1 \in DOMAIN jobs /\ r \in DOMAIN jobs /\ 1 < r
      BY <2>2, <1>2 DEF Rows
    <3>2. jobs[1].submit_ts \in Int /\ jobs[r].submit_ts \in Int
      BY <3>1, <1>2
    <3>3. \/ jobs[1].submit_ts < jobs[r].submit_ts
          \/ jobs[1].submit_ts = jobs[r].submit_ts
      BY <3>1, <1>1 DEF IsTrace
    <3> QED
      BY <3>2, <3>3
  <2> QED
    BY <2>1, <2>2
<1> QED
  BY <1>2, <1>3

(* A nonempty set of rows has a last one.                                  *)
LEMMA LastRow ==
  ASSUME NEW n \in Nat, NEW T \in SUBSET (1..n), T # {}
  PROVE  \E r \in T : \A q \in T : q <= r
<1> DEFINE Above == {k \in Nat : n - k \in T}
<1>1. Above \subseteq Nat /\ Above # {}
  <2>1. PICK q \in T : TRUE
    OBVIOUS
  <2>2. n - q \in Nat /\ n - (n - q) = q
    OBVIOUS
  <2> QED
    BY <2>1, <2>2
<1> DEFINE R == OpToRel(<, Nat)
<1>2. IsWellFoundedOn(R, Nat)
  BY NatLessThanWellFounded
<1>3. \A a, b \in Nat : a < b => <<a, b>> \in R
  BY DEF OpToRel
<1> HIDE DEF Above, R
<1>4. PICK m \in Above : \A k \in Above : <<k, m>> \notin R
  BY <1>1, <1>2, WFMin
<1>5. PICK r \in T : m = n - r
  BY <1>4 DEF Above
<1>6. \A q \in T : q <= r
  <2> SUFFICES ASSUME NEW q \in T, r < q PROVE FALSE
    OBVIOUS
  <2>1. n - q \in Above /\ n - q < m
    BY <1>5 DEF Above
  <2> QED
    BY <2>1, <1>1, <1>3, <1>4
<1> QED
  BY <1>6

(* A queued id names a queued row, also when rows share it.                *)
LEMMA QueueByIdQueued ==
  ASSUME TypeOK, NEW id \in QueuedIds
  PROVE  QueueById(id) \in queue /\ RowId(QueueById(id)) = id
<1> DEFINE Named == {r \in queue : RowId(r) = id}
<1>1. Named # {}
  BY DEF QueuedIds
<1>2. Len(jobs) \in Nat
  BY TraceFacts DEF TypeOK
<1>3. Named \in SUBSET (1..Len(jobs))
  BY DEF TypeOK, Rows
<1> HIDE DEF Named
<1>4. PICK r \in Named : \A q \in Named : q <= r
  BY <1>1, <1>2, <1>3, LastRow
<1>5. r \in queue /\ RowId(r) = id /\ \A q \in queue : RowId(q) = id => q <= r
  BY <1>4 DEF Named
<1> QED
  BY <1>5 DEF QueueById

(* The lists of starts are finite and hold well-formed records.            *)
LEMMA RunningFacts ==
  ASSUME TypeOK
  PROVE  /\ Len(starts) \in Nat
         /\ DOMAIN starts = 1..Len(starts)
         /\ \A s \in DOMAIN starts : starts[s] \in StartRecord
         /\ IsFiniteSet(running)
         /\ CpuList(running, starts)
<1>1. starts \in Seq(StartRecord)
  BY DEF TypeOK
<1>2. Len(starts) \in Nat /\ DOMAIN starts = 1..Len(starts)
  BY <1>1, LenProperties
<1>3. \A s \in DOMAIN starts : starts[s] \in StartRecord
  BY <1>1, <1>2, ElementOfSeq
<1>4. IsFiniteSet(1..Len(starts))
  BY <1>2, CountTo
<1>5. IsFiniteSet(running)
  BY <1>2, <1>4, FS_Subset DEF TypeOK
<1>6. CpuList(running, starts)
  BY <1>3 DEF TypeOK, CpuList, StartRecord
<1> QED
  BY <1>2, <1>3, <1>5, <1>6

-----------------------------------------------------------------------------
(* The loop invariant: initially, and over each action.                    *)

(* The loop invariant holds before the first tick.                         *)
LEMMA InitLoopInvariant == ASSUME Init PROVE LoopInvariant
<1>1. /\ Len(jobs) \in Nat \ {0}
      /\ \A r \in Rows : jobs[r].submit_ts \in Int
      /\ \A r \in Rows : jobs[1].submit_ts <= jobs[r].submit_ts
  BY TraceFacts DEF Init, StartRun
<1>2. 1 \in Rows
  BY <1>1 DEF Rows
<1>3. /\ <<>> \in Seq(StartRecord) /\ DOMAIN <<>> = {}
      /\ <<>> \in Seq(Violation) /\ <<>> \in Seq(Series)
  OBVIOUS
<1>4. TypeOK
  BY <1>1, <1>2, <1>3, CapacityAssumption, StrictAssumption DEF Init, StartRun, TypeOK, Ended, Raised
<1>5. free_cpus >= 0 /\ free_cpus + Cpus(running, starts) = Capacity
  <2>1. CpuSlots({}, starts) = {}
    BY DEF CpuSlots
  <2>2. Cpus(running, starts) = 0
    BY <2>1, FS_EmptySet DEF Init, StartRun, Cpus
  <2> QED
    BY <2>2, CapacityAssumption DEF Init, StartRun
<1>6. NeverOvercommitted
  BY <1>5, CapacityAssumption DEF NeverOvercommitted
<1>7. CpuLossReported /\ CpusAddUp
  BY <1>5 DEF CpuLossReported, CpusAddUp
<1>8. StartsApart /\ NothingLost
  BY <1>3 DEF Init, StartRun, StartsApart, NothingLost
<1>9. ClockInOrder
  BY <1>1, <1>3 DEF Init, StartRun, ClockInOrder
<1>10. NoneReported
  BY DEF Init, StartRun, NoneReported
<1> QED
  BY <1>4, <1>6, <1>7, <1>8, <1>9, <1>10 DEF LoopInvariant, UniqueRun

(* To step from one state of a run to the next the trace stays the same,   *)
(* and what holds of unique ids may be shown apart.                        *)
LEMMA LoopInvariantStep ==
  ASSUME jobs' = jobs, TypeOK', NeverOvercommitted', CpuLossReported',
         UniqueIds(jobs) => UniqueRun'
  PROVE  LoopInvariant'
<1>1. UniqueIds(jobs)' <=> UniqueIds(jobs)
  BY DEF UniqueIds
<1> QED
  BY <1>1 DEF LoopInvariant

(* Completions give back the CPUs they held, admissions take none; over    *)
(* unique ids no more is removed than completes.                           *)
LEMMA NextEventLoopInvariant ==
  ASSUME LoopInvariant, NextEvent
  PROVE  LoopInvariant'
<1>0. TypeOK /\ NeverOvercommitted /\ CpuLossReported /\ (UniqueIds(jobs) => UniqueRun)
  BY DEF LoopInvariant
<1>1. PICK next_ts \in EventTimes :
        /\ \A ts \in EventTimes : next_ts <= ts
        /\ clock_ts' = next_ts
        /\ running' = {s \in running :
             StartId(s) \notin {StartId(t) : t \in Completing(next_ts)}}
        /\ completed' = completed \cup Completing(next_ts)
        /\ free_cpus' = free_cpus + Released(Completing(next_ts))
        /\ future' = future \ {r \in future : jobs[r].submit_ts = next_ts}
        /\ queue' = queue \cup {r \in future : jobs[r].submit_ts = next_ts}
  BY DEF NextEvent
<1>2. /\ pc = "loop" /\ pc' = "decide"
      /\ UNCHANGED <<jobs, strict, starts, decision, pos, dispatched_ids,
                     violations, queue_series, fallback_counts>>
  BY DEF NextEvent
<1>3. /\ Len(starts) \in Nat
      /\ DOMAIN starts = 1..Len(starts)
      /\ \A s \in DOMAIN starts : starts[s] \in StartRecord
      /\ IsFiniteSet(running)
      /\ CpuList(running, starts)
  BY <1>0, RunningFacts
<1>4. \A r \in Rows : jobs[r].submit_ts \in Int
  BY <1>0, TraceFacts DEF TypeOK
<1>5. next_ts \in Int
  BY <1>0, <1>1, <1>3, <1>4 DEF EventTimes, TypeOK, StartRecord
<1> DEFINE done == Completing(next_ts)
           rest == running \ done
<1>6. done \in SUBSET running /\ running' \in SUBSET rest
  BY <1>1 DEF Completing
<1>7. /\ Cpus(running, starts) \in Nat
      /\ Cpus(done, starts) \in Nat
      /\ Cpus(rest, starts) \in Nat
      /\ Cpus(rest, starts) = Cpus(running, starts) - Cpus(done, starts)
  BY <1>3, <1>6, CpusPart, CpusDifference
<1>8. free_cpus' = free_cpus + Cpus(done, starts)
  BY <1>1 DEF Released
<1>9. IsFiniteSet(rest) /\ CpuList(rest, starts)
  BY <1>3, FS_Difference DEF CpuList
<1>10. Cpus(running', starts) \in Nat /\ Cpus(running', starts) <= Cpus(rest, starts)
  BY <1>6, <1>9, CpusPart
<1>11. Cpus(running, starts)' = Cpus(running', starts)
  BY <1>2 DEF Cpus, CpuSlots
<1>12. free_cpus \in Int /\ free_cpus >= 0 /\ free_cpus + Cpus(running, starts) <= Capacity
  BY <1>0 DEF TypeOK, NeverOvercommitted
<1>13. NeverOvercommitted'
  <2> HIDE DEF done, rest
  <2>1. free_cpus' >= 0 /\ free_cpus' + Cpus(running', starts) <= Capacity
    BY <1>7, <1>8, <1>10, <1>12, CapacityAssumption
  <2> QED
    BY <1>11, <2>1 DEF NeverOvercommitted
<1>14. TypeOK'
  <2>1. free_cpus' \in Int
    BY <1>7, <1>8, <1>12
  <2> QED
    BY <1>0, <1>1, <1>2, <1>5, <1>6, <2>1
    DEF TypeOK, Rows, StartRecord, Violation, Series, Ended
<1>15. CpuLossReported'
  BY <1>2 DEF CpuLossReported
<1>16. ASSUME UniqueIds(jobs) PROVE UniqueRun'
  <2>0. CpusAddUp /\ StartsApart /\ NothingLost /\ ClockInOrder /\ NoneReported
    BY <1>0, <1>16 DEF UniqueRun
  <2>1. running' = rest
    BY <1>1, <2>0 DEF StartsApart, Completing
  <2>2. CpusAddUp'
    <3> HIDE DEF done, rest
    <3>1. free_cpus' >= 0 /\ free_cpus' + Cpus(running', starts) = Capacity
      BY <1>7, <1>8, <1>12, <2>0, <2>1, CapacityAssumption DEF CpusAddUp
    <3> QED
      BY <1>11, <3>1 DEF CpusAddUp
  <2>3. StartsApart'
    <3>1. running' \subseteq running /\ running' \cap completed' = {}
      BY <1>1, <2>0, <2>1, <1>6 DEF StartsApart
    <3>2. \A s \in DOMAIN starts : starts[s].row \notin queue /\ starts[s].row \notin future
      BY <1>2, <2>0 DEF StartsApart
    <3>3. queue' \cap future' = {}
      BY <1>1, <2>0 DEF StartsApart
    <3>4. \A s \in DOMAIN starts : starts[s].row \notin queue' /\ starts[s].row \notin future'
      BY <3>2, <1>1
    <3> QED
      BY <1>2, <2>0, <3>1, <3>3, <3>4 DEF StartsApart, StartId
  <2>4. NothingLost'
    <3>1. Rows' = future' \cup queue' \cup {starts[s].row : s \in DOMAIN starts}
      BY <1>1, <1>2, <2>0 DEF NothingLost, Rows
    <3>2. DOMAIN starts = running' \cup completed'
      BY <1>1, <1>6, <2>0, <2>1 DEF NothingLost
    <3>3. dispatched_ids' = {}
      BY <1>2, <2>0 DEF NothingLost
    <3> QED
      BY <1>2, <3>1, <3>2, <3>3 DEF NothingLost
  <2>5. ClockInOrder'
    <3>1. clock_ts <= next_ts
      BY <1>1, <2>0 DEF EventTimes, ClockInOrder
    <3>2. \A r \in queue' : jobs[r].submit_ts <= next_ts
      BY <1>0, <1>1, <1>4, <1>5, <2>0, <3>1 DEF ClockInOrder, TypeOK
    <3>3. \A r \in future' : next_ts <= jobs[r].submit_ts
      BY <1>1 DEF EventTimes
    <3>4. \A s \in running' : starts[s].end_ts >= next_ts
      BY <1>0, <1>1, <1>3, <1>5, <1>6 DEF EventTimes, TypeOK, StartRecord
    <3>5. \A s \in DOMAIN starts :
            jobs[starts[s].row].submit_ts <= starts[s].start_ts /\ starts[s].start_ts <= next_ts
      BY <1>0, <1>3, <1>5, <2>0, <3>1 DEF ClockInOrder, TypeOK, StartRecord
    <3> QED
      BY <1>1, <1>2, <3>2, <3>3, <3>4, <3>5 DEF ClockInOrder
  <2>6. NoneReported'
    BY <1>2, <2>0 DEF NoneReported
  <2> QED
    BY <2>2, <2>3, <2>4, <2>5, <2>6 DEF UniqueRun
<1> QED
  BY <1>2, <1>13, <1>14, <1>15, <1>16, LoopInvariantStep

(* A start takes the CPUs of its job off the free ones; over unique ids it *)
(* joins only starts of the same row made in this tick.                    *)
LEMMA StartJobLoopInvariant ==
  ASSUME LoopInvariant, StartJob
  PROVE  LoopInvariant'
<1>0. TypeOK /\ NeverOvercommitted /\ (UniqueIds(jobs) => UniqueRun)
  BY DEF LoopInvariant
<1> DEFINE row == QueueById(decision[pos])
           job == jobs[row]
           new == Len(starts) + 1
           record == [row |-> row, requested_cpus |-> job.requested_cpus,
                      start_ts |-> clock_ts,
                      end_ts |-> clock_ts + job.runtime_actual_sec]
<1>1. /\ pc = "apply" /\ pc' = pc
      /\ decision[pos] \in QueuedIds
      /\ job.requested_cpus <= free_cpus
      /\ dispatched_ids' = dispatched_ids \cup {decision[pos]}
      /\ starts' = Append(starts, record)
      /\ running' = running \cup {new}
      /\ free_cpus' = free_cpus - job.requested_cpus
      /\ fallback_counts' = [fallback_counts EXCEPT ![job.estimate_source] = @ + 1]
      /\ pos' = pos + 1
      /\ UNCHANGED <<jobs, strict, clock_ts, future, queue, completed,
                     decision, violations, queue_series>>
  BY DEF StartJob, Fits
<1>2. row \in queue /\ row \in Rows /\ RowId(row) = decision[pos]
  BY <1>0, <1>1, QueueByIdQueued DEF TypeOK
<1>3. /\ job.submit_ts \in Int
      /\ job.requested_cpus \in Nat \ {0}
      /\ job.runtime_actual_sec \in Nat
      /\ job.estimate_source \in Sources
  BY <1>0, <1>2, TraceFacts DEF TypeOK
<1>4. /\ Len(starts) \in Nat
      /\ DOMAIN starts = 1..Len(starts)
      /\ \A s \in DOMAIN starts : starts[s] \in StartRecord
      /\ IsFiniteSet(running)
      /\ CpuList(running, starts)
  BY <1>0, RunningFacts
<1> HIDE DEF row
<1>5. record \in StartRecord
  BY <1>0, <1>2, <1>3 DEF StartRecord, TypeOK
<1>6. /\ starts' \in Seq(StartRecord)
      /\ Len(starts') = new
      /\ DOMAIN starts' = 1..new
      /\ \A s \in DOMAIN starts : starts'[s] = starts[s]
      /\ starts'[new] = record
  <2>1. starts \in Seq(StartRecord)
    BY <1>0 DEF TypeOK
  <2> HIDE DEF record
  <2> QED
    BY <1>1, <1>4, <1>5, <2>1
<1>7. new \notin DOMAIN starts /\ DOMAIN starts' = DOMAIN starts \cup {new}
  BY <1>4, <1>6
<1>8. running \subseteq DOMAIN starts /\ completed \subseteq DOMAIN starts
  BY <1>0 DEF TypeOK
<1>9. Cpus(running, starts)' = Cpus(running, starts) + job.requested_cpus
  <2>1. \A s \in running : starts[s].requested_cpus = starts'[s].requested_cpus
    BY <1>6, <1>8
  <2>2. Cpus(running, starts) = Cpus(running, starts')
    BY <2>1, CpusSame
  <2>3. CpuList(running \cup {new}, starts')
    BY <1>3, <1>4, <1>6, <2>1 DEF CpuList
  <2>4. Cpus(running \cup {new}, starts') = Cpus(running, starts') + starts'[new].requested_cpus
    BY <1>4, <1>7, <1>8, <2>3, CpusAdd
  <2>5. starts'[new].requested_cpus = job.requested_cpus
    BY <1>6
  <2>6. Cpus(running', starts') = Cpus(running, starts) + job.requested_cpus
    BY <1>1, <2>2, <2>4, <2>5
  <2>7. Cpus(running, starts)' = Cpus(running', starts')
    BY DEF Cpus, CpuSlots
  <2> QED
    BY <2>6, <2>7
<1>10. Cpus(running, starts) \in Nat
  BY <1>4, CpuSlotsFinite
<1>11. free_cpus \in Int /\ free_cpus >= 0 /\ free_cpus + Cpus(running, starts) <= Capacity
  BY <1>0 DEF TypeOK, NeverOvercommitted
<1>12. free_cpus' \in Int /\ free_cpus' >= 0
  <2> HIDE DEF job, new, record
  <2> QED
    BY <1>1, <1>3, <1>11
<1>13. NeverOvercommitted'
  <2> HIDE DEF job, new, record
  <2>1. free_cpus' + (Cpus(running, starts) + job.requested_cpus) <= Capacity
    BY <1>1, <1>3, <1>10, <1>11, CapacityAssumption
  <2> QED
    BY <1>9, <1>12, <2>1 DEF NeverOvercommitted
<1>14. TypeOK'
  <2>1. fallback_counts' \in [Sources -> Nat]
    <3> DEFINE source == job.estimate_source
    <3>1. /\ fallback_counts \in [Sources -> Nat] /\ source \in Sources
          /\ fallback_counts' = [fallback_counts EXCEPT ![source] = @ + 1]
      BY <1>0, <1>1, <1>3 DEF TypeOK
    <3> HIDE DEF source
    <3> QED
      BY <3>1
  <2>2. starts' \in Seq(StartRecord')
    <3> HIDE DEF job, new, record
    <3>1. Rows' = Rows
      BY <1>1 DEF Rows
    <3>2. StartRecord' = StartRecord
      BY <3>1 DEF StartRecord
    <3> QED
      BY <1>6, <3>2
  <2> HIDE DEF job, new, record
  <2>3. running' \in SUBSET (DOMAIN starts') /\ completed' \in SUBSET (DOMAIN starts')
    BY <1>1, <1>7, <1>8
  <2>4. /\ jobs' \in Traces /\ strict' \in BOOLEAN /\ clock_ts' \in Int
        /\ pc' \in Ended \cup {"loop", "decide", "apply"}
    BY <1>0, <1>1 DEF TypeOK
  <2>5. Rows' = Rows /\ future' \in SUBSET Rows /\ queue' \in SUBSET Rows
    BY <1>0, <1>1 DEF TypeOK, Rows
  <2>6. violations' \in Seq(Violation) /\ queue_series' \in Seq(Series) /\ pos' \in Nat \ {0}
    BY <1>0, <1>1 DEF TypeOK
  <2>7. Violation' = Violation /\ Series' = Series /\ Ended' = Ended
    BY DEF Violation, Series, Ended
  <2> QED
    BY <1>12, <2>1, <2>2, <2>3, <2>4, <2>5, <2>6, <2>7 DEF TypeOK
<1>15. CpuLossReported'
  BY <1>1 DEF CpuLossReported
<1>16. ASSUME UniqueIds(jobs) PROVE UniqueRun'
  <2>0. CpusAddUp /\ StartsApart /\ NothingLost /\ ClockInOrder /\ NoneReported
    BY <1>0, <1>16 DEF UniqueRun
  <2>1. CpusAddUp'
    <3> HIDE DEF job, new, record
    <3>1. free_cpus' + (Cpus(running, starts) + job.requested_cpus) = Capacity
      BY <1>1, <1>3, <1>10, <1>11, <2>0, CapacityAssumption DEF CpusAddUp
    <3> QED
      BY <1>9, <1>12, <3>1 DEF CpusAddUp
  <2>2. StartsApart'
    <3>1. \A s \in running : StartId(s) = RowId(row) => starts[s].end_ts = record.end_ts
      <4> SUFFICES ASSUME NEW s \in running, StartId(s) = RowId(row)
                   PROVE  starts[s].end_ts = record.end_ts
        OBVIOUS
      <4>1. starts[s].row \in Rows
        BY <1>4, <1>8 DEF StartRecord
      <4>2. starts[s].row = row
        BY <1>2, <1>16, <4>1 DEF StartId, RowId, UniqueIds, Rows
      <4> QED
        BY <1>2, <1>8, <2>0, <4>2 DEF StartsApart
    <3>2. \A s, t \in running' : StartId(s)' = StartId(t)' => starts'[s].end_ts = starts'[t].end_ts
      BY <1>1, <1>6, <1>8, <2>0, <3>1 DEF StartsApart, StartId, RowId
    <3>3. \A s \in DOMAIN starts' : starts'[s].row \notin future'
      BY <1>1, <1>2, <1>6, <1>7, <2>0 DEF StartsApart
    <3>4. \A s \in DOMAIN starts' : starts'[s].row \in queue' =>
            /\ pc' = "apply"
            /\ s \in running'
            /\ StartId(s)' \in dispatched_ids'
            /\ starts'[s].start_ts = clock_ts'
      BY <1>1, <1>2, <1>6, <1>7, <2>0 DEF StartsApart, StartId, RowId
    <3>5. \A s \in DOMAIN starts' :
            /\ starts'[s].requested_cpus = jobs'[starts'[s].row].requested_cpus
            /\ starts'[s].end_ts = starts'[s].start_ts + jobs'[starts'[s].row].runtime_actual_sec
      BY <1>1, <1>6, <1>7, <2>0 DEF StartsApart
    <3>6. queue' \cap future' = {} /\ running' \cap completed' = {}
      BY <1>1, <1>7, <1>8, <2>0 DEF StartsApart
    <3> QED
      BY <3>2, <3>3, <3>4, <3>5, <3>6 DEF StartsApart
  <2>3. NothingLost'
    <3>0. {starts'[s].row : s \in DOMAIN starts'} = {starts[s].row : s \in DOMAIN starts} \cup {row}
      <4>1. starts'[new].row = row
        BY <1>6
      <4>2. \A s \in DOMAIN starts : starts'[s].row = starts[s].row
        BY <1>6
      <4> HIDE DEF record, job, new
      <4> QED
        BY <1>7, <4>1, <4>2, RowsAdd
    <3>1. Rows = future \cup queue \cup {starts'[s].row : s \in DOMAIN starts'}
      BY <1>2, <2>0, <3>0 DEF NothingLost
    <3>2. DOMAIN starts' = running' \cup completed'
      BY <1>1, <1>7, <2>0 DEF NothingLost
    <3>3. ASSUME NEW r \in queue, RowId(r) \in dispatched_ids'
          PROVE  r \in {starts'[s].row : s \in DOMAIN starts'}
      <4>1. CASE RowId(r) \in dispatched_ids
        BY <2>0, <3>0, <4>1 DEF NothingLost
      <4>2. CASE RowId(r) = decision[pos]
        <5>1. r = row
          BY <1>0, <1>2, <1>16, <4>2 DEF RowId, UniqueIds, Rows, TypeOK
        <5> QED
          BY <3>0, <5>1
      <4> QED
        BY <1>1, <3>3, <4>1, <4>2
    <3>4. jobs' = jobs /\ queue' = queue /\ future' = future /\ pc' = "apply"
      BY <1>1
    <3> HIDE DEF record, job, new
    <3> QED
      BY <3>1, <3>2, <3>3, <3>4 DEF NothingLost, Rows, RowId
  <2>4. ClockInOrder'
    <3>0. /\ starts'[new].end_ts >= clock_ts
          /\ jobs[starts'[new].row].submit_ts <= starts'[new].start_ts
          /\ starts'[new].start_ts <= clock_ts
      BY <1>0, <1>2, <1>3, <1>6, <2>0 DEF ClockInOrder, TypeOK
    <3>1. \A s \in running' : starts'[s].end_ts >= clock_ts
      <4> HIDE DEF record, job, new
      <4> QED
        BY <1>1, <1>6, <1>8, <2>0, <3>0 DEF ClockInOrder
    <3>2. \A s \in DOMAIN starts' :
            jobs[starts'[s].row].submit_ts <= starts'[s].start_ts /\ starts'[s].start_ts <= clock_ts
      <4> HIDE DEF record, job, new
      <4> QED
        BY <1>6, <1>7, <2>0, <3>0 DEF ClockInOrder
    <3> QED
      BY <1>1, <2>0, <3>1, <3>2 DEF ClockInOrder
  <2>5. NoneReported'
    BY <1>1, <2>0 DEF NoneReported
  <2> QED
    BY <2>1, <2>2, <2>3, <2>4, <2>5 DEF UniqueRun
<1> QED
  BY <1>1, <1>13, <1>14, <1>15, <1>16, LoopInvariantStep

(* Over unique ids every check of check_invariants passes at the end of a  *)
(* tick.                                                                   *)
LEMMA NoCheckFails ==
  ASSUME TypeOK, UniqueIds(jobs), UniqueRun
  PROVE  FailedInvariants(RemainingQueue) = {}
<1> USE DEF UniqueRun
<1>1. /\ DOMAIN starts = 1..Len(starts)
      /\ \A s \in DOMAIN starts : starts[s] \in StartRecord
      /\ IsFiniteSet(running)
      /\ CpuList(running, starts)
  BY RunningFacts
<1>2. running \subseteq DOMAIN starts /\ queue \subseteq Rows
  BY DEF TypeOK
<1>3. Cpus(running, starts) \in Nat
  BY <1>1, CpuSlotsFinite
<1>4. /\ ~ (free_cpus < 0)
      /\ ~ (free_cpus > Capacity)
      /\ Cpus(running, starts) + free_cpus = Capacity
  BY <1>3, CapacityAssumption DEF CpusAddUp, TypeOK
<1>6. \A r \in RemainingQueue, s \in running : RowId(r) # StartId(s)
  <2> SUFFICES ASSUME NEW r \in RemainingQueue, NEW s \in running, RowId(r) = StartId(s)
               PROVE  FALSE
    OBVIOUS
  <2>1. r \in queue /\ RowId(r) \notin dispatched_ids
    BY DEF RemainingQueue
  <2>2. starts[s].row \in Rows
    BY <1>1, <1>2 DEF StartRecord
  <2>3. starts[s].row = r
    BY <1>2, <2>1, <2>2 DEF StartId, RowId, UniqueIds, Rows
  <2> QED
    BY <1>2, <2>1, <2>3 DEF StartsApart
<1>7. \A r \in Rows : jobs[r].submit_ts \in Int /\ jobs[r].runtime_actual_sec \in Nat
  BY TraceFacts DEF TypeOK
<1>8. ASSUME NEW s \in running
      PROVE  /\ ~ (starts[s].start_ts < jobs[starts[s].row].submit_ts)
             /\ ~ (starts[s].end_ts < starts[s].start_ts)
             /\ ~ (starts[s].requested_cpus <= 0)
  <2>1. s \in DOMAIN starts /\ starts[s] \in StartRecord
    BY <1>1, <1>2
  <2>2. /\ starts[s].row \in Rows
        /\ starts[s].start_ts \in Int
        /\ starts[s].requested_cpus \in Nat \ {0}
    BY <2>1 DEF StartRecord
  <2>3. jobs[starts[s].row].submit_ts \in Int /\ jobs[starts[s].row].runtime_actual_sec \in Nat
    BY <1>7, <2>2
  <2>4. starts[s].end_ts = starts[s].start_ts + jobs[starts[s].row].runtime_actual_sec
    BY <2>1 DEF StartsApart
  <2>5. jobs[starts[s].row].submit_ts <= starts[s].start_ts
    BY <2>1 DEF ClockInOrder
  <2> QED
    BY <2>2, <2>3, <2>4, <2>5
<1>9. \A r \in RemainingQueue : ~ (jobs[r].submit_ts > clock_ts)
  <2> SUFFICES ASSUME NEW r \in RemainingQueue
               PROVE  ~ (jobs[r].submit_ts > clock_ts)
    OBVIOUS
  <2>1. r \in queue /\ r \in Rows
    BY <1>2 DEF RemainingQueue
  <2>2. jobs[r].submit_ts \in Int /\ clock_ts \in Int /\ jobs[r].submit_ts <= clock_ts
    BY <1>7, <2>1 DEF ClockInOrder, TypeOK
  <2> QED
    BY <2>2
<1> QED
  BY <1>4, <1>6, <1>8, <1>9, Zenon DEF FailedInvariants

(* A check that CPUs are conserved stands between a lost CPU and the next  *)
(* tick: if nothing is reported, the CPUs add up.                          *)
LEMMA ReportTyped ==
  ASSUME LoopInvariant, NEW failed, failed = FailedInvariants(RemainingQueue)
  PROVE  /\ Report(failed) \in Seq(Violation)
         /\ failed # {} => Report(failed) # <<>>
         /\ failed = {} => CpusAddUp /\ Report(failed) = violations
<1>0. TypeOK /\ NeverOvercommitted
  BY DEF LoopInvariant
<1>1. failed \in SUBSET CheckNames
  BY DEF FailedInvariants, CheckNames
<1>2. Len(queue_series) \in Nat
  BY <1>0, LenProperties DEF TypeOK
<1>3. violations \in Seq(Violation)
  BY <1>0 DEF TypeOK
<1> DEFINE entry == [step_index |-> Len(queue_series), failed |-> failed]
<1>4. entry \in Violation
  BY <1>1, <1>2 DEF Violation
<1>5. failed # {} => Report(failed) = Append(violations, entry)
  BY DEF Report
<1> HIDE DEF entry
<1>6. Append(violations, entry) \in Seq(Violation) /\ Append(violations, entry) # <<>>
  BY <1>3, <1>4, AppendProperties, EmptySeq
<1>7. failed = {} => Report(failed) = violations
  BY DEF Report
<1>8. failed = {} => CpusAddUp
  <2> SUFFICES ASSUME failed = {} PROVE CpusAddUp
    OBVIOUS
  <2>1. "cpu_conservation_broken" \notin FailedInvariants(RemainingQueue)
    OBVIOUS
  <2>2. Cpus(running, starts) + free_cpus = Capacity
    BY <2>1, Zenon DEF FailedInvariants
  <2>3. Cpus(running, starts) \in Nat
    BY <1>0, RunningFacts, CpuSlotsFinite
  <2> QED
    BY <1>0, <2>2, <2>3 DEF CpusAddUp, NeverOvercommitted, TypeOK
<1> QED
  BY <1>3, <1>5, <1>6, <1>7, <1>8

(* The rows of the series count finitely many jobs and CPUs.               *)
LEMMA SeriesTyped ==
  ASSUME TypeOK
  PROVE  SeriesRow \in Series
<1>1. /\ Len(jobs) \in Nat
      /\ \A r \in Rows : jobs[r].requested_cpus \in Nat
  BY TraceFacts DEF TypeOK
<1>2. RemainingQueue \subseteq Rows
  BY DEF RemainingQueue, TypeOK
<1>3. IsFiniteSet(RemainingQueue) /\ CpuList(RemainingQueue, jobs)
  BY <1>1, <1>2, CountTo, FS_Subset DEF Rows, CpuList
<1>4. Cardinality(RemainingQueue) \in Nat /\ Cpus(RemainingQueue, jobs) \in Nat
  BY <1>3, FS_CardinalityType, CpuSlotsFinite
<1> QED
  BY <1>4 DEF SeriesRow, Series, TypeOK

(* The end of a tick: started rows leave the queue, and a lost CPU leaves  *)
(* a violation behind.                                                     *)
LEMMA EndTickLoopInvariant ==
  ASSUME LoopInvariant, EndTick
  PROVE  LoopInvariant'
<1>0. TypeOK /\ NeverOvercommitted /\ (UniqueIds(jobs) => UniqueRun)
  BY DEF LoopInvariant
<1> DEFINE failed == FailedInvariants(RemainingQueue)
<1>1. /\ pc = "apply"
      /\ pc' = IF running = {} /\ future = {} /\ RemainingQueue # {} THEN "stuck" ELSE "loop"
      /\ queue' = RemainingQueue
      /\ queue_series' = Append(queue_series, SeriesRow)
      /\ pos' = 1
      /\ dispatched_ids' = {}
      /\ violations' = Report(failed)
      /\ UNCHANGED <<jobs, strict, clock_ts, future, starts, running, completed,
                     free_cpus, fallback_counts>>
  BY DEF EndTick
<1>2. queue' \subseteq queue
  BY <1>1 DEF RemainingQueue
<1>3. /\ Report(failed) \in Seq(Violation)
      /\ failed # {} => Report(failed) # <<>>
      /\ failed = {} => CpusAddUp /\ Report(failed) = violations
  BY ReportTyped
<1>4. queue_series' \in Seq(Series)
  <2>1. queue_series \in Seq(Series) /\ SeriesRow \in Series
    BY <1>0, SeriesTyped DEF TypeOK
  <2> QED
    BY <1>1, <2>1
<1>5. Cpus(running, starts)' = Cpus(running, starts)
  BY <1>1 DEF Cpus, CpuSlots
<1> HIDE DEF failed
<1>6. TypeOK'
  <2>1. pc' \in Ended \cup {"loop", "decide", "apply"}
    BY <1>1 DEF Ended, Raised
  <2>2. violations' \in Seq(Violation')
    BY <1>1, <1>3 DEF Violation
  <2>3. queue_series' \in Seq(Series')
    BY <1>4 DEF Series
  <2>4. starts' \in Seq(StartRecord')
    BY <1>0, <1>1 DEF TypeOK, StartRecord, Rows
  <2>5. queue' \in SUBSET Rows' /\ future' \in SUBSET Rows'
    BY <1>0, <1>1, <1>2 DEF TypeOK, Rows
  <2> QED
    BY <1>0, <1>1, <2>1, <2>2, <2>3, <2>4, <2>5 DEF TypeOK
<1>7. NeverOvercommitted'
  BY <1>0, <1>1, <1>5 DEF NeverOvercommitted
<1>8. CpuLossReported'
  <2>1. CASE failed = {}
    BY <1>1, <1>3, <1>5, <2>1 DEF CpuLossReported, CpusAddUp
  <2>2. CASE failed # {}
    BY <1>1, <1>3, <2>2 DEF CpuLossReported
  <2> QED
    BY <2>1, <2>2
<1>9. ASSUME UniqueIds(jobs) PROVE UniqueRun'
  <2>0. CpusAddUp /\ StartsApart /\ NothingLost /\ ClockInOrder /\ NoneReported
    BY <1>0, <1>9 DEF UniqueRun
  <2>1. failed = {}
    BY <1>0, <1>9, NoCheckFails DEF failed
  <2>2. CpusAddUp'
    BY <1>1, <1>5, <2>0 DEF CpusAddUp
  <2>3. StartsApart'
    <3>1. \A s \in DOMAIN starts : starts[s].row \notin queue'
      BY <1>1, <2>0 DEF StartsApart, RemainingQueue, StartId, RowId
    <3> QED
      BY <1>1, <1>2, <2>0, <3>1 DEF StartsApart, StartId
  <2>4. NothingLost'
    <3>1. queue \ queue' \subseteq {starts[s].row : s \in DOMAIN starts}
      BY <1>1, <2>0 DEF NothingLost, RemainingQueue
    <3>2. Rows = future \cup queue' \cup {starts[s].row : s \in DOMAIN starts}
      BY <1>2, <2>0, <3>1 DEF NothingLost
    <3> QED
      BY <1>1, <2>0, <3>2 DEF NothingLost, Rows
  <2>5. ClockInOrder'
    BY <1>1, <1>2, <2>0 DEF ClockInOrder
  <2>6. NoneReported'
    BY <1>1, <1>3, <2>0, <2>1 DEF NoneReported
  <2> QED
    BY <2>2, <2>3, <2>4, <2>5, <2>6 DEF UniqueRun
<1> QED
  BY <1>1, <1>6, <1>7, <1>8, <1>9, LoopInvariantStep

(* Strict mode raises only over rows that share an id.                     *)
LEMMA RaiseStrictLoopInvariant ==
  ASSUME LoopInvariant, RaiseStrict
  PROVE  LoopInvariant'
<1>0. TypeOK /\ NeverOvercommitted /\ (UniqueIds(jobs) => UniqueRun)
  BY DEF LoopInvariant
<1> DEFINE failed == FailedInvariants(RemainingQueue)
<1>1. /\ failed # {}
      /\ violations' = Report(failed)
      /\ queue' = RemainingQueue
      /\ pc' = "strict_error"
      /\ UNCHANGED <<jobs, strict, clock_ts, future, starts, running, completed,
                     free_cpus, decision, pos, dispatched_ids, queue_series,
                     fallback_counts>>
  BY DEF RaiseStrict
<1>2. Report(failed) \in Seq(Violation)
  BY ReportTyped
<1>3. TypeOK'
  <2>1. queue' \subseteq queue
    BY <1>1 DEF RemainingQueue
  <2>2. pc' \in Ended \cup {"loop", "decide", "apply"}
    BY <1>1 DEF Ended, Raised
  <2> QED
    BY <1>0, <1>1, <1>2, <2>1, <2>2 DEF TypeOK, Rows, StartRecord, Violation, Series
<1>4. NeverOvercommitted'
  BY <1>0, <1>1 DEF NeverOvercommitted, Cpus, CpuSlots
<1>5. CpuLossReported'
  BY <1>1 DEF CpuLossReported
<1>6. UniqueIds(jobs) => FALSE
  BY <1>0, <1>1, NoCheckFails
<1> QED
  BY <1>1, <1>3, <1>4, <1>5, <1>6, LoopInvariantStep

(* Steps that leave the jobs where they are.  A run that ends does so with *)
(* the violations of its last tick.                                        *)
LEMMA OtherStepsLoopInvariant ==
  ASSUME LoopInvariant,
         UNCHANGED <<jobs, strict, clock_ts, future, queue, starts, running,
                     completed, free_cpus, violations, queue_series, fallback_counts>>,
         pos' \in Nat \ {0},
         \/ pc' = pc
         \/ pc = "loop" /\ pc' \in {"finished", "deadlock"}
         \/ pc = "decide" /\ pc' = "apply",
         \/ dispatched_ids' = dispatched_ids
         \/ pc = "decide" /\ dispatched_ids' = {},
         UniqueIds(jobs) /\ UniqueRun => pc' # "deadlock"
  PROVE  LoopInvariant'
<1>0. /\ TypeOK /\ NeverOvercommitted /\ CpuLossReported
      /\ UniqueIds(jobs) => UniqueRun
  BY DEF LoopInvariant
<1>1. TypeOK'
  BY <1>0 DEF TypeOK, Rows, StartRecord, Violation, Series, Ended, Raised
<1>2. Cpus(running, starts)' = Cpus(running, starts)
  BY DEF Cpus, CpuSlots
<1>3. NeverOvercommitted'
  BY <1>0, <1>2 DEF NeverOvercommitted
<1>4. CpuLossReported'
  BY <1>0, <1>2 DEF CpuLossReported, CpusAddUp
<1>5. ASSUME UniqueIds(jobs) PROVE UniqueRun'
  <2>0. CpusAddUp /\ StartsApart /\ NothingLost /\ ClockInOrder /\ NoneReported
    BY <1>0, <1>5 DEF UniqueRun
  <2>1. CpusAddUp'
    BY <1>2, <2>0 DEF CpusAddUp
  <2>2. StartsApart'
    <3>1. \A s \in DOMAIN starts : starts[s].row \in queue => pc = "apply" /\ pc' = "apply"
      BY <2>0 DEF StartsApart
    <3>2. pc = "apply" => dispatched_ids' = dispatched_ids
      OBVIOUS
    <3> QED
      BY <2>0, <3>1, <3>2 DEF StartsApart, StartId
  <2>3. NothingLost'
    <3>1. pc' # "deadlock"
      BY <1>0, <1>5
    <3>2. pc' \in {"loop", "decide"} => pc = pc' /\ dispatched_ids' = {}
      BY <2>0 DEF NothingLost
    <3> QED
      BY <2>0, <3>1, <3>2 DEF NothingLost, Rows, RowId
  <2>4. ClockInOrder'
    BY <2>0 DEF ClockInOrder
  <2>5. NoneReported'
    BY <2>0 DEF NoneReported
  <2> QED
    BY <2>1, <2>2, <2>3, <2>4, <2>5 DEF UniqueRun
<1> QED
  BY <1>1, <1>3, <1>4, <1>5, LoopInvariantStep

(* Over unique ids a run with a job missing has an event left: every row   *)
(* is somewhere, and with nothing ahead, waiting or running, every row was *)
(* started and every start has completed.                                  *)
LEMMA EventLeft ==
  ASSUME TypeOK, NothingLost, pc = "loop", ~ AllCompleted
  PROVE  EventTimes # {}
<1> SUFFICES ASSUME EventTimes = {} PROVE FALSE
  OBVIOUS
<1>1. future = {} /\ running = {}
  BY DEF EventTimes
<1>2. completed = DOMAIN starts /\ Rows = {starts[s].row : s \in DOMAIN starts}
  BY <1>1 DEF NothingLost
<1>3. Len(jobs) \in Nat /\ DOMAIN starts = 1..Len(starts) /\ Len(starts) \in Nat
  BY TraceFacts, RunningFacts DEF TypeOK
<1>4. IsFiniteSet(completed) /\ Cardinality(Rows) = Len(jobs)
  BY <1>2, <1>3, CountTo DEF Rows
<1> DEFINE f == [s \in completed |-> starts[s].row]
<1>5. f \in Surjection(completed, Rows)
  BY <1>2 DEF Surjection
<1> HIDE DEF f
<1>6. Cardinality(Rows) <= Cardinality(completed)
  BY <1>4, <1>5, FS_Surjection
<1>7. Cardinality(completed) \in Nat
  BY <1>4, FS_CardinalityType
<1> QED
  BY <1>3, <1>4, <1>6, <1>7 DEF AllCompleted

(* The loop invariant is inductive.                                        *)
LEMMA NextLoopInvariant ==
  ASSUME LoopInvariant, [Next]_vars
  PROVE  LoopInvariant'
<1>1. pos \in Nat \ {0} /\ TypeOK
  BY DEF LoopInvariant, TypeOK
<1>2. UniqueIds(jobs) => NothingLost
  BY DEF LoopInvariant, UniqueRun
<1>3. CASE NextEvent
  BY <1>3, NextEventLoopInvariant
<1>4. CASE RaiseDeadlock
  <2>1. ~ UniqueIds(jobs)
    BY <1>1, <1>2, <1>4, EventLeft DEF RaiseDeadlock
  <2> QED
    BY <1>1, <1>4, <2>1, OtherStepsLoopInvariant DEF RaiseDeadlock
<1>5. CASE Finish
  BY <1>1, <1>5, OtherStepsLoopInvariant DEF Finish
<1>6. CASE ReceiveDecision
  BY <1>6, OtherStepsLoopInvariant DEF ReceiveDecision
<1>7. pc' = pc /\ UniqueIds(jobs) => pc' # "deadlock"
  BY <1>2 DEF NothingLost
<1>8. CASE SkipDecision
  BY <1>1, <1>7, <1>8, OtherStepsLoopInvariant DEF SkipDecision
<1>9. CASE StartJob
  BY <1>9, StartJobLoopInvariant
<1>10. CASE EndTick
  BY <1>10, EndTickLoopInvariant
<1>11. CASE RaiseStrict
  BY <1>11, RaiseStrictLoopInvariant
<1>12. CASE Terminated
  BY <1>1, <1>7, <1>12, OtherStepsLoopInvariant DEF Terminated, vars
<1>13. CASE UNCHANGED vars
  BY <1>1, <1>7, <1>13, OtherStepsLoopInvariant DEF vars
<1> QED
  BY <1>3, <1>4, <1>5, <1>6, <1>8, <1>9, <1>10, <1>11, <1>12, <1>13 DEF Next

-----------------------------------------------------------------------------
(* The loop invariant holds of every run, whatever the trace and whatever  *)
(* the policy answers.                                                     *)
THEOREM LoopInvariantHolds == Spec => []LoopInvariant
<1>1. Init => LoopInvariant
  BY InitLoopInvariant
<1>2. LoopInvariant /\ [Next]_vars => LoopInvariant'
  BY NextLoopInvariant
<1> QED
  BY <1>1, <1>2, PTL DEF Spec

(* The state of the loop is well typed.                                    *)
THEOREM TypeCorrect == Spec => []TypeOK
<1>1. LoopInvariant => TypeOK
  BY DEF LoopInvariant
<1> QED
  BY <1>1, LoopInvariantHolds, PTL

(* Whatever the policy answers, and even when rows share an id, free_cpus  *)
(* is never negative and the running jobs fit beside it.                   *)
THEOREM NeverOvercommits == Spec => []NeverOvercommitted
<1>1. LoopInvariant => NeverOvercommitted
  BY DEF LoopInvariant
<1> QED
  BY <1>1, LoopInvariantHolds, PTL

(* Over unique ids, whatever the policy answers, the CPUs of the running   *)
(* jobs and the free CPUs make up the machine.                             *)
THEOREM CpusConserved == Spec => []CpuConservation
<1>1. LoopInvariant => CpuConservation
  BY DEF LoopInvariant, UniqueRun, CpuConservation
<1> QED
  BY <1>1, LoopInvariantHolds, PTL

(* No run goes on or ends with a CPU lost and an empty report.             *)
THEOREM LossReported == Spec => []CpuLossReported
<1>1. LoopInvariant => CpuLossReported
  BY DEF LoopInvariant
<1> QED
  BY <1>1, LoopInvariantHolds, PTL

(* No policy can make check_invariants report or strict mode raise: over   *)
(* rows with distinct ids the invariant report is always clean.            *)
THEOREM ReportAlwaysClean == Spec => []ReportClean
<1>1. LoopInvariant => ReportClean
  BY DEF LoopInvariant, UniqueRun, ReportClean
<1> QED
  BY <1>1, LoopInvariantHolds, PTL

(* Over unique ids the loop never runs out of events with a job missing:   *)
(* its deadlock sentinel is never raised.                                  *)
THEOREM NoDeadlockRaised == Spec => []NoDeadlockError
<1>1. LoopInvariant => NoDeadlockError
  BY DEF LoopInvariant, UniqueRun, NothingLost, NoDeadlockError
<1> QED
  BY <1>1, LoopInvariantHolds, PTL

-----------------------------------------------------------------------------

(* What is assumed of a run: rows have distinct ids, and the policy names  *)
(* no job twice in one answer.                                             *)
DistinctIds == \A t \in Traces : UniqueIds(t)
NamesOnce(list) == Len(list) \in Nat /\ RepeatFree(list)
Distinct == DistinctIds /\ \A d \in DecisionLists : NamesOnce(d)

-----------------------------------------------------------------------------
(* The order within a tick.                                                *)

(* From the event to the end of the tick what is due has been taken.       *)
NothingDue ==
  /\ pc = "decide" =>
       /\ \A r \in future : jobs[r].submit_ts > clock_ts
       /\ \A s \in running : starts[s].end_ts > clock_ts
  /\ DueEventsFirst

(* A tick moves to the first of all event times and takes all that is due. *)
LEMMA EventTakesDue ==
  ASSUME LoopInvariant, NextEvent
  PROVE  NothingDue'
<1>0. TypeOK
  BY DEF LoopInvariant
<1>1. PICK next_ts \in EventTimes :
        /\ \A ts \in EventTimes : next_ts <= ts
        /\ clock_ts' = next_ts
        /\ running' = {s \in running :
             StartId(s) \notin {StartId(t) : t \in Completing(next_ts)}}
        /\ future' = future \ {r \in future : jobs[r].submit_ts = next_ts}
  BY DEF NextEvent
<1>2. pc' = "decide" /\ jobs' = jobs /\ starts' = starts
  BY DEF NextEvent
<1>3. /\ \A r \in future : jobs[r].submit_ts \in Int
      /\ \A s \in running : starts[s].end_ts \in Int
  BY <1>0, TraceFacts, RunningFacts DEF TypeOK, StartRecord
<1>4. next_ts \in Int
  BY <1>1, <1>3 DEF EventTimes
<1>5. \A r \in future' : jobs[r].submit_ts > next_ts
  <2> SUFFICES ASSUME NEW r \in future' PROVE jobs[r].submit_ts > next_ts
    OBVIOUS
  <2>1. r \in future /\ jobs[r].submit_ts # next_ts
    BY <1>1
  <2>2. next_ts <= jobs[r].submit_ts
    BY <1>1, <2>1 DEF EventTimes
  <2> QED
    BY <1>3, <1>4, <2>1, <2>2
<1>6. \A s \in running' : starts[s].end_ts > next_ts
  <2> SUFFICES ASSUME NEW s \in running' PROVE starts[s].end_ts > next_ts
    OBVIOUS
  <2>1. s \in running /\ s \notin Completing(next_ts)
    BY <1>1
  <2>2. starts[s].end_ts # next_ts /\ next_ts <= starts[s].end_ts
    BY <1>1, <2>1 DEF Completing, EventTimes
  <2> QED
    BY <1>3, <1>4, <2>1, <2>2
<1> QED
  BY <1>1, <1>2, <1>5, <1>6 DEF NothingDue, DueEventsFirst

(* What a start adds to the lists of starts.                               *)
LEMMA StartAdds ==
  ASSUME TypeOK, StartJob
  PROVE  LET row == QueueById(decision[pos])
             new == Len(starts) + 1
         IN  /\ row \in queue /\ row \in Rows /\ RowId(row) = decision[pos]
             /\ new \notin DOMAIN starts /\ DOMAIN starts' = DOMAIN starts \cup {new}
             /\ \A s \in DOMAIN starts : starts'[s] = starts[s]
             /\ starts'[new].row = row
             /\ starts'[new].start_ts = clock_ts
             /\ starts'[new].end_ts = clock_ts + jobs[row].runtime_actual_sec
             /\ running' = running \cup {new}
<1> DEFINE row == QueueById(decision[pos])
           job == jobs[row]
           new == Len(starts) + 1
           record == [row |-> row, requested_cpus |-> job.requested_cpus,
                      start_ts |-> clock_ts,
                      end_ts |-> clock_ts + job.runtime_actual_sec]
<1>1. /\ decision[pos] \in QueuedIds
      /\ starts' = Append(starts, record)
      /\ running' = running \cup {new}
  BY DEF StartJob
<1>2. row \in queue /\ row \in Rows /\ RowId(row) = decision[pos]
  BY <1>1, QueueByIdQueued DEF TypeOK
<1>3. job.requested_cpus \in Nat \ {0} /\ job.runtime_actual_sec \in Nat
  BY <1>2, TraceFacts DEF TypeOK
<1> HIDE DEF row
<1>4. record \in StartRecord
  BY <1>2, <1>3 DEF StartRecord, TypeOK
<1>5. starts \in Seq(StartRecord) /\ Len(starts) \in Nat /\ DOMAIN starts = 1..Len(starts)
  BY RunningFacts DEF TypeOK
<1>6. /\ DOMAIN starts' = 1..new
      /\ \A s \in DOMAIN starts : starts'[s] = starts[s]
      /\ starts'[new] = record
  <2> HIDE DEF record
  <2> QED
    BY <1>1, <1>4, <1>5
<1>7. new \notin DOMAIN starts /\ DOMAIN starts' = DOMAIN starts \cup {new}
  BY <1>5, <1>6
<1> QED
  BY <1>1, <1>2, <1>6, <1>7 DEF row

(* No other step makes anything due, and a start of no runtime is of this  *)
(* tick.                                                                   *)
LEMMA NothingDueStep ==
  ASSUME LoopInvariant, NothingDue, [Next]_vars
  PROVE  NothingDue'
<1>0. TypeOK
  BY DEF LoopInvariant
<1>1. CASE NextEvent
  BY <1>1, EventTakesDue
<1>2. CASE ReceiveDecision
  BY <1>2 DEF ReceiveDecision, NothingDue, DueEventsFirst, StartId
<1>3. CASE SkipDecision
  BY <1>3 DEF SkipDecision, NothingDue, DueEventsFirst, StartId
<1>4. CASE StartJob
  <2> DEFINE new == Len(starts) + 1
  <2>1. /\ pc = "apply" /\ pc' = "apply"
        /\ dispatched_ids' = dispatched_ids \cup {decision[pos]}
        /\ UNCHANGED <<jobs, future, clock_ts>>
    BY <1>4 DEF StartJob
  <2>2. /\ RowId(QueueById(decision[pos])) = decision[pos]
        /\ starts'[new].row = QueueById(decision[pos])
        /\ \A s \in DOMAIN starts : starts'[s] = starts[s]
        /\ running' = running \cup {new}
    BY <1>0, <1>4, StartAdds
  <2>3. jobs'[starts'[new].row].job_id \in dispatched_ids'
    BY <2>1, <2>2 DEF RowId
  <2>4. \A s \in running :
          starts'[s].end_ts > clock_ts \/ jobs'[starts'[s].row].job_id \in dispatched_ids'
    BY <1>0, <2>1, <2>2 DEF NothingDue, DueEventsFirst, StartId, TypeOK
  <2> HIDE DEF new
  <2> QED
    BY <2>1, <2>2, <2>3, <2>4 DEF NothingDue, DueEventsFirst, StartId
<1>5. CASE RaiseDeadlock \/ Finish \/ EndTick \/ RaiseStrict
  <2>1. pc' \notin {"decide", "apply"}
    BY <1>5 DEF RaiseDeadlock, Finish, EndTick, RaiseStrict
  <2> QED
    BY <2>1 DEF NothingDue, DueEventsFirst
<1>6. CASE Terminated \/ UNCHANGED vars
  BY <1>6 DEF Terminated, vars, NothingDue, DueEventsFirst, StartId
<1> QED
  BY <1>1, <1>2, <1>3, <1>4, <1>5, <1>6 DEF Next

(* Completions come before submissions and submissions before starts, of   *)
(* any trace under any policy: when decisions are applied nothing is due   *)
(* but what this tick has started with no runtime.                         *)
THEOREM DueEventsTaken == Spec => []DueEventsFirst
<1>1. Init => NothingDue
  BY DEF Init, StartRun, NothingDue, DueEventsFirst
<1>2. NothingDue => DueEventsFirst
  BY DEF NothingDue
<1> QED
  BY <1>1, <1>2, NothingDueStep, LoopInvariantHolds, PTL DEF Spec

-----------------------------------------------------------------------------
(* Each row starts once.                                                   *)

RowOf(s) == starts[s].row
SourceOf(s) == jobs[RowOf(s)].estimate_source
FromSource(S, src) == {s \in S : SourceOf(s) = src}

(* Each start is of a row of its own, the rest of a list names no job that *)
(* this tick has started, and each start has been counted.                 *)
StartsOnce ==
  /\ \A s, t \in DOMAIN starts : RowOf(s) = RowOf(t) => s = t
  /\ pc = "apply" => NamesOnce(decision)
  /\ pc = "apply" => \A i \in pos..Len(decision) : decision[i] \notin dispatched_ids
  /\ \A src \in Sources : fallback_counts[src] = Cardinality(FromSource(DOMAIN starts, src))

(* What the loop invariant says of a run over distinct ids.                *)
LEMMA DistinctRun ==
  ASSUME DistinctIds, LoopInvariant
  PROVE  TypeOK /\ UniqueIds(jobs) /\ CpusAddUp /\ StartsApart /\ NothingLost /\ ClockInOrder
BY DEF DistinctIds, LoopInvariant, TypeOK, UniqueRun

(* Only a job that this tick has not started can be started by the next    *)
(* decision, so that its row has not started before.                       *)
LEMMA StartJobOnce ==
  ASSUME DistinctIds, LoopInvariant, StartsOnce, StartJob
  PROVE  StartsOnce'
<1> DEFINE row == QueueById(decision[pos])
           new == Len(starts) + 1
<1>0. TypeOK /\ StartsApart
  BY DistinctRun
<1>1. /\ row \in queue /\ row \in Rows /\ RowId(row) = decision[pos]
      /\ new \notin DOMAIN starts /\ DOMAIN starts' = DOMAIN starts \cup {new}
      /\ \A s \in DOMAIN starts : starts'[s] = starts[s]
      /\ starts'[new].row = row
  BY <1>0, StartAdds
<1>2. /\ pc = "apply" /\ pos <= Len(decision) /\ pos' = pos + 1
      /\ dispatched_ids' = dispatched_ids \cup {decision[pos]}
      /\ fallback_counts' = [fallback_counts EXCEPT ![jobs[row].estimate_source] = @ + 1]
      /\ UNCHANGED <<jobs, pc, decision>>
  BY DEF StartJob
<1>3. NamesOnce(decision) /\ Len(decision) \in Nat /\ RepeatFree(decision) /\ pos \in Nat \ {0}
  BY <1>0, <1>2 DEF StartsOnce, NamesOnce, TypeOK
<1>4. decision[pos] \notin dispatched_ids
  BY <1>2, <1>3 DEF StartsOnce
<1>5. \A s \in DOMAIN starts : starts[s].row # row
  BY <1>0, <1>1, <1>4 DEF StartsApart, StartId, RowId
<1>6. \A i \in pos'..Len(decision') : decision'[i] \notin dispatched_ids'
  <2> SUFFICES ASSUME NEW i \in (pos + 1)..Len(decision)
               PROVE  decision[i] \notin dispatched_ids /\ decision[i] # decision[pos]
    BY <1>2
  <2>1. i \in pos..Len(decision) /\ i \in 1..Len(decision) /\ pos \in 1..Len(decision) /\ i # pos
    BY <1>2, <1>3
  <2> QED
    BY <1>2, <1>3, <2>1 DEF StartsOnce, RepeatFree
<1>7. jobs[row].estimate_source \in Sources
  BY <1>0, <1>1, TraceFacts DEF TypeOK
<1>8. IsFiniteSet(DOMAIN starts)
  BY <1>0, RunningFacts, CountTo
<1> HIDE DEF row, new
<1>9. ASSUME NEW src \in Sources
      PROVE  fallback_counts'[src] = Cardinality(FromSource(DOMAIN starts, src)')
  <2> DEFINE before == FromSource(DOMAIN starts, src)
  <2>1. before \subseteq DOMAIN starts
    BY DEF FromSource
  <2>2. IsFiniteSet(before) /\ Cardinality(before) = fallback_counts[src] /\ new \notin before
    BY <1>1, <1>8, <2>1, FS_Subset DEF StartsOnce
  <2>3. FromSource(DOMAIN starts, src)' = {s \in DOMAIN starts' : jobs[starts'[s].row].estimate_source = src}
    BY <1>2 DEF FromSource, SourceOf, RowOf
  <2>4. before = {s \in DOMAIN starts : jobs[starts[s].row].estimate_source = src}
    BY DEF FromSource, SourceOf, RowOf
  <2> HIDE DEF before
  <2>5. CASE jobs[row].estimate_source = src
    <3>1. FromSource(DOMAIN starts, src)' = before \cup {new}
      BY <1>1, <2>3, <2>4, <2>5
    <3>2. Cardinality(before \cup {new}) = Cardinality(before) + 1
      BY <2>2, FS_AddElement
    <3>3. fallback_counts'[src] = fallback_counts[src] + 1
      BY <1>0, <1>2, <1>7, <2>5 DEF TypeOK
    <3> QED
      BY <2>2, <3>1, <3>2, <3>3
  <2>6. CASE jobs[row].estimate_source # src
    <3>1. FromSource(DOMAIN starts, src)' = before
      BY <1>1, <2>3, <2>4, <2>6
    <3>2. fallback_counts'[src] = fallback_counts[src]
      BY <1>0, <1>2, <1>7, <2>6 DEF TypeOK
    <3> QED
      BY <2>2, <3>1, <3>2
  <2> QED
    BY <2>5, <2>6
<1>10. \A s, t \in DOMAIN starts' : starts'[s].row = starts'[t].row => s = t
  BY <1>1, <1>5 DEF StartsOnce, RowOf
<1> QED
  BY <1>2, <1>3, <1>6, <1>9, <1>10 DEF StartsOnce, RowOf

(* Only a start adds to the starts; the other steps keep what is said of   *)
(* the rest of the list.                                                   *)
LEMMA StartsOnceStep ==
  ASSUME DistinctIds, LoopInvariant, StartsOnce, [Next]_vars,
         ReceiveDecision => NamesOnce(decision)'
  PROVE  StartsOnce'
<1>0. pos \in Nat \ {0}
  BY DistinctRun DEF TypeOK
<1>1. CASE StartJob
  BY <1>1, StartJobOnce
<1>2. CASE ReceiveDecision
  <2>1. /\ NamesOnce(decision)' /\ dispatched_ids' = {}
        /\ UNCHANGED <<jobs, starts, fallback_counts>>
    BY <1>2 DEF ReceiveDecision
  <2> QED
    BY <2>1 DEF StartsOnce, FromSource, SourceOf, RowOf
<1>3. CASE SkipDecision
  <2>1. /\ pos' = pos + 1
        /\ UNCHANGED <<jobs, pc, starts, fallback_counts, decision, dispatched_ids>>
    BY <1>3 DEF SkipDecision
  <2>2. pc = "apply" => Len(decision) \in Nat
    BY DEF StartsOnce, NamesOnce
  <2>3. pc = "apply" => (pos + 1)..Len(decision) \subseteq pos..Len(decision)
    BY <1>0, <2>2
  <2> QED
    BY <2>1, <2>3 DEF StartsOnce, NamesOnce, FromSource, SourceOf, RowOf
<1>4. CASE NextEvent \/ RaiseDeadlock \/ Finish \/ EndTick \/ RaiseStrict
  <2>1. pc' # "apply" /\ UNCHANGED <<jobs, starts, fallback_counts>>
    BY <1>4 DEF NextEvent, RaiseDeadlock, Finish, EndTick, RaiseStrict
  <2> QED
    BY <2>1 DEF StartsOnce, FromSource, SourceOf, RowOf
<1>5. CASE Terminated \/ UNCHANGED vars
  BY <1>5 DEF Terminated, vars, StartsOnce, FromSource, SourceOf, RowOf
<1> QED
  BY <1>1, <1>2, <1>3, <1>4, <1>5 DEF Next

(* Before the first tick nothing has started.                              *)
LEMMA StartsOnceInit == ASSUME Init PROVE StartsOnce
<1>1. starts = <<>> /\ DOMAIN <<>> = {} /\ pc = "loop" /\ fallback_counts = [src \in Sources |-> 0]
  BY DEF Init, StartRun
<1>2. \A src \in Sources : FromSource(DOMAIN starts, src) = {}
  BY <1>1 DEF FromSource
<1> QED
  BY <1>1, <1>2, FS_EmptySet DEF StartsOnce

(* A run that ends with as many completions as rows has completed each     *)
(* row, as no two starts are of one row.                                   *)
LEMMA FinishedRun ==
  ASSUME DistinctIds, LoopInvariant, StartsOnce, AllCompleted
  PROVE  completed = DOMAIN starts /\ {starts[s].row : s \in completed} = Rows
<1>0. TypeOK
  BY DistinctRun
<1>1. /\ Len(jobs) \in Nat /\ Len(starts) \in Nat /\ DOMAIN starts = 1..Len(starts)
      /\ \A s \in DOMAIN starts : starts[s].row \in Rows
  BY <1>0, TraceFacts, RunningFacts DEF TypeOK, StartRecord
<1>2. IsFiniteSet(Rows) /\ Cardinality(Rows) = Len(jobs)
  BY <1>1, CountTo DEF Rows
<1>3. IsFiniteSet(DOMAIN starts) /\ completed \subseteq DOMAIN starts
  BY <1>0, <1>1, CountTo DEF TypeOK
<1> DEFINE f == [s \in DOMAIN starts |-> starts[s].row]
<1>4. f \in Injection(DOMAIN starts, Rows)
  BY <1>1 DEF Injection, IsInjective, StartsOnce, RowOf
<1>5. /\ Cardinality(DOMAIN starts) <= Cardinality(Rows)
      /\ Cardinality(DOMAIN starts) = Cardinality(Rows) => f \in Surjection(DOMAIN starts, Rows)
  <2> HIDE DEF f
  <2> QED
    BY <1>2, <1>4, FS_Injection
<1>6. IsFiniteSet(completed) /\ Cardinality(completed) \in Nat /\ Cardinality(completed) >= Len(jobs)
  BY <1>3, FS_Subset, FS_CardinalityType DEF AllCompleted
<1>7. Cardinality(DOMAIN starts) \in Nat /\ Cardinality(completed) <= Cardinality(DOMAIN starts)
  BY <1>3, FS_CardinalityType, FS_Subset
<1>8. Cardinality(completed) = Cardinality(DOMAIN starts) /\ Cardinality(DOMAIN starts) = Cardinality(Rows)
  BY <1>1, <1>2, <1>5, <1>6, <1>7
<1>9. completed = DOMAIN starts
  BY <1>3, <1>8, FS_Subset
<1> QED
  BY <1>5, <1>8, <1>9 DEF Surjection

(* Where the loop says it has finished it has left all rows completed.     *)
Settled == pc = "finished" => NoJobLost /\ AllCompleted

(* A run finishes only with all rows completed, and then stays as it is.   *)
LEMMA SettledStep ==
  ASSUME DistinctIds, LoopInvariant, StartsOnce, Settled, [Next]_vars
  PROVE  Settled'
<1>1. CASE Finish
  <2>1. AllCompleted /\ UNCHANGED <<jobs, starts, completed, fallback_counts>>
    BY <1>1 DEF Finish
  <2>2. completed = DOMAIN starts /\ {starts[s].row : s \in completed} = Rows
    BY <2>1, FinishedRun
  <2>3. \A src \in Sources : fallback_counts[src] =
          Cardinality({s \in completed : jobs[starts[s].row].estimate_source = src})
    BY <2>2 DEF StartsOnce, FromSource, SourceOf, RowOf
  <2> QED
    BY <2>1, <2>2, <2>3 DEF Settled, NoJobLost, AccountingExact, AllCompleted, Rows
<1>2. CASE Terminated \/ UNCHANGED vars
  <2>1. UNCHANGED vars
    BY <1>2 DEF Terminated
  <2> QED
    BY <2>1 DEF vars, Settled, NoJobLost, AccountingExact, AllCompleted, Rows
<1>3. CASE Next /\ ~ Finish /\ ~ Terminated
  <2>1. pc' # "finished"
    BY <1>3 DEF Next, NextEvent, RaiseDeadlock, ReceiveDecision, SkipDecision, StartJob, EndTick, RaiseStrict
  <2> QED
    BY <2>1 DEF Settled
<1> QED
  BY <1>1, <1>2, <1>3

(* No row is started twice, and each start is counted under its source,    *)
(* whatever a policy answers that names no job twice.                      *)
THEOREM EachRowStartsOnce == ASSUME Distinct PROVE Spec => []StartsOnce
<1>1. Init => StartsOnce
  BY StartsOnceInit
<1>2. LoopInvariant /\ StartsOnce /\ [Next]_vars => StartsOnce'
  <2>1. ReceiveDecision => NamesOnce(decision)'
    BY DEF Distinct, ReceiveDecision
  <2> QED
    BY <2>1, StartsOnceStep DEF Distinct
<1> QED
  BY <1>1, <1>2, LoopInvariantHolds, PTL DEF Spec

(* A run whose rows start once finishes with every row of the trace        *)
(* completed, and each counted under its own source.                       *)
LEMMA NoneLostIfOnce == ASSUME DistinctIds PROVE Spec /\ []StartsOnce => []NoJobLost
<1>1. Init => Settled
  BY DEF Init, StartRun, Settled
<1>2. LoopInvariant /\ StartsOnce /\ Settled /\ [Next]_vars => Settled'
  BY SettledStep
<1>3. Settled => NoJobLost
  BY DEF Settled, NoJobLost, AccountingExact
<1> QED
  BY <1>1, <1>2, <1>3, LoopInvariantHolds, PTL DEF Spec

(* Under any policy that names no job twice a run that finishes has        *)
(* completed every row of the trace, and has counted each under its own    *)
(* source.                                                                 *)
THEOREM NoJobIsLost == ASSUME Distinct PROVE Spec => []NoJobLost
<1> QED
  BY NoneLostIfOnce, EachRowStartsOnce, PTL DEF Distinct

-----------------------------------------------------------------------------
(* The simulated queue series.                                             *)

(* Times of the run so far at which a row was submitted or started.        *)
PastEvents == {jobs[r].submit_ts : r \in Rows \ future} \cup {starts[s].start_ts : s \in DOMAIN starts}

(* The last row recorded of a time is the observed one.                    *)
RowRight(ts) == \E i \in Recorded(ts) :
  /\ queue_series[i] = ObservedRow(ts)
  /\ \A j \in Recorded(ts) : j <= i

(* What is past has its row; the tick that runs has not yet.               *)
SeriesSoFar == \A ts \in PastEvents :
  ts < clock_ts \/ pc \in {"loop", "finished"} => RowRight(ts)

(* No row of the past is submitted, and none started, after the clock.     *)
LEMMA PastIsPast ==
  ASSUME DistinctIds, LoopInvariant, NEW ts \in PastEvents
  PROVE  ts \in Int /\ clock_ts \in Int /\ ts <= clock_ts
<1>1. TypeOK /\ NothingLost /\ ClockInOrder
  BY DistinctRun
<1>2. \A s \in DOMAIN starts : starts[s] \in StartRecord
  BY <1>1, RunningFacts
<1>3. \A r \in Rows : jobs[r].submit_ts \in Int
  BY <1>1, TraceFacts DEF TypeOK
<1>4. clock_ts \in Int
  BY <1>1 DEF TypeOK
<1>5. ASSUME NEW s \in DOMAIN starts
      PROVE  /\ starts[s].start_ts \in Int /\ starts[s].start_ts <= clock_ts
             /\ jobs[starts[s].row].submit_ts <= clock_ts
  <2>1. starts[s].start_ts \in Int /\ starts[s].row \in Rows
    BY <1>2 DEF StartRecord
  <2>2. jobs[starts[s].row].submit_ts <= starts[s].start_ts /\ starts[s].start_ts <= clock_ts
    BY <1>1 DEF ClockInOrder
  <2> QED
    BY <1>3, <1>4, <2>1, <2>2
<1>6. ASSUME NEW r \in Rows \ future PROVE jobs[r].submit_ts <= clock_ts
  <2>1. r \in queue \/ \E s \in DOMAIN starts : starts[s].row = r
    BY <1>1 DEF NothingLost
  <2> QED
    BY <1>1, <1>5, <2>1 DEF ClockInOrder
<1> QED
  BY <1>3, <1>4, <1>5, <1>6 DEF PastEvents

(* A row recorded stays right while nothing is started at its time or      *)
(* before, and no row of its time is recorded.                             *)
LEMMA RowStays ==
  ASSUME TypeOK, jobs' = jobs, queue_series' = queue_series, NEW ts \in Int, RowRight(ts),
         \A s \in DOMAIN starts : s \in DOMAIN starts' /\ starts'[s] = starts[s],
         \A s \in DOMAIN starts' : starts'[s].start_ts <= ts => s \in DOMAIN starts
  PROVE  RowRight(ts)'
<1>1. StartedBy(ts)' = StartedBy(ts) /\ SubmittedBy(ts)' = SubmittedBy(ts)
  BY DEF StartedBy, SubmittedBy, Rows
<1>2. Cpus(StartedBy(ts), starts') = Cpus(StartedBy(ts), starts)
  BY CpusSame DEF StartedBy
<1>3. ObservedRow(ts)' = ObservedRow(ts)
  BY <1>1, <1>2 DEF ObservedRow
<1>4. Recorded(ts)' = Recorded(ts)
  BY DEF Recorded
<1> QED
  BY <1>3, <1>4 DEF RowRight

(* Rows started and rows left waiting are those submitted: at the end of a *)
(* tick the queue is what the observed rule computes.                      *)
LEMMA QueueAsObserved ==
  ASSUME DistinctIds, LoopInvariant, StartsOnce, NothingDue, pc = "apply"
  PROVE  SeriesRow = ObservedRow(clock_ts)
<1> DEFINE started == {starts[s].row : s \in DOMAIN starts}
           gone == SubmittedBy(clock_ts)
           f == [s \in DOMAIN starts |-> starts[s].row]
<1>0. TypeOK /\ StartsApart /\ NothingLost /\ ClockInOrder
  BY DistinctRun
<1>1. /\ Len(starts) \in Nat /\ DOMAIN starts = 1..Len(starts)
      /\ \A s \in DOMAIN starts : starts[s] \in StartRecord
      /\ \A s \in DOMAIN starts : starts[s].row \in Rows /\ starts[s].requested_cpus \in Nat
  BY <1>0, RunningFacts DEF StartRecord
<1>2. /\ \A r \in Rows : jobs[r].submit_ts \in Int /\ jobs[r].requested_cpus \in Nat
      /\ Len(jobs) \in Nat /\ clock_ts \in Int
  BY <1>0, TraceFacts DEF TypeOK
<1>3. StartedBy(clock_ts) = DOMAIN starts
  BY <1>0 DEF StartedBy, ClockInOrder
<1>4. gone = Rows \ future
  <2>1. \A r \in future : jobs[r].submit_ts > clock_ts /\ r \in Rows
    BY <1>0 DEF NothingDue, DueEventsFirst, TypeOK
  <2>2. \A r \in Rows \ future : jobs[r].submit_ts \in PastEvents
    BY DEF PastEvents
  <2>3. \A r \in Rows \ future : jobs[r].submit_ts <= clock_ts
    BY <2>2, PastIsPast
  <2> QED
    BY <1>2, <2>1, <2>3 DEF SubmittedBy
<1>5. /\ started \subseteq gone
      /\ RemainingQueue = gone \ started
  <2>1. \A s \in DOMAIN starts : starts[s].row \notin future
    BY <1>0 DEF StartsApart
  <2>2. started \subseteq gone
    BY <1>1, <1>4, <2>1
  <2>3. \A r \in queue : r \in started <=> RowId(r) \in dispatched_ids
    BY <1>0 DEF StartsApart, NothingLost, StartId, RowId
  <2>4. Rows = future \cup queue \cup started /\ queue \cap future = {}
    BY <1>0 DEF NothingLost, StartsApart
  <2> QED
    BY <1>4, <2>2, <2>3, <2>4 DEF RemainingQueue
<1>6. IsFiniteSet(gone) /\ IsFiniteSet(started) /\ IsFiniteSet(DOMAIN starts)
  <2>1. IsFiniteSet(Rows) /\ gone \subseteq Rows
    BY <1>2, CountTo DEF Rows, SubmittedBy
  <2> QED
    BY <1>1, <1>5, <2>1, CountTo, FS_Subset
<1> HIDE DEF gone
<1>7. f \in Bijection(DOMAIN starts, started)
  BY DEF Bijection, Injection, Surjection, IsInjective, StartsOnce, RowOf
<1>8. Cardinality(started) = Cardinality(DOMAIN starts)
  <2> HIDE DEF f, started
  <2> QED
    BY <1>6, <1>7, FS_Bijection DEF ExistsBijection
<1>9. Cardinality(RemainingQueue) = Cardinality(gone) - Cardinality(started)
  <2>1. gone \cap started = started
    BY <1>5
  <2> HIDE DEF started
  <2> QED
    BY <1>5, <1>6, <2>1, FS_Difference
<1>10. CpuList(gone, jobs)
  BY <1>2, <1>4 DEF CpuList
<1>11. Cpus(RemainingQueue, jobs) = Cpus(gone, jobs) - Cpus(started, jobs)
  <2> HIDE DEF started
  <2> QED
    BY <1>5, <1>6, <1>10, CpusDifference
<1>12. Cpus(started, jobs) = Cpus(DOMAIN starts, starts)
  <2> DEFINE A == CpuSlots(DOMAIN starts, starts)
             B == CpuSlots(started, jobs)
             g == [slot \in A |-> <<starts[slot[1]].row, slot[2]>>]
  <2>1. \A s \in DOMAIN starts : starts[s].requested_cpus = jobs[starts[s].row].requested_cpus
    BY <1>0 DEF StartsApart
  <2>2. A = UNION {{s} \X (1..jobs[starts[s].row].requested_cpus) : s \in DOMAIN starts}
    BY <2>1 DEF CpuSlots
  <2>3. /\ \A s \in DOMAIN starts : \A k \in 1..jobs[starts[s].row].requested_cpus : <<s, k>> \in A
        /\ \A slot \in A : \E s \in DOMAIN starts : \E k \in 1..jobs[starts[s].row].requested_cpus : slot = <<s, k>>
    BY <2>2
  <2>4. /\ \A s \in DOMAIN starts : \A k \in 1..jobs[starts[s].row].requested_cpus : <<starts[s].row, k>> \in B
        /\ \A slot \in B : \E s \in DOMAIN starts : \E k \in 1..jobs[starts[s].row].requested_cpus :
             slot = <<starts[s].row, k>>
    BY DEF CpuSlots
  <2>5. \A s, t \in DOMAIN starts : starts[s].row = starts[t].row => s = t
    BY DEF StartsOnce, RowOf
  <2> HIDE DEF A, B, started
  <2>6. g \in Bijection(A, B)
    <3>1. \A slot \in A : g[slot] \in B
      BY <2>3, <2>4
    <3>2. \A x, y \in A : g[x] = g[y] => x = y
      BY <2>3, <2>5
    <3>3. \A slot \in B : \E x \in A : g[x] = slot
      BY <2>3, <2>4
    <3> QED
      BY <3>1, <3>2, <3>3 DEF Bijection, Injection, Surjection, IsInjective
  <2>7. IsFiniteSet(A)
    <3>1. CpuList(DOMAIN starts, starts)
      BY <1>1 DEF CpuList
    <3> QED
      BY <1>6, <3>1, CpuSlotsFinite DEF A
  <2> HIDE DEF g
  <2>8. Cardinality(A) = Cardinality(B)
    BY <2>6, <2>7, FS_Bijection DEF ExistsBijection
  <2> QED
    BY <2>8 DEF A, B, Cpus
<1> QED
  BY <1>3, <1>8, <1>9, <1>11, <1>12 DEF SeriesRow, ObservedRow, gone

(* The end of a tick records its row, the last of its time.                *)
LEMMA SeriesEndTick ==
  ASSUME DistinctIds, LoopInvariant, StartsOnce, NothingDue, SeriesSoFar, EndTick
  PROVE  SeriesSoFar'
<1> DEFINE n == Len(queue_series)
<1>0. TypeOK
  BY DistinctRun
<1>1. /\ pc = "apply" /\ queue_series' = Append(queue_series, SeriesRow)
      /\ UNCHANGED <<jobs, future, starts, clock_ts>>
  BY DEF EndTick
<1>2. SeriesRow = ObservedRow(clock_ts)
  BY <1>1, QueueAsObserved
<1>3. SeriesRow \in Series /\ SeriesRow.ts = clock_ts
  BY <1>0, SeriesTyped DEF SeriesRow
<1>4. /\ n \in Nat /\ DOMAIN queue_series = 1..n /\ DOMAIN queue_series' = 1..(n + 1)
      /\ queue_series'[n + 1] = SeriesRow
      /\ \A i \in 1..n : queue_series'[i] = queue_series[i]
  BY <1>0, <1>1, <1>3, AppendProperties, LenProperties DEF TypeOK
<1> HIDE DEF n
<1>5. \A ts : ObservedRow(ts)' = ObservedRow(ts)
  BY <1>1 DEF ObservedRow, SubmittedBy, StartedBy, Rows
<1>6. PastEvents' = PastEvents
  BY <1>1 DEF PastEvents, Rows
<1>7. \A i \in 1..(n + 1) : i \in 1..n \/ i = n + 1
  BY <1>4
<1> SUFFICES ASSUME NEW ts \in PastEvents PROVE RowRight(ts)'
  BY <1>6 DEF SeriesSoFar
<1>8. ts \in Int /\ clock_ts \in Int /\ ts <= clock_ts
  BY PastIsPast
<1>9. CASE ts = clock_ts
  <2>1. n + 1 \in Recorded(ts)' /\ \A j \in Recorded(ts)' : j <= n + 1
    BY <1>3, <1>4, <1>9 DEF Recorded
  <2> QED
    BY <1>2, <1>4, <1>5, <1>9, <2>1 DEF RowRight
<1>10. CASE ts < clock_ts
  <2>1. RowRight(ts)
    BY <1>10 DEF SeriesSoFar
  <2>2. Recorded(ts)' = Recorded(ts)
    BY <1>3, <1>4, <1>7, <1>8, <1>10 DEF Recorded
  <2>3. \A i \in Recorded(ts) : queue_series'[i] = queue_series[i]
    BY <1>4 DEF Recorded
  <2> QED
    BY <1>5, <2>1, <2>2, <2>3 DEF RowRight
<1> QED
  BY <1>8, <1>9, <1>10

(* The other steps leave the past as it is recorded.                       *)
LEMMA SeriesStep ==
  ASSUME DistinctIds, LoopInvariant, StartsOnce, NothingDue, SeriesSoFar, [Next]_vars
  PROVE  SeriesSoFar'
<1>0. TypeOK
  BY DistinctRun
<1>1. CASE NextEvent
  <2>1. PICK next_ts \in EventTimes :
          /\ \A ts \in EventTimes : next_ts <= ts
          /\ clock_ts' = next_ts
          /\ future' = future \ {r \in future : jobs[r].submit_ts = next_ts}
    BY <1>1 DEF NextEvent
  <2>2. pc = "loop" /\ pc' = "decide" /\ UNCHANGED <<jobs, starts, queue_series>>
    BY <1>1 DEF NextEvent
  <2>3. \A ts \in PastEvents' : ts \in PastEvents \/ ts = clock_ts'
    BY <2>1, <2>2 DEF PastEvents, Rows
  <2>4. next_ts \in Int
    <3>1. /\ \A r \in future : jobs[r].submit_ts \in Int
          /\ \A s \in running : starts[s].end_ts \in Int
      BY <1>0, TraceFacts, RunningFacts DEF TypeOK, StartRecord
    <3> QED
      BY <3>1 DEF EventTimes
  <2> SUFFICES ASSUME NEW ts \in PastEvents', ts < clock_ts' PROVE RowRight(ts)'
    BY <2>2 DEF SeriesSoFar
  <2>5. ts \in PastEvents
    BY <2>1, <2>3, <2>4
  <2>6. RowRight(ts) /\ ts \in Int
    BY <2>2, <2>5, PastIsPast DEF SeriesSoFar
  <2> QED
    BY <1>0, <2>2, <2>6, RowStays
<1>2. CASE StartJob
  <2> DEFINE new == Len(starts) + 1
  <2>1. /\ pc' = "apply" /\ UNCHANGED <<jobs, future, clock_ts, queue_series>>
    BY <1>2 DEF StartJob
  <2>2. /\ DOMAIN starts' = DOMAIN starts \cup {new}
        /\ \A s \in DOMAIN starts : starts'[s] = starts[s]
        /\ starts'[new].start_ts = clock_ts
    BY <1>0, <1>2, StartAdds
  <2> HIDE DEF new
  <2>3. \A ts \in PastEvents' : ts \in PastEvents \/ ts = clock_ts
    BY <2>1, <2>2 DEF PastEvents, Rows
  <2>4. clock_ts \in Int
    BY <1>0 DEF TypeOK
  <2> SUFFICES ASSUME NEW ts \in PastEvents', ts < clock_ts PROVE RowRight(ts)'
    BY <2>1 DEF SeriesSoFar
  <2>5. ts \in PastEvents
    BY <2>3, <2>4
  <2>6. RowRight(ts) /\ ts \in Int
    BY <2>5, PastIsPast DEF SeriesSoFar
  <2>7. \A s \in DOMAIN starts' : starts'[s].start_ts <= ts => s \in DOMAIN starts
    BY <2>2, <2>4, <2>6
  <2> QED
    BY <1>0, <2>1, <2>2, <2>6, <2>7, RowStays
<1>3. CASE EndTick
  BY <1>3, SeriesEndTick
<1>4. CASE ReceiveDecision \/ SkipDecision \/ RaiseDeadlock \/ Finish \/ RaiseStrict \/ Terminated \/ UNCHANGED vars
  <2>1. /\ UNCHANGED <<jobs, future, starts, clock_ts, queue_series>>
        /\ pc' \in {"loop", "finished"} => pc \in {"loop", "finished"}
    BY <1>4 DEF ReceiveDecision, SkipDecision, RaiseDeadlock, Finish, RaiseStrict, Terminated, vars
  <2>2. PastEvents' = PastEvents
    BY <2>1 DEF PastEvents, Rows
  <2>3. \A ts : RowRight(ts)' <=> RowRight(ts)
    BY <2>1 DEF RowRight, Recorded, ObservedRow, SubmittedBy, StartedBy, Rows
  <2> QED
    BY <2>1, <2>2, <2>3 DEF SeriesSoFar
<1> QED
  BY <1>1, <1>2, <1>3, <1>4 DEF Next

(* A run that finished has no time ahead.                                  *)
LEMMA FinishedSeries ==
  ASSUME DistinctIds, LoopInvariant, Settled, NothingDue, SeriesSoFar
  PROVE  QueueSeriesMatches
<1>1. ASSUME pc = "finished" PROVE future = {}
  <2>1. {starts[s].row : s \in completed} = Rows
    BY <1>1 DEF Settled, NoJobLost
  <2>2. TypeOK /\ StartsApart
    BY DistinctRun
  <2> QED
    BY <2>1, <2>2 DEF TypeOK, StartsApart
<1>2. ASSUME pc = "finished", NEW ts \in EventsOfRun PROVE RowRight(ts)
  <2>1. ts \in PastEvents
    BY <1>1, <1>2 DEF EventsOfRun, PastEvents
  <2> QED
    BY <1>2, <2>1 DEF SeriesSoFar
<1> QED
  BY <1>2 DEF QueueSeriesMatches, RowRight, NothingDue

(* The queue series of a run whose rows start once is the observed one.    *)
LEMMA SeriesIfOnce == ASSUME DistinctIds PROVE Spec /\ []StartsOnce => []QueueSeriesMatches
<1>1. Init => NothingDue /\ SeriesSoFar /\ Settled
  <2> SUFFICES ASSUME Init PROVE NothingDue /\ SeriesSoFar /\ Settled
    OBVIOUS
  <2>1. DOMAIN <<>> = {}
    OBVIOUS
  <2>2. PastEvents = {}
    BY <2>1 DEF Init, StartRun, PastEvents
  <2> QED
    BY <2>2 DEF Init, StartRun, NothingDue, DueEventsFirst, SeriesSoFar, Settled
<1>2. LoopInvariant /\ StartsOnce /\ NothingDue /\ SeriesSoFar /\ Settled /\ [Next]_vars
        => NothingDue' /\ SeriesSoFar' /\ Settled'
  BY NothingDueStep, SeriesStep, SettledStep
<1>3. LoopInvariant /\ NothingDue /\ SeriesSoFar /\ Settled => QueueSeriesMatches
  BY FinishedSeries
<1> QED
  BY <1>1, <1>2, <1>3, LoopInvariantHolds, PTL DEF Spec

(* The queue series of a run that finished is the one the rule of the      *)
(* observed series gives: of the ticks of a time the last records what was *)
(* submitted less what was started by then, jobs and CPUs.                 *)
THEOREM QueueSeriesIsObserved == ASSUME Distinct PROVE Spec => []QueueSeriesMatches
<1> QED
  BY SeriesIfOnce, EachRowStartsOnce, PTL DEF Distinct

-----------------------------------------------------------------------------
(* The loop implements JobLifecycle.                                       *)

Started(r) == \E s \in DOMAIN starts : starts[s].row = r

(* Each row is in one phase, and the lists tell which.                     *)
LEMMA Phases ==
  ASSUME DistinctIds, LoopInvariant, StartsOnce
  PROVE  /\ \A s \in running : PhaseOf(starts[s].row) = "running"
         /\ \A s \in completed : PhaseOf(starts[s].row) = "completed"
         /\ \A r \in queue : ~ Started(r) => PhaseOf(r) = "queued"
         /\ \A r \in future : PhaseOf(r) = "future" /\ ~ Started(r) /\ r \notin queue
         /\ \A s \in DOMAIN starts : StartOf(starts[s].row) = starts[s].start_ts
         /\ \A r \in Rows : Started(r) \/ r \in queue \/ r \in future
         /\ \A s \in DOMAIN starts : s \in running \/ s \in completed
         /\ running \subseteq DOMAIN starts /\ completed \subseteq DOMAIN starts
<1>1. TypeOK /\ StartsApart /\ NothingLost
  BY DistinctRun
<1>2. running \subseteq DOMAIN starts /\ completed \subseteq DOMAIN starts
  BY <1>1 DEF TypeOK
<1>3. \A s \in DOMAIN starts : s \in running \/ s \in completed
  BY <1>1 DEF NothingLost
<1>4. running \cap completed = {} /\ queue \cap future = {}
  BY <1>1 DEF StartsApart
<1>5. \A s \in running : PhaseOf(starts[s].row) = "running"
  BY <1>2, <1>4 DEF PhaseOf, StartsOnce, RowOf
<1>6. \A s \in completed : PhaseOf(starts[s].row) = "completed"
  BY DEF PhaseOf
<1>7. \A r \in queue : ~ Started(r) => PhaseOf(r) = "queued"
  BY <1>2 DEF PhaseOf, Started
<1>8. \A r \in future : ~ Started(r) /\ r \notin queue
  BY <1>1, <1>4 DEF Started, StartsApart
<1>9. \A r \in future : PhaseOf(r) = "future"
  BY <1>2, <1>8 DEF PhaseOf, Started
<1>10. ASSUME NEW s \in DOMAIN starts
       PROVE  StartOf(starts[s].row) = starts[s].start_ts
  BY DEF StartOf, StartsOnce, RowOf
<1>11. \A r \in Rows : Started(r) \/ r \in queue \/ r \in future
  BY <1>1 DEF NothingLost, Started
<1> QED
  BY <1>2, <1>3, <1>5, <1>6, <1>7, <1>8, <1>9, <1>10, <1>11

(* An abstract run begins where the loop does.                             *)
LEMMA LifecycleStarts ==
  ASSUME Init
  PROVE  Lifecycle!Init
<1>1. /\ jobs \in Traces /\ clock_ts = jobs[1].submit_ts
      /\ starts = <<>> /\ running = {} /\ completed = {} /\ queue = {}
  BY DEF Init, StartRun
<1>2. \A r \in Rows : PhaseOf(r) = "future" /\ StartOf(r) = 0
  BY <1>1 DEF PhaseOf, StartOf
<1> QED
  BY <1>1, <1>2 DEF Lifecycle!Init, Lifecycle!Rows, Rows

(* An event of the loop is a tick: the same times are due, the jobs that   *)
(* end complete and the jobs submitted are queued.                         *)
LEMMA NextEventTicks ==
  ASSUME DistinctIds, LoopInvariant, StartsOnce, NextEvent
  PROVE  Lifecycle!Tick
<1>0. TypeOK /\ UniqueIds(jobs) /\ StartsApart
  BY DistinctRun
<1>1. PICK t \in EventTimes :
        /\ \A ts \in EventTimes : t <= ts
        /\ clock_ts' = t
        /\ running' = {s \in running : StartId(s) \notin {StartId(u) : u \in Completing(t)}}
        /\ completed' = completed \cup Completing(t)
        /\ future' = future \ {r \in future : jobs[r].submit_ts = t}
        /\ queue' = queue \cup {r \in future : jobs[r].submit_ts = t}
  BY DEF NextEvent
<1>2. jobs' = jobs /\ starts' = starts
  BY DEF NextEvent
<1>3. \A s \in DOMAIN starts : starts[s].row \in Rows
  BY <1>0, RunningFacts DEF StartRecord
<1>4. /\ running' = running \ Completing(t)
      /\ Completing(t) = {s \in running : starts[s].end_ts = t}
  BY <1>0, <1>1 DEF StartsApart, Completing
<1>5. \A r \in Rows : Lifecycle!EndOf(r) = StartOf(r) + jobs[r].runtime_actual_sec
  BY DEF Lifecycle!EndOf
<1>6. \A s \in running : Lifecycle!EndOf(starts[s].row) = starts[s].end_ts
  BY <1>0, <1>3, <1>5, Phases DEF StartsApart
<1>7. /\ Lifecycle!Rows = Rows
      /\ \A p : Lifecycle!In(p) = {r \in Rows : PhaseOf(r) = p}
  BY DEF Lifecycle!Rows, Lifecycle!In, Rows
<1>8. Lifecycle!In("future") = future
  <2>1. \A r \in Rows : PhaseOf(r) = "future" => r \in future
    BY Phases DEF Started
  <2>2. future \subseteq Rows
    BY <1>0 DEF TypeOK
  <2> QED
    BY <1>7, <2>1, <2>2, Phases
<1>9. Lifecycle!In("running") = {starts[s].row : s \in running}
  <2>1. \A r \in Rows : PhaseOf(r) = "running" => r \in {starts[s].row : s \in running}
    BY Phases DEF Started
  <2> QED
    BY <1>3, <1>7, <2>1, Phases
<1>10. {jobs[r].submit_ts : r \in Lifecycle!In("future")}
         \cup {Lifecycle!EndOf(r) : r \in Lifecycle!In("running")} = EventTimes
  <2>1. {Lifecycle!EndOf(r) : r \in {starts[s].row : s \in running}} = {starts[s].end_ts : s \in running}
    BY <1>6
  <2> QED
    BY <1>8, <1>9, <2>1 DEF EventTimes
<1>11. ASSUME NEW r \in Rows
       PROVE  PhaseOf(r)' =
                IF PhaseOf(r) = "running" /\ Lifecycle!EndOf(r) = t THEN "completed"
                ELSE IF PhaseOf(r) = "future" /\ jobs[r].submit_ts = t THEN "queued"
                ELSE PhaseOf(r)
  <2>1. ASSUME NEW s \in running, r = starts[s].row, starts[s].end_ts = t
        PROVE  PhaseOf(r)' = "completed"
    BY <1>1, <1>2, <1>4, <2>1 DEF PhaseOf
  <2>2. ASSUME NEW s \in running, r = starts[s].row, starts[s].end_ts # t
        PROVE  PhaseOf(r)' = "running"
    <3>1. s \in running' /\ s \notin completed'
      BY <1>0, <1>1, <1>4, <2>2 DEF StartsApart
    <3>2. \A u \in completed' : starts[u].row # r
      BY <1>1, <1>4, <2>2, <3>1, Phases DEF StartsOnce, RowOf
    <3> QED
      BY <1>2, <2>2, <3>1, <3>2 DEF PhaseOf
  <2>3. ASSUME NEW s \in completed, r = starts[s].row
        PROVE  PhaseOf(r)' = "completed"
    BY <1>1, <1>2, <2>3 DEF PhaseOf
  <2>4. ASSUME ~ Started(r)
        PROVE  PhaseOf(r)' = IF r \in queue' THEN "queued" ELSE "future"
    BY <1>1, <1>2, <1>4, <2>4, Phases DEF PhaseOf, Started
  <2>5. CASE Started(r)
    <3>1. PICK s \in DOMAIN starts : r = starts[s].row
      BY <2>5 DEF Started
    <3>2. s \in running \/ s \in completed
      BY Phases
    <3> QED
      BY <1>6, <2>1, <2>2, <2>3, <3>1, <3>2, Phases
  <2>6. CASE ~ Started(r) /\ r \in queue
    BY <1>1, <2>4, <2>6, Phases
  <2>7. CASE r \in future
    BY <1>1, <2>4, <2>7, Phases
  <2> QED
    BY <2>5, <2>6, <2>7, Phases
<1>12. /\ [r \in Rows |-> PhaseOf(r)]' = [r \in Lifecycle!Rows |->
            IF [q \in Rows |-> PhaseOf(q)][r] = "running" /\ Lifecycle!EndOf(r) = t THEN "completed"
            ELSE IF [q \in Rows |-> PhaseOf(q)][r] = "future" /\ jobs[r].submit_ts = t THEN "queued"
            ELSE [q \in Rows |-> PhaseOf(q)][r]]
       /\ [r \in Rows |-> StartOf(r)]' = [r \in Rows |-> StartOf(r)]
  <2>1. Rows' = Rows /\ \A r \in Rows : StartOf(r)' = StartOf(r)
    BY <1>2 DEF Rows, StartOf
  <2> QED
    BY <1>7, <1>11, <2>1
<1> QED
  BY <1>1, <1>2, <1>10, <1>12 DEF Lifecycle!Tick

(* The CPUs of the rows that run are the CPUs of the running list.         *)
LEMMA BusyCpusRunning ==
  ASSUME DistinctIds, LoopInvariant, StartsOnce
  PROVE  Lifecycle!BusyCpus = Cpus(running, starts)
<1> DEFINE slots == CpuSlots(running, starts)
           busy == UNION {{r} \X (1..jobs[r].requested_cpus) : r \in Lifecycle!In("running")}
           f == [x \in slots |-> <<starts[x[1]].row, x[2]>>]
<1>0. TypeOK /\ StartsApart
  BY DistinctRun
<1>1. \A s \in running : /\ starts[s].row \in Rows /\ s \in DOMAIN starts
                         /\ starts[s].requested_cpus = jobs[starts[s].row].requested_cpus
  BY <1>0, RunningFacts DEF TypeOK, StartRecord, StartsApart
<1>2. Lifecycle!In("running") = {starts[s].row : s \in running}
  <2>1. Lifecycle!In("running") = {r \in Rows : PhaseOf(r) = "running"}
    BY DEF Lifecycle!In, Lifecycle!Rows, Rows
  <2>2. \A r \in Rows : PhaseOf(r) = "running" => r \in {starts[s].row : s \in running}
    BY Phases DEF Started
  <2> QED
    BY <1>1, <2>1, <2>2, Phases
<1>3. /\ \A x \in slots : \E s \in running : \E k \in 1..starts[s].requested_cpus : x = <<s, k>>
      /\ \A s \in running : \A k \in 1..starts[s].requested_cpus : <<s, k>> \in slots
  BY DEF CpuSlots
<1>4. /\ \A y \in busy : \E s \in running : \E k \in 1..starts[s].requested_cpus : y = <<starts[s].row, k>>
      /\ \A s \in running : \A k \in 1..starts[s].requested_cpus : <<starts[s].row, k>> \in busy
  BY <1>1, <1>2
<1> HIDE DEF slots, busy
<1>5. f \in [slots -> busy]
  BY <1>3, <1>4
<1>6. \A x, y \in slots : f[x] = f[y] => x = y
  BY <1>1, <1>3 DEF StartsOnce, RowOf
<1>7. \A y \in busy : \E x \in slots : f[x] = y
  BY <1>3, <1>4
<1>8. f \in Bijection(slots, busy)
  <2> HIDE DEF f
  <2> QED
    BY <1>5, <1>6, <1>7 DEF Bijection, Injection, IsInjective, Surjection
<1>9. IsFiniteSet(slots)
  BY <1>0, RunningFacts, CpuSlotsFinite DEF slots
<1>10. Cardinality(busy) = Cardinality(slots)
  <2>1. ExistsBijection(slots, busy)
    BY <1>8 DEF ExistsBijection
  <2> QED
    BY <1>9, <2>1, FS_Bijection
<1>11. Lifecycle!BusyCpus = Cardinality(busy)
  BY Zenon DEF Lifecycle!BusyCpus, Lifecycle!Cardinality, Cardinality, busy
<1>12. Cpus(running, starts) = Cardinality(slots)
  BY DEF Cpus, slots
<1> QED
  BY <1>10, <1>11, <1>12

(* A start of the loop is a start of a queued job that fits.               *)
LEMMA StartJobStarts ==
  ASSUME DistinctIds, LoopInvariant, StartsOnce, StartJob
  PROVE  \E r \in Lifecycle!Rows : Lifecycle!Start(r)
<1> DEFINE new == Len(starts) + 1
<1>0. TypeOK /\ CpusAddUp /\ StartsApart
  BY DistinctRun
<1>00. PICK row \in Rows : row = QueueById(decision[pos])
  BY <1>0, StartAdds
<1>1. /\ row \in queue /\ row \in Rows /\ RowId(row) = decision[pos]
      /\ new \notin DOMAIN starts /\ DOMAIN starts' = DOMAIN starts \cup {new}
      /\ \A s \in DOMAIN starts : starts'[s] = starts[s]
      /\ starts'[new].row = row /\ starts'[new].start_ts = clock_ts
      /\ running' = running \cup {new}
  BY <1>0, <1>00, StartAdds
<1>2. /\ pc = "apply" /\ pos <= Len(decision)
      /\ jobs[row].requested_cpus <= free_cpus
      /\ UNCHANGED <<jobs, clock_ts, queue, future, completed>>
  BY <1>00 DEF StartJob, Fits
<1>3. decision[pos] \notin dispatched_ids
  <2>1. Len(decision) \in Nat /\ pos \in Nat \ {0}
    BY <1>0, <1>2 DEF StartsOnce, NamesOnce, TypeOK
  <2> QED
    BY <1>2, <2>1 DEF StartsOnce
<1>4. \A s \in DOMAIN starts : starts[s].row # row
  BY <1>0, <1>1, <1>3 DEF StartsApart, StartId, RowId
<1> HIDE DEF new
<1>5. PhaseOf(row) = "queued"
  BY <1>1, <1>4, Phases DEF Started
<1>6. Lifecycle!BusyCpus + jobs[row].requested_cpus <= Capacity
  <2>1. jobs[row].requested_cpus \in Nat /\ Cpus(running, starts) \in Nat
    BY <1>0, <1>1, TraceFacts, RunningFacts, CpuSlotsFinite DEF TypeOK
  <2>2. Lifecycle!BusyCpus = Cpus(running, starts)
    BY BusyCpusRunning
  <2> QED
    BY <1>0, <1>2, <2>1, <2>2, CapacityAssumption DEF CpusAddUp, TypeOK
<1>7. PhaseOf(row)' = "running" /\ StartOf(row)' = clock_ts
  <2>1. \A s \in DOMAIN starts' : starts'[s].row = row => s = new
    BY <1>1, <1>4
  <2>2. new \in running' /\ new \in DOMAIN starts' /\ \A s \in completed' : starts'[s].row # row
    BY <1>0, <1>1, <1>2, <1>4 DEF TypeOK
  <2>3. starts'[new].row = row /\ starts'[new].start_ts = clock_ts
    BY <1>1
  <2>4. PhaseOf(row)' = "running"
    BY <2>2, <2>3 DEF PhaseOf
  <2>5. (CHOOSE s \in DOMAIN starts' : starts'[s].row = row) = new
    BY <2>1, <2>2, <2>3
  <2>6. StartOf(row)' = clock_ts
    <3>1. \E s \in DOMAIN starts' : starts'[s].row = row
      BY <2>2, <2>3
    <3> QED
      BY <2>3, <2>5, <3>1, Zenon DEF StartOf
  <2> QED
    BY <2>4, <2>6
<1>8. ASSUME NEW r \in Rows, r # row
      PROVE  PhaseOf(r)' = PhaseOf(r) /\ StartOf(r)' = StartOf(r)
  <2>1. running \subseteq DOMAIN starts /\ completed \subseteq DOMAIN starts
    BY <1>0 DEF TypeOK
  <2>2. /\ (\E s \in completed' : starts'[s].row = r) <=> (\E s \in completed : starts[s].row = r)
        /\ (\E s \in running' : starts'[s].row = r) <=> (\E s \in running : starts[s].row = r)
    BY <1>1, <1>2, <1>8, <2>1
  <2>3. PhaseOf(r)' = PhaseOf(r)
    BY <1>2, <2>2 DEF PhaseOf
  <2>4. CASE Started(r)
    <3>1. PICK s \in DOMAIN starts : starts[s].row = r
      BY <2>4 DEF Started
    <3>2. \A u \in DOMAIN starts' : starts'[u].row = r => u = s
      BY <1>1, <1>8, <3>1 DEF StartsOnce, RowOf
    <3>3. s \in DOMAIN starts' /\ starts'[s].row = r /\ starts'[s].start_ts = starts[s].start_ts
      BY <1>1, <3>1
    <3>4. StartOf(r)' = starts[s].start_ts
      BY <3>2, <3>3 DEF StartOf
    <3> QED
      BY <2>3, <3>1, <3>4, Phases
  <2>5. CASE ~ Started(r)
    BY <1>1, <1>8, <2>3, <2>5 DEF StartOf, Started
  <2> QED
    BY <2>4, <2>5
<1>9. /\ [r \in Rows |-> PhaseOf(r)]' = [[r \in Rows |-> PhaseOf(r)] EXCEPT ![row] = "running"]
      /\ [r \in Rows |-> StartOf(r)]' = [[r \in Rows |-> StartOf(r)] EXCEPT ![row] = clock_ts]
  <2>1. Rows' = Rows /\ row \in Rows
    BY <1>1, <1>2 DEF Rows
  <2>2. [r \in Rows |-> PhaseOf(r)]' = [r \in Rows |-> PhaseOf(r)']
    BY <2>1
  <2>3. [r \in Rows |-> StartOf(r)]' = [r \in Rows |-> StartOf(r)']
    BY <2>1
  <2>4. [r \in Rows |-> PhaseOf(r)'] = [[r \in Rows |-> PhaseOf(r)] EXCEPT ![row] = "running"]
    BY <1>7, <1>8, <2>1
  <2>5. [r \in Rows |-> StartOf(r)'] = [[r \in Rows |-> StartOf(r)] EXCEPT ![row] = clock_ts]
    BY <1>7, <1>8, <2>1
  <2> QED
    BY <2>2, <2>3, <2>4, <2>5
<1>10. Lifecycle!Start(row)
  BY <1>1, <1>2, <1>5, <1>6, <1>9 DEF Lifecycle!Start
<1> QED
  BY <1>1, <1>10 DEF Lifecycle!Rows, Rows

(* Every other step is a stutter: what leaves the queue has started.       *)
LEMMA OtherStepsStutter ==
  ASSUME DistinctIds, LoopInvariant, StartsOnce, [Next]_vars, ~ NextEvent, ~ StartJob
  PROVE  UNCHANGED Lifecycle!vars
<1>1. UNCHANGED <<jobs, clock_ts, future, starts, running, completed>>
  BY DEF Next, RaiseDeadlock, Finish, ReceiveDecision, SkipDecision, EndTick, RaiseStrict,
         Terminated, vars
<1>2. queue' = queue \/ queue' = RemainingQueue
  BY DEF Next, RaiseDeadlock, Finish, ReceiveDecision, SkipDecision, EndTick, RaiseStrict,
         Terminated, vars
<1>3. \A r \in Rows : ~ Started(r) => (r \in queue' <=> r \in queue)
  BY <1>2, DistinctRun DEF RemainingQueue, NothingLost, Started
<1>4. ASSUME NEW r \in Rows
      PROVE  PhaseOf(r)' = PhaseOf(r) /\ StartOf(r)' = StartOf(r)
  <2>1. CASE Started(r)
    <3>1. (\E s \in completed : starts[s].row = r) \/ (\E s \in running : starts[s].row = r)
      BY <2>1, Phases DEF Started
    <3> QED
      BY <1>1, <3>1 DEF PhaseOf, StartOf
  <2>2. CASE ~ Started(r)
    BY <1>1, <1>3, <2>2 DEF PhaseOf, StartOf
  <2> QED
    BY <2>1, <2>2
<1>5. Rows' = Rows
  BY <1>1 DEF Rows
<1>6. /\ [r \in Rows |-> PhaseOf(r)]' = [r \in Rows |-> PhaseOf(r)]
      /\ [r \in Rows |-> StartOf(r)]' = [r \in Rows |-> StartOf(r)]
  BY <1>4, <1>5
<1> QED
  BY <1>1, <1>6 DEF Lifecycle!vars

(* A run whose rows start once keeps the job lifecycle.                    *)
LEMMA LifecycleIfOnce == ASSUME DistinctIds PROVE Spec /\ []StartsOnce => LifecycleSpec
<1>1. Init => Lifecycle!Init
  BY LifecycleStarts
<1>2. LoopInvariant /\ StartsOnce /\ [Next]_vars => [Lifecycle!Next]_(Lifecycle!vars)
  BY NextEventTicks, StartJobStarts, OtherStepsStutter DEF Lifecycle!Next
<1> QED
  BY <1>1, <1>2, LoopInvariantHolds, PTL DEF Spec, LifecycleSpec, Lifecycle!Spec

(* Whatever a policy answers, as long as it names no job twice: over rows  *)
(* with distinct ids the loop is an implementation of the job lifecycle.   *)
THEOREM LoopImplementsLifecycle == ASSUME Distinct PROVE Spec => LifecycleSpec
<1> QED
  BY LifecycleIfOnce, EachRowStartsOnce, PTL DEF Distinct

-----------------------------------------------------------------------------
(* The built-in policies.                                                  *)

(* A prepared trace starts the loop.                                       *)
LEMMA PolicyInitImplements == PolicyInit => Init
  <1> SUFFICES ASSUME PolicyInit PROVE Init
    OBVIOUS
  <1>1. PICK raw \in RawTraces : jobs = Prepared(raw, policy)
    BY DEF PolicyInit
  <1>2. Prepared(raw, policy) \in Traces
    BY <1>1, PreparedAssumption DEF PolicyInit
  <1> QED
    BY <1>1, <1>2 DEF PolicyInit, Init

(* A step under a built-in policy is a step of the loop.                   *)
LEMMA PolicyStepImplements ==
  [PolicyNext]_<<vars, policyVars>> => [Next]_vars
  <1> SUFFICES ASSUME [PolicyNext]_<<vars, policyVars>> PROVE [Next]_vars
    OBVIOUS
  <1>1. CASE PolicyDecide
    BY <1>1 DEF PolicyDecide, Next
  <1>2. CASE LoopStep
    BY <1>2 DEF LoopStep
  <1>3. CASE UNCHANGED <<vars, policyVars>>
    BY <1>3
  <1> QED
    BY <1>1, <1>2, <1>3 DEF PolicyNext

(* A run under a built-in policy is a behaviour of the loop under some     *)
(* plug-in: choose_decisions and the estimates it sees add no behaviour.   *)
THEOREM PolicyRefinesLoop == PolicySpec => Spec
  <1> QED
    BY PolicyInitImplements, PolicyStepImplements, PTL DEF PolicySpec, Spec

(* Under every built-in policy, for every trace and capacity: no CPU is    *)
(* held twice or lost without a violation and, over unique ids, CPUs are   *)
(* conserved, the report stays empty and the sentinel is not raised.       *)
THEOREM PolicyRunsAreSound ==
  PolicySpec => [](NeverOvercommitted /\ CpuLossReported /\ CpuConservation
                     /\ ReportClean /\ NoDeadlockError)
  <1> QED
    BY PolicyRefinesLoop, NeverOvercommits, LossReported, CpusConserved,
       ReportAlwaysClean, NoDeadlockRaised, PTL

-----------------------------------------------------------------------------
(* The orders policies serve their queues in.                              *)

(* A strict total order of some rows.                                      *)
IsOrder(order, rows) ==
  /\ \A r \in rows : <<r, r>> \notin order
  /\ \A p, q, r \in rows : <<p, q>> \in order /\ <<q, r>> \in order => <<p, r>> \in order
  /\ \A p, q \in rows : p # q => <<p, q>> \in order \/ <<q, p>> \in order

IsFirst(r, rows, order) == r \in rows /\ \A q \in rows \ {r} : <<r, q>> \in order

(* Finitely many rows in order have a first.                               *)
LEMMA FirstExists ==
  ASSUME NEW rows, NEW order, IsFiniteSet(rows), rows # {}, IsOrder(order, rows)
  PROVE  IsFirst(FirstIn(rows, order), rows, order)
<1> DEFINE rank(r) == Cardinality(Before(rows, order, r))
           ranks == {rank(r) : r \in rows}
<1>1. \A r \in rows : IsFiniteSet(Before(rows, order, r)) /\ rank(r) \in Nat
  <2> SUFFICES ASSUME NEW r \in rows PROVE IsFiniteSet(Before(rows, order, r)) /\ rank(r) \in Nat
    OBVIOUS
  <2>1. Before(rows, order, r) \in SUBSET rows
    BY DEF Before
  <2>2. IsFiniteSet(Before(rows, order, r))
    BY <2>1, FS_Subset
  <2> QED
    BY <2>2, FS_CardinalityType
<1>2. ranks \in SUBSET Nat /\ ranks # {}
  BY <1>1
<1>3. PICK m \in ranks : \A n \in ranks : m <= n
  <2> HIDE DEF ranks
  <2> QED
    BY <1>2, LeastNatural
<1>4. PICK r \in rows : m = rank(r)
  BY <1>3
<1>5. ASSUME NEW q \in rows \ {r}, <<r, q>> \notin order
      PROVE  FALSE
  <2>1. <<q, r>> \in order
    BY <1>5 DEF IsOrder
  <2>2. Before(rows, order, q) \in SUBSET Before(rows, order, r)
    BY <2>1 DEF Before, IsOrder
  <2>3. q \in Before(rows, order, r) /\ q \notin Before(rows, order, q)
    BY <2>1 DEF Before, IsOrder
  <2>4. /\ rank(q) <= rank(r)
        /\ rank(q) = rank(r) => Before(rows, order, q) = Before(rows, order, r)
    BY <1>1, <2>2, FS_Subset
  <2>5. rank(r) <= rank(q)
    BY <1>3, <1>4
  <2> QED
    BY <1>1, <2>3, <2>4, <2>5
<1>6. \E p \in rows : \A q \in rows \ {p} : <<p, q>> \in order
  BY <1>5
<1> QED
  BY <1>6 DEF FirstIn, IsFirst

(* A list of rows in order names each of them once.                        *)
LEMMA ListIs ==
  ASSUME NEW rows, NEW order, IsFiniteSet(rows), IsOrder(order, rows), NEW list \in Lists(rows, order)
  PROVE  /\ Len(list) \in Nat /\ Len(list) = Cardinality(rows)
         /\ list \in [1..Len(list) -> rows]
         /\ \A i, j \in 1..Len(list) : list[i] = list[j] => i = j
         /\ Firsts(list, Len(list)) = rows
<1> DEFINE n == Cardinality(rows)
<1>1. n \in Nat
  BY FS_CardinalityType
<1>2. list \in [1..n -> rows] /\ \A i, j \in 1..n : i < j => <<list[i], list[j]>> \in order
  BY DEF Lists
<1>3. Len(list) = n
  BY <1>1, <1>2
<1>4. ASSUME NEW i \in 1..n, NEW j \in 1..n, list[i] = list[j], i # j PROVE FALSE
  <2>1. i < j \/ j < i
    BY <1>1, <1>4
  <2>2. <<list[i], list[i]>> \in order
    BY <1>2, <1>4, <2>1
  <2> QED
    BY <1>2, <2>2 DEF IsOrder
<1>5. list \in Injection(1..n, rows)
  BY <1>2, <1>4 DEF Injection, IsInjective
<1>6. IsFiniteSet(1..n) /\ Cardinality(1..n) = n
  BY <1>1, CountTo
<1>7. list \in Surjection(1..n, rows)
  <2> HIDE DEF n
  <2>1. Cardinality(1..n) = Cardinality(rows)
    BY <1>6 DEF n
  <2> QED
    BY <1>5, <2>1, FS_Injection
<1>8. Firsts(list, n) = rows
  BY <1>2, <1>7 DEF Firsts, Surjection
<1> QED
  BY <1>1, <1>2, <1>3, <1>4, <1>8

-----------------------------------------------------------------------------
(* The queue of a snapshot.                                                *)

(* Jobs as the loop gives them, in the order of the trace.                 *)
QueueOK(queued) ==
  /\ IsFiniteSet(DOMAIN queued) /\ DOMAIN queued \in SUBSET Nat
  /\ \A r \in DOMAIN queued :
       /\ queued[r].job_id \in Int /\ queued[r].submit_ts \in Int
       /\ queued[r].requested_cpus \in Nat \ {0}
       /\ IsPlanned(queued[r])
  /\ \A q, r \in DOMAIN queued : queued[q].job_id = queued[r].job_id => q = r
  /\ \A q, r \in DOMAIN queued : q < r =>
       \/ queued[q].submit_ts < queued[r].submit_ts
       \/ queued[q].submit_ts = queued[r].submit_ts /\ queued[q].job_id <= queued[r].job_id

Keyed(queued, key) == \A r \in DOMAIN queued : key[r] \in Int

(* A sorted queue is in order.                                             *)
LEMMA SortedIsOrder ==
  ASSUME NEW queued, QueueOK(queued), NEW key, Keyed(queued, key)
  PROVE  IsOrder(SortedBy(queued, key), DOMAIN queued)
<1>1. \A q, r \in DOMAIN queued : <<q, r>> \in SortedBy(queued, key) <=> Precedes(queued, key, q, r)
  BY DEF SortedBy, Pairs
<1>2. \A r \in DOMAIN queued : r \in Int /\ key[r] \in Int /\ queued[r].submit_ts \in Int /\ queued[r].job_id \in Int
  BY DEF QueueOK, Keyed
<1>3. \A r \in DOMAIN queued : ~ Precedes(queued, key, r, r)
  BY <1>2 DEF Precedes, SubmitBefore
<1>4. \A p, q, r \in DOMAIN queued :
        Precedes(queued, key, p, q) /\ Precedes(queued, key, q, r) => Precedes(queued, key, p, r)
  BY <1>2 DEF Precedes, SubmitBefore
<1>5. \A p, q \in DOMAIN queued : p # q => Precedes(queued, key, p, q) \/ Precedes(queued, key, q, p)
  BY <1>2 DEF Precedes, SubmitBefore
<1> QED
  BY <1>1, <1>3, <1>4, <1>5 DEF IsOrder

(* The queue sorted by submit time is the queue as it is.                  *)
LEMMA FifoIs ==
  ASSUME NEW queued, QueueOK(queued)
  PROVE  /\ \A q, r \in DOMAIN queued : <<q, r>> \in Fifo(queued) <=> q < r
         /\ IsOrder(Fifo(queued), DOMAIN queued)
         /\ IsOrder(AsQueued(queued), DOMAIN queued)
<1>1. \A r \in DOMAIN queued : r \in Int /\ queued[r].submit_ts \in Int /\ queued[r].job_id \in Int
  BY DEF QueueOK
<1>2. ASSUME NEW q \in DOMAIN queued, NEW r \in DOMAIN queued
      PROVE  <<q, r>> \in Fifo(queued) <=> q < r
  <2>1. <<q, r>> \in Fifo(queued) <=> Precedes(queued, NoKey(queued), q, r)
    BY DEF Fifo, SortedBy, Pairs
  <2>2. NoKey(queued)[q] = 0 /\ NoKey(queued)[r] = 0
    BY DEF NoKey
  <2>3. Precedes(queued, NoKey(queued), q, r) <=>
          SubmitBefore(queued[q], queued[r]) \/ (~ SubmitBefore(queued[r], queued[q]) /\ q < r)
    BY <2>2 DEF Precedes
  <2>4. q < r => ~ SubmitBefore(queued[r], queued[q])
    BY <1>1 DEF QueueOK, SubmitBefore
  <2>5. SubmitBefore(queued[q], queued[r]) => q < r
    <3>1. r < q => ~ SubmitBefore(queued[q], queued[r])
      BY <1>1 DEF QueueOK, SubmitBefore
    <3>2. q = r => ~ SubmitBefore(queued[q], queued[r])
      BY <1>1 DEF SubmitBefore
    <3> QED
      BY <1>1, <3>1, <3>2
  <2> QED
    BY <2>1, <2>3, <2>4, <2>5
<1>3. Keyed(queued, NoKey(queued))
  BY DEF Keyed, NoKey
<1>4. IsOrder(AsQueued(queued), DOMAIN queued)
  BY <1>1 DEF IsOrder, AsQueued, Pairs
<1> QED
  BY <1>2, <1>3, <1>4, SortedIsOrder DEF Fifo

(* The keys the policies sort by are numbers.                              *)
LEMMA KeysAreNumbers ==
  ASSUME NEW queued, QueueOK(queued)
  PROVE  /\ Keyed(queued, Estimates(queued)) /\ Keyed(queued, Guards(queued))
         /\ Keyed(queued, Longest(queued)) /\ Keyed(queued, Deprioritized(queued))
BY DEF QueueOK, Keyed, IsPlanned, Estimates, Guards, Longest, Deprioritized

(* So the head of UARP is the first to be submitted, and the rest follows. *)
LEMMA UarpIsOrder ==
  ASSUME NEW queued, QueueOK(queued), DOMAIN queued # {}
  PROVE  /\ IsOrder(UarpOrder(queued), DOMAIN queued)
         /\ IsFirst(FirstIn(DOMAIN queued, Fifo(queued)), DOMAIN queued, UarpOrder(queued))
<1> DEFINE head == FirstIn(DOMAIN queued, Fifo(queued))
<1>1. IsFirst(head, DOMAIN queued, Fifo(queued))
  BY FifoIs, FirstExists DEF QueueOK
<1>2. IsOrder(SortedBy(queued, Guards(queued)), DOMAIN queued)
  BY KeysAreNumbers, SortedIsOrder
<1>3. \A q, r \in DOMAIN queued : <<q, r>> \in UarpOrder(queued) <=>
        r # head /\ (q = head \/ <<q, r>> \in SortedBy(queued, Guards(queued)))
  BY DEF UarpOrder, Pairs
<1>4. head \in DOMAIN queued
  BY <1>1 DEF IsFirst
<1> HIDE DEF head
<1>5. IsOrder(UarpOrder(queued), DOMAIN queued)
  BY <1>2, <1>3 DEF IsOrder
<1>6. IsFirst(head, DOMAIN queued, UarpOrder(queued))
  BY <1>3, <1>4 DEF IsFirst
<1> QED
  BY <1>5, <1>6 DEF head

-----------------------------------------------------------------------------
(* What rows ask for.                                                      *)

(* Parts of a queue ask for parts of what it asks for.                     *)
LEMMA DemandParts ==
  ASSUME NEW queued, QueueOK(queued), NEW S \in SUBSET (DOMAIN queued), NEW T \in SUBSET S
  PROVE  /\ Demand(S, queued) \in Nat /\ Demand(T, queued) \in Nat
         /\ Demand(T, queued) <= Demand(S, queued)
         /\ Demand(S \ T, queued) = Demand(S, queued) - Demand(T, queued)
<1>1. IsFiniteSet(S) /\ CpuList(S, queued)
  BY FS_Subset DEF QueueOK, CpuList
<1>2. /\ Cpus(S, queued) \in Nat /\ Cpus(T, queued) \in Nat
      /\ Cpus(T, queued) <= Cpus(S, queued)
  BY <1>1, CpusPart
<1>3. Cpus(S \ T, queued) = Cpus(S, queued) - Cpus(T, queued)
  BY <1>1, CpusDifference
<1>4. /\ Demand(S, queued) = Cpus(S, queued) /\ Demand(T, queued) = Cpus(T, queued)
      /\ Demand(S \ T, queued) = Cpus(S \ T, queued)
  BY DEF Demand, Cpus, CpuSlots
<1> QED
  BY <1>2, <1>3, <1>4

(* One more row asks for its CPUs, and no row for none.                    *)
LEMMA DemandOne ==
  ASSUME NEW queued, QueueOK(queued), NEW S \in SUBSET (DOMAIN queued), NEW r \in (DOMAIN queued) \ S
  PROVE  /\ Demand(S \cup {r}, queued) = Demand(S, queued) + queued[r].requested_cpus
         /\ queued[r].requested_cpus \in Nat \ {0} /\ Demand(S, queued) \in Nat
         /\ Demand({}, queued) = 0
<1>1. IsFiniteSet(S) /\ CpuList(S \cup {r}, queued)
  BY FS_Subset DEF QueueOK, CpuList
<1>2. Cpus(S \cup {r}, queued) = Cpus(S, queued) + queued[r].requested_cpus
  BY <1>1, CpusAdd
<1>3. /\ Demand(S, queued) = Cpus(S, queued)
      /\ Demand(S \cup {r}, queued) = Cpus(S \cup {r}, queued)
  BY DEF Demand, Cpus, CpuSlots
<1>4. UNION {{q} \X (1..queued[q].requested_cpus) : q \in {}} = {}
  OBVIOUS
<1>5. Demand({}, queued) = 0
  BY <1>4, FS_EmptySet DEF Demand
<1>6. queued[r].requested_cpus \in Nat \ {0}
  BY DEF QueueOK
<1>7. Demand(S, queued) \in Nat
  BY DemandParts
<1> QED
  BY <1>2, <1>3, <1>5, <1>6, <1>7

LEMMA DemandNone ==
  ASSUME NEW queued
  PROVE  Demand({}, queued) = 0
<1>1. UNION {{q} \X (1..queued[q].requested_cpus) : q \in {}} = {}
  OBVIOUS
<1> QED
  BY <1>1, FS_EmptySet DEF Demand

(* The last of some rows.                                                  *)
LEMMA LastExists ==
  ASSUME NEW rows, NEW order, IsFiniteSet(rows), rows # {}, IsOrder(order, rows)
  PROVE  \E r \in rows : Before(rows, order, r) = rows \ {r}
<1> DEFINE reversed == {ij \in rows \X rows : <<ij[2], ij[1]>> \in order}
<1>1. \A p, q \in rows : <<p, q>> \in reversed <=> <<q, p>> \in order
  OBVIOUS
<1> HIDE DEF reversed
<1>2. IsOrder(reversed, rows)
  BY <1>1 DEF IsOrder
<1>3. PICK r : IsFirst(r, rows, reversed)
  BY <1>2, FirstExists
<1>4. r \in rows /\ \A q \in rows \ {r} : <<q, r>> \in order
  BY <1>1, <1>3 DEF IsFirst
<1>5. <<r, r>> \notin order
  BY <1>4 DEF IsOrder
<1> QED
  BY <1>4, <1>5 DEF Before

(* A walk picks what fits in all there is, and passes over an admitted row *)
(* only if it does not fit in what is left in the end.                     *)
LEMMA PackingIs ==
  ASSUME NEW queued, QueueOK(queued), NEW rows \in SUBSET (DOMAIN queued),
         NEW order, IsOrder(order, DOMAIN queued), NEW available \in Nat, NEW admitted,
         NEW picks \in Packings(queued, order, rows, available, admitted)
  PROVE  /\ picks \in SUBSET rows
         /\ Demand(picks, queued) <= available
         /\ \A r \in (rows \cap admitted) \ picks :
              queued[r].requested_cpus > available - Demand(picks, queued)
<1>1. /\ picks \in SUBSET rows
      /\ \A r \in rows :
           r \in picks <=>
             /\ r \in admitted
             /\ queued[r].requested_cpus \in 1..(available - Demand(Before(picks, order, r), queued))
  BY DEF Packings
<1>2. picks \in SUBSET (DOMAIN queued) /\ IsFiniteSet(picks)
  BY <1>1, FS_Subset DEF QueueOK
<1>3. Demand(picks, queued) <= available
  <2>1. CASE picks = {}
    BY <2>1, DemandNone
  <2>2. CASE picks # {}
    <3>1. IsOrder(order, picks)
      BY <1>2 DEF IsOrder
    <3>2. PICK r \in picks : Before(picks, order, r) = picks \ {r}
      BY <1>2, <2>2, <3>1, LastExists
    <3>3. queued[r].requested_cpus \in 1..(available - Demand(picks \ {r}, queued))
      BY <1>1, <3>2
    <3>4. picks \ {r} \in SUBSET (DOMAIN queued) /\ r \in (DOMAIN queued) \ (picks \ {r})
      BY <1>2
    <3>5. /\ Demand((picks \ {r}) \cup {r}, queued) = Demand(picks \ {r}, queued) + queued[r].requested_cpus
          /\ Demand(picks \ {r}, queued) \in Nat
      BY <3>4, DemandOne
    <3>6. (picks \ {r}) \cup {r} = picks
      OBVIOUS
    <3>7. Demand(picks, queued) = Demand(picks \ {r}, queued) + queued[r].requested_cpus
      BY <3>5, <3>6
    <3>8. PICK asked \in Nat, others \in Nat :
            asked = queued[r].requested_cpus /\ others = Demand(picks \ {r}, queued)
      BY <3>3, <3>5 DEF QueueOK
    <3>9. asked <= available - others /\ Demand(picks, queued) = others + asked
      BY <3>3, <3>7, <3>8
    <3> QED
      BY <3>8, <3>9
  <2> QED
    BY <2>1, <2>2
<1>4. ASSUME NEW r \in (rows \cap admitted) \ picks
      PROVE  queued[r].requested_cpus > available - Demand(picks, queued)
  <2>1. queued[r].requested_cpus \notin 1..(available - Demand(Before(picks, order, r), queued))
    BY <1>1, <1>4
  <2>2. queued[r].requested_cpus \in Nat \ {0}
    BY DEF QueueOK
  <2>3. Before(picks, order, r) \in SUBSET picks
    BY DEF Before
  <2>4. /\ Demand(picks, queued) \in Nat /\ Demand(Before(picks, order, r), queued) \in Nat
        /\ Demand(Before(picks, order, r), queued) <= Demand(picks, queued)
    BY <1>2, <2>3, DemandParts
  <2> QED
    BY <2>1, <2>2, <2>4
<1> QED
  BY <1>1, <1>3, <1>4

-----------------------------------------------------------------------------
(* What each policy answers a snapshot.                                    *)

(* A snapshot the loop makes.  What is queued may run after now and end    *)
(* before never; what is running ends after now.                           *)
SnapshotOK(snap) ==
  /\ QueueOK(snap.queued_jobs)
  /\ snap.free_cpus \in Nat /\ snap.capacity_cpus \in Nat /\ snap.free_cpus <= snap.capacity_cpus
  /\ snap.clock_ts \in Int /\ NEVER_TS \in Int /\ snap.clock_ts < NEVER_TS
  /\ \A r \in DOMAIN snap.queued_jobs :
       /\ snap.clock_ts + snap.queued_jobs[r].runtime_estimate_sec < NEVER_TS
       /\ snap.clock_ts + snap.queued_jobs[r].runtime_guard_sec < NEVER_TS
       /\ snap.clock_ts + snap.queued_jobs[r].runtime_p90_sec < NEVER_TS
  /\ CpusCounted(snap.running_jobs)
  /\ \A rj \in snap.running_jobs : rj.end_ts \in Int /\ rj.end_ts > snap.clock_ts

(* The list names queued rows, once, that fit together in the free CPUs,   *)
(* and the first of the others does not fit in what they leave.            *)
Answered(snap, order, list) ==
  LET queued == snap.queued_jobs
      taken  == Firsts(list, Len(list))
  IN  /\ Len(list) \in Nat
      /\ list \in [1..Len(list) -> DOMAIN queued]
      /\ \A i, j \in 1..Len(list) : list[i] = list[j] => i = j
      /\ Demand(taken, queued) <= snap.free_cpus
      /\ \A r : IsFirst(r, (DOMAIN queued) \ taken, order) =>
           queued[r].requested_cpus > snap.free_cpus - Demand(taken, queued)

(* Where nothing runs all CPUs are free.                                   *)
Idle(snap) == snap.free_cpus = snap.capacity_cpus /\ snap.running_jobs = {}

TooLarge(snap, r) == snap.queued_jobs[r].requested_cpus > snap.capacity_cpus

(* Rows listed in order are rows picked.                                   *)
LEMMA ListedPicks ==
  ASSUME NEW snap, SnapshotOK(snap), NEW order, IsOrder(order, DOMAIN snap.queued_jobs), NEW serve,
         NEW picks \in SUBSET (DOMAIN snap.queued_jobs), NEW list \in Lists(picks, order),
         Demand(picks, snap.queued_jobs) <= snap.free_cpus,
         \A r : IsFirst(r, (DOMAIN snap.queued_jobs) \ picks, serve) =>
           snap.queued_jobs[r].requested_cpus > snap.free_cpus - Demand(picks, snap.queued_jobs)
  PROVE  Answered(snap, serve, list) /\ Firsts(list, Len(list)) = picks
<1>1. IsFiniteSet(picks) /\ IsOrder(order, picks)
  BY FS_Subset DEF SnapshotOK, QueueOK, IsOrder
<1>2. /\ Len(list) \in Nat
      /\ list \in [1..Len(list) -> picks]
      /\ \A i, j \in 1..Len(list) : list[i] = list[j] => i = j
      /\ Firsts(list, Len(list)) = picks
  BY <1>1, ListIs
<1> QED
  BY <1>2 DEF Answered

(* The EASY rule leaves its head, or nothing that fits.                    *)
LEMMA EasyAnswers ==
  ASSUME NEW snap, SnapshotOK(snap), NEW order, IsOrder(order, DOMAIN snap.queued_jobs), NEW gate,
         NEW serve, IsOrder(serve, DOMAIN snap.queued_jobs),
         DOMAIN snap.queued_jobs # {} =>
           IsFirst(FirstIn(DOMAIN snap.queued_jobs, order), DOMAIN snap.queued_jobs, serve),
         NEW list \in EasyRule(snap, order, gate)
  PROVE  Answered(snap, serve, list)
<1> DEFINE queued == snap.queued_jobs
           rows == DOMAIN queued
           head == FirstIn(rows, order)
           tail == rows \ {head}
           size == queued[head].requested_cpus
           brief == {r \in tail : snap.clock_ts + gate[r] <= ReservationTs(snap, size)}
<1>1. PICK picks \in EasyPicks(snap, order, gate) : list \in Lists(picks, order)
  BY DEF EasyRule
<1>2. QueueOK(queued) /\ snap.free_cpus \in Nat
  BY DEF SnapshotOK
<1>3. CASE rows = {}
  <2>1. picks = {}
    BY <1>1, <1>3 DEF EasyPicks
  <2>2. Demand(picks, queued) <= snap.free_cpus
    BY <1>2, <2>1, DemandNone
  <2>3. \A r : ~ IsFirst(r, rows \ picks, serve)
    BY <1>3 DEF IsFirst
  <2> QED
    BY <1>1, <2>1, <2>2, <2>3, ListedPicks
<1>4. CASE rows # {} /\ size \in 1..snap.free_cpus
  <2>1. head \in rows
    BY <1>4 DEF IsFirst
  <2>2. PICK behind \in Packings(queued, order, tail, snap.free_cpus - size, tail) : picks = {head} \cup behind
    BY <1>1, <1>4 DEF EasyPicks
  <2>3. tail \in SUBSET rows /\ snap.free_cpus - size \in Nat /\ size \in Nat
    BY <1>2, <1>4
  <2> HIDE DEF tail, size, head
  <2>4. /\ behind \in SUBSET tail
        /\ Demand(behind, queued) <= snap.free_cpus - size
        /\ \A r \in (tail \cap tail) \ behind :
             queued[r].requested_cpus > (snap.free_cpus - size) - Demand(behind, queued)
    BY <1>2, <2>2, <2>3, PackingIs
  <2>5. behind \in SUBSET rows /\ head \in rows \ behind
    BY <2>1, <2>3, <2>4 DEF tail
  <2>6. Demand(behind \cup {head}, queued) = Demand(behind, queued) + size /\ Demand(behind, queued) \in Nat
    BY <1>2, <2>5, DemandOne DEF size
  <2>7. picks = behind \cup {head} /\ picks \in SUBSET rows
    BY <2>2, <2>5
  <2>8. Demand(picks, queued) <= snap.free_cpus
    BY <1>2, <2>3, <2>4, <2>6, <2>7
  <2>9. ASSUME NEW r \in rows \ picks
        PROVE  queued[r].requested_cpus > snap.free_cpus - Demand(picks, queued)
    <3>1. r \in (tail \cap tail) \ behind
      BY <2>2, <2>9 DEF tail
    <3>2. queued[r].requested_cpus \in Nat
      BY <1>2 DEF QueueOK
    <3> QED
      BY <1>2, <2>3, <2>4, <2>6, <2>7, <3>1, <3>2
  <2> QED
    BY <1>1, <2>7, <2>8, <2>9, ListedPicks DEF IsFirst
<1>5. CASE rows # {} /\ size \notin 1..snap.free_cpus
  <2>1. head \in rows /\ IsFirst(head, rows, serve)
    BY <1>5 DEF IsFirst
  <2>2. picks \in Packings(queued, order, tail, snap.free_cpus, brief)
    BY <1>1, <1>5 DEF EasyPicks
  <2>3. size > snap.free_cpus /\ size \in Nat
    BY <1>2, <1>5, <2>1 DEF QueueOK
  <2> HIDE DEF brief, head
  <2>4. picks \in SUBSET tail /\ Demand(picks, queued) <= snap.free_cpus
    BY <1>2, <2>2, PackingIs
  <2>5. Demand(picks, queued) \in Nat
    BY <1>2, <2>4, DemandParts
  <2>6. ASSUME NEW r, IsFirst(r, rows \ picks, serve)
        PROVE  queued[r].requested_cpus > snap.free_cpus - Demand(picks, queued)
    <3>1. r = head
      BY <2>1, <2>4, <2>6 DEF IsFirst, IsOrder
    <3> QED
      BY <1>2, <2>3, <2>5, <3>1
  <2> QED
    BY <1>1, <2>4, <2>6, ListedPicks
<1> QED
  BY <1>3, <1>4, <1>5

(* It answers nothing on an idle machine only when all jobs are too large. *)
LEMMA EasyIdle ==
  ASSUME NEW snap, SnapshotOK(snap), Idle(snap), NEW order, IsOrder(order, DOMAIN snap.queued_jobs),
         NEW gate, \A r \in DOMAIN snap.queued_jobs : snap.clock_ts + gate[r] <= NEVER_TS,
         NEW list \in EasyRule(snap, order, gate), Len(list) = 0
  PROVE  \A r \in DOMAIN snap.queued_jobs : TooLarge(snap, r)
<1> DEFINE queued == snap.queued_jobs
           rows == DOMAIN queued
           head == FirstIn(rows, order)
           tail == rows \ {head}
           size == queued[head].requested_cpus
           brief == {r \in tail : snap.clock_ts + gate[r] <= ReservationTs(snap, size)}
<1>0. SUFFICES ASSUME rows # {} PROVE \A r \in rows : TooLarge(snap, r)
  OBVIOUS
<1>1. PICK picks \in EasyPicks(snap, order, gate) : list \in Lists(picks, order)
  BY DEF EasyRule
<1>2. QueueOK(queued) /\ snap.free_cpus \in Nat /\ IsFiniteSet(rows)
  BY DEF SnapshotOK, QueueOK
<1>3. picks \in SUBSET rows
  BY <1>0, <1>1, <1>2, FirstExists DEF EasyPicks, IsFirst, Packings
<1>4. picks = {}
  <2>1. IsFiniteSet(picks) /\ IsOrder(order, picks)
    BY <1>2, <1>3, FS_Subset DEF IsOrder
  <2>2. Firsts(list, Len(list)) = picks
    BY <1>1, <2>1, ListIs
  <2> QED
    BY <2>2 DEF Firsts
<1>5. head \in rows
  BY <1>0, <1>2, FirstExists DEF IsFirst
<1>6. size \notin 1..snap.free_cpus
  BY <1>0, <1>1, <1>4 DEF EasyPicks
<1>7. size > snap.capacity_cpus /\ picks \in Packings(queued, order, tail, snap.free_cpus, brief)
  BY <1>0, <1>1, <1>2, <1>5, <1>6 DEF EasyPicks, QueueOK, Idle
<1>8. brief = tail
  BY <1>7 DEF ReservationTs
<1>9. ASSUME NEW r \in tail PROVE TooLarge(snap, r)
  <2>1. r \in (tail \cap brief) \ picks
    BY <1>4, <1>8
  <2> HIDE DEF brief, head
  <2>2. queued[r].requested_cpus > snap.free_cpus - Demand(picks, queued)
    BY <1>2, <1>7, <2>1, PackingIs
  <2>3. Demand(picks, queued) = 0
    BY <1>4, DemandNone
  <2> QED
    BY <1>2, <2>2, <2>3 DEF TooLarge, Idle
<1> QED
  BY <1>7, <1>9 DEF TooLarge

(* No row answered: the first of all does not fit.                         *)
LEMMA NoneAnswered ==
  ASSUME NEW snap, SnapshotOK(snap), Idle(snap), NEW serve, NEW list, Answered(snap, serve, list), Len(list) = 0,
         NEW r, IsFirst(r, DOMAIN snap.queued_jobs, serve)
  PROVE  TooLarge(snap, r)
<1>1. Firsts(list, Len(list)) = {}
  BY DEF Firsts
<1>2. Demand({}, snap.queued_jobs) = 0
  BY DemandNone
<1>3. (DOMAIN snap.queued_jobs) \ {} = DOMAIN snap.queued_jobs
  OBVIOUS
<1>4. snap.queued_jobs[r].requested_cpus > snap.free_cpus - 0
  BY <1>1, <1>2, <1>3 DEF Answered
<1>5. snap.free_cpus \in Nat /\ snap.free_cpus = snap.capacity_cpus
  BY DEF SnapshotOK, Idle
<1> QED
  BY <1>4, <1>5 DEF TooLarge

(* Strict FIFO takes rows as long as they fit.                             *)
LEMMA FifoAnswers ==
  ASSUME NEW snap, SnapshotOK(snap), NEW list \in ChooseFifoStrict(snap)
  PROVE  Answered(snap, Fifo(snap.queued_jobs), list)
<1> DEFINE queued == snap.queued_jobs
           rows == DOMAIN queued
           upto(r) == {q \in rows : q <= r}
           picks == {r \in rows : Demand(upto(r), queued) <= snap.free_cpus}
<1>1. QueueOK(queued) /\ snap.free_cpus \in Nat /\ rows \in SUBSET Nat
  BY DEF SnapshotOK, QueueOK
<1>2. list \in Lists(picks, AsQueued(queued)) /\ picks \in SUBSET rows
  BY DEF ChooseFifoStrict
<1>3. \A q, r \in rows : q <= r => Demand(upto(q), queued) <= Demand(upto(r), queued)
  <2> SUFFICES ASSUME NEW q \in rows, NEW r \in rows, q <= r
               PROVE  Demand(upto(q), queued) <= Demand(upto(r), queued)
    OBVIOUS
  <2>1. upto(r) \in SUBSET rows /\ upto(q) \in SUBSET upto(r)
    BY <1>1
  <2> QED
    BY <1>1, <2>1, DemandParts
<1>4. \A r \in rows : Demand(upto(r), queued) \in Nat
  <2>1. \A r \in rows : upto(r) \in SUBSET rows
    OBVIOUS
  <2> HIDE DEF upto
  <2> QED
    BY <1>1, <2>1, DemandParts
<1>5. Demand(picks, queued) <= snap.free_cpus
  <2>1. CASE picks = {}
    <3> HIDE DEF picks
    <3> QED
      BY <1>1, <2>1, DemandNone
  <2>2. CASE picks # {}
    <3>1. IsOrder(AsQueued(queued), picks) /\ IsFiniteSet(picks)
      BY <1>1, <1>2, FifoIs, FS_Subset DEF IsOrder, QueueOK
    <3>2. PICK r \in picks : Before(picks, AsQueued(queued), r) = picks \ {r}
      BY <2>2, <3>1, LastExists
    <3>3. picks \in SUBSET upto(r)
      <4> SUFFICES ASSUME NEW q \in picks PROVE q \in upto(r)
        OBVIOUS
      <4>1. q \in rows /\ r \in rows /\ q \in Nat /\ r \in Nat
        BY <1>1
      <4>2. q = r \/ q \in Before(picks, AsQueued(queued), r)
        <5> HIDE DEF picks
        <5> QED
          BY <3>2
      <4>3. q = r \/ q < r
        BY <4>2 DEF Before, AsQueued
      <4> QED
        BY <4>1, <4>3
    <3>4. upto(r) \in SUBSET rows /\ Demand(upto(r), queued) <= snap.free_cpus
      BY <3>2
    <3> HIDE DEF upto, picks
    <3>5. Demand(picks, queued) <= Demand(upto(r), queued) /\ Demand(picks, queued) \in Nat /\ Demand(upto(r), queued) \in Nat
      BY <1>1, <3>3, <3>4, DemandParts
    <3> QED
      BY <1>1, <3>4, <3>5
  <2> QED
    BY <2>1, <2>2
<1>6. ASSUME NEW r, IsFirst(r, rows \ picks, Fifo(queued))
      PROVE  queued[r].requested_cpus > snap.free_cpus - Demand(picks, queued)
  <2>1. r \in rows \ picks /\ \A q \in (rows \ picks) \ {r} : r < q
    BY <1>1, <1>6, FifoIs DEF IsFirst
  <2>2. \A q \in picks : q < r
    <3> SUFFICES ASSUME NEW q \in picks, ~ (q < r) PROVE FALSE
      OBVIOUS
    <3>1. r <= q /\ q \in rows
      BY <1>1, <2>1
    <3>2. Demand(upto(r), queued) <= Demand(upto(q), queued)
      BY <1>3, <2>1, <3>1
    <3>3. Demand(upto(q), queued) <= snap.free_cpus /\ ~ (Demand(upto(r), queued) <= snap.free_cpus)
      BY <2>1
    <3>4. Demand(upto(q), queued) \in Nat /\ Demand(upto(r), queued) \in Nat
      BY <1>4, <2>1, <3>1
    <3> HIDE DEF upto
    <3> QED
      BY <1>1, <3>2, <3>3, <3>4
  <2>3. upto(r) = picks \cup {r}
    <3>1. \A q \in upto(r) : q \in picks \cup {r}
      BY <1>1, <2>1
    <3>2. \A q \in picks \cup {r} : q \in upto(r)
      BY <1>1, <2>1, <2>2
    <3> HIDE DEF upto
    <3> QED
      BY <3>1, <3>2
  <2>4. ~ (Demand(upto(r), queued) <= snap.free_cpus)
    BY <2>1
  <2> HIDE DEF upto, picks
  <2>5. /\ Demand(picks \cup {r}, queued) = Demand(picks, queued) + queued[r].requested_cpus
        /\ Demand(picks, queued) \in Nat /\ queued[r].requested_cpus \in Nat
    BY <1>1, <1>2, <2>1, DemandOne
  <2> QED
    BY <1>1, <2>3, <2>4, <2>5
<1>7. IsOrder(AsQueued(queued), rows)
  BY <1>1, FifoIs
<1> HIDE DEF picks
<1> QED
  BY <1>2, <1>5, <1>6, <1>7, ListedPicks

(* A trained model is asked as long as it can pick, and can always pick    *)
(* the first row it has not, if that fits.                                 *)
LEMMA RlAnswered ==
  ASSUME NEW snap, SnapshotOK(snap), NEW list \in RlAnswers(snap)
  PROVE  Answered(snap, Fifo(snap.queued_jobs), list)
<1> DEFINE queued == snap.queued_jobs
           rows == DOMAIN queued
           taken == Firsts(list, Len(list))
<1>1. QueueOK(queued) /\ snap.free_cpus \in Nat /\ IsFiniteSet(rows)
  BY DEF SnapshotOK, QueueOK
<1>2. PICK n \in 0..Cardinality(rows) : list \in [1..n -> rows]
  BY DEF RlAnswers
<1>3. n \in Nat
  BY <1>1, <1>2, FS_CardinalityType
<1>4. Len(list) = n /\ DOMAIN list = 1..n
  BY <1>2, <1>3
<1>5. /\ \A i \in 1..n : list[i] \in Pickable(snap, Firsts(list, i - 1))
      /\ Pickable(snap, taken) = {}
  BY <1>4 DEF RlAnswers
<1>6. ASSUME NEW i \in 1..n, NEW j \in 1..n, i < j PROVE list[i] # list[j]
  <2>1. list[i] \in Firsts(list, j - 1)
    BY <1>3, <1>6 DEF Firsts
  <2>2. list[j] \in Pickable(snap, Firsts(list, j - 1))
    BY <1>5
  <2> QED
    BY <2>1, <2>2 DEF Pickable
<1>7. \A i, j \in 1..n : list[i] = list[j] => i = j
  BY <1>3, <1>6
<1>8. taken \in SUBSET rows
  BY <1>2, <1>4 DEF Firsts
<1>9. Demand(taken, queued) <= snap.free_cpus
  <2>1. CASE n = 0
    <3>1. taken = {}
      BY <1>4, <2>1 DEF Firsts
    <3> QED
      BY <1>1, <3>1, DemandNone
  <2>2. CASE n # 0
    <3> DEFINE before == Firsts(list, n - 1)
    <3>1. n \in 1..n /\ n - 1 \in 0..n
      BY <1>3, <2>2
    <3>2. queued[list[n]].requested_cpus <= snap.free_cpus - Demand(before, queued)
      BY <1>5, <3>1 DEF Pickable
    <3>3. taken = before \cup {list[n]}
      <4>1. \A i \in 1..n : i \in 1..(n - 1) \/ i = n
        BY <1>3
      <4>2. 1..(n - 1) \subseteq 1..n
        BY <1>3
      <4> QED
        BY <1>4, <3>1, <4>1, <4>2 DEF Firsts
    <3>4. \A i \in 1..(n - 1) : i \in 1..n /\ i < n
      BY <1>3
    <3>5. before \in SUBSET rows /\ list[n] \in rows \ before
      BY <1>2, <1>6, <3>1, <3>4 DEF Firsts
    <3> HIDE DEF before, taken
    <3>6. /\ Demand(before \cup {list[n]}, queued) = Demand(before, queued) + queued[list[n]].requested_cpus
          /\ Demand(before, queued) \in Nat /\ queued[list[n]].requested_cpus \in Nat
      BY <1>1, <3>5, DemandOne
    <3>7. PICK asked \in Nat, others \in Nat :
            asked = queued[list[n]].requested_cpus /\ others = Demand(before, queued)
      BY <3>6
    <3>8. asked <= snap.free_cpus - others /\ Demand(taken, queued) = others + asked
      BY <3>2, <3>3, <3>6, <3>7
    <3> QED
      BY <1>1, <3>7, <3>8
  <2> QED
    BY <2>1, <2>2
<1>10. ASSUME NEW r, IsFirst(r, rows \ taken, Fifo(queued))
       PROVE  queued[r].requested_cpus > snap.free_cpus - Demand(taken, queued)
  <2> DEFINE rest == {q \in rows : \A p \in taken : queued[q].job_id # queued[p].job_id}
  <2>1. rest = rows \ taken
    BY <1>1, <1>8 DEF QueueOK
  <2>2. r \in rows \ taken /\ \A q \in (rows \ taken) \ {r} : r < q
    BY <1>1, <1>10, FifoIs DEF IsFirst
  <2>3. \A q \in rest : <<q, r>> \notin Fifo(queued)
    <3> SUFFICES ASSUME NEW q \in rest PROVE <<q, r>> \notin Fifo(queued)
      OBVIOUS
    <3>1. q \in rows /\ r \in rows /\ (q = r \/ r < q)
      BY <2>1, <2>2
    <3>2. q \in Nat /\ r \in Nat
      BY <1>1, <3>1 DEF QueueOK
    <3> QED
      BY <1>1, <3>1, <3>2, FifoIs
  <2>4. Before(rest, Fifo(queued), r) = {}
    BY <2>3 DEF Before
  <2>5. Cardinality(Before(rest, Fifo(queued), r)) < MaxQueueSize
    <3> HIDE DEF rest
    <3>1. Cardinality(Before(rest, Fifo(queued), r)) = 0
      BY <2>4, FS_EmptySet
    <3> QED
      BY <3>1, MaxQueueAssumption
  <2>6. r \in rest
    BY <2>1, <2>2
  <2>7. ~ (queued[r].requested_cpus <= snap.free_cpus - Demand(taken, queued))
    BY <1>5, <2>5, <2>6 DEF Pickable
  <2>8. queued[r].requested_cpus \in Nat /\ Demand(taken, queued) \in Nat
    BY <1>1, <1>8, <2>2, DemandParts DEF QueueOK
  <2> HIDE DEF taken
  <2> QED
    BY <1>1, <2>7, <2>8
<1> QED
  BY <1>2, <1>3, <1>4, <1>7, <1>9, <1>10 DEF Answered

(* It picks nothing on an idle machine only when all it is shown is too    *)
(* large.                                                                  *)
LEMMA RlIdle ==
  ASSUME NEW snap, SnapshotOK(snap), Idle(snap), NEW list \in RlAnswers(snap), Len(list) = 0,
         NEW r \in DOMAIN snap.queued_jobs,
         Cardinality(Before(DOMAIN snap.queued_jobs, Fifo(snap.queued_jobs), r)) < MaxQueueSize
  PROVE  TooLarge(snap, r)
<1> DEFINE queued == snap.queued_jobs
           rows == DOMAIN queued
<1>1. Firsts(list, Len(list)) = {}
  BY DEF Firsts
<1>2. Pickable(snap, {}) = {}
  BY <1>1 DEF RlAnswers
<1>3. {q \in rows : \A p \in {} : queued[q].job_id # queued[p].job_id} = rows
  OBVIOUS
<1>4. ~ (queued[r].requested_cpus <= snap.free_cpus - Demand({}, queued))
  BY <1>2, <1>3 DEF Pickable
<1>5. Demand({}, queued) = 0
  BY DemandNone
<1>6. snap.free_cpus \in Nat /\ snap.free_cpus = snap.capacity_cpus /\ queued[r].requested_cpus \in Nat
  BY DEF SnapshotOK, Idle, QueueOK
<1> QED
  BY <1>4, <1>5, <1>6 DEF TooLarge

-----------------------------------------------------------------------------
(* Conservative backfill: the plan of the rows that can fit at all.        *)

(* The earliest window starts now if, and only if, there is one now.       *)
LEMMA EarliestNow ==
  ASSUME NEW p, ProfileOK(p), NEW clock \in Int, p.base_ts = clock, NEVER_TS \in Int, clock < NEVER_TS,
         NEW runtime \in Nat \ {0}, NEW req \in Nat
  PROVE  LET start == FindEarliestWindow(p, req, runtime, clock)
         IN  /\ start \in Int /\ clock <= start
             /\ start = clock <=> FreeThroughout(p, clock, runtime, req)
<1> DEFINE candidates == {clock} \cup {t \in DOMAIN p.events : t > clock}
           fitting == {t \in candidates : WindowFits(p, t, t + runtime, req)}
           start == FindEarliestWindow(p, req, runtime, clock)
<1>1. candidates \in SUBSET Int /\ IsFiniteSet(candidates) /\ \A t \in candidates : clock <= t
  <2>1. {t \in DOMAIN p.events : t > clock} \in SUBSET (DOMAIN p.events)
    OBVIOUS
  <2>2. IsFiniteSet({t \in DOMAIN p.events : t > clock}) /\ IsFiniteSet({clock})
    BY <2>1, FS_Subset, FS_Singleton DEF ProfileOK
  <2>3. IsFiniteSet(candidates)
    BY <2>2, FS_Union
  <2> QED
    BY <2>3 DEF ProfileOK
<1>2. start = IF fitting = {} THEN NEVER_TS ELSE Min(fitting)
  <2>1. LaterOf(clock, p.base_ts) = clock /\ ~ (runtime <= 0)
    BY DEF LaterOf
  <2> QED
    BY <2>1 DEF FindEarliestWindow
<1>3. clock \in candidates /\ (WindowFits(p, clock, clock + runtime, req) <=> FreeThroughout(p, clock, runtime, req))
  <2>1. p.base_ts <= clock
    OBVIOUS
  <2> QED
    BY <2>1, WindowIs
<1>4. fitting \in SUBSET Int /\ IsFiniteSet(fitting) /\ \A t \in fitting : clock <= t
  <2>1. fitting \in SUBSET candidates
    OBVIOUS
  <2> HIDE DEF candidates
  <2> QED
    BY <1>1, <2>1, FS_Subset
<1>5. clock \in fitting <=> FreeThroughout(p, clock, runtime, req)
  BY <1>3
<1> HIDE DEF candidates, fitting, start
<1>6. fitting # {} => start \in fitting /\ \A t \in fitting : start <= t
  BY <1>2, <1>4, MinOfFinite
<1>7. start \in Int /\ clock <= start
  BY <1>2, <1>4, <1>6
<1>8. start = clock => clock \in fitting
  BY <1>2, <1>6
<1>9. clock \in fitting => start = clock
  BY <1>6, <1>7
<1> QED
  BY <1>5, <1>7, <1>8, <1>9 DEF start

(* The rounds over a list up to one of them.                               *)
RoundsUpTo(plan, snap, list, k) ==
  /\ plan = [n \in 0..k |-> plan[n]]
  /\ plan[0] = [profile |-> FromSnapshot(snap.clock_ts, snap.free_cpus, snap.running_jobs),
                start |-> snap.clock_ts]
  /\ \A n \in 1..k : plan[n] = PlanJobOn(plan[n - 1].profile, snap.queued_jobs[list[n]], snap.clock_ts)

(* The plan is what its rounds make of the profile of the snapshot.        *)
LEMMA PlanIs ==
  ASSUME NEW snap, NEW list, Len(list) \in Nat
  PROVE  RoundsUpTo(ConservativePlan(snap, list), snap, list, Len(list))
<1> DEFINE N == Len(list)
           first == [profile |-> FromSnapshot(snap.clock_ts, snap.free_cpus, snap.running_jobs),
                     start |-> snap.clock_ts]
           round(p, n) == PlanJobOn(p.profile, snap.queued_jobs[list[n]], snap.clock_ts)
           Made(plan, k) == RoundsUpTo(plan, snap, list, k)
           missing == {k \in 0..N : ~ \E plan : Made(plan, k)}
<1>1. ASSUME NEW k \in 0..N, k > 0, NEW plan, Made(plan, k - 1)
      PROVE  \E more : Made(more, k)
  <2> DEFINE more == [n \in 0..k |-> IF n < k THEN plan[n] ELSE round(plan[k - 1], k)]
  <2>1. \A n \in 0..(k - 1) : more[n] = plan[n]
    OBVIOUS
  <2>2. more[k] = round(plan[k - 1], k)
    OBVIOUS
  <2>3. more = [n \in 0..k |-> more[n]]
    OBVIOUS
  <2> HIDE DEF more
  <2>4. more[0] = first
    BY <1>1, <2>1 DEF RoundsUpTo
  <2>5. \A n \in 1..k : more[n] = round(more[n - 1], n)
    <3> SUFFICES ASSUME NEW n \in 1..k PROVE more[n] = round(more[n - 1], n)
      OBVIOUS
    <3>1. CASE n = k
      <4>1. more[n - 1] = plan[k - 1]
        BY <1>1, <2>1, <3>1
      <4> QED
        BY <2>2, <3>1, <4>1
    <3>2. CASE n < k
      <4>1. more[n] = plan[n] /\ more[n - 1] = plan[n - 1] /\ n \in 1..(k - 1)
        BY <1>1, <2>1, <3>2
      <4> HIDE DEF round
      <4>2. plan[n] = round(plan[n - 1], n)
        BY <1>1, <4>1 DEF RoundsUpTo, round
      <4> QED
        BY <4>1, <4>2
    <3> QED
      BY <3>1, <3>2
  <2>6. Made(more, k)
    BY <2>3, <2>4, <2>5 DEF RoundsUpTo
  <2> QED
    BY <2>6
<1>2. \E plan : Made(plan, 0)
  <2> DEFINE plan == [n \in 0..0 |-> first]
  <2>1. plan = [n \in 0..0 |-> plan[n]] /\ plan[0] = first
    OBVIOUS
  <2> HIDE DEF plan
  <2>2. Made(plan, 0)
    BY <2>1 DEF RoundsUpTo
  <2> QED
    BY <2>2
<1>3. missing = {}
  <2> SUFFICES ASSUME missing # {} PROVE FALSE
    OBVIOUS
  <2>1. missing \in SUBSET Nat
    OBVIOUS
  <2>2. PICK m \in missing : \A n \in missing : m <= n
    <3> HIDE DEF missing
    <3> QED
      BY <2>1, LeastNatural
  <2>3. m \in 0..N /\ ~ \E plan : Made(plan, m)
    BY <2>2
  <2>4. m > 0 /\ m - 1 \in 0..N
    <3> HIDE DEF Made
    <3> QED
      BY <1>2, <2>3
  <2>5. m - 1 \notin missing
    <3> HIDE DEF missing
    <3> QED
      BY <2>1, <2>2, <2>3
  <2>6. \E plan : Made(plan, m - 1)
    BY <2>4, <2>5
  <2> HIDE DEF Made
  <2> QED
    BY <1>1, <2>3, <2>4, <2>6
<1>4. PICK made : Made(made, N)
  <2>1. N \in 0..N
    OBVIOUS
  <2> HIDE DEF Made
  <2> QED
    BY <1>3, <2>1
<1>5. made = [n \in 0..N |-> IF n = 0 THEN first ELSE round(made[n - 1], n)]
  <2>1. made = [n \in 0..N |-> made[n]] /\ made[0] = first
    BY <1>4 DEF RoundsUpTo
  <2>2. \A n \in 1..N : made[n] = round(made[n - 1], n)
    BY <1>4 DEF RoundsUpTo
  <2>3. \A n \in 0..N : made[n] = IF n = 0 THEN first ELSE round(made[n - 1], n)
    <3> HIDE DEF round, first
    <3> QED
      BY <2>1, <2>2
  <2> HIDE DEF round, first
  <2> QED
    BY <2>1, <2>3
<1> DEFINE plan == CHOOSE f : f = [n \in 0..N |-> IF n = 0 THEN first ELSE round(f[n - 1], n)]
<1>6. plan = [n \in 0..N |-> IF n = 0 THEN first ELSE round(plan[n - 1], n)]
  <2> HIDE DEF round, first
  <2> QED
    BY <1>5
<1>7. ConservativePlan(snap, list) = plan
  BY DEF ConservativePlan
<1> HIDE DEF plan
<1>8. plan[0] = first
  <2> HIDE DEF first, round
  <2> QED
    BY <1>6
<1>9. \A n \in 1..N : plan[n] = round(plan[n - 1], n)
  <2> HIDE DEF first, round
  <2> QED
    BY <1>6
<1>10. plan = [n \in 0..N |-> plan[n]]
  <2> HIDE DEF first, round
  <2> QED
    BY <1>6
<1> QED
  BY <1>7, <1>8, <1>9, <1>10 DEF RoundsUpTo

PlannedFor(snap) == {r \in DOMAIN snap.queued_jobs : snap.queued_jobs[r].requested_cpus \in 1..snap.capacity_cpus}
StartsNow(snap, list, k) == ConservativePlan(snap, list)[k].start = snap.clock_ts
NowBy(snap, list, k) == {list[i] : i \in {i \in 1..k : StartsNow(snap, list, i)}}

(* After a round the free CPUs of now are less by what starts now.  While  *)
(* everything starts now, no fewer are free at any later time.             *)
RoundOK(snap, list, k) ==
  LET prof == ConservativePlan(snap, list)[k].profile
      started == Demand(NowBy(snap, list, k), snap.queued_jobs)
  IN  /\ ProfileOK(prof) /\ prof.base_ts = snap.clock_ts
      /\ started <= snap.free_cpus
      /\ FreeAt(prof, snap.clock_ts) = snap.free_cpus - started
      /\ (\A i \in 1..k : StartsNow(snap, list, i)) =>
           \A t \in Int : snap.clock_ts <= t => FreeAt(prof, t) >= FreeAt(prof, snap.clock_ts)

LEMMA FirstRound ==
  ASSUME NEW snap, SnapshotOK(snap), NEW list, Len(list) \in Nat
  PROVE  RoundOK(snap, list, 0)
<1> DEFINE clock == snap.clock_ts
           free == snap.free_cpus
           S == snap.running_jobs
           prof == FromSnapshot(clock, free, S)
<1>1. ConservativePlan(snap, list)[0].profile = prof
  <2>1. RoundsUpTo(ConservativePlan(snap, list), snap, list, Len(list))
    BY PlanIs
  <2> HIDE DEF prof
  <2>2. ConservativePlan(snap, list)[0] = [profile |-> prof, start |-> clock]
    BY <2>1, Zenon DEF RoundsUpTo, prof
  <2> QED
    BY <2>2
<1>2. /\ clock \in Int /\ free \in Int /\ free \in Nat /\ CpusCounted(S)
      /\ \A rj \in S : rj.end_ts \in Int /\ rj.end_ts > clock
  BY DEF SnapshotOK
<1>3. /\ ProfileOK(prof) /\ prof.base_ts = clock
      /\ \A t \in Int : clock <= t => FreeAt(prof, t) = free + ReleasedBy(S, t)
  BY <1>2, SnapshotFree
<1>4. {rj \in S : rj.end_ts <= clock} = {}
  BY <1>2
<1>5. AllocatedUnits({}) = {}
  BY DEF AllocatedUnits
<1>6. ReleasedBy(S, clock) = 0
  BY <1>4, <1>5, FS_EmptySet DEF ReleasedBy, AllocatedCpus
<1>7. \A t : ReleasedBy(S, t) \in Nat
  BY <1>2, AllocatedSplit DEF ReleasedBy
<1>8. NowBy(snap, list, 0) = {}
  BY DEF NowBy
<1>9. Demand(NowBy(snap, list, 0), snap.queued_jobs) = 0
  BY <1>8, DemandNone
<1>10. FreeAt(prof, clock) = free
  BY <1>2, <1>3, <1>6
<1>11. \A t \in Int : clock <= t => FreeAt(prof, t) >= FreeAt(prof, clock)
  <2> HIDE DEF prof, clock, free, S
  <2> QED
    BY <1>2, <1>3, <1>7, <1>10
<1> HIDE DEF prof
<1> QED
  BY <1>1, <1>2, <1>3, <1>9, <1>10, <1>11 DEF RoundOK

(* What one round does.                                                    *)
LEMMA RoundIs ==
  ASSUME NEW snap, SnapshotOK(snap), NEW list, Len(list) \in Nat, NEW k \in 1..Len(list),
         list[k] \in PlannedFor(snap),
         ProfileOK(ConservativePlan(snap, list)[k - 1].profile),
         ConservativePlan(snap, list)[k - 1].profile.base_ts = snap.clock_ts
  PROVE  LET prof == ConservativePlan(snap, list)[k - 1].profile
             next == ConservativePlan(snap, list)[k].profile
             start == ConservativePlan(snap, list)[k].start
             req == snap.queued_jobs[list[k]].requested_cpus
         IN  \E runtime \in Nat \ {0} :
               /\ ProfileOK(next) /\ next.base_ts = snap.clock_ts
               /\ start \in Int /\ snap.clock_ts <= start
               /\ start = snap.clock_ts <=> FreeThroughout(prof, snap.clock_ts, runtime, req)
               /\ \A t \in Int : FreeAt(next, t) = LeftBy(FreeAt(prof, t), t, start, start + runtime, req)
<1> DEFINE clock == snap.clock_ts
           plan == ConservativePlan(snap, list)
           job == snap.queued_jobs[list[k]]
           req == job.requested_cpus
           runtime == LaterOf(1, job.runtime_estimate_sec)
           prof == plan[k - 1].profile
           start == FindEarliestWindow(prof, req, runtime, clock)
<1>1. plan[k] = PlanJobOn(prof, job, clock)
  BY PlanIs DEF RoundsUpTo
<1>2. plan[k].start = start /\ plan[k].profile = Reserve(prof, start, runtime, req)
  BY <1>1 DEF PlanJobOn
<1>3. req \in Nat \ {0} /\ job.runtime_estimate_sec \in Nat
  BY DEF SnapshotOK, QueueOK, PlannedFor, IsPlanned
<1>4. runtime \in Nat \ {0}
  BY <1>3 DEF LaterOf
<1>5. clock \in Int /\ NEVER_TS \in Int /\ clock < NEVER_TS /\ ProfileOK(prof) /\ prof.base_ts = clock
  BY DEF SnapshotOK
<1> HIDE DEF runtime, prof, clock, req, plan, job
<1>6. /\ start \in Int /\ clock <= start
      /\ start = clock <=> FreeThroughout(prof, clock, runtime, req)
  <2>1. req \in Nat
    BY <1>3
  <2> QED
    BY <1>4, <1>5, <2>1, EarliestNow
<1> HIDE DEF start
<1>7. LET q == Reserve(prof, start, runtime, req)
      IN  /\ ProfileOK(q) /\ q.base_ts = prof.base_ts
          /\ \A t \in Int : FreeAt(q, t) = LeftBy(FreeAt(prof, t), t, start, start + runtime, req)
  <2>1. prof.base_ts <= start
    BY <1>5, <1>6
  <2>2. ProfileOK(prof) /\ start \in Int
    BY <1>5, <1>6
  <2>3. LET q == Reserve(prof, start, runtime, req)
        IN  /\ ProfileOK(q) /\ q.base_ts = prof.base_ts /\ q.initial_free = prof.initial_free
            /\ DOMAIN q.events = DOMAIN prof.events \cup {start, start + runtime}
            /\ \A t \in Int : FreeAt(q, t) = LeftBy(FreeAt(prof, t), t, start, start + runtime, req)
    BY <1>3, <1>4, <2>1, <2>2, ReserveTakes, Zenon
  <2> QED
    BY <2>3
<1> QED
  BY <1>2, <1>4, <1>5, <1>6, <1>7 DEF clock, plan, prof, req, job

(* A list of rows that can fit, each once.                                 *)
PlanList(snap, list) ==
  /\ Len(list) \in Nat
  /\ list \in [1..Len(list) -> PlannedFor(snap)]
  /\ \A i, j \in 1..Len(list) : list[i] = list[j] => i = j

LEMMA NowGrows ==
  ASSUME NEW snap, SnapshotOK(snap), NEW list, PlanList(snap, list), NEW k \in 1..Len(list)
  PROVE  LET had == Demand(NowBy(snap, list, k - 1), snap.queued_jobs)
             has == Demand(NowBy(snap, list, k), snap.queued_jobs)
             req == snap.queued_jobs[list[k]].requested_cpus
         IN  /\ had \in Nat /\ req \in Nat \ {0}
             /\ has = IF StartsNow(snap, list, k) THEN had + req ELSE had
<1> DEFINE before == NowBy(snap, list, k - 1)
<1>1. \A i \in 1..k : i \in 1..(k - 1) \/ i = k
  BY DEF PlanList
<1>2. \A i \in 1..(k - 1) : i \in 1..k /\ i \in 1..Len(list) /\ i # k
  BY DEF PlanList
<1>3. k \in 1..k
  OBVIOUS
<1>4. before \in SUBSET (DOMAIN snap.queued_jobs) /\ list[k] \in DOMAIN snap.queued_jobs
  BY <1>2 DEF NowBy, PlanList, PlannedFor
<1>5. list[k] \notin before
  BY <1>2 DEF NowBy, PlanList
<1>6. \A r : r \in NowBy(snap, list, k) <=> \E i \in 1..k : StartsNow(snap, list, i) /\ r = list[i]
  BY DEF NowBy
<1>7. \A r : r \in before <=> \E i \in 1..(k - 1) : StartsNow(snap, list, i) /\ r = list[i]
  BY DEF NowBy
<1> HIDE DEF before
<1>8. \A r : r \in NowBy(snap, list, k) <=> r \in before \/ (StartsNow(snap, list, k) /\ r = list[k])
  BY <1>1, <1>2, <1>3, <1>6, <1>7
<1>9. /\ StartsNow(snap, list, k) => NowBy(snap, list, k) = before \cup {list[k]}
      /\ ~ StartsNow(snap, list, k) => NowBy(snap, list, k) = before
  BY <1>8
<1>10. QueueOK(snap.queued_jobs)
  BY DEF SnapshotOK
<1>11. /\ Demand(before \cup {list[k]}, snap.queued_jobs)
            = Demand(before, snap.queued_jobs) + snap.queued_jobs[list[k]].requested_cpus
       /\ snap.queued_jobs[list[k]].requested_cpus \in Nat \ {0} /\ Demand(before, snap.queued_jobs) \in Nat
  BY <1>4, <1>5, <1>10, DemandOne
<1> QED
  BY <1>9, <1>11 DEF before

LEMMA RoundStep ==
  ASSUME NEW snap, SnapshotOK(snap), NEW list, PlanList(snap, list), NEW k \in 1..Len(list),
         RoundOK(snap, list, k - 1)
  PROVE  RoundOK(snap, list, k)
<1> DEFINE clock == snap.clock_ts
           free == snap.free_cpus
           prof == ConservativePlan(snap, list)[k - 1].profile
           next == ConservativePlan(snap, list)[k].profile
           start == ConservativePlan(snap, list)[k].start
           req == snap.queued_jobs[list[k]].requested_cpus
           had == Demand(NowBy(snap, list, k - 1), snap.queued_jobs)
           has == Demand(NowBy(snap, list, k), snap.queued_jobs)
<1>1. /\ ProfileOK(prof) /\ prof.base_ts = clock
      /\ had <= free /\ FreeAt(prof, clock) = free - had
      /\ (\A i \in 1..(k - 1) : StartsNow(snap, list, i)) =>
           \A t \in Int : clock <= t => FreeAt(prof, t) >= FreeAt(prof, clock)
  BY DEF RoundOK
<1>2. PICK runtime \in Nat \ {0} :
        /\ ProfileOK(next) /\ next.base_ts = clock
        /\ start \in Int /\ clock <= start
        /\ start = clock <=> FreeThroughout(prof, clock, runtime, req)
        /\ \A t \in Int : FreeAt(next, t) = LeftBy(FreeAt(prof, t), t, start, start + runtime, req)
  <2>1. list[k] \in PlannedFor(snap) /\ Len(list) \in Nat
    BY DEF PlanList
  <2> QED
    BY <1>1, <2>1, RoundIs
<1>3. /\ had \in Nat /\ req \in Nat \ {0}
      /\ has = IF StartsNow(snap, list, k) THEN had + req ELSE had
  BY NowGrows
<1>4. clock \in Int /\ free \in Nat /\ QueueOK(snap.queued_jobs)
  BY DEF SnapshotOK
<1>5. /\ start = clock => has = had + req
      /\ start # clock => has = had
  BY <1>3 DEF StartsNow
<1>6. StartsNow(snap, list, k) <=> start = clock
  BY DEF StartsNow
<1>7. (\A i \in 1..k : StartsNow(snap, list, i)) =>
        start = clock /\ \A i \in 1..(k - 1) : StartsNow(snap, list, i)
  BY <1>6 DEF PlanList
<1> HIDE DEF clock, free, prof, next, start, req, had, has
<1>8. \A t \in Int : FreeAt(prof, t) \in Int
  BY <1>1, FreeAtNumber
<1>9. has <= free /\ FreeAt(next, clock) = free - has
  <2>1. CASE start = clock
    <3>1. clock \in clock..(clock + runtime - 1)
      BY <1>2, <1>4
    <3>2. FreeAt(prof, clock) >= req
      BY <1>2, <2>1, <3>1 DEF FreeThroughout
    <3>3. FreeAt(next, clock) = FreeAt(prof, clock) - req
      BY <1>2, <1>4, <2>1 DEF LeftBy
    <3> QED
      BY <1>1, <1>4, <1>3, <1>5, <2>1, <3>2, <3>3
  <2>2. CASE start # clock
    <3>1. FreeAt(next, clock) = FreeAt(prof, clock)
      BY <1>2, <1>4, <2>2 DEF LeftBy
    <3> QED
      BY <1>1, <1>3, <1>5, <2>2, <3>1
  <2> QED
    BY <2>1, <2>2
<1>10. ASSUME start = clock, \A i \in 1..(k - 1) : StartsNow(snap, list, i), NEW t \in Int, clock <= t
       PROVE  FreeAt(next, t) >= FreeAt(next, clock)
  <2>1. FreeAt(prof, t) >= FreeAt(prof, clock)
    BY <1>1, <1>10
  <2>2. FreeAt(next, clock) = FreeAt(prof, clock) - req
    BY <1>2, <1>4, <1>10 DEF LeftBy
  <2>3. FreeAt(next, t) = FreeAt(prof, t) - req \/ FreeAt(next, t) = FreeAt(prof, t)
    BY <1>2, <1>10 DEF LeftBy
  <2>4. FreeAt(prof, t) \in Int /\ FreeAt(prof, clock) \in Int
    BY <1>4, <1>8
  <2> QED
    BY <1>3, <1>5, <2>1, <2>2, <2>3, <2>4
<1> QED
  BY <1>2, <1>7, <1>9, <1>10 DEF RoundOK, clock, free, next, has

LEMMA AllRounds ==
  ASSUME NEW snap, SnapshotOK(snap), NEW list, PlanList(snap, list)
  PROVE  \A k \in 0..Len(list) : RoundOK(snap, list, k)
<1> DEFINE bad == {k \in 0..Len(list) : ~ RoundOK(snap, list, k)}
<1> SUFFICES ASSUME bad # {} PROVE FALSE
  OBVIOUS
<1>1. bad \in SUBSET Nat
  BY DEF PlanList
<1>2. PICK m \in bad : \A n \in bad : m <= n
  <2> HIDE DEF bad
  <2> QED
    BY <1>1, LeastNatural
<1>3. m \in 0..Len(list) /\ ~ RoundOK(snap, list, m) /\ Len(list) \in Nat
  BY <1>2 DEF PlanList
<1>4. m # 0
  BY <1>3, FirstRound
<1>5. m \in 1..Len(list) /\ m - 1 \in 0..Len(list)
  BY <1>3, <1>4
<1>6. m - 1 \notin bad
  <2> HIDE DEF bad
  <2> QED
    BY <1>1, <1>2, <1>3
<1> QED
  BY <1>3, <1>5, <1>6, RoundStep

(* The first row of the plan that does not start now does not fit in what  *)
(* those before it leave.                                                  *)
LEMMA FirstLate ==
  ASSUME NEW snap, SnapshotOK(snap), NEW list, PlanList(snap, list), NEW k \in 1..Len(list),
         \A i \in 1..(k - 1) : StartsNow(snap, list, i), ~ StartsNow(snap, list, k)
  PROVE  snap.queued_jobs[list[k]].requested_cpus
           > snap.free_cpus - Demand(NowBy(snap, list, k - 1), snap.queued_jobs)
<1> DEFINE clock == snap.clock_ts
           prof == ConservativePlan(snap, list)[k - 1].profile
           next == ConservativePlan(snap, list)[k].profile
           start == ConservativePlan(snap, list)[k].start
           req == snap.queued_jobs[list[k]].requested_cpus
           had == Demand(NowBy(snap, list, k - 1), snap.queued_jobs)
<1>1. RoundOK(snap, list, k - 1)
  BY AllRounds DEF PlanList
<1>2. /\ ProfileOK(prof) /\ prof.base_ts = clock
      /\ had <= snap.free_cpus /\ FreeAt(prof, clock) = snap.free_cpus - had
      /\ \A t \in Int : clock <= t => FreeAt(prof, t) >= FreeAt(prof, clock)
  BY <1>1 DEF RoundOK
<1>3. PICK runtime \in Nat \ {0} : start = clock <=> FreeThroughout(prof, clock, runtime, req)
  <2>1. list[k] \in PlannedFor(snap) /\ Len(list) \in Nat
    BY DEF PlanList
  <2> QED
    BY <1>2, <2>1, RoundIs
<1>4. start # clock
  BY DEF StartsNow
<1>5. clock \in Int /\ req \in Nat
  BY DEF SnapshotOK, PlanList, PlannedFor, QueueOK
<1> HIDE DEF prof, clock, req, had, start
<1>6. PICK t \in clock..(clock + runtime - 1) : ~ (FreeAt(prof, t) >= req)
  BY <1>3, <1>4 DEF FreeThroughout
<1>7. t \in Int /\ clock <= t
  BY <1>5, <1>6
<1>8. FreeAt(prof, t) \in Int /\ FreeAt(prof, clock) \in Int
  BY <1>2, <1>5, <1>7, FreeAtNumber
<1>9. req > FreeAt(prof, clock)
  BY <1>2, <1>5, <1>6, <1>7, <1>8
<1> QED
  BY <1>2, <1>9 DEF req, had

(* The rows that are planned, in order.                                    *)
LEMMA PlannedIs ==
  ASSUME NEW snap, SnapshotOK(snap), NEW list \in PlannedLists(snap)
  PROVE  /\ PlanList(snap, list)
         /\ Firsts(list, Len(list)) = PlannedFor(snap)
         /\ \A i, j \in 1..Len(list) : i < j => list[i] < list[j]
<1> DEFINE queued == snap.queued_jobs
           order == Fifo(queued)
<1>1. QueueOK(queued)
  BY DEF SnapshotOK
<1>2. list \in Lists(PlannedFor(snap), order)
  BY DEF PlannedLists, PlannedFor
<1>3. PlannedFor(snap) \in SUBSET (DOMAIN queued)
  BY DEF PlannedFor
<1>4. IsFiniteSet(PlannedFor(snap)) /\ IsOrder(order, PlannedFor(snap))
  <2>1. IsOrder(order, DOMAIN queued)
    BY <1>1, FifoIs
  <2>2. IsFiniteSet(DOMAIN queued)
    BY <1>1 DEF QueueOK
  <2> HIDE DEF order, queued
  <2> QED
    BY <1>3, <2>1, <2>2, FS_Subset DEF IsOrder
<1>5. /\ Len(list) \in Nat /\ list \in [1..Len(list) -> PlannedFor(snap)]
      /\ \A i, j \in 1..Len(list) : list[i] = list[j] => i = j
      /\ Firsts(list, Len(list)) = PlannedFor(snap)
  BY <1>2, <1>4, ListIs
<1>6. \A i, j \in 1..Len(list) : i < j => <<list[i], list[j]>> \in order
  BY <1>2, <1>5 DEF Lists
<1>7. ASSUME NEW i \in 1..Len(list), NEW j \in 1..Len(list), i < j
      PROVE  list[i] < list[j]
  <2>1. list[i] \in DOMAIN queued /\ list[j] \in DOMAIN queued
    BY <1>3, <1>5
  <2>2. <<list[i], list[j]>> \in Fifo(queued)
    BY <1>6, <1>7
  <2> QED
    BY <1>1, <2>1, <2>2, FifoIs
<1> QED
  BY <1>5, <1>7 DEF PlanList

LEMMA CbfAnswers ==
  ASSUME NEW snap, SnapshotOK(snap), NEW list \in ChooseConservativeBackfill(snap)
  PROVE  Answered(snap, Fifo(snap.queued_jobs), list)
<1> DEFINE queued == snap.queued_jobs
           rows == DOMAIN queued
<1>1. PICK plan \in PlannedLists(snap) : list \in Lists(StartingNow(snap, plan), Fifo(queued))
  BY DEF ChooseConservativeBackfill
<1> DEFINE N == Len(plan)
           picks == NowBy(snap, plan, N)
<1>2. StartingNow(snap, plan) = picks
  BY DEF StartingNow, NowBy, StartsNow
<1>3. /\ PlanList(snap, plan) /\ N \in Nat
      /\ Firsts(plan, N) = PlannedFor(snap)
      /\ \A i, j \in 1..N : i < j => plan[i] < plan[j]
  BY PlannedIs DEF PlanList
<1>4. QueueOK(queued) /\ snap.free_cpus \in Nat /\ snap.capacity_cpus \in Nat /\ snap.free_cpus <= snap.capacity_cpus
  BY DEF SnapshotOK
<1>5. picks \in SUBSET rows
  BY <1>3 DEF NowBy, PlanList, PlannedFor
<1>6. Demand(picks, queued) <= snap.free_cpus
  <2>1. RoundOK(snap, plan, N)
    BY <1>3, AllRounds
  <2> QED
    BY <2>1 DEF RoundOK
<1>7. Demand(picks, queued) \in Nat
  BY <1>4, <1>5, DemandParts
<1>8. ASSUME NEW r, IsFirst(r, rows \ picks, Fifo(queued))
      PROVE  queued[r].requested_cpus > snap.free_cpus - Demand(picks, queued)
  <2>1. r \in rows \ picks /\ \A q \in (rows \ picks) \ {r} : r < q
    BY <1>4, <1>8, FifoIs DEF IsFirst
  <2>2. queued[r].requested_cpus \in Nat \ {0}
    BY <1>4, <2>1 DEF QueueOK
  <2>3. CASE r \notin PlannedFor(snap)
    <3>1. queued[r].requested_cpus \notin 1..snap.capacity_cpus
      BY <2>1, <2>3 DEF PlannedFor
    <3> HIDE DEF picks
    <3> QED
      BY <1>4, <1>7, <2>2, <3>1
  <2>4. CASE r \in PlannedFor(snap)
    <3>1. PICK k \in 1..N : plan[k] = r
      BY <1>3, <2>4 DEF Firsts
    <3>2. ~ StartsNow(snap, plan, k)
      BY <2>1, <3>1 DEF NowBy
    <3>3. ASSUME NEW i \in 1..(k - 1), ~ StartsNow(snap, plan, i)
          PROVE  FALSE
      <4>1. i \in 1..N /\ i < k
        BY <1>3, <3>3
      <4>2. plan[i] < r
        BY <1>3, <3>1, <4>1
      <4>3. plan[i] \notin picks
        BY <1>3, <3>3, <4>1 DEF NowBy, PlanList
      <4>4. plan[i] \in rows
        BY <1>3, <4>1 DEF PlanList, PlannedFor
      <4>5. r \in Nat /\ plan[i] \in Nat
        BY <1>4, <2>1, <4>4 DEF QueueOK
      <4> HIDE DEF picks
      <4>6. plan[i] # r
        BY <4>2, <4>5
      <4>7. r < plan[i]
        BY <2>1, <4>3, <4>4, <4>6
      <4> QED
        BY <4>2, <4>5, <4>7
    <3>4. queued[plan[k]].requested_cpus > snap.free_cpus - Demand(NowBy(snap, plan, k - 1), queued)
      BY <1>3, <3>2, <3>3, FirstLate
    <3>5. NowBy(snap, plan, k - 1) \in SUBSET picks
      <4>1. \A i \in 1..(k - 1) : i \in 1..N
        BY <1>3
      <4> QED
        BY <4>1 DEF NowBy
    <3> HIDE DEF picks
    <3>6. /\ Demand(NowBy(snap, plan, k - 1), queued) <= Demand(picks, queued)
          /\ Demand(NowBy(snap, plan, k - 1), queued) \in Nat
      BY <1>4, <1>5, <3>5, DemandParts
    <3>7. PICK asked \in Nat : asked = queued[r].requested_cpus
      BY <2>2
    <3>8. asked > snap.free_cpus - Demand(NowBy(snap, plan, k - 1), queued)
      BY <3>1, <3>4, <3>7
    <3>9. asked > snap.free_cpus - Demand(picks, queued)
      BY <1>4, <1>7, <3>6, <3>7, <3>8
    <3> QED
      BY <3>7, <3>9
  <2> QED
    BY <2>3, <2>4
<1>9. IsOrder(Fifo(queued), rows)
  BY <1>4, FifoIs
<1> HIDE DEF picks
<1> QED
  BY <1>1, <1>2, <1>5, <1>6, <1>8, <1>9, ListedPicks

LEMMA CbfIdle ==
  ASSUME NEW snap, SnapshotOK(snap), Idle(snap), NEW list \in ChooseConservativeBackfill(snap), Len(list) = 0
  PROVE  \A r \in DOMAIN snap.queued_jobs : TooLarge(snap, r)
<1> SUFFICES ASSUME NEW r \in DOMAIN snap.queued_jobs, ~ TooLarge(snap, r) PROVE FALSE
  OBVIOUS
<1> DEFINE queued == snap.queued_jobs
<1>1. PICK plan \in PlannedLists(snap) : list \in Lists(StartingNow(snap, plan), Fifo(queued))
  BY DEF ChooseConservativeBackfill
<1> DEFINE N == Len(plan)
<1>2. PlanList(snap, plan) /\ N \in Nat /\ Firsts(plan, N) = PlannedFor(snap)
  BY PlannedIs DEF PlanList
<1>3. QueueOK(queued) /\ snap.free_cpus \in Nat /\ snap.free_cpus = snap.capacity_cpus
  BY DEF SnapshotOK, Idle
<1>4. r \in PlannedFor(snap)
  <2>1. queued[r].requested_cpus \in Nat \ {0}
    BY <1>3 DEF QueueOK
  <2> QED
    BY <1>3, <2>1 DEF PlannedFor, TooLarge
<1>5. PICK k \in 1..N : plan[k] = r
  BY <1>2, <1>4 DEF Firsts
<1>6. 1 \in 1..N
  BY <1>2, <1>5
<1>7. StartingNow(snap, plan) = {}
  <2>1. StartingNow(snap, plan) \in SUBSET (DOMAIN queued)
    BY <1>2 DEF StartingNow, PlanList, PlannedFor
  <2>2. IsFiniteSet(StartingNow(snap, plan)) /\ IsOrder(Fifo(queued), StartingNow(snap, plan))
    <3>1. IsOrder(Fifo(queued), DOMAIN queued) /\ IsFiniteSet(DOMAIN queued)
      BY <1>3, FifoIs DEF QueueOK
    <3> HIDE DEF queued
    <3> QED
      BY <2>1, <3>1, FS_Subset DEF IsOrder
  <2>3. Firsts(list, Len(list)) = StartingNow(snap, plan)
    BY <1>1, <2>2, ListIs
  <2> QED
    BY <2>3 DEF Firsts
<1>8. ~ StartsNow(snap, plan, 1)
  BY <1>6, <1>7 DEF StartingNow, StartsNow
<1>9. queued[plan[1]].requested_cpus > snap.free_cpus - Demand(NowBy(snap, plan, 0), queued)
  <2>1. \A i \in 1..(1 - 1) : StartsNow(snap, plan, i)
    OBVIOUS
  <2>2. queued[plan[1]].requested_cpus > snap.free_cpus - Demand(NowBy(snap, plan, 1 - 1), queued)
    BY <1>2, <1>6, <1>8, <2>1, FirstLate
  <2> QED
    BY <2>2
<1>10. NowBy(snap, plan, 0) = {}
  BY DEF NowBy
<1>11. Demand(NowBy(snap, plan, 0), queued) = 0
  BY <1>10, DemandNone
<1>12. queued[plan[1]].requested_cpus \in 1..snap.capacity_cpus
  BY <1>2, <1>6 DEF PlanList, PlannedFor
<1> QED
  BY <1>3, <1>9, <1>11, <1>12

-----------------------------------------------------------------------------
(* Every built-in policy.                                                  *)


(* The chooser of each policy.  The EASY rule differs by its order and its *)
(* gate.                                                                   *)
EasyOrder(p, queued) ==
  CASE p = "SJF_BACKFILL" -> SortedBy(queued, Estimates(queued))
    [] p = "LJF_BACKFILL" -> SortedBy(queued, Longest(queued))
    [] p = "FAIRSHARE_BACKFILL" -> SortedBy(queued, Deprioritized(queued))
    [] p = "UARP_BACKFILL" -> UarpOrder(queued)
    [] OTHER -> Fifo(queued)

MlGates(queued, is_strict) == [r \in DOMAIN queued |-> MlGate(queued[r], is_strict)]

EasyGate(p, is_strict, queued) ==
  CASE p = "UARP_BACKFILL" -> Guards(queued)
    [] p \in {"ML_BACKFILL_P50", "ML_BACKFILL_P10"} -> MlGates(queued, is_strict)
    [] OTHER -> Estimates(queued)

NotEasy == {"FIFO_STRICT", "RL_TRAINED", "CONSERVATIVE_BACKFILL_BASELINE"}

LEMMA AnswersAre ==
  ASSUME NEW p \in BuiltInPolicies, NEW is_strict, NEW snap
  PROVE  /\ p = "FIFO_STRICT" => Answers(p, is_strict, snap) = ChooseFifoStrict(snap)
         /\ p = "RL_TRAINED" => Answers(p, is_strict, snap) = RlAnswers(snap) \cup ChooseFifoStrict(snap)
         /\ p = "CONSERVATIVE_BACKFILL_BASELINE" => Answers(p, is_strict, snap) = ChooseConservativeBackfill(snap)
         /\ p \notin NotEasy => Answers(p, is_strict, snap)
              = EasyRule(snap, EasyOrder(p, snap.queued_jobs), EasyGate(p, is_strict, snap.queued_jobs))
BY DEF BuiltInPolicies, Answers, ChooseEasyBackfill, ChooseSjfBackfill, ChooseLjfBackfill, NotEasy,
       ChooseFairshareBackfill, ChooseUarpBackfill, ChooseMlBackfill, EasyOrder, EasyGate, MlGates

(* The order of the EASY rule is an order, its head the first to be served.*)
LEMMA EasyOrderIs ==
  ASSUME NEW queued, QueueOK(queued), policy \in BuiltInPolicies
  PROVE  /\ IsOrder(EasyOrder(policy, queued), DOMAIN queued)
         /\ IsOrder(ServiceOrder(queued), DOMAIN queued)
         /\ policy \notin NotEasy /\ DOMAIN queued # {} =>
              IsFirst(FirstIn(DOMAIN queued, EasyOrder(policy, queued)), DOMAIN queued, ServiceOrder(queued))
<1>1. IsFiniteSet(DOMAIN queued)
  BY DEF QueueOK
<1>2. IsOrder(ServiceOrder(queued), DOMAIN queued)
  <2>1. CASE policy \in {"SJF_BACKFILL", "LJF_BACKFILL", "FAIRSHARE_BACKFILL"}
    BY <2>1, KeysAreNumbers, SortedIsOrder DEF ServiceOrder
  <2>2. CASE policy \notin {"SJF_BACKFILL", "LJF_BACKFILL", "FAIRSHARE_BACKFILL"}
    BY <2>2, FifoIs DEF ServiceOrder
  <2> QED
    BY <2>1, <2>2
<1>3. CASE policy = "UARP_BACKFILL"
  <2>1. EasyOrder(policy, queued) = UarpOrder(queued) /\ ServiceOrder(queued) = Fifo(queued)
    BY <1>3 DEF EasyOrder, ServiceOrder
  <2>2. CASE DOMAIN queued = {}
    BY <1>2, <2>2 DEF IsOrder
  <2>3. CASE DOMAIN queued # {}
    <3> DEFINE head == FirstIn(DOMAIN queued, Fifo(queued))
               first == FirstIn(DOMAIN queued, UarpOrder(queued))
    <3>1. IsOrder(UarpOrder(queued), DOMAIN queued) /\ IsFirst(head, DOMAIN queued, UarpOrder(queued))
      BY <2>3, UarpIsOrder
    <3>2. IsFirst(first, DOMAIN queued, UarpOrder(queued))
      BY <1>1, <2>3, <3>1, FirstExists
    <3>3. IsFirst(head, DOMAIN queued, Fifo(queued))
      BY <1>1, <2>3, FifoIs, FirstExists
    <3> HIDE DEF head, first
    <3>4. head = first
      BY <3>1, <3>2 DEF IsFirst, IsOrder
    <3> QED
      BY <1>2, <2>1, <3>1, <3>3, <3>4 DEF first
  <2> QED
    BY <2>2, <2>3
<1>4. CASE policy # "UARP_BACKFILL"
  <2>1. EasyOrder(policy, queued) = ServiceOrder(queued)
    BY <1>4 DEF EasyOrder, ServiceOrder
  <2> QED
    BY <1>1, <1>2, <2>1, FirstExists
<1> QED
  BY <1>3, <1>4

(* Every policy answers jobs that are queued, once, that fit together, and *)
(* leaves no CPUs its own first job could use.                             *)
LEMMA PolicyAnswers ==
  ASSUME policy \in BuiltInPolicies, NEW snap, SnapshotOK(snap),
         NEW list \in Answers(policy, strict_uncertainty, snap)
  PROVE  Answered(snap, ServiceOrder(snap.queued_jobs), list)
<1>1. QueueOK(snap.queued_jobs)
  BY DEF SnapshotOK
<1>2. CASE policy \in NotEasy
  <2>1. ServiceOrder(snap.queued_jobs) = Fifo(snap.queued_jobs)
    BY <1>2 DEF ServiceOrder, NotEasy
  <2>2. list \in ChooseFifoStrict(snap) \/ list \in RlAnswers(snap) \/ list \in ChooseConservativeBackfill(snap)
    BY <1>2, AnswersAre DEF NotEasy
  <2> QED
    BY <2>1, <2>2, FifoAnswers, RlAnswered, CbfAnswers
<1>3. CASE policy \notin NotEasy
  <2>1. list \in EasyRule(snap, EasyOrder(policy, snap.queued_jobs),
                          EasyGate(policy, strict_uncertainty, snap.queued_jobs))
    BY <1>3, AnswersAre
  <2> QED
    BY <1>1, <1>3, <2>1, EasyOrderIs, EasyAnswers
<1> QED
  BY <1>2, <1>3

(* Gates are estimates of a kind, which end before never.                  *)
LEMMA EasyGateEnds ==
  ASSUME NEW snap, SnapshotOK(snap), NEW p, NEW is_strict, NEW r \in DOMAIN snap.queued_jobs
  PROVE  snap.clock_ts + EasyGate(p, is_strict, snap.queued_jobs)[r] <= NEVER_TS
<1> DEFINE queued == snap.queued_jobs
           job == queued[r]
           gate == EasyGate(p, is_strict, queued)[r]
<1>1. /\ snap.clock_ts + job.runtime_estimate_sec < NEVER_TS
      /\ snap.clock_ts + job.runtime_guard_sec < NEVER_TS
      /\ snap.clock_ts + job.runtime_p90_sec < NEVER_TS
      /\ snap.clock_ts \in Int /\ NEVER_TS \in Int
      /\ job.runtime_estimate_sec \in Nat /\ job.runtime_guard_sec \in Nat /\ job.runtime_p90_sec \in Nat
  BY DEF SnapshotOK, QueueOK, IsPlanned
<1>2. /\ MlGates(queued, is_strict)[r] = MlGate(job, is_strict)
      /\ Guards(queued)[r] = job.runtime_guard_sec
      /\ Estimates(queued)[r] = job.runtime_estimate_sec
  BY DEF MlGates, Guards, Estimates
<1>3. gate \in {job.runtime_guard_sec, MlGate(job, is_strict), job.runtime_estimate_sec}
  BY <1>2 DEF EasyGate
<1>4. MlGate(job, is_strict) \in {job.runtime_p90_sec, job.runtime_guard_sec, job.runtime_estimate_sec}
  BY DEF MlGate, OrElse
<1> HIDE DEF gate, job
<1> QED
  BY <1>1, <1>3, <1>4 DEF gate

-----------------------------------------------------------------------------
(* The times of a run.                                                     *)

LEMMA NeverIsInt == NEVER_TS \in Int
BY DEF NEVER_TS

RuntimesOf(job) ==
  {job.runtime_actual_sec, job.runtime_estimate_sec, job.runtime_guard_sec, job.runtime_p90_sec}

LEMMA FourIsFinite ==
  ASSUME NEW a, NEW b, NEW c, NEW d
  PROVE  IsFiniteSet({a, b, c, d})
<1>1. IsFiniteSet({a}) /\ IsFiniteSet({b}) /\ IsFiniteSet({c}) /\ IsFiniteSet({d})
  BY FS_Singleton
<1>2. IsFiniteSet({a} \cup {b}) /\ IsFiniteSet({c} \cup {d})
  BY <1>1, FS_Union
<1>3. IsFiniteSet(({a} \cup {b}) \cup ({c} \cup {d}))
  BY <1>2, FS_Union
<1>4. ({a} \cup {b}) \cup ({c} \cup {d}) = {a, b, c, d}
  OBVIOUS
<1> QED
  BY <1>3, <1>4

(* No runtime of the trace is above the longest, and no row is submitted   *)
(* after the last.                                                         *)
LEMMA LongestIs ==
  ASSUME NEW t \in Traces
  PROVE  /\ LongestOf(t) \in Nat
         /\ \A r \in 1..Len(t) : \A time \in RuntimesOf(t[r]) : time \in Nat /\ time <= LongestOf(t)
         /\ \A r \in 1..Len(t) : t[r].submit_ts <= t[Len(t)].submit_ts
         /\ Len(t) \in Nat \ {0} /\ t[Len(t)].submit_ts \in Int
<1> DEFINE n == Len(t)
           parts == {RuntimesOf(t[r]) : r \in DOMAIN t}
           f == [r \in DOMAIN t |-> RuntimesOf(t[r])]
           all == UNION parts
<1>1. IsTrace(t) /\ \A r \in DOMAIN t : IsPlanned(t[r])
  BY TracesAssumption, PlannedAssumption
<1>2. n \in Nat \ {0} /\ DOMAIN t = 1..n /\ IsFiniteSet(1..n)
  BY <1>1, CountTo DEF IsTrace
<1>3. \A r \in DOMAIN t : RuntimesOf(t[r]) \in SUBSET Nat /\ t[r].submit_ts \in Int
  BY <1>1 DEF IsTrace, IsPlanned, RuntimesOf
<1>4. f \in Surjection(DOMAIN t, parts)
  BY DEF Surjection
<1>5. IsFiniteSet(parts)
  BY <1>2, <1>4, FS_Surjection
<1>6. \A S \in parts : IsFiniteSet(S)
  <2>1. ASSUME NEW r \in DOMAIN t PROVE IsFiniteSet(RuntimesOf(t[r]))
    BY FourIsFinite, Zenon DEF RuntimesOf
  <2> QED
    BY <2>1
<1>7. IsFiniteSet(all)
  BY <1>5, <1>6, FS_UNION
<1>8. all \in SUBSET Nat /\ \A r \in DOMAIN t : RuntimesOf(t[r]) \in SUBSET all
  BY <1>3
<1>9. t[1].runtime_actual_sec \in all
  <2>1. 1 \in DOMAIN t
    BY <1>2
  <2> QED
    BY <1>8, <2>1 DEF RuntimesOf
<1>10. LongestOf(t) = Max(all)
  BY DEF LongestOf, RuntimesOf
<1> HIDE DEF all
<1>11. Max(all) \in all /\ \A x \in all : x <= Max(all)
  <2>1. all \in SUBSET Int /\ all # {}
    BY <1>8, <1>9
  <2> QED
    BY <1>7, <2>1, MaxOfFinite
<1>12. ASSUME NEW r \in 1..n PROVE t[r].submit_ts <= t[n].submit_ts
  <2>1. r \in DOMAIN t /\ n \in DOMAIN t /\ (r = n \/ r < n)
    <3> HIDE DEF n
    <3>1. r \in 1..n /\ n \in 1..n
      BY <1>2
    <3> QED
      BY <1>2, <3>1
  <2>2. t[r].submit_ts \in Int /\ t[n].submit_ts \in Int
    BY <1>3, <2>1
  <2> QED
    BY <1>1, <2>1, <2>2 DEF IsTrace
<1>13. t[n].submit_ts \in Int
  <2>1. n \in DOMAIN t
    BY <1>2
  <2> QED
    BY <1>3, <2>1
<1>14. ASSUME NEW r \in 1..n, NEW time \in RuntimesOf(t[r]) PROVE time \in Nat /\ time <= LongestOf(t)
  BY <1>2, <1>8, <1>10, <1>11
<1> QED
  BY <1>2, <1>8, <1>10, <1>11, <1>12, <1>13, <1>14

LastSubmit == jobs[Len(jobs)].submit_ts
LongestRuntime == LongestOf(jobs)

(* Starts end no later than if jobs had run one after the other, and the   *)
(* clock is no later than that.                                            *)
TimesBounded ==
  /\ \A s \in DOMAIN starts : starts[s].end_ts <= LastSubmit + s * LongestRuntime
  /\ clock_ts <= LastSubmit + Len(starts) * LongestRuntime

LEMMA TimesStep ==
  ASSUME LoopInvariant, TimesBounded, [Next]_vars
  PROVE  TimesBounded'
<1> DEFINE n == Len(starts)
           L == LastSubmit
           R == LongestRuntime
<1>0. TypeOK
  BY DEF LoopInvariant
<1>1. /\ R \in Nat /\ L \in Int
      /\ \A r \in Rows : jobs[r].submit_ts <= L
      /\ \A r \in Rows : jobs[r].runtime_actual_sec \in Nat /\ jobs[r].runtime_actual_sec <= R
  <2>1. jobs \in Traces
    BY <1>0 DEF TypeOK
  <2> QED
    BY <2>1, LongestIs DEF LastSubmit, LongestRuntime, Rows, RuntimesOf
<1>2. n \in Nat /\ DOMAIN starts = 1..n /\ \A s \in DOMAIN starts : starts[s] \in StartRecord
  BY <1>0, RunningFacts
<1>3. \A s \in DOMAIN starts : starts[s].end_ts \in Int /\ starts[s].end_ts <= L + s * R
  BY <1>2 DEF StartRecord, TimesBounded
<1>4. clock_ts \in Int /\ clock_ts <= L + n * R
  BY <1>0 DEF TypeOK, TimesBounded
<1> HIDE DEF L, R
<1>5. \A s \in 1..n : s * R <= n * R
  BY <1>1, <1>2
<1>6. CASE NextEvent
  <2>1. PICK next_ts \in EventTimes : clock_ts' = next_ts
    BY <1>6 DEF NextEvent
  <2>2. UNCHANGED <<jobs, starts>>
    BY <1>6 DEF NextEvent
  <2>3. next_ts <= L + n * R
    <3>1. CASE next_ts \in {jobs[r].submit_ts : r \in future}
      <4>1. next_ts \in Int /\ next_ts <= L
        BY <1>0, <1>1, <3>1, TraceFacts DEF TypeOK
      <4>2. n * R \in Nat
        BY <1>1, <1>2
      <4> QED
        BY <1>1, <4>1, <4>2
    <3>2. CASE next_ts \in {starts[s].end_ts : s \in running}
      <4>1. PICK s \in running : next_ts = starts[s].end_ts
        BY <3>2
      <4>2. s \in 1..n /\ s \in DOMAIN starts
        BY <1>0, <1>2, <4>1 DEF TypeOK
      <4>3. s * R <= n * R /\ s * R \in Int /\ n * R \in Int /\ next_ts <= L + s * R /\ next_ts \in Int
        BY <1>1, <1>2, <1>3, <1>5, <4>1, <4>2
      <4> QED
        BY <1>1, <4>3
    <3> QED
      BY <3>1, <3>2 DEF EventTimes
  <2> QED
    BY <1>3, <2>1, <2>2, <2>3 DEF TimesBounded, LastSubmit, LongestRuntime, L, R
<1>7. CASE StartJob
  <2> DEFINE row == QueueById(decision[pos])
  <2>1. /\ row \in Rows
        /\ DOMAIN starts' = DOMAIN starts \cup {n + 1}
        /\ \A s \in DOMAIN starts : starts'[s] = starts[s]
        /\ starts'[n + 1].end_ts = clock_ts + jobs[row].runtime_actual_sec
    BY <1>0, <1>7, StartAdds
  <2>2. UNCHANGED <<jobs, clock_ts>> /\ Len(starts') = n + 1
    <3>1. PICK record : starts' = Append(starts, record)
      BY <1>7 DEF StartJob
    <3>2. starts \in Seq(StartRecord) /\ UNCHANGED <<jobs, clock_ts>>
      BY <1>0, <1>7 DEF TypeOK, StartJob
    <3> QED
      BY <3>1, <3>2
  <2> HIDE DEF row, n
  <2>3. jobs[row].runtime_actual_sec \in Nat /\ jobs[row].runtime_actual_sec <= R
    BY <1>1, <2>1
  <2>4. (n + 1) * R = n * R + R /\ n * R \in Nat
    BY <1>1, <1>2
  <2>5. starts'[n + 1].end_ts <= L + (n + 1) * R
    BY <1>1, <1>4, <2>1, <2>3, <2>4
  <2>6. clock_ts <= L + (n + 1) * R
    BY <1>1, <1>4, <2>4
  <2>7. \A s \in DOMAIN starts' : starts'[s].end_ts <= L + s * R
    BY <1>3, <2>1, <2>5
  <2> QED
    BY <2>2, <2>6, <2>7 DEF TimesBounded, LastSubmit, LongestRuntime, L, R
<1>8. CASE UNCHANGED <<jobs, starts, clock_ts>>
  BY <1>8 DEF TimesBounded, LastSubmit, LongestRuntime
<1> QED
  BY <1>6, <1>7, <1>8 DEF Next, RaiseDeadlock, Finish, ReceiveDecision, SkipDecision, EndTick, RaiseStrict,
     Terminated, vars

(* As each row starts once, all that is queued ends before never.          *)
LEMMA BeforeNever ==
  ASSUME TypeOK, StartsOnce, TimesBounded
  PROVE  /\ clock_ts < NEVER_TS
         /\ \A r \in Rows : \A time \in RuntimesOf(jobs[r]) : clock_ts + time < NEVER_TS
         /\ \A ts \in Int : ts <= LastSubmit + Len(starts) * LongestRuntime => ts < NEVER_TS
<1> DEFINE n == Len(starts)
           m == Len(jobs)
           L == LastSubmit
           R == LongestRuntime
<1>1. /\ R \in Nat /\ L \in Int /\ m \in Nat \ {0}
      /\ \A r \in Rows : \A time \in RuntimesOf(jobs[r]) : time \in Nat /\ time <= R
  <2>1. jobs \in Traces
    BY DEF TypeOK
  <2> QED
    BY <2>1, LongestIs DEF LastSubmit, LongestRuntime, Rows
<1>2. /\ n \in Nat /\ DOMAIN starts = 1..n
      /\ \A s \in DOMAIN starts : starts[s].row \in Rows
  BY RunningFacts DEF StartRecord
<1>3. n <= m
  <2> DEFINE f == [s \in DOMAIN starts |-> starts[s].row]
  <2>1. f \in Injection(DOMAIN starts, Rows)
    BY <1>2 DEF Injection, IsInjective, StartsOnce, RowOf
  <2>2. IsFiniteSet(Rows) /\ Cardinality(Rows) = m /\ IsFiniteSet(DOMAIN starts) /\ Cardinality(DOMAIN starts) = n
    BY <1>1, <1>2, CountTo DEF Rows
  <2>3. Cardinality(DOMAIN starts) <= Cardinality(Rows)
    <3> HIDE DEF f
    <3> QED
      BY <2>1, <2>2, FS_Injection
  <2> QED
    BY <2>2, <2>3
<1>4. L + (m + 1) * R < NEVER_TS
  BY PlannedAssumption DEF TypeOK, EndsBeforeNever, LastSubmit, LongestRuntime
<1>5. clock_ts \in Int /\ clock_ts <= L + n * R
  BY DEF TypeOK, TimesBounded
<1>6. NEVER_TS \in Int
  BY NeverIsInt
<1> HIDE DEF n, m, L, R
<1>7. n * R <= m * R /\ (m + 1) * R = m * R + R /\ n * R \in Nat /\ m * R \in Nat
  BY <1>1, <1>2, <1>3
<1>8. clock_ts + R < NEVER_TS
  BY <1>1, <1>4, <1>5, <1>6, <1>7
<1>9. ASSUME NEW time \in Nat, time <= R PROVE clock_ts + time < NEVER_TS
  BY <1>1, <1>5, <1>6, <1>8, <1>9
<1>10. clock_ts < NEVER_TS
  BY <1>1, <1>5, <1>6, <1>8
<1>11. ASSUME NEW ts \in Int, ts <= L + n * R PROVE ts < NEVER_TS
  BY <1>1, <1>4, <1>6, <1>7, <1>11
<1> QED
  BY <1>1, <1>9, <1>10, <1>11 DEF L, n, R

Waiting == [r \in queue |-> jobs[r]]

LEMMA WaitingOK ==
  ASSUME TypeOK, UniqueIds(jobs)
  PROVE  QueueOK(Waiting) /\ DOMAIN Waiting = queue /\ \A r \in queue : Waiting[r] = jobs[r] /\ r \in Rows
<1>1. jobs \in Traces /\ queue \in SUBSET Rows
  BY DEF TypeOK
<1>2. IsTrace(jobs) /\ \A r \in DOMAIN jobs : IsPlanned(jobs[r])
  BY <1>1, TracesAssumption, PlannedAssumption
<1>3. DOMAIN jobs = Rows /\ Len(jobs) \in Nat
  BY <1>2 DEF IsTrace, Rows
<1>4. IsFiniteSet(queue) /\ queue \in SUBSET Nat
  <2>1. IsFiniteSet(Rows) /\ Rows \in SUBSET Nat
    BY <1>3, CountTo DEF Rows
  <2> QED
    BY <1>1, <2>1, FS_Subset
<1>5. DOMAIN Waiting = queue /\ \A r \in queue : Waiting[r] = jobs[r]
  BY DEF Waiting
<1>6. \A r \in queue :
        /\ jobs[r].job_id \in Int /\ jobs[r].submit_ts \in Int
        /\ jobs[r].requested_cpus \in Nat \ {0}
        /\ IsPlanned(jobs[r])
  BY <1>1, <1>2, <1>3 DEF IsTrace
<1>7. \A q, r \in queue : jobs[q].job_id = jobs[r].job_id => q = r
  BY <1>1 DEF UniqueIds, Rows
<1>8. \A q, r \in queue : q < r =>
        \/ jobs[q].submit_ts < jobs[r].submit_ts
        \/ jobs[q].submit_ts = jobs[r].submit_ts /\ jobs[q].job_id <= jobs[r].job_id
  BY <1>1, <1>2, <1>3 DEF IsTrace
<1>9. \A r \in queue :
        /\ Waiting[r].job_id \in Int /\ Waiting[r].submit_ts \in Int
        /\ Waiting[r].requested_cpus \in Nat \ {0}
        /\ IsPlanned(Waiting[r])
  BY <1>5, <1>6
<1>10. \A q, r \in queue : Waiting[q].job_id = Waiting[r].job_id => q = r
  BY <1>5, <1>7
<1>11. \A q, r \in queue : q < r =>
         \/ Waiting[q].submit_ts < Waiting[r].submit_ts
         \/ Waiting[q].submit_ts = Waiting[r].submit_ts /\ Waiting[q].job_id <= Waiting[r].job_id
  BY <1>5, <1>8
<1>12. QueueOK(Waiting)
  BY <1>4, <1>5, <1>9, <1>10, <1>11 DEF QueueOK
<1> QED
  BY <1>1, <1>5, <1>12

(* The snapshots of the loop are as the choosers need them.                *)
LEMMA LoopSnapshotOK ==
  ASSUME DistinctIds, LoopInvariant, NothingDue, StartsOnce, TimesBounded, pc = "decide"
  PROVE  /\ SnapshotOK(Snapshot)
         /\ Snapshot.queued_jobs = Waiting
         /\ Snapshot.free_cpus = free_cpus /\ Snapshot.capacity_cpus = Capacity
         /\ running = {} => Idle(Snapshot)
<1>1. TypeOK /\ UniqueIds(jobs) /\ CpusAddUp
  BY DistinctRun
<1>2. /\ Snapshot.queued_jobs = Waiting /\ Snapshot.free_cpus = free_cpus
      /\ Snapshot.capacity_cpus = Capacity /\ Snapshot.clock_ts = clock_ts
      /\ Snapshot.running_jobs = RunningJobs
  BY DEF Snapshot, Waiting
<1>3. QueueOK(Waiting) /\ DOMAIN Waiting = queue /\ \A r \in queue : Waiting[r] = jobs[r] /\ r \in Rows
  BY <1>1, WaitingOK
<1>4. /\ \A s \in DOMAIN starts : starts[s] \in StartRecord
      /\ IsFiniteSet(running) /\ CpuList(running, starts) /\ running \in SUBSET (DOMAIN starts)
  BY <1>1, RunningFacts DEF TypeOK
<1>5. Cpus(running, starts) \in Nat
  BY <1>4, CpusPart
<1>6. Capacity \in Nat /\ free_cpus \in Nat /\ free_cpus <= Capacity
  BY <1>1, <1>5, CapacityAssumption DEF CpusAddUp, TypeOK
<1>7. clock_ts \in Int /\ NEVER_TS \in Int /\ clock_ts < NEVER_TS
  BY <1>1, NeverIsInt, BeforeNever DEF TypeOK
<1>8. ASSUME NEW r \in queue
      PROVE  /\ clock_ts + jobs[r].runtime_estimate_sec < NEVER_TS
             /\ clock_ts + jobs[r].runtime_guard_sec < NEVER_TS
             /\ clock_ts + jobs[r].runtime_p90_sec < NEVER_TS
  <2>1. r \in Rows
    BY <1>3
  <2> QED
    BY <1>1, <2>1, BeforeNever DEF RuntimesOf
<1>9. CpusCounted(RunningJobs)
  <2> DEFINE f == [s \in running |-> [job_id |-> StartId(s), end_ts |-> starts[s].end_ts,
                                      allocated_cpus |-> starts[s].requested_cpus]]
  <2>1. f \in Surjection(running, RunningJobs)
    BY DEF Surjection, RunningJobs
  <2>2. IsFiniteSet(RunningJobs)
    <3> HIDE DEF f
    <3> QED
      BY <1>4, <2>1, FS_Surjection
  <2>3. \A rj \in RunningJobs : rj.allocated_cpus \in Nat
    BY <1>4 DEF RunningJobs, StartRecord
  <2> QED
    BY <2>2, <2>3 DEF CpusCounted
<1>10. \A rj \in RunningJobs : rj.end_ts \in Int /\ rj.end_ts > clock_ts
  <2>1. \A s \in running : starts[s].end_ts \in Int /\ starts[s].end_ts > clock_ts
    BY <1>4 DEF NothingDue, StartRecord
  <2> QED
    BY <2>1 DEF RunningJobs
<1>11. SnapshotOK(Snapshot)
  BY <1>2, <1>3, <1>6, <1>7, <1>8, <1>9, <1>10 DEF SnapshotOK
<1>12. ASSUME running = {} PROVE Idle(Snapshot)
  <2>1. RunningJobs = {}
    BY <1>12 DEF RunningJobs
  <2>2. CpuSlots(running, starts) = {}
    BY <1>12 DEF CpuSlots
  <2>3. Cpus(running, starts) = 0
    BY <2>2, FS_EmptySet DEF Cpus
  <2>4. free_cpus = Capacity
    BY <1>1, <1>6, <2>3 DEF CpusAddUp
  <2> QED
    BY <1>2, <2>1, <2>4 DEF Idle
<1> QED
  BY <1>2, <1>11, <1>12

-----------------------------------------------------------------------------
(* What a policy answers is carried out.                                   *)

NamedFrom(i) == {r \in queue : \E j \in i..Len(decision) : decision[j] = RowId(r)}
Order == ServiceOrder(Waiting)

(* The jobs still to be started are queued and fit together; the first of  *)
(* the jobs that are not named does not fit in what they leave; and if     *)
(* nothing runs and nothing is named, nothing can be run.                  *)
AnswerFits == pc = "apply" =>
  /\ Len(decision) \in Nat /\ pos \in 1..(Len(decision) + 1)
  /\ \A i \in 1..Len(decision) : decision[i] \in QueuedIds
  /\ dispatched_ids = {decision[i] : i \in 1..(pos - 1)}
  /\ Cpus(NamedFrom(pos), jobs) <= free_cpus
  /\ \A r : IsFirst(r, queue \ NamedFrom(1), Order) =>
       jobs[r].requested_cpus > free_cpus - Cpus(NamedFrom(pos), jobs)
  /\ running = {} /\ Len(decision) = 0 /\ queue # {} => OversizeLeft

(* The jobs of a queue have the CPUs of the rows of the trace.             *)
LEMMA NamedCpus ==
  ASSUME TypeOK, UniqueIds(jobs), NEW S \in SUBSET queue
  PROVE  /\ Cpus(S, jobs) \in Nat /\ Demand(S, Waiting) = Cpus(S, jobs)
         /\ IsFiniteSet(S) /\ CpuList(S, jobs)
         /\ \A r \in queue \ S : Cpus(S \cup {r}, jobs) = Cpus(S, jobs) + jobs[r].requested_cpus
<1>1. QueueOK(Waiting) /\ DOMAIN Waiting = queue /\ \A r \in queue : Waiting[r] = jobs[r] /\ r \in Rows
  BY WaitingOK
<1>2. IsFiniteSet(S)
  BY <1>1, FS_Subset DEF QueueOK
<1>3. \A r \in queue : jobs[r].requested_cpus \in Nat
  BY <1>1 DEF QueueOK
<1>4. CpuList(S, jobs)
  BY <1>3 DEF CpuList
<1>5. Cpus(S, jobs) \in Nat
  BY <1>2, <1>4, CpusPart
<1>6. \A r \in S : (1..Waiting[r].requested_cpus) = (1..jobs[r].requested_cpus)
  BY <1>1
<1>7. UNION {{r} \X (1..Waiting[r].requested_cpus) : r \in S} = CpuSlots(S, jobs)
  BY <1>6 DEF CpuSlots
<1>8. Demand(S, Waiting) = Cpus(S, jobs)
  BY <1>7 DEF Demand, Cpus
<1>9. ASSUME NEW r \in queue \ S
      PROVE  Cpus(S \cup {r}, jobs) = Cpus(S, jobs) + jobs[r].requested_cpus
  <2>1. CpuList(S \cup {r}, jobs)
    BY <1>3 DEF CpuList
  <2> QED
    BY <1>2, <2>1, CpusAdd
<1> QED
  BY <1>2, <1>4, <1>5, <1>8, <1>9

(* Nothing started on an idle machine.                                     *)
LEMMA IdleAnswer ==
  ASSUME DistinctIds, LoopInvariant, NothingDue, StartsOnce, TimesBounded, pc = "decide",
         policy \in BuiltInPolicies, running = {}, queue # {},
         NEW list \in Answers(policy, strict_uncertainty, Snapshot), Len(list) = 0
  PROVE  OversizeLeft
<1> DEFINE snap == Snapshot
<1>1. /\ SnapshotOK(snap) /\ Idle(snap) /\ snap.queued_jobs = Waiting /\ snap.capacity_cpus = Capacity
  BY LoopSnapshotOK
<1>2. TypeOK /\ UniqueIds(jobs)
  BY DistinctRun
<1>3. QueueOK(Waiting) /\ DOMAIN Waiting = queue /\ \A r \in queue : Waiting[r] = jobs[r] /\ r \in Rows
  BY <1>2, WaitingOK
<1> HIDE DEF snap
<1>4. \A r \in queue : TooLarge(snap, r) => Oversize(r)
  BY <1>1, <1>3 DEF TooLarge, Oversize
<1>5. IsFiniteSet(queue) /\ queue \in SUBSET Int
  BY <1>3 DEF QueueOK
<1>6. Min(queue) \in queue /\ \A q \in queue : Min(queue) <= q
  BY <1>5, MinOfFinite
<1>7. IsFirst(Min(queue), queue, Fifo(Waiting))
  <2>1. ASSUME NEW q \in queue, q # Min(queue) PROVE Min(queue) < q
    <3>1. q \in Int /\ Min(queue) \in Int /\ Min(queue) <= q
      BY <1>5, <1>6
    <3> QED
      BY <2>1, <3>1
  <2> QED
    BY <1>3, <1>6, <2>1, FifoIs DEF IsFirst
<1>8. CASE list \in ChooseFifoStrict(snap) /\ policy \in {"FIFO_STRICT", "RL_TRAINED"}
  <2>1. Answered(snap, Fifo(Waiting), list)
    BY <1>1, <1>8, FifoAnswers
  <2>2. TooLarge(snap, Min(queue))
    BY <1>1, <1>3, <1>7, <2>1, NoneAnswered
  <2>3. Oversize(Min(queue))
    BY <1>4, <1>6, <2>2
  <2> QED
    BY <1>8, <2>3 DEF OversizeLeft
<1>9. CASE list \in RlAnswers(snap) /\ policy = "RL_TRAINED"
  <2>1. ASSUME NEW r \in queue, Cardinality({q \in queue : q <= r}) <= MaxQueueSize
        PROVE  Oversize(r)
    <3> DEFINE before == Before(queue, Fifo(Waiting), r)
    <3>1. before = {q \in queue : q < r}
      BY <1>3, FifoIs DEF Before
    <3>2. {q \in queue : q <= r} = before \cup {r} /\ r \notin before
      <4>1. \A q \in queue : q \in Int /\ r \in Int
        BY <1>5
      <4>2. \A q \in queue : (q <= r <=> q < r \/ q = r) /\ ~ r < r
        BY <4>1
      <4> QED
        BY <3>1, <4>2
    <3>3. IsFiniteSet(before)
      BY <1>5, <3>1, FS_Subset
    <3> HIDE DEF before
    <3>4. Cardinality(before \cup {r}) = Cardinality(before) + 1 /\ Cardinality(before) \in Nat
      BY <3>2, <3>3, FS_AddElement, FS_CardinalityType
    <3>5. Cardinality(before) < MaxQueueSize
      BY <2>1, <3>2, <3>4, MaxQueueAssumption
    <3>6. TooLarge(snap, r)
      BY <1>1, <1>3, <1>9, <3>5, RlIdle DEF before
    <3> QED
      BY <1>4, <3>6
  <2> QED
    BY <1>9, <2>1 DEF OversizeLeft
<1>10. CASE policy \notin {"FIFO_STRICT", "RL_TRAINED"}
  <2>1. CASE policy = "CONSERVATIVE_BACKFILL_BASELINE"
    <3>1. list \in ChooseConservativeBackfill(snap)
      BY <2>1, AnswersAre DEF snap
    <3>2. \A r \in queue : TooLarge(snap, r)
      BY <1>1, <1>3, <3>1, CbfIdle
    <3> QED
      BY <1>4, <1>10, <3>2 DEF OversizeLeft
  <2>2. CASE policy # "CONSERVATIVE_BACKFILL_BASELINE"
    <3> DEFINE gate == EasyGate(policy, strict_uncertainty, Waiting)
               order == EasyOrder(policy, Waiting)
    <3>1. list \in EasyRule(snap, order, gate)
      BY <1>1, <1>10, <2>2, AnswersAre DEF NotEasy, snap
    <3>2. \A r \in queue : snap.clock_ts + gate[r] <= NEVER_TS
      BY <1>1, <1>3, EasyGateEnds
    <3>3. IsOrder(order, queue)
      BY <1>3, EasyOrderIs
    <3> HIDE DEF gate, order
    <3>4. \A r \in queue : TooLarge(snap, r)
      BY <1>1, <1>3, <3>1, <3>2, <3>3, EasyIdle
    <3> QED
      BY <1>4, <1>10, <3>4 DEF OversizeLeft
  <2> QED
    BY <2>1, <2>2
<1>11. policy \in {"FIFO_STRICT", "RL_TRAINED"} =>
         list \in ChooseFifoStrict(snap) \/ (list \in RlAnswers(snap) /\ policy = "RL_TRAINED")
  BY AnswersAre DEF snap
<1> QED
  BY <1>8, <1>9, <1>10, <1>11

PolicyInv ==
  /\ LoopInvariant /\ NothingDue /\ StartsOnce /\ TimesBounded
  /\ policy \in BuiltInPolicies
  /\ AnswerFits /\ HeadServed /\ StuckOnlyOversize

(* A decision of a built-in policy names what fits, once.                  *)
LEMMA DecideFits ==
  ASSUME DistinctIds, PolicyInv, PolicyDecide
  PROVE  NamesOnce(decision)' /\ AnswerFits'
<1>0. LoopInvariant /\ NothingDue /\ StartsOnce /\ TimesBounded /\ policy \in BuiltInPolicies
  BY DEF PolicyInv
<1>1. /\ pc = "decide" /\ pos' = 1 /\ dispatched_ids' = {}
      /\ UNCHANGED <<jobs, queue, free_cpus, running, policy>>
      /\ decision' \in ChooseDecisions(policy, strict_uncertainty, Snapshot)
  BY DEF PolicyDecide, ReceiveDecision
<1>2. PICK list \in Answers(policy, strict_uncertainty, Snapshot) :
        decision' = [i \in 1..Len(list) |-> Snapshot.queued_jobs[list[i]].job_id]
  BY <1>1 DEF ChooseDecisions
<1>3. SnapshotOK(Snapshot) /\ Snapshot.queued_jobs = Waiting /\ Snapshot.free_cpus = free_cpus
  BY <1>0, <1>1, LoopSnapshotOK
<1>4. TypeOK /\ UniqueIds(jobs)
  BY <1>0, DistinctRun
<1>5. DOMAIN Waiting = queue /\ \A r \in queue : Waiting[r] = jobs[r] /\ r \in Rows
  BY <1>4, WaitingOK
<1>6. Answered(Snapshot, Order, list)
  BY <1>0, <1>3, PolicyAnswers DEF Order
<1> DEFINE n == Len(list)
           taken == Firsts(list, n)
<1>7. /\ n \in Nat /\ list \in [1..n -> queue]
      /\ \A i, j \in 1..n : list[i] = list[j] => i = j
      /\ Demand(taken, Waiting) <= free_cpus
      /\ \A r : IsFirst(r, queue \ taken, Order) =>
           Waiting[r].requested_cpus > free_cpus - Demand(taken, Waiting)
  BY <1>3, <1>5, <1>6 DEF Answered
<1>8. taken \in SUBSET queue
  BY <1>7 DEF Firsts
<1>9. Demand(taken, Waiting) = Cpus(taken, jobs) /\ Cpus(taken, jobs) \in Nat
  BY <1>4, <1>8, NamedCpus
<1>10. \A i \in 1..n : decision'[i] = RowId(list[i])
  BY <1>2, <1>3, <1>5, <1>7 DEF RowId
<1>11. Len(decision') = n /\ decision' = [i \in 1..n |-> decision'[i]]
  BY <1>2, <1>7
<1>12. \A q, r \in queue : RowId(q) = RowId(r) => q = r
  BY <1>4, <1>5 DEF UniqueIds, Rows, RowId
<1>13. NamedFrom(1)' = taken
  <2>1. NamedFrom(1)' = {r \in queue : \E j \in 1..n : decision'[j] = RowId(r)}
    BY <1>1, <1>11 DEF NamedFrom, RowId
  <2>2. \A r \in queue : (\E j \in 1..n : decision'[j] = RowId(r)) <=> \E j \in 1..n : list[j] = r
    BY <1>7, <1>10, <1>12
  <2> QED
    BY <1>8, <2>1, <2>2 DEF Firsts
<1>14. Order' = Order
  BY <1>1 DEF Order, ServiceOrder, Waiting
<1> HIDE DEF n, taken
<1>15. NamesOnce(decision)'
  <2>1. \A i, j \in 1..n : decision'[i] = decision'[j] => i = j
    BY <1>7, <1>10, <1>12
  <2> QED
    BY <1>7, <1>11, <2>1 DEF NamesOnce, RepeatFree
<1>16. ASSUME running = {}, n = 0, queue # {} PROVE OversizeLeft'
  <2>1. OversizeLeft
    BY <1>0, <1>1, <1>16, IdleAnswer DEF n
  <2> QED
    BY <1>1, <2>1 DEF OversizeLeft, Oversize
<1>17. \A i \in 1..n : decision'[i] \in QueuedIds'
  BY <1>1, <1>7, <1>10 DEF QueuedIds, RowId
<1>18. Cpus(NamedFrom(1), jobs)' = Cpus(taken, jobs)
  BY <1>1, <1>13 DEF Cpus, CpuSlots
<1>19. \A r : IsFirst(r, queue \ taken, Order) => jobs[r].requested_cpus > free_cpus - Cpus(taken, jobs)
  BY <1>5, <1>7, <1>9 DEF IsFirst
<1>20. pos' = 1 /\ 1 \in 1..(n + 1) /\ {decision'[i] : i \in 1..(1 - 1)} = {}
  BY <1>1, <1>7
<1>21. /\ Len(decision') \in Nat /\ pos' \in 1..(Len(decision') + 1)
       /\ \A i \in 1..Len(decision') : decision'[i] \in QueuedIds'
       /\ dispatched_ids' = {decision'[i] : i \in 1..(pos' - 1)}
  BY <1>1, <1>7, <1>11, <1>17, <1>20
<1>22. /\ Cpus(NamedFrom(pos), jobs)' = Cpus(taken, jobs)
       /\ Cpus(taken, jobs) <= free_cpus
  BY <1>1, <1>7, <1>9, <1>18 DEF NamedFrom
<1>23. \A r : IsFirst(r, queue' \ NamedFrom(1)', Order') =>
         jobs'[r].requested_cpus > free_cpus' - Cpus(NamedFrom(pos), jobs)'
  BY <1>1, <1>13, <1>14, <1>19, <1>22
<1>24. running' = {} /\ Len(decision') = 0 /\ queue' # {} => OversizeLeft'
  BY <1>1, <1>11, <1>16
<1> QED
  BY <1>1, <1>15, <1>21, <1>22, <1>23, <1>24 DEF AnswerFits

(* The next decision names a job that is queued, has not been started in   *)
(* this tick and fits.                                                     *)
LEMMA NextFits ==
  ASSUME DistinctIds, LoopInvariant, StartsOnce, AnswerFits, pc = "apply", pos <= Len(decision)
  PROVE  /\ decision[pos] \in QueuedIds
         /\ decision[pos] \notin dispatched_ids
         /\ Fits(jobs[QueueById(decision[pos])])
<1>1. TypeOK /\ UniqueIds(jobs)
  BY DistinctRun
<1>2. /\ Len(decision) \in Nat /\ pos \in 1..(Len(decision) + 1)
      /\ \A i \in 1..Len(decision) : decision[i] \in QueuedIds
      /\ Cpus(NamedFrom(pos), jobs) <= free_cpus
  BY DEF AnswerFits
<1>3. pos \in 1..Len(decision) /\ pos \in pos..Len(decision)
  BY <1>2
<1>4. decision[pos] \in QueuedIds /\ decision[pos] \notin dispatched_ids
  BY <1>2, <1>3 DEF StartsOnce
<1>5. PICK row \in queue : row = QueueById(decision[pos]) /\ RowId(row) = decision[pos]
  BY <1>1, <1>4, QueueByIdQueued
<1> DEFINE named == NamedFrom(pos)
           others == named \ {row}
<1>6. row \in named /\ named \in SUBSET queue
  BY <1>3, <1>5 DEF NamedFrom
<1> HIDE DEF named
<1>7. others \in SUBSET queue /\ row \in queue \ others /\ named = others \cup {row}
  BY <1>5, <1>6
<1> HIDE DEF others
<1>8. Cpus(others, jobs) \in Nat /\ Cpus(others \cup {row}, jobs) = Cpus(others, jobs) + jobs[row].requested_cpus
  BY <1>1, <1>7, NamedCpus
<1>9. jobs[row].requested_cpus \in Nat /\ free_cpus \in Int
  BY <1>1, <1>5, WaitingOK DEF QueueOK, TypeOK
<1>10. Cpus(others, jobs) + jobs[row].requested_cpus <= free_cpus
  BY <1>2, <1>7, <1>8 DEF named
<1>11. jobs[row].requested_cpus <= free_cpus
  BY <1>8, <1>9, <1>10
<1> QED
  BY <1>4, <1>5, <1>11 DEF Fits

(* A start leaves the others their CPUs.                                   *)
LEMMA StartFits ==
  ASSUME DistinctIds, LoopInvariant, StartsOnce, AnswerFits, StartJob, UNCHANGED policyVars
  PROVE  AnswerFits'
<1> DEFINE n == Len(decision)
           rest == NamedFrom(pos + 1)
<1>1. TypeOK /\ UniqueIds(jobs)
  BY DistinctRun
<1>2. /\ pc = "apply" /\ pos <= n /\ pos' = pos + 1
      /\ UNCHANGED <<jobs, queue, decision, policy>>
      /\ dispatched_ids' = dispatched_ids \cup {decision[pos]}
      /\ free_cpus' = free_cpus - jobs[QueueById(decision[pos])].requested_cpus
  BY DEF StartJob, policyVars
<1>3. /\ n \in Nat /\ pos \in 1..(n + 1)
      /\ \A i \in 1..n : decision[i] \in QueuedIds
      /\ dispatched_ids = {decision[i] : i \in 1..(pos - 1)}
      /\ Cpus(NamedFrom(pos), jobs) <= free_cpus
      /\ \A r : IsFirst(r, queue \ NamedFrom(1), Order) =>
           jobs[r].requested_cpus > free_cpus - Cpus(NamedFrom(pos), jobs)
  BY <1>2 DEF AnswerFits
<1>4. PICK row \in queue : row = QueueById(decision[pos]) /\ RowId(row) = decision[pos]
  BY <1>1, StartAdds
<1>5. \A q, r \in queue : RowId(q) = RowId(r) => q = r
  BY <1>1 DEF UniqueIds, RowId, TypeOK, Rows
<1>6. \A i, j \in 1..n : decision[i] = decision[j] => i = j
  BY <1>2 DEF StartsOnce, NamesOnce, RepeatFree
<1> HIDE DEF n
<1>7. pos \in 1..n /\ \A j : j \in pos..n <=> j = pos \/ j \in (pos + 1)..n
  BY <1>2, <1>3
<1>8. NamedFrom(pos) = rest \cup {row} /\ rest \in SUBSET queue
  BY <1>4, <1>5, <1>7 DEF NamedFrom, n
<1>9. row \notin rest
  <2> SUFFICES ASSUME row \in rest PROVE FALSE
    OBVIOUS
  <2>1. PICK j \in (pos + 1)..n : decision[j] = RowId(row)
    BY DEF NamedFrom, n
  <2>2. j \in 1..n /\ j # pos
    BY <1>7, <2>1
  <2> QED
    BY <1>4, <1>6, <1>7, <2>1, <2>2
<1> HIDE DEF rest
<1>10. Cpus(rest, jobs) \in Nat /\ Cpus(rest \cup {row}, jobs) = Cpus(rest, jobs) + jobs[row].requested_cpus
  BY <1>1, <1>8, <1>9, NamedCpus
<1>11. free_cpus \in Int /\ free_cpus' = free_cpus - jobs[row].requested_cpus
       /\ \A r \in queue : jobs[r].requested_cpus \in Nat
  BY <1>1, <1>2, <1>4, WaitingOK DEF QueueOK, TypeOK
<1>12. /\ NamedFrom(pos)' = rest /\ NamedFrom(1)' = NamedFrom(1)
       /\ Cpus(NamedFrom(pos), jobs)' = Cpus(rest, jobs)
  <2>1. NamedFrom(pos)' = rest
    BY <1>2 DEF NamedFrom, RowId, rest
  <2>2. NamedFrom(1)' = NamedFrom(1)
    BY <1>2 DEF NamedFrom, RowId
  <2>3. Cpus(NamedFrom(pos), jobs)' = Cpus(NamedFrom(pos)', jobs')
    BY DEF Cpus, CpuSlots
  <2> QED
    BY <1>2, <2>1, <2>2, <2>3
<1>13. Order' = Order /\ QueuedIds' = QueuedIds
  BY <1>2 DEF Order, ServiceOrder, Waiting, QueuedIds, RowId
<1>14. Cpus(NamedFrom(pos), jobs) = Cpus(rest, jobs) + jobs[row].requested_cpus
  BY <1>8, <1>10
<1>15. /\ Cpus(rest, jobs) <= free_cpus'
       /\ free_cpus' - Cpus(rest, jobs) = free_cpus - Cpus(NamedFrom(pos), jobs)
  BY <1>3, <1>4, <1>10, <1>11, <1>14
<1>16. dispatched_ids' = {decision[i] : i \in 1..(pos' - 1)}
  <2>1. \A i : i \in 1..(pos' - 1) <=> i = pos \/ i \in 1..(pos - 1)
    BY <1>2, <1>7
  <2> QED
    BY <1>2, <1>3, <2>1
<1>17. pos' \in 1..(n + 1) /\ n # 0
  BY <1>2, <1>3, <1>7
<1>18. Len(decision') = n
  BY <1>2 DEF n
<1>19. \A r : IsFirst(r, queue' \ NamedFrom(1)', Order') =>
         jobs'[r].requested_cpus > free_cpus' - Cpus(NamedFrom(pos), jobs)'
  BY <1>2, <1>3, <1>12, <1>13, <1>15
<1> QED
  BY <1>2, <1>3, <1>12, <1>13, <1>15, <1>16, <1>17, <1>18, <1>19 DEF AnswerFits

(* The part of the queue that is left is served in the same order.         *)
LEMMA PartInOrder ==
  ASSUME TypeOK, UniqueIds(jobs), policy \in BuiltInPolicies, NEW rest \in SUBSET queue, rest # {}
  PROVE  LET part == [r \in rest |-> jobs[r]]
         IN  IsFirst(FirstIn(rest, ServiceOrder(part)), rest, Order)
<1> DEFINE part == [r \in rest |-> jobs[r]]
           first == FirstIn(rest, ServiceOrder(part))
<1>1. QueueOK(Waiting) /\ DOMAIN Waiting = queue /\ \A r \in queue : Waiting[r] = jobs[r]
  BY WaitingOK
<1>2. DOMAIN part = rest /\ \A r \in rest : part[r] = Waiting[r] /\ r \in queue
  BY <1>1
<1>3. QueueOK(part)
  <2> HIDE DEF part
  <2>1. IsFiniteSet(rest)
    BY <1>1, FS_Subset DEF QueueOK
  <2> QED
    BY <1>1, <1>2, <2>1 DEF QueueOK
<1> HIDE DEF part
<1>4. IsFiniteSet(rest) /\ IsOrder(ServiceOrder(part), rest)
  BY <1>2, <1>3, EasyOrderIs DEF QueueOK
<1>5. IsFirst(first, rest, ServiceOrder(part))
  BY <1>4, FirstExists
<1>6. ASSUME NEW q \in rest, NEW r \in rest, <<q, r>> \in ServiceOrder(part)
      PROVE  <<q, r>> \in Order
  <2>1. /\ part[q] = Waiting[q] /\ part[r] = Waiting[r] /\ <<q, r>> \in Pairs(Waiting)
        /\ q \in DOMAIN part /\ r \in DOMAIN part /\ q \in DOMAIN Waiting /\ r \in DOMAIN Waiting
    BY <1>1, <1>2 DEF Pairs
  <2>2. ASSUME NEW key, NEW other, key[q] = other[q], key[r] = other[r], <<q, r>> \in SortedBy(part, key)
        PROVE  <<q, r>> \in SortedBy(Waiting, other)
    BY <2>1, <2>2 DEF SortedBy, Precedes
  <2>3. \A k \in {q, r} : /\ Estimates(part)[k] = Estimates(Waiting)[k]
                          /\ Longest(part)[k] = Longest(Waiting)[k]
                          /\ Deprioritized(part)[k] = Deprioritized(Waiting)[k]
                          /\ NoKey(part)[k] = NoKey(Waiting)[k]
    BY <2>1 DEF Estimates, Longest, Deprioritized, NoKey
  <2>4. CASE policy = "SJF_BACKFILL"
    BY <1>6, <2>2, <2>3, <2>4 DEF Order, ServiceOrder
  <2>5. CASE policy = "LJF_BACKFILL"
    BY <1>6, <2>2, <2>3, <2>5 DEF Order, ServiceOrder
  <2>6. CASE policy = "FAIRSHARE_BACKFILL"
    BY <1>6, <2>2, <2>3, <2>6 DEF Order, ServiceOrder
  <2>7. CASE policy \notin {"SJF_BACKFILL", "LJF_BACKFILL", "FAIRSHARE_BACKFILL"}
    BY <1>6, <2>2, <2>3, <2>7 DEF Order, ServiceOrder, Fifo
  <2> QED
    BY <2>4, <2>5, <2>6, <2>7
<1>7. first \in rest /\ \A q \in rest \ {first} : <<first, q>> \in Order
  BY <1>5, <1>6 DEF IsFirst
<1> HIDE DEF first
<1>8. IsFirst(first, rest, Order)
  BY <1>7 DEF IsFirst
<1> QED
  BY <1>8 DEF first, part

(* At the end of a tick the head that is left waits for CPUs, and a run is *)
(* abandoned where nothing it may start could ever run.                    *)
LEMMA EndTickServes ==
  ASSUME DistinctIds, PolicyInv, EndTick, UNCHANGED policyVars
  PROVE  HeadServed' /\ StuckOnlyOversize'
<1> DEFINE n == Len(decision)
           rest == RemainingQueue
<1>0. /\ LoopInvariant /\ StartsOnce /\ AnswerFits /\ policy \in BuiltInPolicies
      /\ TypeOK /\ UniqueIds(jobs) /\ StartsApart /\ NothingLost
  BY DistinctRun DEF PolicyInv
<1>1. /\ pc = "apply" /\ pos > n
      /\ queue' = rest
      /\ UNCHANGED <<jobs, policy, free_cpus, running>>
      /\ pc' = "stuck" => running = {} /\ rest # {}
  BY DEF EndTick, policyVars
<1>2. /\ n \in Nat /\ pos \in 1..(n + 1)
      /\ \A i \in 1..n : decision[i] \in QueuedIds
      /\ dispatched_ids = {decision[i] : i \in 1..(pos - 1)}
      /\ \A r : IsFirst(r, queue \ NamedFrom(1), Order) =>
           jobs[r].requested_cpus > free_cpus - Cpus(NamedFrom(pos), jobs)
      /\ running = {} /\ n = 0 /\ queue # {} => OversizeLeft
  BY <1>0, <1>1 DEF AnswerFits
<1> HIDE DEF n
<1>3. pos = n + 1 /\ dispatched_ids = {decision[i] : i \in 1..n}
  BY <1>1, <1>2
<1>4. rest = queue \ NamedFrom(1) /\ rest \in SUBSET queue
  BY <1>2, <1>3 DEF RemainingQueue, NamedFrom, n
<1>5. Cpus(NamedFrom(pos), jobs) = 0
  <2>1. NamedFrom(pos) = {}
    BY <1>2, <1>3 DEF NamedFrom, n
  <2>2. CpuSlots({}, jobs) = {}
    BY DEF CpuSlots
  <2> QED
    BY <2>1, <2>2, FS_EmptySet DEF Cpus
<1> HIDE DEF rest
<1>6. ASSUME rest # {}
      PROVE  jobs[FirstIn(rest, ServiceOrder([r \in rest |-> jobs[r]]))].requested_cpus > free_cpus
  <2> DEFINE first == FirstIn(rest, ServiceOrder([r \in rest |-> jobs[r]]))
  <2>1. IsFirst(first, rest, Order)
    BY <1>0, <1>4, <1>6, PartInOrder
  <2> HIDE DEF first
  <2>2. jobs[first].requested_cpus > free_cpus - 0
    BY <1>2, <1>4, <1>5, <2>1
  <2>3. free_cpus \in Int
    BY <1>0 DEF TypeOK
  <2> QED
    BY <2>2, <2>3 DEF first
<1>7. HeadServed'
  <2>1. ServiceOrder([r \in rest |-> jobs[r]])' = ServiceOrder([r \in rest' |-> jobs[r]'])
    BY <1>1 DEF ServiceOrder
  <2>2. Snapshot.queued_jobs' = [r \in rest |-> jobs[r]]
    BY <1>1 DEF Snapshot
  <2>3. ServiceOrder(Snapshot.queued_jobs)' = ServiceOrder([r \in rest |-> jobs[r]])
    BY <1>1, <2>2 DEF ServiceOrder
  <2> QED
    BY <1>1, <1>6, <2>3 DEF HeadServed
<1>8. ASSUME pc' = "stuck" PROVE OversizeLeft'
  <2>1. running = {} /\ rest # {}
    BY <1>1, <1>8
  <2>2. n = 0
    <3> SUFFICES ASSUME n # 0 PROVE FALSE
      OBVIOUS
    <3>1. 1 \in 1..n
      BY <1>2
    <3>2. PICK r \in queue : RowId(r) = decision[1]
      BY <1>2, <3>1 DEF QueuedIds
    <3>3. RowId(r) \in dispatched_ids
      BY <1>3, <3>1, <3>2
    <3>4. PICK s \in DOMAIN starts : starts[s].row = r
      BY <1>0, <3>2, <3>3 DEF NothingLost
    <3>5. s \in running
      BY <1>0, <3>2, <3>4 DEF StartsApart
    <3> QED
      BY <2>1, <3>5
  <2>3. NamedFrom(1) = {}
    BY <2>2 DEF NamedFrom, n
  <2>4. queue' = queue /\ queue # {}
    BY <1>1, <1>4, <2>1, <2>3
  <2>5. OversizeLeft
    BY <1>2, <2>1, <2>2, <2>4
  <2> QED
    BY <1>1, <2>4, <2>5 DEF OversizeLeft, Oversize
<1> QED
  BY <1>7, <1>8 DEF StuckOnlyOversize

(* What policies give is kept.                                             *)
LEMMA PolicyInvStep ==
  ASSUME DistinctIds, PolicyInv, [PolicyNext]_<<vars, policyVars>>
  PROVE  PolicyInv'
<1>0. LoopInvariant /\ NothingDue /\ StartsOnce /\ TimesBounded /\ policy \in BuiltInPolicies
  BY DEF PolicyInv
<1>1. [Next]_vars
  BY PolicyStepImplements
<1>2. policy' \in BuiltInPolicies
  BY <1>0 DEF PolicyNext, PolicyDecide, LoopStep, policyVars
<1>3. ReceiveDecision => NamesOnce(decision)'
  <2> SUFFICES ASSUME ReceiveDecision PROVE NamesOnce(decision)'
    OBVIOUS
  <2>1. pc = "decide" /\ pc' = "apply"
    BY DEF ReceiveDecision
  <2>2. PolicyDecide
    BY <2>1 DEF PolicyNext, LoopStep, vars
  <2> QED
    BY <2>2, DecideFits
<1>4. LoopInvariant' /\ NothingDue' /\ StartsOnce' /\ TimesBounded'
  BY <1>0, <1>1, <1>3, NextLoopInvariant, NothingDueStep, StartsOnceStep, TimesStep
<1>5. AnswerFits' /\ HeadServed' /\ StuckOnlyOversize'
  <2>1. CASE PolicyDecide
    <3>1. pc' = "apply"
      BY <2>1 DEF PolicyDecide, ReceiveDecision
    <3> QED
      BY <2>1, <3>1, DecideFits DEF HeadServed, StuckOnlyOversize
  <2>2. CASE StartJob /\ UNCHANGED policyVars
    <3>1. pc' = "apply"
      BY <2>2 DEF StartJob
    <3> QED
      BY <1>0, <2>2, <3>1, StartFits DEF PolicyInv, HeadServed, StuckOnlyOversize
  <2>3. CASE EndTick /\ UNCHANGED policyVars
    <3>1. pc' # "apply"
      BY <2>3 DEF EndTick
    <3> QED
      BY <2>3, <3>1, EndTickServes DEF AnswerFits
  <2>4. CASE SkipDecision
    BY <1>0, <2>4, NextFits DEF SkipDecision, PolicyInv
  <2>5. CASE NextEvent \/ RaiseDeadlock \/ Finish \/ RaiseStrict
    <3>1. pc' \in {"decide", "deadlock", "finished", "strict_error"}
      BY <2>5 DEF NextEvent, RaiseDeadlock, Finish, RaiseStrict
    <3> QED
      BY <3>1 DEF AnswerFits, HeadServed, StuckOnlyOversize
  <2>6. CASE UNCHANGED <<vars, policyVars>>
    <3>1. UNCHANGED <<jobs, pc, queue, decision, pos, dispatched_ids, running, free_cpus, policy>>
      BY <2>6 DEF vars, policyVars
    <3>2. Order' = Order /\ ServiceOrder(Snapshot.queued_jobs)' = ServiceOrder(Snapshot.queued_jobs)
      BY <3>1 DEF Order, ServiceOrder, Waiting, Snapshot
    <3>3. \A i : NamedFrom(i)' = NamedFrom(i)
      BY <3>1 DEF NamedFrom, RowId
    <3>4. AnswerFits'
      BY <3>1, <3>2, <3>3 DEF PolicyInv, AnswerFits, QueuedIds, RowId, Cpus, CpuSlots, OversizeLeft, Oversize
    <3>5. HeadServed'
      BY <3>1, <3>2 DEF PolicyInv, HeadServed
    <3>6. StuckOnlyOversize'
      BY <3>1 DEF PolicyInv, StuckOnlyOversize, OversizeLeft, Oversize
    <3> QED
      BY <3>4, <3>5, <3>6
  <2> QED
    BY <2>1, <2>2, <2>3, <2>4, <2>5, <2>6 DEF PolicyNext, LoopStep, Next, ReceiveDecision, Terminated
<1> QED
  BY <1>2, <1>4, <1>5 DEF PolicyInv

LEMMA PolicyInvInit == ASSUME PolicyInit PROVE PolicyInv
<1>1. Init
  BY PolicyInitImplements
<1>2. LoopInvariant /\ StartsOnce
  BY <1>1, InitLoopInvariant, StartsOnceInit
<1>3. pc = "loop" /\ starts = <<>> /\ clock_ts = jobs[1].submit_ts /\ queue = {} /\ jobs \in Traces
  BY <1>1 DEF Init, StartRun
<1>4. TimesBounded
  <2>1. Len(starts) = 0 /\ DOMAIN starts = {}
    BY <1>3
  <2>2. LongestRuntime \in Nat /\ LastSubmit \in Int /\ jobs[1].submit_ts <= LastSubmit /\ jobs[1].submit_ts \in Int
    BY <1>3, LongestIs, TraceFacts DEF LongestRuntime, LastSubmit
  <2>3. 0 * LongestRuntime = 0
    BY <2>2
  <2> QED
    BY <1>3, <2>1, <2>2, <2>3 DEF TimesBounded
<1>5. policy \in BuiltInPolicies
  BY PoliciesAssumption DEF PolicyInit
<1> QED
  BY <1>2, <1>3, <1>4, <1>5 DEF PolicyInv, NothingDue, DueEventsFirst, AnswerFits, HeadServed, StuckOnlyOversize

LEMMA PolicyInvHolds == ASSUME DistinctIds PROVE PolicySpec => []PolicyInv
<1> QED
  BY PolicyInvInit, PolicyInvStep, PTL DEF PolicySpec

(* Each of the eleven built-in policies, over any trace with distinct ids  *)
(* and estimates that end before NEVER_TS: the engine carries out every    *)
(* decision of choose_decisions, no CPUs the policy's own head could use   *)
(* are left idle at the end of a tick, and a run is abandoned only over    *)
(* jobs larger than the machine.                                           *)
THEOREM HeadsWaitForCpus == ASSUME DistinctIds PROVE PolicySpec => []HeadWaitsForCpus
<1>1. PolicyInv => HeadWaitsForCpus
  BY NextFits DEF PolicyInv, HeadWaitsForCpus, NoDecisionSkipped
<1> QED
  BY <1>1, PolicyInvHolds, PTL

(* No built-in policy names a job twice, so that what the loop owes a      *)
(* policy that does not, it owes them: a finished run has completed every  *)
(* row, counted under its own source.                                      *)
THEOREM PoliciesLoseNoJob == ASSUME DistinctIds PROVE PolicySpec => []NoJobLost
<1>1. PolicyInv => StartsOnce
  BY DEF PolicyInv
<1> QED
  BY <1>1, PolicyInvHolds, PolicyRefinesLoop, NoneLostIfOnce, PTL

(* And its queue series is what an observer of the rows would record.      *)
THEOREM PoliciesAreObserved == ASSUME DistinctIds PROVE PolicySpec => []QueueSeriesMatches
<1>1. PolicyInv => StartsOnce
  BY DEF PolicyInv
<1> QED
  BY <1>1, PolicyInvHolds, PolicyRefinesLoop, SeriesIfOnce, PTL

(* A run under any built-in policy implements the job lifecycle.           *)
THEOREM PoliciesImplementLifecycle == ASSUME DistinctIds PROVE PolicySpec => LifecycleSpec
<1>1. PolicyInv => StartsOnce
  BY DEF PolicyInv
<1> QED
  BY <1>1, PolicyInvHolds, PolicyRefinesLoop, LifecycleIfOnce, PTL

-----------------------------------------------------------------------------
(* The head of the queue starts when it was first told.                    *)

(* CPUs that are free by a time, as far as is known now.                   *)
EndedBy(t) == {s \in running : starts[s].end_ts <= t}
FreeBy(t) == free_cpus + Cpus(EndedBy(t), starts)

(* The earliest time there are enough CPUs, and never if there never are.  *)
EarliestFor(time, req) ==
  /\ time \in Int /\ clock_ts <= time
  /\ req > Capacity => time = NEVER_TS
  /\ req <= Capacity => FreeBy(time) >= req /\ \A t \in clock_ts..(time - 1) : FreeBy(t) < req

(* The first reservation of a row is the one it would be given now.        *)
Expected(r) == EarliestFor(promise[r], jobs[r].requested_cpus)

(* Whoever waits has a smaller row than whoever is still to come.          *)
QueuedFirst == \A r \in queue, q \in future : r < q

(* Between ticks the promise to a waiting row stands, and is later than    *)
(* the clock; in a tick either the row is among those named and it is time *)
(* for it, or all that are named end before its time.                      *)
PromiseStands(r) ==
  /\ \A q \in queue : r <= q
  /\ pc \in {"loop", "decide", "stuck"} => Expected(r)
  /\ pc \in {"loop", "stuck"} => clock_ts < promise[r]
  /\ pc = "apply" =>
       \/ clock_ts = promise[r] /\ r \in NamedFrom(1)
       \/ /\ clock_ts < promise[r] /\ Expected(r)
          /\ \A q \in NamedFrom(pos) : q # r /\ clock_ts + jobs[q].runtime_actual_sec <= promise[r]

(* All of it together, and a row that started did so as promised.           *)
Promises ==
  /\ QueuedFirst
  /\ DOMAIN promise \in SUBSET (Rows \ future)
  /\ \A r \in DOMAIN promise : promise[r] \in Int
  /\ \A s \in DOMAIN starts : starts[s].row \in DOMAIN promise =>
       starts[s].start_ts = promise[starts[s].row]
  /\ \A r \in queue \cap DOMAIN promise : PromiseStands(r)

(* The inductive invariant, for the policies that reserve for the head.     *)
PromiseInv == policy \in EasyFamily /\ NoJobOutrunsItsGate => Promises

(* More CPUs are free by a later time, unless nothing ends between.        *)
LEMMA FreeGrows ==
  ASSUME TypeOK, NEW t \in Int, NEW u \in Int, t <= u
  PROVE  /\ FreeBy(t) \in Int /\ FreeBy(u) \in Int /\ FreeBy(t) <= FreeBy(u)
         /\ (\A s \in running : ~ (t < starts[s].end_ts /\ starts[s].end_ts <= u)) => FreeBy(t) = FreeBy(u)
         /\ (\A s \in running : t < starts[s].end_ts) => FreeBy(t) = free_cpus
         /\ (\A s \in running : starts[s].end_ts <= u) => FreeBy(u) = free_cpus + Cpus(running, starts)
<1>1. /\ IsFiniteSet(running) /\ CpuList(running, starts) /\ free_cpus \in Int
      /\ \A s \in running : starts[s].end_ts \in Int
  BY RunningFacts DEF TypeOK, StartRecord
<1>2. EndedBy(u) \in SUBSET running /\ EndedBy(t) \in SUBSET EndedBy(u)
  BY <1>1 DEF EndedBy
<1>3. IsFiniteSet(EndedBy(u)) /\ CpuList(EndedBy(u), starts)
  BY <1>1, <1>2, FS_Subset DEF CpuList
<1>4. /\ Cpus(EndedBy(u), starts) \in Nat /\ Cpus(EndedBy(t), starts) \in Nat
      /\ Cpus(EndedBy(t), starts) <= Cpus(EndedBy(u), starts)
  BY <1>2, <1>3, CpusPart
<1>5. ASSUME \A s \in running : ~ (t < starts[s].end_ts /\ starts[s].end_ts <= u)
      PROVE  EndedBy(t) = EndedBy(u)
  BY <1>1, <1>2, <1>5 DEF EndedBy
<1>6. ASSUME \A s \in running : t < starts[s].end_ts
      PROVE  Cpus(EndedBy(t), starts) = 0
  <2>1. EndedBy(t) = {}
    BY <1>1, <1>6 DEF EndedBy
  <2>2. CpuSlots({}, starts) = {}
    BY DEF CpuSlots
  <2> QED
    BY <2>1, <2>2, FS_EmptySet DEF Cpus
<1>7. ASSUME \A s \in running : starts[s].end_ts <= u
      PROVE  EndedBy(u) = running
  BY <1>7 DEF EndedBy
<1>8. FreeBy(t) = free_cpus + Cpus(EndedBy(t), starts) /\ FreeBy(u) = free_cpus + Cpus(EndedBy(u), starts)
  BY DEF FreeBy
<1>9. FreeBy(t) \in Int /\ FreeBy(u) \in Int /\ FreeBy(t) <= FreeBy(u)
  BY <1>1, <1>4, <1>8
<1>10. (\A s \in running : ~ (t < starts[s].end_ts /\ starts[s].end_ts <= u)) => FreeBy(t) = FreeBy(u)
  BY <1>5, <1>8
<1>11. (\A s \in running : t < starts[s].end_ts) => FreeBy(t) = free_cpus
  BY <1>1, <1>6, <1>8
<1>12. (\A s \in running : starts[s].end_ts <= u) => FreeBy(u) = free_cpus + Cpus(running, starts)
  BY <1>7, <1>8
<1> QED
  BY <1>9, <1>10, <1>11, <1>12

(* The record that the snapshot has of a running job.                      *)
RecordOf(s) ==
  [job_id |-> StartId(s), end_ts |-> starts[s].end_ts, allocated_cpus |-> starts[s].requested_cpus]

(* What the snapshot releases by a time is what the starts will.           *)
LEMMA ReleasedIs ==
  ASSUME DistinctIds, LoopInvariant, StartsOnce, NEW t
  PROVE  ReleasedBy(RunningJobs, t) = Cpus(EndedBy(t), starts)
<1> DEFINE ended == EndedBy(t)
           slots == CpuSlots(ended, starts)
           units == AllocatedUnits({rj \in RunningJobs : rj.end_ts <= t})
           f == [x \in slots |-> <<RecordOf(x[1]), x[2]>>]
<1>0. TypeOK /\ UniqueIds(jobs)
  BY DistinctRun
<1>1. \A s \in running : starts[s].row \in Rows /\ s \in DOMAIN starts
  BY <1>0, RunningFacts DEF TypeOK, StartRecord
<1>2. ended \in SUBSET running
  BY DEF EndedBy
<1>3. {rj \in RunningJobs : rj.end_ts <= t} = {RecordOf(s) : s \in ended}
  BY DEF RunningJobs, RecordOf, EndedBy
<1>4. \A q, s \in ended : RecordOf(q) = RecordOf(s) => q = s
  <2>1. \A q, s \in ended : StartId(q) = StartId(s) => q = s
    BY <1>0, <1>1, <1>2 DEF StartId, StartsOnce, RowOf, UniqueIds, Rows
  <2>2. \A s \in ended : RecordOf(s).job_id = StartId(s)
    BY DEF RecordOf
  <2> HIDE DEF ended
  <2> QED
    BY <2>1, <2>2
<1>5. \A s \in ended : RecordOf(s).allocated_cpus = starts[s].requested_cpus
  BY DEF RecordOf
<1> HIDE DEF ended
<1>6. /\ \A x \in slots : \E s \in ended : \E k \in 1..starts[s].requested_cpus : x = <<s, k>>
      /\ \A s \in ended : \A k \in 1..starts[s].requested_cpus : <<s, k>> \in slots
  BY DEF CpuSlots
<1>7. units = UNION {{rj} \X (1..rj.allocated_cpus) : rj \in {RecordOf(s) : s \in ended}}
  BY <1>3 DEF AllocatedUnits
<1>8. /\ \A y \in units : \E s \in ended : \E k \in 1..starts[s].requested_cpus : y = <<RecordOf(s), k>>
      /\ \A s \in ended : \A k \in 1..starts[s].requested_cpus : <<RecordOf(s), k>> \in units
  <2> HIDE DEF units
  <2> QED
    BY <1>5, <1>7
<1> HIDE DEF slots, units
<1>9. f \in [slots -> units]
  BY <1>6, <1>8
<1>10. \A x, y \in slots : f[x] = f[y] => x = y
  BY <1>4, <1>6
<1>11. \A y \in units : \E x \in slots : f[x] = y
  BY <1>6, <1>8
<1>12. ExistsBijection(slots, units)
  <2> HIDE DEF f
  <2>1. f \in Bijection(slots, units)
    BY <1>9, <1>10, <1>11 DEF Bijection, Injection, IsInjective, Surjection
  <2> QED
    BY <2>1 DEF ExistsBijection
<1>13. IsFiniteSet(slots)
  <2>1. IsFiniteSet(running) /\ CpuList(running, starts)
    BY <1>0, RunningFacts
  <2>2. IsFiniteSet(ended) /\ CpuList(ended, starts)
    BY <1>2, <2>1, FS_Subset DEF CpuList
  <2> QED
    BY <2>2, CpuSlotsFinite DEF slots
<1>14. Cardinality(units) = Cardinality(slots)
  BY <1>12, <1>13, FS_Bijection
<1> QED
  BY <1>14 DEF ReleasedBy, AllocatedCpus, Cpus, ended, slots, units

(* There is one such time.                                                 *)
LEMMA EarliestSame ==
  ASSUME NEW p, NEW q, NEW req \in Nat, EarliestFor(p, req), EarliestFor(q, req), TypeOK
  PROVE  p = q
<1>1. p \in Int /\ q \in Int /\ clock_ts \in Int /\ clock_ts <= p /\ clock_ts <= q /\ Capacity \in Int
  BY CapacityAssumption DEF EarliestFor, TypeOK
<1>2. CASE req > Capacity
  BY <1>2 DEF EarliestFor
<1>3. CASE req <= Capacity
  <2>1. FreeBy(p) \in Int /\ FreeBy(q) \in Int
    BY <1>1, FreeGrows
  <2>2. /\ FreeBy(p) >= req /\ \A t \in clock_ts..(p - 1) : FreeBy(t) < req
        /\ FreeBy(q) >= req /\ \A t \in clock_ts..(q - 1) : FreeBy(t) < req
    BY <1>3 DEF EarliestFor
  <2>3. ~ p < q
    <3>1. p < q => p \in clock_ts..(q - 1)
      BY <1>1
    <3> QED
      BY <2>1, <2>2, <3>1
  <2>4. ~ q < p
    <3>1. q < p => q \in clock_ts..(p - 1)
      BY <1>1
    <3> QED
      BY <2>1, <2>2, <3>1
  <2> QED
    BY <1>1, <2>3, <2>4
<1> QED
  BY <1>1, <1>2, <1>3

(* It is what _reservation_ts_for_hol computes of the snapshot; it is now  *)
(* when the CPUs are free.                                                 *)
LEMMA ReservationIs ==
  ASSUME DistinctIds, LoopInvariant, NothingDue, StartsOnce, TimesBounded, pc = "decide", NEW req \in Nat
  PROVE  /\ EarliestFor(ReservationTs(Snapshot, req), req)
         /\ \A p : EarliestFor(p, req) => (p = clock_ts <=> req <= free_cpus)
<1> DEFINE snap == Snapshot
           enough == {rj \in RunningJobs : free_cpus + ReleasedBy(RunningJobs, rj.end_ts) >= req}
           ends == {starts[s].end_ts : s \in running}
           late == {e \in ends : FreeBy(e) >= req}
           p == ReservationTs(Snapshot, req)
<1>0. TypeOK /\ UniqueIds(jobs) /\ CpusAddUp
  BY DistinctRun
<1>1. /\ IsFiniteSet(running) /\ CpuList(running, starts) /\ free_cpus \in Int /\ clock_ts \in Int
      /\ \A s \in running : starts[s].end_ts \in Int /\ starts[s].end_ts > clock_ts
      /\ Capacity \in Nat /\ NEVER_TS \in Int /\ clock_ts < NEVER_TS
  BY <1>0, RunningFacts, CapacityAssumption, NeverIsInt, BeforeNever DEF TypeOK, StartRecord, NothingDue
<1>2. /\ Cpus(running, starts) \in Nat /\ free_cpus + Cpus(running, starts) = Capacity
      /\ free_cpus <= Capacity
  <2>1. Cpus(running, starts) \in Nat
    BY <1>1, CpusPart
  <2> QED
    BY <1>0, <1>1, <2>1 DEF CpusAddUp
<1>3. FreeBy(clock_ts) = free_cpus
  BY <1>0, <1>1, FreeGrows
<1>4. ends \in SUBSET Int /\ IsFiniteSet(ends)
  <2> DEFINE f == [s \in running |-> starts[s].end_ts]
  <2>1. f \in Surjection(running, ends)
    BY DEF Surjection
  <2>2. IsFiniteSet(ends)
    <3> HIDE DEF f, ends
    <3> QED
      BY <1>1, <2>1, FS_Surjection
  <2> QED
    BY <1>1, <2>2
<1>5. {rj.end_ts : rj \in enough} = late
  <2>1. \A s \in running : free_cpus + ReleasedBy(RunningJobs, starts[s].end_ts) = FreeBy(starts[s].end_ts)
    BY ReleasedIs DEF FreeBy
  <2>2. RunningJobs = {RecordOf(s) : s \in running}
    BY DEF RunningJobs, RecordOf
  <2>3. \A s \in running : RecordOf(s).end_ts = starts[s].end_ts
    BY DEF RecordOf
  <2>4. \A s \in running : RecordOf(s) \in enough <=> FreeBy(starts[s].end_ts) >= req
    BY <2>1, <2>2, <2>3
  <2>5. ASSUME NEW rj \in enough PROVE rj.end_ts \in late
    <3>1. PICK s \in running : rj = RecordOf(s)
      BY <2>2
    <3> QED
      BY <2>3, <2>4, <3>1
  <2>6. ASSUME NEW e \in late PROVE \E rj \in enough : e = rj.end_ts
    <3>1. PICK s \in running : e = starts[s].end_ts
      OBVIOUS
    <3> QED
      BY <2>3, <2>4, <3>1
  <2> HIDE DEF enough, late
  <2> QED
    BY <2>5, <2>6
<1>6. LaterOf(clock_ts, Min({rj.end_ts : rj \in enough})) = LaterOf(clock_ts, Min(late))
  BY <1>5
<1>7. p = IF req > Capacity THEN NEVER_TS
          ELSE IF req <= free_cpus THEN clock_ts
          ELSE IF enough = {} THEN NEVER_TS
          ELSE LaterOf(clock_ts, Min({rj.end_ts : rj \in enough}))
  BY DEF ReservationTs, Snapshot
<1>8. ASSUME NEW time, EarliestFor(time, req)
      PROVE  time = clock_ts <=> req <= free_cpus
  <2>1. CASE req > Capacity
    BY <1>1, <1>2, <1>8, <2>1 DEF EarliestFor
  <2>2. CASE req <= Capacity
    <3>1. /\ time \in Int /\ clock_ts <= time /\ FreeBy(time) >= req
          /\ \A t \in clock_ts..(time - 1) : FreeBy(t) < req
      BY <1>8, <2>2 DEF EarliestFor
    <3>2. clock_ts < time => clock_ts \in clock_ts..(time - 1)
      BY <1>1, <3>1
    <3> QED
      BY <1>1, <1>3, <3>1, <3>2
  <2> QED
    BY <1>1, <2>1, <2>2
<1>9. EarliestFor(p, req)
  <2>1. CASE req > Capacity
    BY <1>1, <1>7, <2>1 DEF EarliestFor
  <2>2. CASE req <= Capacity /\ req <= free_cpus
    <3>1. p = clock_ts
      BY <1>1, <1>7, <2>2
    <3>2. clock_ts..(clock_ts - 1) = {}
      BY <1>1
    <3> QED
      BY <1>1, <1>3, <2>2, <3>1, <3>2 DEF EarliestFor
  <2>3. CASE req <= Capacity /\ req > free_cpus
    <3>1. running # {}
      <4>1. CpuSlots({}, starts) = {}
        BY DEF CpuSlots
      <4>2. Cpus({}, starts) = 0
        BY <4>1, FS_EmptySet DEF Cpus
      <4> QED
        BY <1>1, <1>2, <2>3, <4>2
    <3>2. ends # {}
      BY <3>1
    <3>3. Max(ends) \in ends /\ \A e \in ends : e <= Max(ends)
      <4> HIDE DEF ends
      <4> QED
        BY <1>4, <3>2, MaxOfFinite
    <3>4. FreeBy(Max(ends)) = Capacity
      <4>1. Max(ends) \in Int /\ \A s \in running : starts[s].end_ts <= Max(ends)
        BY <1>4, <3>3
      <4> HIDE DEF ends
      <4>2. FreeBy(Max(ends)) = free_cpus + Cpus(running, starts)
        BY <1>0, <4>1, FreeGrows
      <4> QED
        BY <1>2, <4>2
    <3>5. Max(ends) \in late
      BY <1>1, <2>3, <3>3, <3>4
    <3>6. late \in SUBSET Int /\ IsFiniteSet(late) /\ late # {}
      <4>1. late \in SUBSET ends
        OBVIOUS
      <4> HIDE DEF ends, late
      <4>2. IsFiniteSet(late)
        BY <1>4, <4>1, FS_Subset
      <4>3. late \in SUBSET Int
        BY <1>4, <4>1
      <4> QED
        BY <3>5, <4>2, <4>3
    <3>7. Min(late) \in late /\ \A e \in late : Min(late) <= e
      <4> HIDE DEF late
      <4> QED
        BY <3>6, MinOfFinite
    <3>8. p = Min(late) /\ Min(late) > clock_ts /\ Min(late) \in Int
      <4>1. p = LaterOf(clock_ts, Min(late))
        <5>1. enough # {}
          BY <1>5, <3>5
        <5>2. ~ req > Capacity /\ ~ req <= free_cpus
          BY <1>1, <2>3
        <5> HIDE DEF enough, late, p
        <5> QED
          BY <1>6, <1>7, <5>1, <5>2, Zenon
      <4>2. Min(late) > clock_ts /\ Min(late) \in Int
        BY <1>1, <3>7
      <4> HIDE DEF late
      <4> QED
        BY <1>1, <4>1, <4>2 DEF LaterOf
    <3>9. ASSUME NEW t \in clock_ts..(Min(late) - 1) PROVE FreeBy(t) < req
      <4>1. t \in Int /\ clock_ts <= t /\ t < Min(late)
        BY <1>1, <3>8
      <4>2. FreeBy(t) \in Int
        BY <1>0, <4>1, FreeGrows
      <4>3. CASE \A s \in running : t < starts[s].end_ts
        <5>1. FreeBy(t) = free_cpus
          BY <1>0, <4>1, <4>3, FreeGrows
        <5> QED
          BY <1>1, <2>3, <5>1
      <4>4. CASE \E s \in running : starts[s].end_ts <= t
        <5> DEFINE past == {e \in ends : e <= t}
        <5>1. past # {} /\ past \in SUBSET ends
          BY <4>4
        <5>2. Max(past) \in past /\ \A e \in past : e <= Max(past)
          <6> HIDE DEF past, ends
          <6>1. past \in SUBSET Int /\ IsFiniteSet(past)
            BY <1>4, <5>1, FS_Subset
          <6> QED
            BY <5>1, <6>1, MaxOfFinite
        <5> DEFINE e == Max(past)
        <5>3. e \in ends /\ e \in Int /\ e <= t /\ \A s \in running : starts[s].end_ts <= t => starts[s].end_ts <= e
          BY <1>4, <5>2
        <5> HIDE DEF e
        <5>4. FreeBy(e) = FreeBy(t)
          <6>1. \A s \in running : ~ (e < starts[s].end_ts /\ starts[s].end_ts <= t)
            BY <1>1, <5>3
          <6> QED
            BY <1>0, <4>1, <5>3, <6>1, FreeGrows
        <5>5. e \notin late
          <6> HIDE DEF late
          <6> QED
            BY <3>7, <3>8, <4>1, <5>3
        <5> QED
          BY <4>2, <5>3, <5>4, <5>5
      <4> QED
        BY <1>1, <4>1, <4>3, <4>4
    <3>10. FreeBy(p) >= req
      BY <3>7, <3>8
    <3> HIDE DEF p, late
    <3> QED
      BY <1>1, <2>3, <3>8, <3>9, <3>10 DEF EarliestFor
  <2> QED
    BY <1>1, <1>2, <2>1, <2>2, <2>3
<1> QED
  BY <1>8, <1>9

(* The EASY rule starts a head that fits, and behind one that waits only   *)
(* jobs whose gates end before its reservation.                            *)
LEMMA EasyHead ==
  ASSUME NEW snap, SnapshotOK(snap), NEW order, IsOrder(order, DOMAIN snap.queued_jobs), NEW gate,
         NEW head, IsFirst(head, DOMAIN snap.queued_jobs, order), NEW list \in EasyRule(snap, order, gate)
  PROVE  LET taken == Firsts(list, Len(list))
             size  == snap.queued_jobs[head].requested_cpus
         IN  /\ size <= snap.free_cpus => head \in taken
             /\ size > snap.free_cpus => \A r \in taken :
                  r # head /\ snap.clock_ts + gate[r] <= ReservationTs(snap, size)
<1> DEFINE queued == snap.queued_jobs
           rows == DOMAIN queued
           tail == rows \ {head}
           size == queued[head].requested_cpus
           brief == {r \in tail : snap.clock_ts + gate[r] <= ReservationTs(snap, size)}
<1>1. PICK picks \in EasyPicks(snap, order, gate) : list \in Lists(picks, order)
  BY DEF EasyRule
<1>2. QueueOK(queued) /\ snap.free_cpus \in Nat /\ IsFiniteSet(rows) /\ rows # {}
  BY DEF SnapshotOK, QueueOK, IsFirst
<1>3. FirstIn(rows, order) = head
  <2>1. IsFirst(FirstIn(rows, order), rows, order)
    BY <1>2, FirstExists
  <2> QED
    BY <2>1 DEF IsFirst, IsOrder
<1>4. size \in Nat \ {0}
  BY <1>2 DEF QueueOK, IsFirst
<1>8. EasyPicks(snap, order, gate) =
        IF size \in 1..snap.free_cpus
        THEN {{head} \cup behind : behind \in Packings(queued, order, tail, snap.free_cpus - size, tail)}
        ELSE Packings(queued, order, tail, snap.free_cpus, brief)
  BY <1>2, <1>3, Zenon DEF EasyPicks
<1>5. picks \in SUBSET rows => Firsts(list, Len(list)) = picks
  <2> SUFFICES ASSUME picks \in SUBSET rows PROVE Firsts(list, Len(list)) = picks
    OBVIOUS
  <2>1. IsFiniteSet(picks) /\ IsOrder(order, picks)
    BY <1>2, FS_Subset DEF IsOrder
  <2>2. list \in Lists(picks, order)
    BY <1>1
  <2> QED
    BY <2>1, <2>2, ListIs
<1>6. CASE size <= snap.free_cpus
  <2>1. PICK behind \in Packings(queued, order, tail, snap.free_cpus - size, tail) : picks = {head} \cup behind
    <3>1. size \in 1..snap.free_cpus
      BY <1>2, <1>4, <1>6
    <3> HIDE DEF tail, size
    <3> QED
      BY <1>1, <1>8, <3>1
  <2>2. head \in picks /\ picks \in SUBSET rows
    BY <2>1 DEF Packings, IsFirst
  <2> QED
    BY <1>2, <1>4, <1>5, <1>6, <2>2
<1>7. CASE size > snap.free_cpus
  <2>1. size \notin 1..snap.free_cpus
    BY <1>2, <1>4, <1>7
  <2>2. picks \in Packings(queued, order, tail, snap.free_cpus, brief)
    BY <1>1, <1>8, <2>1
  <2>3. picks \in SUBSET tail /\ picks \in SUBSET brief
    <3> HIDE DEF brief, tail
    <3>1. picks \in SUBSET tail
      BY <2>2 DEF Packings
    <3>2. \A r \in tail : r \in picks => r \in brief
      BY <2>2 DEF Packings
    <3> QED
      BY <3>1, <3>2
  <2>4. Firsts(list, Len(list)) = picks
    BY <1>5, <2>3
  <2> QED
    BY <1>2, <1>4, <1>7, <2>3, <2>4
<1> QED
  BY <1>2, <1>4, <1>6, <1>7

(* What a decision names is what the policy has taken.                     *)
LEMMA DecisionNames ==
  ASSUME TypeOK, UniqueIds(jobs), UNCHANGED <<jobs, queue>>, NEW list, Len(list) \in Nat,
         list \in [1..Len(list) -> queue],
         decision' = [i \in 1..Len(list) |-> Waiting[list[i]].job_id]
  PROVE  NamedFrom(1)' = Firsts(list, Len(list))
<1> DEFINE n == Len(list)
<1>1. DOMAIN Waiting = queue /\ \A r \in queue : Waiting[r] = jobs[r] /\ r \in Rows
  BY WaitingOK
<1>2. Len(decision') = n /\ \A i \in 1..n : decision'[i] = RowId(list[i])
  BY <1>1 DEF RowId
<1>3. \A q, r \in queue : RowId(q) = RowId(r) => q = r
  BY <1>1 DEF UniqueIds, Rows, RowId
<1>4. NamedFrom(1)' = {r \in queue : \E j \in 1..n : decision'[j] = RowId(r)}
  BY <1>2 DEF NamedFrom, RowId
<1>5. \A r \in queue : (\E j \in 1..n : decision'[j] = RowId(r)) <=> \E j \in 1..n : list[j] = r
  BY <1>2, <1>3
<1>6. Firsts(list, n) \in SUBSET queue
  BY DEF Firsts
<1> QED
  BY <1>4, <1>5, <1>6 DEF Firsts

(* The EASY policies serve the queue as it came in.                        *)
LEMMA FamilyHead ==
  ASSUME TypeOK, UniqueIds(jobs), policy \in EasyFamily, queue # {}
  PROVE  /\ Min(queue) \in queue /\ \A q \in queue : Min(queue) <= q
         /\ policy \in BuiltInPolicies \ NotEasy
         /\ IsOrder(EasyOrder(policy, Waiting), queue)
         /\ IsFirst(Min(queue), queue, EasyOrder(policy, Waiting))
<1>1. QueueOK(Waiting) /\ DOMAIN Waiting = queue
  BY WaitingOK
<1>2. policy \in BuiltInPolicies \ NotEasy
  BY DEF EasyFamily, BuiltInPolicies, NotEasy
<1>3. queue \in SUBSET Int /\ IsFiniteSet(queue)
  BY <1>1 DEF QueueOK
<1>4. Min(queue) \in queue /\ \A q \in queue : Min(queue) <= q
  BY <1>3, MinOfFinite
<1> DEFINE order == EasyOrder(policy, Waiting)
           head == FirstIn(queue, order)
<1>5. IsOrder(order, queue) /\ IsFirst(head, queue, Fifo(Waiting))
  <2>1. ServiceOrder(Waiting) = Fifo(Waiting)
    BY DEF ServiceOrder, EasyFamily
  <2> QED
    BY <1>1, <1>2, <2>1, EasyOrderIs
<1>6. IsFirst(head, queue, order)
  <2> HIDE DEF order
  <2> QED
    BY <1>3, <1>5, FirstExists
<1>7. head = Min(queue)
  <2>1. \A q \in queue \ {head} : head < q
    BY <1>1, <1>5, FifoIs DEF IsFirst
  <2>2. head \in queue /\ head \in Int /\ Min(queue) \in Int /\ Min(queue) <= head
    BY <1>3, <1>4, <1>5 DEF IsFirst
  <2> HIDE DEF head
  <2> QED
    BY <1>4, <2>1, <2>2
<1> HIDE DEF head, order
<1> QED
  BY <1>2, <1>4, <1>5, <1>6, <1>7 DEF order

(* The gate of a job is no shorter than the job.                           *)
LEMMA GatesHold ==
  ASSUME TypeOK, UniqueIds(jobs), policy \in EasyFamily, NoJobOutrunsItsGate, NEW r \in queue
  PROVE  /\ EasyGate(policy, strict_uncertainty, Waiting)[r] \in Nat
         /\ jobs[r].runtime_actual_sec \in Nat
         /\ jobs[r].runtime_actual_sec <= EasyGate(policy, strict_uncertainty, Waiting)[r]
<1>1. DOMAIN Waiting = queue /\ Waiting[r] = jobs[r] /\ r \in Rows /\ QueueOK(Waiting)
  BY WaitingOK
<1>2. jobs[r].runtime_actual_sec \in Nat /\ IsPlanned(jobs[r])
  BY <1>1, TraceFacts DEF TypeOK, QueueOK
<1>3. EasyGate(policy, strict_uncertainty, Waiting)[r] = GateRuntime(jobs[r])
  BY <1>1 DEF EasyGate, GateRuntime, EasyFamily, Guards, MlGates, Estimates
<1>4. GateRuntime(jobs[r]) \in Nat
  BY <1>2 DEF GateRuntime, MlGate, OrElse, IsPlanned
<1>5. GateRuntime(jobs[r]) >= jobs[r].runtime_actual_sec
  BY <1>1 DEF NoJobOutrunsItsGate
<1> QED
  BY <1>2, <1>3, <1>4, <1>5

(* The policy tells the head of the queue when it will start: now if it is *)
(* among those it names, and otherwise all it names end before then.       *)
LEMMA DecideTells ==
  ASSUME DistinctIds, PolicyInv, PolicyDecide, Promises, policy \in EasyFamily, NoJobOutrunsItsGate,
         queue # {}
  PROVE  LET head == Min(queue)
             time == ReservationTs(Snapshot, jobs[head].requested_cpus)
         IN  /\ DOMAIN promise' = DOMAIN promise \cup {head}
             /\ \A r \in DOMAIN promise : promise'[r] = promise[r]
             /\ promise'[head] = time /\ EarliestFor(time, jobs[head].requested_cpus)
             /\ \/ clock_ts = time /\ head \in NamedFrom(1)'
                \/ /\ clock_ts < time
                   /\ \A q \in NamedFrom(1)' : q # head /\ clock_ts + jobs[q].runtime_actual_sec <= time
<1> DEFINE snap == Snapshot
           head == Min(queue)
           size == jobs[head].requested_cpus
           time == ReservationTs(snap, size)
           order == EasyOrder(policy, Waiting)
           gate == EasyGate(policy, strict_uncertainty, Waiting)
<1>0. /\ LoopInvariant /\ NothingDue /\ StartsOnce /\ TimesBounded
      /\ TypeOK /\ UniqueIds(jobs) /\ pc = "decide"
  BY DistinctRun DEF PolicyInv, PolicyDecide
<1>1. /\ SnapshotOK(snap) /\ snap.queued_jobs = Waiting /\ snap.free_cpus = free_cpus /\ snap.clock_ts = clock_ts
  BY <1>0, LoopSnapshotOK DEF Snapshot
<1>2. /\ QueueOK(Waiting) /\ DOMAIN Waiting = queue /\ \A r \in queue : Waiting[r] = jobs[r] /\ r \in Rows
  BY <1>0, WaitingOK
<1>3. /\ head \in queue /\ \A q \in queue : head <= q
      /\ policy \in BuiltInPolicies \ NotEasy
      /\ IsOrder(order, queue) /\ IsFirst(head, queue, order)
  BY <1>0, FamilyHead
<1>4. /\ promise' = FirstOf(promise, Reservations(snap))
      /\ decision' \in ChooseDecisions(policy, strict_uncertainty, snap)
      /\ UNCHANGED <<jobs, queue>>
  BY DEF PolicyDecide, ReceiveDecision
<1> HIDE DEF snap, order, gate
<1>5. Reservations(snap) = [r \in {head} |-> ReservationTs(snap, jobs[r].requested_cpus)]
  BY DEF Reservations
<1>6. DOMAIN Reservations(snap) = {head} /\ Reservations(snap)[head] = time
  BY <1>5
<1> HIDE DEF head
<1>7. /\ DOMAIN promise' = DOMAIN promise \cup {head}
      /\ \A r \in DOMAIN promise : promise'[r] = promise[r]
      /\ head \notin DOMAIN promise => promise'[head] = time
  <2> DEFINE res == Reservations(snap)
  <2>1. promise' = FirstOf(promise, res) /\ DOMAIN res = {head} /\ res[head] = time
    BY <1>4, <1>6
  <2> HIDE DEF res, time
  <2> QED
    BY <2>1 DEF FirstOf
<1>8. size \in Nat /\ free_cpus \in Int /\ clock_ts \in Int
  BY <1>0, <1>2, <1>3 DEF QueueOK, TypeOK
<1>9. EarliestFor(time, size) /\ (time = clock_ts <=> size <= free_cpus)
  <2> HIDE DEF size
  <2>1. EarliestFor(time, size) /\ \A p : EarliestFor(p, size) => (p = clock_ts <=> size <= free_cpus)
    BY <1>0, <1>8, ReservationIs DEF snap
  <2> QED
    BY <2>1
<1> HIDE DEF time
<1>10. promise'[head] = time
  <2>1. CASE head \in DOMAIN promise
    <3>1. EarliestFor(promise[head], size)
      BY <1>0, <1>3, <2>1 DEF Promises, PromiseStands, Expected
    <3>2. promise[head] = time
      <4> HIDE DEF size
      <4> QED
        BY <1>0, <1>8, <1>9, <3>1, EarliestSame
    <3> QED
      BY <1>7, <2>1, <3>2
  <2> QED
    BY <1>7, <2>1
<1>11. PICK list \in Answers(policy, strict_uncertainty, snap) :
         decision' = [i \in 1..Len(list) |-> snap.queued_jobs[list[i]].job_id]
  BY <1>4 DEF ChooseDecisions
<1>12. Len(list) \in Nat /\ list \in [1..Len(list) -> queue]
  BY <1>1, <1>2, <1>3, PolicyAnswers DEF Answered
<1>13. NamedFrom(1)' = Firsts(list, Len(list))
  BY <1>0, <1>1, <1>4, <1>11, <1>12, DecisionNames
<1>14. list \in EasyRule(snap, order, gate)
  BY <1>1, <1>3, AnswersAre DEF order, gate
<1>15. /\ size <= free_cpus => head \in Firsts(list, Len(list))
       /\ size > free_cpus => \A q \in Firsts(list, Len(list)) :
            q # head /\ clock_ts + gate[q] <= time
  <2> DEFINE list_size == snap.queued_jobs[head].requested_cpus
  <2>1. IsOrder(order, DOMAIN snap.queued_jobs) /\ IsFirst(head, DOMAIN snap.queued_jobs, order)
    BY <1>1, <1>2, <1>3
  <2>2. /\ list_size <= snap.free_cpus => head \in Firsts(list, Len(list))
        /\ list_size > snap.free_cpus => \A q \in Firsts(list, Len(list)) :
             q # head /\ snap.clock_ts + gate[q] <= ReservationTs(snap, list_size)
    BY <1>1, <1>14, <2>1, EasyHead
  <2>3. list_size = size
    BY <1>1, <1>2, <1>3
  <2> HIDE DEF list_size, size
  <2> QED
    BY <1>1, <2>2, <2>3 DEF time
<1>16. Firsts(list, Len(list)) \in SUBSET queue
  BY <1>12 DEF Firsts
<1>17. \A q \in queue : /\ gate[q] \in Nat /\ jobs[q].runtime_actual_sec \in Nat
                        /\ jobs[q].runtime_actual_sec <= gate[q]
  BY <1>0, GatesHold DEF gate
<1>18. time \in Int /\ clock_ts <= time
  BY <1>9 DEF EarliestFor
<1>19. ASSUME size > free_cpus, NEW q \in NamedFrom(1)'
       PROVE  q # head /\ clock_ts + jobs[q].runtime_actual_sec <= time
  <2>1. q \in queue /\ q # head /\ clock_ts + gate[q] <= time
    BY <1>13, <1>15, <1>16, <1>19
  <2> QED
    BY <1>8, <1>17, <1>18, <2>1
<1>20. \/ clock_ts = time /\ head \in NamedFrom(1)'
       \/ /\ clock_ts < time
          /\ \A q \in NamedFrom(1)' : q # head /\ clock_ts + jobs[q].runtime_actual_sec <= time
  <2>1. CASE size <= free_cpus
    BY <1>9, <1>13, <1>15, <2>1
  <2>2. CASE size > free_cpus
    <3>1. clock_ts < time
      BY <1>8, <1>9, <1>18, <2>2
    <3> QED
      BY <1>19, <2>2, <3>1
  <2> QED
    BY <1>8, <2>1, <2>2
<1> QED
  BY <1>7, <1>9, <1>10, <1>20 DEF head, time, size, snap

(* A decision of the EASY family keeps the promises.                        *)
LEMMA DecideKeeps ==
  ASSUME DistinctIds, PolicyInv, PolicyDecide, Promises, policy \in EasyFamily, NoJobOutrunsItsGate
  PROVE  Promises'
<1>0. TypeOK /\ UniqueIds(jobs) /\ StartsApart /\ pc = "decide" /\ clock_ts \in Int
  BY DistinctRun DEF PolicyInv, PolicyDecide, TypeOK
<1>1. /\ pc' = "apply" /\ pos' = 1
      /\ UNCHANGED <<jobs, clock_ts, queue, future, starts, running, free_cpus>>
      /\ promise' = FirstOf(promise, Reservations(Snapshot))
  BY DEF PolicyDecide, ReceiveDecision
<1>2. /\ QueuedFirst /\ DOMAIN promise \in SUBSET (Rows \ future)
      /\ \A r \in DOMAIN promise : promise[r] \in Int
      /\ \A s \in DOMAIN starts : starts[s].row \in DOMAIN promise => starts[s].start_ts = promise[starts[s].row]
  BY DEF Promises
<1>3. QueuedFirst' /\ Rows' = Rows
  BY <1>1, <1>2 DEF QueuedFirst, Rows
<1>4. CASE queue = {}
  <2>1. Reservations(Snapshot) = <<>> /\ DOMAIN <<>> = {}
    BY <1>4 DEF Reservations
  <2>2. DOMAIN promise' = DOMAIN promise /\ \A r \in DOMAIN promise : promise'[r] = promise[r]
    BY <1>1, <2>1 DEF FirstOf
  <2>3. \A r \in queue' \cap DOMAIN promise' : PromiseStands(r)'
    BY <1>1, <1>4
  <2> QED
    BY <1>1, <1>2, <1>3, <2>2, <2>3 DEF Promises
<1>5. CASE queue # {}
  <2> DEFINE head == Min(queue)
             size == jobs[head].requested_cpus
             time == ReservationTs(Snapshot, size)
  <2>1. /\ DOMAIN promise' = DOMAIN promise \cup {head}
        /\ \A r \in DOMAIN promise : promise'[r] = promise[r]
        /\ promise'[head] = time /\ EarliestFor(time, size)
        /\ \/ clock_ts = time /\ head \in NamedFrom(1)'
           \/ /\ clock_ts < time
              /\ \A q \in NamedFrom(1)' : q # head /\ clock_ts + jobs[q].runtime_actual_sec <= time
    BY <1>5, DecideTells
  <2>2. head \in queue /\ \A q \in queue : head <= q
    BY <1>0, <1>5, FamilyHead
  <2>3. head \in Rows \ future
    <3>1. head \in Rows
      BY <1>0, <2>2 DEF TypeOK
    <3>2. \A r \in Rows : ~ r < r
      BY <1>0, TraceFacts DEF TypeOK, Rows
    <3> QED
      BY <1>2, <2>2, <3>1, <3>2 DEF QueuedFirst
  <2>4. time \in Int
    BY <2>1 DEF EarliestFor
  <2> HIDE DEF head, time
  <2>5. PICK p : p = time
    OBVIOUS
  <2>6. PICK h : h = head
    OBVIOUS
  <2>7. \A q \in queue \cap DOMAIN promise : q = h
    <3>1. \A q \in queue \cap DOMAIN promise : q <= head
      BY <2>2 DEF Promises, PromiseStands
    <3>2. \A q \in queue : q \in Int
      BY <1>0, TraceFacts DEF TypeOK, Rows
    <3> QED
      BY <2>2, <2>6, <3>1, <3>2
  <2>8. EarliestFor(p, jobs[h].requested_cpus)'
    <3>1. PICK req : req = jobs[h].requested_cpus
      OBVIOUS
    <3>2. EarliestFor(p, req)
      BY <2>1, <2>5, <2>6, <3>1 DEF size
    <3>3. EarliestFor(p, req)'
      BY <1>1, <3>2 DEF EarliestFor, FreeBy, EndedBy, Cpus, CpuSlots
    <3>4. jobs'[h].requested_cpus = req
      BY <1>1, <3>1
    <3> QED
      BY <3>3, <3>4
  <2>9. promise'[h] = p
    BY <2>1, <2>5, <2>6
  <2>10. Expected(h)'
    BY <2>8, <2>9 DEF Expected
  <2>11. PromiseStands(h)'
    <3>1. pc' = "apply" =>
            \/ clock_ts' = promise'[h] /\ h \in NamedFrom(1)'
            \/ /\ clock_ts' < promise'[h] /\ Expected(h)'
               /\ \A q \in NamedFrom(pos)' : q # h /\ clock_ts' + jobs'[q].runtime_actual_sec <= promise'[h]
      <4>1. NamedFrom(pos)' = NamedFrom(1)'
        BY <1>1 DEF NamedFrom
      <4> QED
        BY <1>1, <2>1, <2>5, <2>6, <2>9, <2>10, <4>1
    <3> QED
      BY <1>1, <2>2, <2>6, <3>1 DEF PromiseStands
  <2>12. \A r \in queue' \cap DOMAIN promise' : r = h
    BY <1>1, <2>1, <2>6, <2>7
  <2>13. \A r \in queue' \cap DOMAIN promise' : PromiseStands(r)'
    BY <2>11, <2>12
  <2>14. \A s \in DOMAIN starts : starts[s].row # head
    BY <1>0, <2>2 DEF StartsApart
  <2>15. \A s \in DOMAIN starts' : starts'[s].row \in DOMAIN promise' =>
           starts'[s].start_ts = promise'[starts'[s].row]
    BY <1>1, <1>2, <2>1, <2>14
  <2>16. DOMAIN promise' \in SUBSET (Rows' \ future') /\ \A r \in DOMAIN promise' : promise'[r] \in Int
    BY <1>1, <1>2, <1>3, <2>1, <2>3, <2>4
  <2> QED
    BY <1>3, <2>13, <2>15, <2>16 DEF Promises
<1> QED
  BY <1>4, <1>5

(* Jobs that end by a time take no CPUs from it, and give none before.     *)
LEMMA StartKeeps ==
  ASSUME TypeOK, StartJob, NEW p, NEW req \in Nat, EarliestFor(p, req),
         clock_ts + jobs[QueueById(decision[pos])].runtime_actual_sec <= p
  PROVE  EarliestFor(p, req)'
<1> DEFINE row == QueueById(decision[pos])
           new == Len(starts) + 1
           size == jobs[row].requested_cpus
           end == clock_ts + jobs[row].runtime_actual_sec
<1>1. /\ row \in Rows /\ new \notin DOMAIN starts /\ DOMAIN starts' = DOMAIN starts \cup {new}
      /\ \A s \in DOMAIN starts : starts'[s] = starts[s]
      /\ starts'[new].end_ts = end
      /\ running' = running \cup {new}
  BY StartAdds
<1>2. /\ free_cpus' = free_cpus - size /\ clock_ts' = clock_ts /\ starts'[new].requested_cpus = size
  <2>1. PICK record : starts' = Append(starts, record) /\ record.requested_cpus = size
    BY DEF StartJob
  <2>2. starts \in Seq(StartRecord)
    BY DEF TypeOK
  <2>3. starts'[new] = record
    BY <2>1, <2>2
  <2> QED
    BY <2>1, <2>3 DEF StartJob
<1>3. /\ IsFiniteSet(running) /\ CpuList(running, starts) /\ running \in SUBSET (DOMAIN starts)
      /\ free_cpus \in Int /\ clock_ts \in Int /\ \A s \in running : starts[s].end_ts \in Int
  BY RunningFacts DEF TypeOK, StartRecord
<1>4. size \in Nat /\ jobs[row].runtime_actual_sec \in Nat
  BY <1>1, TraceFacts DEF TypeOK
<1> HIDE DEF row, new
<1>5. p \in Int /\ clock_ts <= p /\ end \in Int /\ end <= p
  BY <1>3, <1>4 DEF EarliestFor, row
<1> HIDE DEF end, size
<1>6. ASSUME NEW t \in Int
      PROVE  /\ FreeBy(t)' = IF end <= t THEN FreeBy(t) ELSE FreeBy(t) - size
             /\ FreeBy(t) \in Int
  <2> DEFINE ended == EndedBy(t)
  <2>1. EndedBy(t)' = IF end <= t THEN ended \cup {new} ELSE ended
    BY <1>1, <1>3 DEF EndedBy
  <2>2. ended \in SUBSET running /\ IsFiniteSet(ended) /\ new \notin ended
    BY <1>1, <1>3, FS_Subset DEF EndedBy
  <2> HIDE DEF ended
  <2>3. \A s \in ended : starts[s].requested_cpus = starts'[s].requested_cpus /\ starts[s].requested_cpus \in Nat
    BY <1>1, <1>3, <2>2 DEF CpuList
  <2>4. Cpus(ended, starts) = Cpus(ended, starts')
    BY <2>3, CpusSame
  <2>5. Cpus(ended \cup {new}, starts') = Cpus(ended, starts') + size
    <3>1. CpuList(ended \cup {new}, starts')
      BY <1>2, <1>4, <2>3 DEF CpuList
    <3> QED
      BY <1>2, <2>2, <3>1, CpusAdd
  <2>6. Cpus(ended, starts) \in Nat
    <3>1. CpuList(ended, starts)
      BY <2>3 DEF CpuList
    <3> QED
      BY <2>2, <3>1, CpusPart
  <2>7. FreeBy(t)' = free_cpus' + Cpus(EndedBy(t)', starts')
    BY DEF FreeBy, Cpus, CpuSlots
  <2>8. FreeBy(t) = free_cpus + Cpus(ended, starts)
    BY DEF FreeBy, ended
  <2>9. FreeBy(t)' = (free_cpus - size) + (IF end <= t THEN Cpus(ended, starts) + size ELSE Cpus(ended, starts))
    BY <1>2, <2>1, <2>4, <2>5, <2>7
  <2> QED
    BY <1>3, <1>4, <1>5, <2>6, <2>8, <2>9
<1>7. CASE req > Capacity
  BY <1>2, <1>5, <1>7, CapacityAssumption DEF EarliestFor
<1>8. CASE req <= Capacity
  <2>1. FreeBy(p) >= req /\ \A t \in clock_ts..(p - 1) : FreeBy(t) < req
    BY <1>8 DEF EarliestFor
  <2>2. FreeBy(p)' >= req
    BY <1>5, <1>6, <2>1
  <2>3. \A t \in clock_ts..(p - 1) : FreeBy(t)' < req
    BY <1>3, <1>4, <1>5, <1>6, <2>1
  <2>4. p \in Int /\ clock_ts' <= p /\ clock_ts'..(p - 1) = clock_ts..(p - 1)
    BY <1>2, <1>5
  <2> QED
    BY <1>8, <2>2, <2>3, <2>4, CapacityAssumption DEF EarliestFor
<1> QED
  BY <1>7, <1>8, CapacityAssumption

(* What is started is the head in its time, or ends before that.           *)
LEMMA StartKeepsPromises ==
  ASSUME DistinctIds, LoopInvariant, StartsOnce, AnswerFits, StartJob, UNCHANGED policyVars, Promises
  PROVE  Promises'
<1> DEFINE row == QueueById(decision[pos])
           new == Len(starts) + 1
<1>0. TypeOK /\ UniqueIds(jobs)
  BY DistinctRun
<1>1. /\ row \in queue /\ RowId(row) = decision[pos]
      /\ new \notin DOMAIN starts /\ DOMAIN starts' = DOMAIN starts \cup {new}
      /\ \A s \in DOMAIN starts : starts'[s] = starts[s]
      /\ starts'[new].row = row /\ starts'[new].start_ts = clock_ts
  BY <1>0, StartAdds
<1>2. /\ pc = "apply" /\ pc' = "apply" /\ pos' = pos + 1 /\ pos <= Len(decision)
      /\ UNCHANGED <<jobs, clock_ts, queue, future, decision, promise>>
  BY DEF StartJob, policyVars
<1>3. Len(decision) \in Nat /\ pos \in 1..(Len(decision) + 1)
  BY <1>2 DEF AnswerFits
<1>4. row \in NamedFrom(pos)
  <2>1. pos \in pos..Len(decision)
    BY <1>2, <1>3
  <2> QED
    BY <1>1, <2>1 DEF NamedFrom
<1>5. /\ NamedFrom(1)' = NamedFrom(1)
      /\ NamedFrom(pos)' \in SUBSET NamedFrom(pos)
  <2>1. \A j \in (pos + 1)..Len(decision) : j \in pos..Len(decision)
    BY <1>3
  <2> QED
    BY <1>2, <2>1 DEF NamedFrom, RowId
<1> HIDE DEF row, new
<1>6. ASSUME NEW r \in queue \cap DOMAIN promise PROVE PromiseStands(r)'
  <2> DEFINE p == promise[r]
             req == jobs[r].requested_cpus
  <2>1. PromiseStands(r) /\ req \in Nat /\ \A q \in queue : r <= q
    BY <1>0, <1>6, TraceFacts DEF Promises, PromiseStands, TypeOK
  <2>2. CASE clock_ts = p /\ r \in NamedFrom(1)
    BY <1>2, <1>5, <2>1, <2>2 DEF PromiseStands
  <2>3. CASE /\ clock_ts < p /\ EarliestFor(p, req)
             /\ \A q \in NamedFrom(pos) : q # r /\ clock_ts + jobs[q].runtime_actual_sec <= p
    <3>1. PICK time : time = p
      OBVIOUS
    <3>2. PICK size : size = req
      OBVIOUS
    <3>3. clock_ts + jobs[row].runtime_actual_sec <= time
      BY <1>4, <2>3, <3>1
    <3>4. EarliestFor(time, size) /\ size \in Nat
      BY <2>1, <2>3, <3>1, <3>2
    <3> HIDE DEF p, req
    <3>5. EarliestFor(time, size)'
      BY <1>0, <3>3, <3>4, StartKeeps DEF row
    <3>6. promise'[r] = time /\ jobs'[r].requested_cpus = size
      BY <1>2, <3>1, <3>2 DEF p, req
    <3>7. Expected(r)'
      BY <3>5, <3>6 DEF Expected
    <3>8. \A q \in NamedFrom(pos)' : q # r /\ clock_ts' + jobs'[q].runtime_actual_sec <= promise'[r]
      BY <1>2, <1>5, <2>3 DEF p
    <3> QED
      BY <1>2, <2>1, <2>3, <3>7, <3>8 DEF PromiseStands, p
  <2>4. \/ clock_ts = p /\ r \in NamedFrom(1)
        \/ /\ clock_ts < p /\ EarliestFor(p, req)
           /\ \A q \in NamedFrom(pos) : q # r /\ clock_ts + jobs[q].runtime_actual_sec <= p
    BY <1>2, <2>1 DEF PromiseStands, Expected
  <2> QED
    BY <2>2, <2>3, <2>4
<1>7. row \in DOMAIN promise => clock_ts = promise[row]
  <2> SUFFICES ASSUME row \in DOMAIN promise PROVE clock_ts = promise[row]
    OBVIOUS
  <2>1. PromiseStands(row)
    BY <1>1 DEF Promises
  <2> QED
    BY <1>2, <1>4, <2>1 DEF PromiseStands
<1>8. \A s \in DOMAIN starts' : starts'[s].row \in DOMAIN promise' =>
        starts'[s].start_ts = promise'[starts'[s].row]
  BY <1>1, <1>2, <1>7 DEF Promises
<1>9. QueuedFirst' /\ Rows' = Rows
  BY <1>2 DEF Promises, QueuedFirst, Rows
<1>10. DOMAIN promise' \in SUBSET (Rows' \ future') /\ \A r \in DOMAIN promise' : promise'[r] \in Int
  BY <1>2, <1>9 DEF Promises
<1>11. \A r \in queue' \cap DOMAIN promise' : PromiseStands(r)'
  BY <1>2, <1>6
<1> QED
  BY <1>8, <1>9, <1>10, <1>11 DEF Promises

(* At the end of a tick the rows that are left are those not named.        *)
LEMMA RestIs ==
  ASSUME TypeOK, AnswerFits, pc = "apply", pos > Len(decision)
  PROVE  RemainingQueue = queue \ NamedFrom(1)
<1>1. /\ Len(decision) \in Nat /\ pos \in 1..(Len(decision) + 1)
      /\ dispatched_ids = {decision[i] : i \in 1..(pos - 1)}
  BY DEF AnswerFits
<1>2. pos - 1 = Len(decision)
  BY <1>1
<1> QED
  BY <1>1, <1>2 DEF RemainingQueue, NamedFrom

(* So does the end of a tick.                                               *)
LEMMA EndTickKeepsPromises ==
  ASSUME TypeOK, AnswerFits, EndTick \/ RaiseStrict, UNCHANGED policyVars, Promises
  PROVE  Promises'
<1>1. /\ pc = "apply" /\ pos > Len(decision) /\ queue' = RemainingQueue
      /\ pc' \in {"loop", "stuck", "strict_error"}
      /\ UNCHANGED <<jobs, clock_ts, future, starts, running, free_cpus, promise>>
  BY DEF EndTick, RaiseStrict, policyVars
<1>2. queue' = queue \ NamedFrom(1)
  BY <1>1, RestIs
<1>3. ASSUME NEW r \in queue' \cap DOMAIN promise PROVE PromiseStands(r)'
  <2>1. r \in queue \cap DOMAIN promise /\ r \notin NamedFrom(1) /\ PromiseStands(r)
    BY <1>2, <1>3 DEF Promises
  <2>2. clock_ts < promise[r] /\ Expected(r) /\ \A q \in queue : r <= q
    BY <1>1, <2>1 DEF PromiseStands
  <2>3. Expected(r)'
    <3>1. \A t : EndedBy(t)' = EndedBy(t)
      BY <1>1 DEF EndedBy
    <3>2. \A t : FreeBy(t)' = FreeBy(t)
      BY <1>1, <3>1 DEF FreeBy, Cpus, CpuSlots
    <3> QED
      BY <1>1, <2>2, <3>2 DEF Expected, EarliestFor
  <2>4. \A q \in queue' : r <= q
    BY <1>2, <2>2
  <2>5. clock_ts' < promise'[r] /\ pc' # "apply"
    BY <1>1, <2>2
  <2> QED
    BY <2>3, <2>4, <2>5 DEF PromiseStands
<1>4. QueuedFirst' /\ Rows' = Rows
  BY <1>1, <1>2 DEF Promises, QueuedFirst, Rows
<1>5. DOMAIN promise' \in SUBSET (Rows' \ future') /\ \A r \in DOMAIN promise' : promise'[r] \in Int
  BY <1>1, <1>4 DEF Promises
<1>6. \A s \in DOMAIN starts' : starts'[s].row \in DOMAIN promise' =>
        starts'[s].start_ts = promise'[starts'[s].row]
  BY <1>1 DEF Promises
<1>7. \A r \in queue' \cap DOMAIN promise' : PromiseStands(r)'
  BY <1>1, <1>3
<1> QED
  BY <1>4, <1>5, <1>6, <1>7 DEF Promises

(* Something ends before a reservation comes, or at its time.              *)
LEMMA EventInTime ==
  ASSUME TypeOK, NextEvent, NEW p, NEW req \in Nat, EarliestFor(p, req), clock_ts < p, clock_ts' < NEVER_TS
  PROVE  clock_ts' \in EventTimes /\ clock_ts' <= p
<1>1. PICK next_ts \in EventTimes : clock_ts' = next_ts /\ \A ts \in EventTimes : next_ts <= ts
  BY DEF NextEvent
<1>2. /\ \A s \in running : starts[s].end_ts \in Int /\ starts[s].end_ts \in EventTimes
      /\ clock_ts \in Int /\ p \in Int /\ next_ts \in Int
  <2>1. \A s \in running : starts[s].end_ts \in Int
    BY RunningFacts DEF TypeOK, StartRecord
  <2>2. \A r \in future : jobs[r].submit_ts \in Int
    BY TraceFacts DEF TypeOK
  <2> QED
    BY <2>1, <2>2 DEF EventTimes, EarliestFor, TypeOK
<1>3. CASE req > Capacity
  BY <1>1, <1>2, <1>3, NeverIsInt DEF EarliestFor
<1>4. CASE req <= Capacity
  <2>1. FreeBy(p) >= req /\ FreeBy(clock_ts) < req
    <3>1. clock_ts \in clock_ts..(p - 1)
      BY <1>2
    <3> QED
      BY <1>4, <3>1 DEF EarliestFor
  <2>2. FreeBy(p) \in Int /\ FreeBy(clock_ts) \in Int
    BY <1>2, FreeGrows
  <2>3. PICK s \in running : clock_ts < starts[s].end_ts /\ starts[s].end_ts <= p
    <3>1. (\A s \in running : ~ (clock_ts < starts[s].end_ts /\ starts[s].end_ts <= p)) =>
            FreeBy(clock_ts) = FreeBy(p)
      BY <1>2, FreeGrows
    <3> QED
      BY <2>1, <2>2, <3>1
  <2> QED
    BY <1>1, <1>2, <2>3
<1> QED
  BY <1>2, <1>3, <1>4, CapacityAssumption

(* What ends at an event is free by that time before and after.            *)
LEMMA EventKeeps ==
  ASSUME TypeOK, StartsApart, NextEvent, NEW p, NEW req \in Nat, EarliestFor(p, req), clock_ts < p,
         clock_ts <= clock_ts', clock_ts' < NEVER_TS
  PROVE  EarliestFor(p, req)'
<1>0. clock_ts' \in EventTimes /\ clock_ts' <= p
  BY EventInTime
<1>1. PICK next_ts : next_ts = clock_ts'
  OBVIOUS
<1> DEFINE done == Completing(next_ts)
<1>2. /\ free_cpus' = free_cpus + Cpus(done, starts)
      /\ running' = running \ done
      /\ starts' = starts
  BY <1>1 DEF NextEvent, Released, StartsApart, Completing
<1>3. /\ IsFiniteSet(running) /\ CpuList(running, starts) /\ free_cpus \in Int /\ clock_ts \in Int
      /\ p \in Int /\ clock_ts <= p /\ next_ts \in Int
      /\ \A s \in running : starts[s].end_ts \in Int
  <2>1. \A s \in running : starts[s].end_ts \in Int
    BY RunningFacts DEF TypeOK, StartRecord
  <2>2. \A r \in future : jobs[r].submit_ts \in Int
    BY TraceFacts DEF TypeOK
  <2> QED
    BY <1>0, <1>1, <2>1, <2>2, RunningFacts DEF EventTimes, EarliestFor, TypeOK
<1>4. ASSUME NEW t \in Int, next_ts <= t PROVE FreeBy(t)' = FreeBy(t) /\ FreeBy(t) \in Int
  <2> DEFINE ended == EndedBy(t)
  <2>1. ended \in SUBSET running /\ done \in SUBSET ended
    BY <1>3, <1>4 DEF EndedBy, Completing
  <2>2. EndedBy(t)' = ended \ done
    BY <1>2 DEF EndedBy
  <2> HIDE DEF ended, done
  <2>3. IsFiniteSet(ended) /\ CpuList(ended, starts)
    BY <1>3, <2>1, FS_Subset DEF CpuList
  <2>4. Cpus(ended \ done, starts) = Cpus(ended, starts) - Cpus(done, starts)
    BY <2>1, <2>3, CpusDifference
  <2>5. Cpus(ended, starts) \in Nat /\ Cpus(done, starts) \in Nat
    BY <2>1, <2>3, CpusPart
  <2>6. FreeBy(t)' = free_cpus' + Cpus(EndedBy(t)', starts')
    BY DEF FreeBy, Cpus, CpuSlots
  <2>7. FreeBy(t) = free_cpus + Cpus(ended, starts)
    BY DEF FreeBy, ended
  <2>8. FreeBy(t)' = (free_cpus + Cpus(done, starts)) + (Cpus(ended, starts) - Cpus(done, starts))
    BY <1>2, <2>2, <2>4, <2>6
  <2> QED
    BY <1>3, <2>5, <2>7, <2>8
<1>5. CASE req > Capacity
  BY <1>0, <1>3, <1>5, CapacityAssumption DEF EarliestFor
<1>6. CASE req <= Capacity
  <2>1. FreeBy(p) >= req /\ \A t \in clock_ts..(p - 1) : FreeBy(t) < req
    BY <1>6 DEF EarliestFor
  <2>2. FreeBy(p)' >= req
    BY <1>0, <1>1, <1>3, <1>4, <2>1
  <2>3. \A t \in next_ts..(p - 1) : FreeBy(t)' < req
    <3> SUFFICES ASSUME NEW t \in next_ts..(p - 1) PROVE FreeBy(t)' < req
      OBVIOUS
    <3>1. t \in Int /\ next_ts <= t /\ t \in clock_ts..(p - 1)
      BY <1>1, <1>3
    <3> QED
      BY <1>4, <2>1, <3>1
  <2>4. p \in Int /\ clock_ts' <= p /\ clock_ts'..(p - 1) = next_ts..(p - 1)
    BY <1>0, <1>1, <1>3
  <2> QED
    BY <1>6, <2>2, <2>3, <2>4, CapacityAssumption DEF EarliestFor
<1> QED
  BY <1>5, <1>6, CapacityAssumption

(* An event brings the next rows behind those that wait, and the time of a *)
(* reservation no sooner than it comes.                                    *)
LEMMA EventKeepsPromises ==
  ASSUME DistinctIds, LoopInvariant, LoopInvariant', StartsOnce, TimesBounded, TimesBounded',
         NextEvent, UNCHANGED policyVars, Promises
  PROVE  Promises'
<1>0. TypeOK /\ StartsApart /\ ClockInOrder
  BY DistinctRun
<1>1. PICK next_ts \in EventTimes :
        /\ \A ts \in EventTimes : next_ts <= ts
        /\ clock_ts' = next_ts
        /\ future' = future \ {r \in future : jobs[r].submit_ts = next_ts}
        /\ queue' = queue \cup {r \in future : jobs[r].submit_ts = next_ts}
  BY DEF NextEvent
<1>2. /\ pc = "loop" /\ pc' = "decide"
      /\ UNCHANGED <<jobs, starts, promise>>
  BY DEF NextEvent, policyVars
<1>3. /\ \A r \in Rows : jobs[r].submit_ts \in Int /\ r \in Int
      /\ future \in SUBSET Rows /\ queue \in SUBSET Rows /\ clock_ts \in Int
      /\ \A q, r \in Rows : q < r => jobs[q].submit_ts <= jobs[r].submit_ts
  <2>1. jobs \in Traces /\ DOMAIN jobs = Rows /\ \A r \in Rows : jobs[r].submit_ts \in Int
    BY <1>0, TraceFacts DEF TypeOK
  <2>2. \A q, r \in Rows : q < r => jobs[q].submit_ts <= jobs[r].submit_ts
    BY <2>1, TracesAssumption DEF IsTrace
  <2> QED
    BY <1>0, <2>1, <2>2, TraceFacts DEF TypeOK, Rows
<1>4. ASSUME NEW q \in future, NEW r \in future, jobs[q].submit_ts = next_ts, jobs[r].submit_ts # next_ts
      PROVE  q < r
  <2>1. jobs[r].submit_ts \in EventTimes
    BY DEF EventTimes
  <2>2. jobs[q].submit_ts < jobs[r].submit_ts
    BY <1>1, <1>3, <1>4, <2>1
  <2>3. q # r /\ ~ r < q
    BY <1>3, <1>4, <2>2
  <2> QED
    BY <1>3, <2>3
<1>5. QueuedFirst'
  <2>1. QueuedFirst
    BY DEF Promises
  <2> QED
    BY <1>1, <1>4, <2>1 DEF QueuedFirst
<1>6. queue' \cap DOMAIN promise = queue \cap DOMAIN promise
  BY <1>1 DEF Promises
<1>7. clock_ts' \in Int /\ clock_ts' < NEVER_TS /\ clock_ts <= clock_ts'
  <2>1. clock_ts' \in Int
    BY DEF LoopInvariant, TypeOK
  <2>2. clock_ts' <= LastSubmit + Len(starts) * LongestRuntime
    BY <1>2 DEF TimesBounded, LastSubmit, LongestRuntime
  <2>3. \A ts \in EventTimes : clock_ts <= ts
    BY <1>0, <1>2 DEF ClockInOrder, EventTimes
  <2> QED
    BY <1>0, <1>1, <2>1, <2>2, <2>3, BeforeNever
<1>8. ASSUME NEW r \in queue \cap DOMAIN promise PROVE PromiseStands(r)'
  <2>1. /\ PromiseStands(r) /\ clock_ts < promise[r] /\ Expected(r) /\ \A q \in queue : r <= q
        /\ jobs[r].requested_cpus \in Nat /\ r \in Int
    BY <1>0, <1>2, <1>3, <1>8, TraceFacts DEF Promises, PromiseStands, TypeOK
  <2>2. PICK p : p = promise[r]
    OBVIOUS
  <2>3. PICK req : req = jobs[r].requested_cpus
    OBVIOUS
  <2>4. EarliestFor(p, req) /\ req \in Nat /\ clock_ts < p
    BY <2>1, <2>2, <2>3 DEF Expected
  <2>5. EarliestFor(p, req)'
    BY <1>0, <1>7, <2>4, EventKeeps
  <2>6. promise'[r] = p /\ jobs'[r].requested_cpus = req
    BY <1>2, <2>2, <2>3
  <2>7. Expected(r)'
    BY <2>5, <2>6 DEF Expected
  <2>8. \A q \in queue' : r <= q
    <3>1. \A q \in future : r < q
      BY <1>8 DEF Promises, QueuedFirst
    <3> QED
      BY <1>1, <1>3, <2>1, <3>1
  <2> QED
    BY <1>2, <2>7, <2>8 DEF PromiseStands
<1>9. Rows' = Rows
  BY <1>2 DEF Rows
<1>10. DOMAIN promise' \in SUBSET (Rows' \ future') /\ \A r \in DOMAIN promise' : promise'[r] \in Int
  BY <1>1, <1>2, <1>9 DEF Promises
<1>11. \A s \in DOMAIN starts' : starts'[s].row \in DOMAIN promise' =>
         starts'[s].start_ts = promise'[starts'[s].row]
  BY <1>2 DEF Promises
<1>12. \A r \in queue' \cap DOMAIN promise' : PromiseStands(r)'
  BY <1>2, <1>6, <1>8
<1> QED
  BY <1>5, <1>10, <1>11, <1>12 DEF Promises

(* Every step of the loop under a policy keeps them.                        *)
LEMMA PromiseInvStep ==
  ASSUME DistinctIds, PolicyInv, PolicyInv', PromiseInv, [PolicyNext]_<<vars, policyVars>>
  PROVE  PromiseInv'
<1>0. /\ LoopInvariant /\ LoopInvariant' /\ StartsOnce /\ TimesBounded /\ TimesBounded' /\ AnswerFits /\ TypeOK
  BY DEF PolicyInv, LoopInvariant
<1>1. UNCHANGED <<jobs, policy, strict_uncertainty>>
  BY DEF PolicyNext, PolicyDecide, LoopStep, policyVars, vars, Next, NextEvent, RaiseDeadlock, Finish,
     ReceiveDecision, SkipDecision, StartJob, EndTick, RaiseStrict, Terminated
<1>2. SUFFICES ASSUME policy \in EasyFamily, NoJobOutrunsItsGate PROVE Promises'
  <2>1. (policy \in EasyFamily)' = (policy \in EasyFamily) /\ (NoJobOutrunsItsGate)' = NoJobOutrunsItsGate
    BY <1>1 DEF NoJobOutrunsItsGate, GateRuntime, MlGate, OrElse, Rows
  <2> QED
    BY <1>2, <2>1 DEF PromiseInv
<1>3. Promises
  BY <1>2 DEF PromiseInv
<1>4. CASE PolicyDecide
  BY <1>2, <1>3, <1>4, DecideKeeps
<1>5. CASE NextEvent /\ UNCHANGED policyVars
  BY <1>0, <1>3, <1>5, EventKeepsPromises
<1>6. CASE StartJob /\ UNCHANGED policyVars
  BY <1>0, <1>3, <1>6, StartKeepsPromises
<1>7. CASE (EndTick \/ RaiseStrict) /\ UNCHANGED policyVars
  BY <1>0, <1>3, <1>7, EndTickKeepsPromises
<1>8. CASE SkipDecision
  BY <1>0, <1>8, NextFits DEF SkipDecision
<1>9. CASE (RaiseDeadlock \/ Finish) /\ UNCHANGED policyVars
  <2>1. /\ pc' \in {"deadlock", "finished"}
        /\ UNCHANGED <<jobs, clock_ts, future, queue, starts, running, free_cpus, promise>>
    BY <1>9 DEF RaiseDeadlock, Finish, policyVars
  <2> QED
    BY <1>3, <2>1 DEF Promises, PromiseStands, QueuedFirst, Rows
<1>10. CASE UNCHANGED <<vars, policyVars>>
  <2>1. UNCHANGED <<jobs, pc, clock_ts, future, queue, starts, running, free_cpus, decision, pos, promise>>
    BY <1>10 DEF vars, policyVars
  <2>2. \A r : Expected(r)' = Expected(r)
    BY <2>1 DEF Expected, EarliestFor, FreeBy, EndedBy, Cpus, CpuSlots
  <2>3. NamedFrom(1)' = NamedFrom(1) /\ NamedFrom(pos)' = NamedFrom(pos)
    BY <2>1 DEF NamedFrom, RowId
  <2> QED
    BY <1>3, <2>1, <2>2, <2>3 DEF Promises, PromiseStands, QueuedFirst, Rows
<1> QED
  BY <1>4, <1>5, <1>6, <1>7, <1>8, <1>9, <1>10 DEF PolicyNext, LoopStep, Next, ReceiveDecision, Terminated

(* Nothing has been promised before the first event.                        *)
LEMMA PromiseInvInit == ASSUME PolicyInit PROVE PromiseInv
<1>1. starts = <<>> /\ promise = <<>> /\ queue = {}
  BY DEF PolicyInit, StartRun
<1>2. DOMAIN starts = {} /\ DOMAIN promise = {}
  BY <1>1
<1> QED
  BY <1>1, <1>2 DEF PromiseInv, Promises, QueuedFirst

(* Under the EASY family, when no gate runtime is below the real one, a    *)
(* job that comes to the head of the queue starts at the very time         *)
(* _reservation_ts_for_hol first gave for it, however many jobs are let    *)
(* past it and however often the reservation is computed again.            *)
THEOREM HeadsStartAsReserved == ASSUME DistinctIds PROVE PolicySpec => []HolPromiseKept
<1>1. PromiseInv => HolPromiseKept
  BY DEF PromiseInv, HolPromiseKept, Promises, PromiseStands
<1> QED
  BY <1>1, PolicyInvHolds, PromiseInvInit, PromiseInvStep, PTL DEF PolicySpec
=============================================================================
