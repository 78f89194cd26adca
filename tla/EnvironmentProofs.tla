-------------------------- MODULE EnvironmentProofs --------------------------
(***************************************************************************)
(* Proofs about the Gymnasium environment, for every capacity, every list  *)
(* of rows, every window and every agent, whether it heeds the mask or not,*)
(* and about the policy search, for every trace, set of actions and number *)
(* of trials.                                                              *)
(*                                                                         *)
(* Of a window whose jobs have distinct ids: each job of it is in one      *)
(* place, CPUs add up, each completion is paid for once, no advance gives  *)
(* up, and an agent that is asked has something to do unless nothing can   *)
(* ever be done.                                                           *)
(***************************************************************************)
EXTENDS RLSchedulerEnv, SchedulingEnv, SharedLemmas

EnvHolders == [job : 1..Len(jobs), start_ts : Int, end_ts : Int]

WindowJob == [job_id : Int, submit_ts : Int, runtime_actual_sec : Nat, requested_cpus : Nat \ {0}]

EnvTypeOK ==
  /\ jobs \in Seq(WindowJob) /\ Len(jobs) <= MaxJobs
  /\ env_pc \in {"advance", "decide", "terminated"}
  /\ clock_ts \in Int /\ free_cpus \in Int
  /\ submit_idx \in 0..Len(jobs)
  /\ queued \in SUBSET (1..submit_idx)
  /\ running \in SUBSET EnvHolders /\ IsFiniteSet(running)
  /\ completed \in SUBSET EnvHolders /\ IsFiniteSet(completed)
  /\ advanced \in SUBSET completed
  /\ steps \in Nat
  /\ reward \in [slowdowns : Int, penalties : Int]

(* Each job that was admitted waits, runs or is complete, once.            *)
EnvPlaces ==
  /\ running \cap completed = {}
  /\ \A g, h \in running \cup completed : g.job = h.job => g = h
  /\ \A h \in running \cup completed : h.job \in 1..submit_idx /\ h.job \notin queued
  /\ \A i \in 1..submit_idx : i \in queued \/ \E h \in running \cup completed : h.job = i

EnvTimes ==
  /\ \A i \in queued : jobs[i].submit_ts <= clock_ts
  /\ \A h \in running \cup completed : jobs[h.job].submit_ts <= h.start_ts

EnvAccounts ==
  /\ free_cpus >= 0 /\ free_cpus + CpusOf(running) = EnvCapacity
  /\ reward.slowdowns + Slowdowns(advanced) = Slowdowns(completed)

(* When the agent is asked, the clock cannot go on without it.             *)
EnvAsked == env_pc = "decide" => SomethingFits \/ NextEventTs = {}

(* Each iteration of an advance admits a job or completes one.             *)
EnvSteps == steps <= submit_idx + Cardinality(completed)

EnvInv == DistinctIds => EnvTypeOK /\ EnvPlaces /\ EnvTimes /\ EnvAccounts /\ EnvAsked /\ EnvSteps

(* The fields of a job of the window.                                      *)
LEMMA WindowJobIs ==
  ASSUME jobs \in Seq(WindowJob), NEW i \in 1..Len(jobs)
  PROVE  /\ jobs[i].job_id \in Int /\ jobs[i].submit_ts \in Int
         /\ jobs[i].runtime_actual_sec \in Nat /\ jobs[i].requested_cpus \in Nat \ {0}
  <1>1. jobs[i] \in WindowJob
    OBVIOUS
  <1> QED
    BY <1>1 DEF WindowJob

(* Sums of CPUs are over parts.                                            *)
LEMMA CpusSplit ==
  ASSUME jobs \in Seq(WindowJob), NEW S \in SUBSET EnvHolders, IsFiniteSet(S), NEW T \in SUBSET S
  PROVE  CpusOf(T) + CpusOf(S \ T) = CpusOf(S) /\ CpusOf(T) \in Nat /\ CpusOf(S \ T) \in Nat /\ CpusOf(S) \in Nat
  <1> DEFINE size == [r \in S |-> jobs[r.job].requested_cpus]
             sizeT == [r \in T |-> jobs[r.job].requested_cpus]
             rest == S \ T
             sizeRest == [r \in rest |-> jobs[r.job].requested_cpus]
  <1>1. \A r \in S : size[r] \in Nat
    <2> SUFFICES ASSUME NEW r \in S PROVE jobs[r.job].requested_cpus \in Nat
      OBVIOUS
    <2>1. r.job \in 1..Len(jobs)
      BY DEF EnvHolders
    <2> QED
      BY <2>1, WindowJobIs
  <1>2. (\A r \in T : size[r] = sizeT[r]) /\ (\A r \in rest : size[r] = sizeRest[r])
    OBVIOUS
  <1>3. CpusOf(S) = TotalOf(size, S) /\ CpusOf(T) = TotalOf(sizeT, T) /\ CpusOf(rest) = TotalOf(sizeRest, rest)
    BY DEF CpusOf
  <1> HIDE DEF size, sizeT, sizeRest
  <1>4. /\ TotalOf(size, S) \in Nat /\ TotalOf(size, T) \in Nat /\ TotalOf(size, S \ T) \in Nat
        /\ TotalOf(size, T) + TotalOf(size, S \ T) = TotalOf(size, S)
    BY <1>1, TotalSplit
  <1>5. TotalOf(size, T) = TotalOf(sizeT, T) /\ TotalOf(size, rest) = TotalOf(sizeRest, rest)
    BY <1>2, TotalSame
  <1> QED
    BY <1>3, <1>4, <1>5

(* A slowdown is a number.                                                 *)
LEMMA EnvBsldNat ==
  ASSUME jobs \in Seq(WindowJob), NEW r \in EnvHolders
  PROVE  EnvBsld(r) \in Nat
  <1> DEFINE over == RewardFloorSec * (RewardFloorSec + 1)
             wait == r.start_ts - jobs[r.job].submit_ts
             span == Max({r.end_ts - r.start_ts, RewardFloorSec})
  <1>1. r.start_ts \in Int /\ r.end_ts \in Int /\ r.job \in 1..Len(jobs) /\ RewardFloorSec \in Nat \ {0}
    BY EnvAssumption DEF EnvHolders
  <1>2. jobs[r.job].submit_ts \in Int
    BY <1>1, WindowJobIs
  <1>3. PICK floor \in Nat \ {0} : floor = RewardFloorSec
    BY <1>1
  <1>4. floor * (floor + 1) \in Nat
    OBVIOUS
  <1>5. over \in Nat /\ wait \in Int
    BY <1>1, <1>2, <1>3, <1>4
  <1>6. span \in Int /\ span > 0
    <2>1. r.end_ts - r.start_ts \in Int
      BY <1>1
    <2>2. \A a, b \in Int : b > 0 => (IF a >= b THEN a ELSE b) > 0
      OBVIOUS
    <2> QED
      BY <1>1, <2>1, <2>2, PairMax
  <1>7. EnvBsld(r) = Max({over, (wait * over) \div span})
    BY DEF EnvBsld
  <1> HIDE DEF over, wait, span
  <1>8. PICK p \in Int : p = wait * over
    BY <1>5
  <1>9. p \div span \in Int
    BY <1>6, <1>8
  <1>10. PICK q \in Int : q = (wait * over) \div span
    BY <1>8, <1>9
  <1>11. Max({over, q}) = IF over >= q THEN over ELSE q
    BY <1>5, <1>10, PairMax
  <1> QED
    BY <1>5, <1>7, <1>10, <1>11

(* Sums of slowdowns are over parts.                                       *)
LEMMA SlowdownsSplit ==
  ASSUME jobs \in Seq(WindowJob), NEW S \in SUBSET EnvHolders, IsFiniteSet(S), NEW T \in SUBSET S
  PROVE  /\ Slowdowns(T) + Slowdowns(S \ T) = Slowdowns(S)
         /\ Slowdowns(T) \in Nat /\ Slowdowns(S \ T) \in Nat /\ Slowdowns(S) \in Nat
  <1> DEFINE size == [r \in S |-> EnvBsld(r)]
             sizeT == [r \in T |-> EnvBsld(r)]
             rest == S \ T
             sizeRest == [r \in rest |-> EnvBsld(r)]
  <1>1. \A r \in S : size[r] \in Nat
    BY EnvBsldNat
  <1>2. (\A r \in T : size[r] = sizeT[r]) /\ (\A r \in rest : size[r] = sizeRest[r])
    OBVIOUS
  <1>3. Slowdowns(S) = TotalOf(size, S) /\ Slowdowns(T) = TotalOf(sizeT, T) /\ Slowdowns(rest) = TotalOf(sizeRest, rest)
    BY DEF Slowdowns
  <1> HIDE DEF size, sizeT, sizeRest
  <1>4. /\ TotalOf(size, S) \in Nat /\ TotalOf(size, T) \in Nat /\ TotalOf(size, S \ T) \in Nat
        /\ TotalOf(size, T) + TotalOf(size, S \ T) = TotalOf(size, S)
    BY <1>1, TotalSplit
  <1>5. TotalOf(size, T) = TotalOf(sizeT, T) /\ TotalOf(size, rest) = TotalOf(sizeRest, rest)
    BY <1>2, TotalSame
  <1> QED
    BY <1>3, <1>4, <1>5

(* Whatever the rows, the jobs of a window are of that kind.               *)
LEMMA WindowOfTrace ==
  ASSUME NEW trace \in AllJobs, NEW offset \in 0..Max({0, Len(SortedTrace(trace)) - MaxJobs}),
         NEW sorted, sorted = SortedTrace(trace)
  PROVE  Window(sorted, offset) \in Seq(WindowJob) /\ Len(Window(sorted, offset)) <= MaxJobs
  <1>1. trace \in Seq(TraceRow) /\ MaxJobs \in Nat
    BY EnvAssumption
  <1>2. PICK n \in Nat : n = Len(trace) /\ DOMAIN trace = 1..n
    <2>1. Len(trace) \in Nat /\ DOMAIN trace = 1..Len(trace)
      BY <1>1
    <2> QED
      BY <2>1
  <1> DEFINE items == [i \in DOMAIN trace |-> Coerced(trace[i])]
             key == [i \in DOMAIN trace |-> <<trace[i].submit_ts, trace[i].job_id>>]
             m == Min({n - offset, MaxJobs})
  <1>3. \A i \in 1..n : /\ items[i] \in WindowJob
                        /\ trace[i].submit_ts \in Int /\ trace[i].job_id \in Int
    <2> TAKE i \in 1..n
    <2>1. trace[i] \in TraceRow
      BY <1>1, <1>2
    <2>2. /\ trace[i].submit_ts \in Int /\ trace[i].job_id \in Int
          /\ trace[i].runtime_actual_sec \in Int /\ trace[i].requested_cpus \in Int
      BY <2>1 DEF TraceRow
    <2>3. Clip(trace[i].runtime_actual_sec) \in Nat
      BY <2>2 DEF Clip
    <2>4. (IF trace[i].requested_cpus < 1 THEN 1 ELSE trace[i].requested_cpus) \in Nat \ {0}
      BY <2>2
    <2>5. items[i] = Coerced(trace[i])
      BY <1>2
    <2> HIDE DEF items
    <2>6. items[i] \in WindowJob
      BY <2>2, <2>3, <2>4, <2>5 DEF Coerced, WindowJob
    <2> QED
      BY <2>2, <2>6
  <1>4. SortKeys(key, n)
    BY <1>2, <1>3 DEF SortKeys
  <1>5. DOMAIN items = 1..n /\ sorted = Sorted(items, key)
    BY <1>2 DEF SortedTrace
  <1> HIDE DEF items, key
  <1>6. PICK order : Permuted(order, items, key, n)
    BY <1>4, <1>5, SortedIs
  <1>7. sorted = [p \in 1..n |-> items[order[p]]] /\ \A p \in 1..n : order[p] \in 1..n
    BY <1>5, <1>6 DEF Permuted, Ordering, Bijection, Injection
  <1>8. Len(sorted) = n /\ \A p \in 1..n : sorted[p] \in WindowJob
    BY <1>3, <1>7
  <1>9. offset \in Nat /\ offset <= n
    <2>1. n - MaxJobs \in Int
      BY <1>1
    <2>2. Max({0, n - MaxJobs}) = (IF 0 >= n - MaxJobs THEN 0 ELSE n - MaxJobs)
      BY <2>1, PairMax
    <2>3. offset \in 0..(IF 0 >= n - MaxJobs THEN 0 ELSE n - MaxJobs)
      BY <1>8, <2>2
    <2> QED
      BY <1>1, <2>3
  <1>10. m \in Nat /\ m <= n - offset /\ m <= MaxJobs
    <2>1. PICK k \in Nat : k = n - offset
      BY <1>9
    <2>2. k \in Int /\ MaxJobs \in Int
      BY <1>1, <2>1
    <2>3. Min({k, MaxJobs}) = IF k <= MaxJobs THEN k ELSE MaxJobs
      BY <2>2, PairMax
    <2>4. m = Min({k, MaxJobs})
      BY <2>1
    <2> HIDE DEF m
    <2> QED
      BY <1>1, <2>1, <2>3, <2>4
  <1>11. Window(sorted, offset) =
           [i \in 1..m |-> [sorted[offset + i] EXCEPT !.submit_ts = @ - sorted[offset + 1].submit_ts]]
    BY <1>8 DEF Window
  <1> HIDE DEF m
  <1>12. ASSUME NEW i \in 1..m
         PROVE  [sorted[offset + i] EXCEPT !.submit_ts = @ - sorted[offset + 1].submit_ts] \in WindowJob
    <2>1. offset + i \in 1..n /\ offset + 1 \in 1..n
      BY <1>9, <1>10
    <2>2. PICK j \in WindowJob, first \in WindowJob : j = sorted[offset + i] /\ first = sorted[offset + 1]
      BY <1>8, <2>1
    <2>3. j.submit_ts \in Int /\ first.submit_ts \in Int
      BY DEF WindowJob
    <2>4. [j EXCEPT !.submit_ts = @ - first.submit_ts] \in WindowJob
      BY <2>3 DEF WindowJob
    <2> QED
      BY <2>2, <2>4
  <1>13. PICK window : window = Window(sorted, offset)
    OBVIOUS
  <1>14. window \in [1..m -> WindowJob]
    BY <1>11, <1>12, <1>13
  <1>15. window \in Seq(WindowJob) /\ Len(window) = m
    BY <1>10, <1>14
  <1> QED
    BY <1>10, <1>13, <1>15

(* An episode starts with nothing done.                                    *)
LEMMA EnvInitInv == EnvInit => EnvInv
  <1> SUFFICES ASSUME EnvInit PROVE EnvInv
    OBVIOUS
  <1>1. jobs \in Seq(WindowJob) /\ Len(jobs) <= MaxJobs
    <2>1. PICK trace \in AllJobs : all_jobs = SortedTrace(trace)
      BY Zenon DEF EnvInit
    <2>2. PICK offset \in 0..Max({0, Len(all_jobs) - MaxJobs}) : jobs = Window(all_jobs, offset)
      BY Zenon DEF EnvInit
    <2> QED
      BY <2>1, <2>2, WindowOfTrace
  <1>2. CpusOf({}) = 0 /\ Slowdowns({}) = 0
    BY TotalNone DEF CpusOf, Slowdowns
  <1>3. IsFiniteSet({})
    BY FS_EmptySet
  <1>4. Len(jobs) \in Nat
    BY <1>1
  <1>5. EnvTypeOK
    BY <1>1, <1>3, <1>4, EnvAssumption DEF EnvInit, EnvTypeOK
  <1>6. EnvPlaces /\ EnvTimes /\ EnvAsked /\ EnvSteps
    <2>1. Cardinality({}) = 0
      BY FS_EmptySet
    <2>2. EnvPlaces /\ EnvTimes /\ EnvAsked
      BY DEF EnvInit, EnvPlaces, EnvTimes, EnvAsked
    <2>3. EnvSteps
      BY <2>1 DEF EnvInit, EnvSteps
    <2> QED
      BY <2>2, <2>3
  <1>7. EnvAccounts
    BY <1>2, EnvAssumption DEF EnvInit, EnvAccounts
  <1> QED
    BY <1>5, <1>6, <1>7 DEF EnvInv

(* The places of jobs that are admitted while others end.                  *)
LEMMA AdmitPlaces ==
  ASSUME EnvTypeOK, EnvPlaces, EnvTimes, NEW ts \in Int, clock_ts <= ts, AdmitArrivals(ts),
         NEW done \in SUBSET running, running' = running \ done, completed' = completed \cup done,
         jobs' = jobs, clock_ts' = ts
  PROVE  /\ submit_idx' \in 0..Len(jobs) /\ queued' \in SUBSET (1..submit_idx')
         /\ EnvPlaces' /\ EnvTimes'
  <1>1. /\ submit_idx \in Nat /\ Len(jobs) \in Nat /\ submit_idx <= Len(jobs)
        /\ submit_idx' \in submit_idx..Len(jobs)
        /\ queued' = queued \cup ((submit_idx + 1)..submit_idx')
        /\ queued \in SUBSET (1..submit_idx)
    BY DEF EnvTypeOK, AdmitArrivals
  <1>2. PICK k \in Nat : k = submit_idx' /\ submit_idx <= k /\ k <= Len(jobs)
    BY <1>1
  <1>3. queued' = queued \cup ((submit_idx + 1)..k)
    BY <1>1, <1>2
  <1>4. 1..k = (1..submit_idx) \cup ((submit_idx + 1)..k) /\ (1..submit_idx) \cap ((submit_idx + 1)..k) = {}
    BY <1>1, <1>2
  <1>5. running' \cup completed' = running \cup completed
    OBVIOUS
  <1>6. EnvPlaces'
    <2>1. running' \cap completed' = {}
      BY DEF EnvPlaces
    <2>2. \A h \in running \cup completed : h.job \in 1..k /\ h.job \notin queued'
      BY <1>3, <1>4 DEF EnvPlaces
    <2>3. \A i \in 1..k : i \in queued' \/ \E h \in running \cup completed : h.job = i
      BY <1>3, <1>4 DEF EnvPlaces
    <2> QED
      BY <1>2, <1>5, <2>1, <2>2, <2>3 DEF EnvPlaces
  <1>7. EnvTimes'
    <2>1. ASSUME NEW i \in queued' PROVE jobs[i].submit_ts <= ts
      <3>1. CASE i \in queued
        <4>1. i \in 1..Len(jobs) /\ jobs \in Seq(WindowJob) /\ clock_ts \in Int
          BY <1>1, <3>1 DEF EnvTypeOK
        <4>2. jobs[i].submit_ts \in Int /\ jobs[i].submit_ts <= clock_ts
          BY <3>1, <4>1, WindowJobIs DEF EnvTimes
        <4> QED
          BY <4>1, <4>2
      <3>2. CASE i \in (submit_idx + 1)..k
        BY <1>2, <3>2 DEF AdmitArrivals, HasArrived
      <3> QED
        BY <1>3, <3>1, <3>2
    <2> QED
      BY <1>5, <2>1 DEF EnvTimes
  <1>8. submit_idx' \in 0..Len(jobs)
    BY <1>1, <1>2
  <1>9. queued' \in SUBSET (1..submit_idx')
    BY <1>1, <1>2, <1>3, <1>4
  <1> QED
    BY <1>6, <1>7, <1>8, <1>9

(* The clock goes to the first of finitely many times.                     *)
LEMMA ClockIs ==
  ASSUME EnvTypeOK, NextEventTs # {}
  PROVE  /\ Max({clock_ts, Min(NextEventTs)}) \in Int /\ clock_ts <= Max({clock_ts, Min(NextEventTs)})
         /\ \E t \in NextEventTs : t <= Max({clock_ts, Min(NextEventTs)})
  <1> DEFINE ends == {r.end_ts : r \in running}
             f == [r \in running |-> r.end_ts]
             first == {submit_idx + 1} \cap DOMAIN jobs
             g == [i \in first |-> jobs[i].submit_ts]
             next == {jobs[i].submit_ts : i \in first}
  <1>1. IsFiniteSet(ends)
    <2>1. DOMAIN f = running /\ {f[x] : x \in DOMAIN f} = ends /\ IsFiniteSet(running)
      BY DEF EnvTypeOK
    <2> HIDE DEF f, ends
    <2> QED
      BY <2>1, ImageIsFinite
  <1>2. IsFiniteSet(next)
    <2>1. IsFiniteSet({submit_idx + 1}) /\ first \in SUBSET {submit_idx + 1}
      BY FS_Singleton
    <2>2. IsFiniteSet(first)
      BY <2>1, FS_Subset
    <2>3. DOMAIN g = first /\ {g[x] : x \in DOMAIN g} = next
      OBVIOUS
    <2> HIDE DEF g, first, next
    <2> QED
      BY <2>2, <2>3, ImageIsFinite
  <1>3. ends \in SUBSET Int
    BY DEF EnvTypeOK, EnvHolders
  <1>4. next \in SUBSET Int
    <2>1. DOMAIN jobs = 1..Len(jobs) /\ jobs \in Seq(WindowJob)
      BY DEF EnvTypeOK
    <2>2. \A i \in first : jobs[i].submit_ts \in Int
      BY <2>1, WindowJobIs
    <2> QED
      BY <2>2
  <1>5. NextEventTs = next \cup ends
    BY DEF NextEventTs
  <1> HIDE DEF ends, next
  <1>6. IsFiniteSet(NextEventTs) /\ NextEventTs \in SUBSET Int
    BY <1>1, <1>2, <1>3, <1>4, <1>5, FS_Union
  <1>7. PICK t \in Int : t = Min(NextEventTs) /\ t \in NextEventTs
    BY <1>6, MinOfFinite
  <1>8. clock_ts \in Int
    BY DEF EnvTypeOK
  <1>9. Max({clock_ts, t}) = (IF clock_ts >= t THEN clock_ts ELSE t)
    BY <1>8, PairMax
  <1> QED
    BY <1>7, <1>8, <1>9

(* What is due and what bears an id of it are the same.                    *)
LEMMA DueOnly ==
  ASSUME EnvTypeOK, EnvPlaces, DistinctIds, NEW ts
  PROVE  {r \in running : jobs[r.job].job_id \notin {jobs[q.job].job_id : q \in Due(ts)}} = running \ Due(ts)
  <1>1. Due(ts) \in SUBSET running
    BY DEF Due
  <1>2. \A q, r \in running : jobs[q.job].job_id = jobs[r.job].job_id => q = r
    <2> SUFFICES ASSUME NEW q \in running, NEW r \in running, jobs[q.job].job_id = jobs[r.job].job_id
                 PROVE  q = r
      OBVIOUS
    <2>1. q.job \in DOMAIN jobs /\ r.job \in DOMAIN jobs
      BY DEF EnvTypeOK, EnvHolders
    <2>2. q.job = r.job
      BY <2>1 DEF DistinctIds
    <2> QED
      BY <2>2 DEF EnvPlaces
  <1> QED
    BY <1>1, <1>2

(* A window has too few events for an advance to give up.                  *)
LEMMA StepsBounded ==
  ASSUME EnvTypeOK, EnvPlaces, EnvSteps
  PROVE  steps < MaxSteps
  <1> DEFINE place == [h \in completed |-> h.job]
  <1>1. PICK n \in Nat : n = Len(jobs) /\ n <= MaxJobs /\ submit_idx \in 0..n
    <2>1. jobs \in Seq(WindowJob) /\ Len(jobs) <= MaxJobs /\ submit_idx \in 0..Len(jobs)
      BY DEF EnvTypeOK
    <2>2. Len(jobs) \in Nat
      BY <2>1
    <2> QED
      BY <2>1, <2>2, Zenon
  <1>2. place \in Injection(completed, 1..n)
    <2>1. \A h \in completed : h.job \in 1..n
      BY <1>1 DEF EnvTypeOK, EnvHolders
    <2>2. \A g, h \in completed : g.job = h.job => g = h
      BY DEF EnvPlaces
    <2>3. place \in [completed -> 1..n]
      BY <2>1
    <2>4. \A g, h \in completed : place[g] = place[h] => g = h
      BY <2>2
    <2> HIDE DEF place
    <2> QED
      BY <2>3, <2>4 DEF Injection, IsInjective
  <1> HIDE DEF place
  <1>3. IsFiniteSet(1..n) /\ Cardinality(1..n) = n
    BY FS_Interval
  <1>4. Cardinality(completed) <= n
    BY <1>2, <1>3, FS_Injection
  <1>5. PICK c \in Nat : c = Cardinality(completed) /\ c <= n
    BY <1>4, FS_CardinalityType DEF EnvTypeOK
  <1>6. steps <= submit_idx + c /\ steps \in Nat
    BY <1>5 DEF EnvSteps, EnvTypeOK
  <1> QED
    BY <1>1, <1>5, <1>6, EnvAssumption

(* At the next event a job is due or one arrives.                          *)
LEMMA EventTaken ==
  ASSUME EnvTypeOK, NextEventTs # {}, NEW ts \in Int, ts = Max({clock_ts, Min(NextEventTs)})
  PROVE  Due(ts) # {} \/ HasArrived(submit_idx + 1, ts)
  <1>1. PICK t \in NextEventTs : t <= ts
    BY ClockIs
  <1>2. CASE t \in {r.end_ts : r \in running}
    BY <1>1, <1>2 DEF Due
  <1>3. CASE t \in {jobs[i].submit_ts : i \in {submit_idx + 1} \cap DOMAIN jobs}
    BY <1>1, <1>3 DEF HasArrived
  <1> QED
    BY <1>2, <1>3 DEF NextEventTs

(* On to the next event: what ends gives its CPUs back and is to be paid.  *)
LEMMA AdvanceStep ==
  ASSUME EnvTypeOK, EnvPlaces, EnvTimes, EnvAccounts, EnvSteps, DistinctIds, AdvanceClock
  PROVE  EnvTypeOK' /\ EnvPlaces' /\ EnvTimes' /\ EnvAccounts' /\ EnvAsked' /\ EnvSteps'
  <1>1. PICK ts \in Int : ts = Max({clock_ts, Min(NextEventTs)}) /\ clock_ts <= ts
    BY ClockIs DEF AdvanceClock
  <1> DEFINE done == Due(ts)
  <1>2. /\ clock_ts' = ts /\ running' = running \ done /\ completed' = completed \cup done
        /\ free_cpus' = free_cpus + CpusOf(done) /\ advanced' = advanced \cup done
        /\ AdmitArrivals(ts) /\ env_pc = "advance"
        /\ env_pc' = env_pc /\ jobs' = jobs /\ reward' = reward /\ steps' = steps + 1
    <2>1. /\ clock_ts' = ts /\ completed' = completed \cup done
          /\ running' = {r \in running : jobs[r.job].job_id \notin {jobs[q.job].job_id : q \in Due(ts)}}
          /\ free_cpus' = free_cpus + CpusOf(done) /\ advanced' = advanced \cup done
          /\ AdmitArrivals(ts) /\ env_pc = "advance"
          /\ env_pc' = env_pc /\ jobs' = jobs /\ reward' = reward /\ steps' = steps + 1
      BY <1>1, Zenon DEF AdvanceClock, Meanwhile
    <2> QED
      BY <2>1, DueOnly
  <1>3. done \in SUBSET running /\ IsFiniteSet(done)
    BY FS_Subset DEF Due, EnvTypeOK
  <1>4. submit_idx' \in 0..Len(jobs) /\ queued' \in SUBSET (1..submit_idx') /\ EnvPlaces' /\ EnvTimes'
    BY <1>1, <1>2, <1>3, AdmitPlaces
  <1>5. /\ jobs \in Seq(WindowJob) /\ free_cpus \in Int
        /\ running \in SUBSET EnvHolders /\ IsFiniteSet(running)
        /\ completed \in SUBSET EnvHolders /\ IsFiniteSet(completed) /\ running \cap completed = {}
        /\ advanced \in SUBSET completed /\ reward.slowdowns \in Int
        /\ steps \in Nat /\ Len(jobs) <= MaxJobs
    BY DEF EnvTypeOK, EnvPlaces
  <1>5a. EnvSteps'
    <2>1. PICK i \in Nat, k \in Nat : i = submit_idx /\ k = submit_idx' /\ i <= k
      <3>1. submit_idx \in Nat /\ Len(jobs) \in Nat /\ submit_idx' \in submit_idx..Len(jobs)
        BY <1>2, <1>5 DEF EnvTypeOK, AdmitArrivals
      <3>2. submit_idx' \in Nat /\ submit_idx <= submit_idx'
        BY <3>1
      <3> QED
        BY <3>1, <3>2, Zenon
    <2>2. PICK c \in Nat : c = Cardinality(completed) /\ steps <= i + c
      BY <1>5, <2>1, FS_CardinalityType DEF EnvSteps
    <2>3. IsFiniteSet(completed')
      BY <1>2, <1>3, <1>5, FS_Union
    <2>4. PICK d \in Nat : d = Cardinality(completed') /\ c <= d
      <3>1. completed \in SUBSET completed'
        BY <1>2
      <3>2. c <= Cardinality(completed')
        BY <2>2, <2>3, <3>1, FS_Subset
      <3> QED
        BY <2>3, <3>2, FS_CardinalityType
    <2>5. CASE done # {}
      <3>1. PICK r \in done : r \notin completed
        BY <1>3, <1>5, <2>5
      <3>2. completed \cup {r} \in SUBSET completed'
        BY <1>2
      <3>3. Cardinality(completed \cup {r}) = c + 1
        BY <1>5, <2>2, <3>1, FS_AddElement
      <3>4. Cardinality(completed \cup {r}) <= Cardinality(completed')
        BY <2>3, <3>2, FS_Subset
      <3>5. c + 1 <= d
        BY <2>4, <3>3, <3>4
      <3>6. steps + 1 <= k + d
        BY <1>5, <2>1, <2>2, <2>4, <3>5
      <3> QED
        BY <1>2, <2>1, <2>4, <3>6 DEF EnvSteps
    <2>6. CASE HasArrived(submit_idx + 1, ts)
      <3>1. ~ HasArrived(submit_idx' + 1, ts)
        BY <1>2 DEF AdmitArrivals
      <3>2. jobs' = jobs /\ i # k
        BY <1>2, <2>1, <2>6, <3>1
      <3>3. steps + 1 <= k + d
        BY <1>5, <2>1, <2>2, <2>4, <3>2
      <3> QED
        BY <1>2, <2>1, <2>4, <3>3 DEF EnvSteps
    <2>7. NextEventTs # {}
      BY DEF AdvanceClock
    <2>8. Due(ts) # {} \/ HasArrived(submit_idx + 1, ts)
      BY <1>1, <2>7, EventTaken
    <2> QED
      BY <2>5, <2>6, <2>8
  <1> HIDE DEF done
  <1>6. CpusOf(done) + CpusOf(running \ done) = CpusOf(running) /\ CpusOf(done) \in Nat /\ CpusOf(running \ done) \in Nat
    BY <1>3, <1>5, CpusSplit
  <1>7. EnvTypeOK'
    <2>1. running' \in SUBSET EnvHolders' /\ IsFiniteSet(running')
      BY <1>2, <1>5, FS_Subset DEF EnvHolders
    <2>2. completed' \in SUBSET EnvHolders' /\ IsFiniteSet(completed')
      BY <1>2, <1>3, <1>5, FS_Union DEF EnvHolders
    <2>3. free_cpus' \in Int
      BY <1>2, <1>5, <1>6
    <2>4. advanced' \in SUBSET completed'
      BY <1>2, <1>5
    <2>5. steps' \in Nat /\ Len(jobs') <= MaxJobs
      BY <1>2, <1>5
    <2> QED
      BY <1>2, <1>4, <2>1, <2>2, <2>3, <2>4, <2>5 DEF EnvTypeOK
  <1>8. /\ Slowdowns(advanced \cup done) = Slowdowns(advanced) + Slowdowns(done)
        /\ Slowdowns(completed \cup done) = Slowdowns(completed) + Slowdowns(done)
        /\ Slowdowns(advanced) \in Nat /\ Slowdowns(completed) \in Nat /\ Slowdowns(done) \in Nat
    <2> DEFINE paid == advanced \cup done
               all == completed \cup done
    <2>1. paid \in SUBSET EnvHolders /\ all \in SUBSET EnvHolders
      BY <1>3, <1>5
    <2>2. IsFiniteSet(advanced)
      BY <1>5, FS_Subset
    <2>3. IsFiniteSet(paid) /\ IsFiniteSet(all)
      BY <1>3, <1>5, <2>2, FS_Union
    <2>4. done \in SUBSET paid /\ paid \ done = advanced /\ done \in SUBSET all /\ all \ done = completed
      BY <1>3, <1>5
    <2> HIDE DEF paid, all
    <2>5. Slowdowns(done) + Slowdowns(paid \ done) = Slowdowns(paid) /\ Slowdowns(paid \ done) \in Nat /\ Slowdowns(done) \in Nat
      BY <1>5, <2>1, <2>3, <2>4, SlowdownsSplit
    <2>6. Slowdowns(done) + Slowdowns(all \ done) = Slowdowns(all) /\ Slowdowns(all \ done) \in Nat
      BY <1>5, <2>1, <2>3, <2>4, SlowdownsSplit
    <2>7. paid \ done = advanced /\ all \ done = completed
      BY <2>4
    <2>8. Slowdowns(done) + Slowdowns(advanced) = Slowdowns(paid) /\ Slowdowns(advanced) \in Nat /\ Slowdowns(done) \in Nat
      BY <2>5, <2>7
    <2>9. Slowdowns(done) + Slowdowns(completed) = Slowdowns(all) /\ Slowdowns(completed) \in Nat
      BY <2>6, <2>7
    <2>10. /\ Slowdowns(paid) = Slowdowns(advanced) + Slowdowns(done)
           /\ Slowdowns(all) = Slowdowns(completed) + Slowdowns(done)
      BY <2>8, <2>9
    <2> QED
      BY <2>8, <2>9, <2>10 DEF paid, all
  <1>9. EnvAccounts'
    <2>1. CpusOf(running)' = CpusOf(running \ done)
      BY <1>2 DEF CpusOf
    <2>2. Slowdowns(advanced)' = Slowdowns(advanced \cup done)
          /\ Slowdowns(completed)' = Slowdowns(completed \cup done)
      BY <1>2 DEF Slowdowns, EnvBsld
    <2>3. free_cpus' >= 0 /\ free_cpus' + CpusOf(running \ done) = EnvCapacity
      BY <1>2, <1>5, <1>6 DEF EnvAccounts
    <2>4. reward.slowdowns + Slowdowns(advanced \cup done) = Slowdowns(completed \cup done)
      BY <1>5, <1>8 DEF EnvAccounts
    <2> QED
      BY <1>2, <2>1, <2>2, <2>3, <2>4 DEF EnvAccounts
  <1>10. EnvAsked'
    BY <1>2 DEF EnvAsked
  <1> QED
    BY <1>4, <1>5a, <1>7, <1>9, <1>10

(* What has arrived is admitted before the agent is asked.                 *)
LEMMA AdmitStep ==
  ASSUME EnvTypeOK, EnvPlaces, EnvTimes, EnvAccounts, EnvSteps, AdmitNow
  PROVE  EnvTypeOK' /\ EnvPlaces' /\ EnvTimes' /\ EnvAccounts' /\ EnvAsked' /\ EnvSteps'
  <1>1. /\ AdmitArrivals(clock_ts) /\ env_pc = "advance"
        /\ UNCHANGED <<env_pc, jobs, clock_ts, free_cpus, running, completed, advanced, steps, reward>>
    BY DEF AdmitNow
  <1>2. PICK ts \in Int, done \in SUBSET running :
          /\ AdmitArrivals(ts) /\ clock_ts <= ts /\ clock_ts' = ts /\ jobs' = jobs
          /\ running' = running \ done /\ completed' = completed \cup done
    <2>1. clock_ts \in Int /\ clock_ts <= clock_ts
      BY DEF EnvTypeOK
    <2>2. PICK done \in SUBSET running : done = {}
      OBVIOUS
    <2>3. running' = running \ done /\ completed' = completed \cup done
      BY <1>1, <2>2
    <2>4. AdmitArrivals(clock_ts) /\ clock_ts' = clock_ts /\ jobs' = jobs
      BY <1>1
    <2> QED
      BY <2>1, <2>3, <2>4
  <1>3. submit_idx' \in 0..Len(jobs) /\ queued' \in SUBSET (1..submit_idx') /\ EnvPlaces' /\ EnvTimes'
    BY <1>1, <1>2, AdmitPlaces
  <1>4. EnvTypeOK'
    BY <1>1, <1>3 DEF EnvTypeOK, EnvHolders
  <1>5. EnvAccounts'
    <2>1. CpusOf(running)' = CpusOf(running)
      BY <1>1 DEF CpusOf
    <2>2. Slowdowns(advanced)' = Slowdowns(advanced) /\ Slowdowns(completed)' = Slowdowns(completed)
      BY <1>1 DEF Slowdowns, EnvBsld
    <2> QED
      BY <1>1, <2>1, <2>2 DEF EnvAccounts
  <1>6. EnvSteps'
    <2>1. PICK i \in Nat, k \in Nat : i = submit_idx /\ k = submit_idx' /\ i <= k
      <3>1. submit_idx \in Nat /\ Len(jobs) \in Nat /\ submit_idx' \in submit_idx..Len(jobs)
        BY <1>1 DEF EnvTypeOK, AdmitArrivals
      <3>2. submit_idx' \in Nat /\ submit_idx <= submit_idx'
        BY <3>1
      <3> QED
        BY <3>1, <3>2, Zenon
    <2>2. PICK c \in Nat : c = Cardinality(completed) /\ steps <= i + c /\ steps \in Nat
      BY <2>1, FS_CardinalityType DEF EnvSteps, EnvTypeOK
    <2>3. steps <= k + c
      BY <2>1, <2>2
    <2> QED
      BY <1>1, <2>1, <2>2, <2>3 DEF EnvSteps
  <1> QED
    BY <1>1, <1>3, <1>4, <1>5, <1>6 DEF EnvAsked

(* What is complete is paid for when the agent is asked.                   *)
LEMMA ReturnStep ==
  ASSUME EnvTypeOK, EnvPlaces, EnvTimes, EnvAccounts, EnvSteps, ReturnToAgent
  PROVE  EnvTypeOK' /\ EnvPlaces' /\ EnvTimes' /\ EnvAccounts' /\ EnvAsked' /\ EnvSteps'
  <1>1. /\ SomethingFits \/ NextEventTs = {}
        /\ env_pc' \in {"terminated", "decide"} /\ advanced' = {} /\ steps' = 0
        /\ reward' = [reward EXCEPT !.slowdowns = @ + Slowdowns(advanced)]
        /\ UNCHANGED <<jobs, clock_ts, free_cpus, submit_idx, queued, running, completed>>
    <2>1. steps \in Nat /\ MaxSteps \in Nat /\ steps < MaxSteps
      BY StepsBounded, EnvAssumption DEF EnvTypeOK
    <2>2. steps # MaxSteps
      BY <2>1
    <2> QED
      BY <2>2 DEF ReturnToAgent
  <1>2. /\ jobs \in Seq(WindowJob) /\ completed \in SUBSET EnvHolders /\ IsFiniteSet(completed)
        /\ advanced \in SUBSET completed /\ reward \in [slowdowns : Int, penalties : Int]
    BY DEF EnvTypeOK
  <1>3. Slowdowns(advanced) \in Nat
    BY <1>2, SlowdownsSplit
  <1>4. reward' \in [slowdowns : Int, penalties : Int] /\ reward'.slowdowns = reward.slowdowns + Slowdowns(advanced)
    BY <1>1, <1>2, <1>3
  <1>5. EnvTypeOK'
    BY <1>1, <1>4 DEF EnvTypeOK, EnvHolders
  <1>6. EnvPlaces' /\ EnvTimes'
    BY <1>1 DEF EnvPlaces, EnvTimes
  <1>7. EnvAccounts'
    <2>1. Slowdowns({}) = 0
      BY TotalNone DEF Slowdowns
    <2>2. Slowdowns(advanced)' = 0 /\ Slowdowns(completed)' = Slowdowns(completed) /\ CpusOf(running)' = CpusOf(running)
      <3>1. Slowdowns(advanced)' = Slowdowns({})
        BY <1>1 DEF Slowdowns, EnvBsld
      <3>2. Slowdowns(completed)' = Slowdowns(completed)
        BY <1>1 DEF Slowdowns, EnvBsld
      <3>3. CpusOf(running)' = CpusOf(running)
        BY <1>1 DEF CpusOf
      <3> QED
        BY <2>1, <3>1, <3>2, <3>3
    <2>3. reward.slowdowns + Slowdowns(advanced) + 0 = Slowdowns(completed)
      BY <1>2, <1>3 DEF EnvAccounts
    <2> QED
      BY <1>1, <1>4, <2>2, <2>3 DEF EnvAccounts
  <1>8. EnvAsked'
    BY <1>1 DEF EnvAsked, SomethingFits, FitsNow, NextEventTs
  <1>9. EnvSteps'
    <2>1. Cardinality(completed) \in Nat /\ submit_idx \in Nat
      BY FS_CardinalityType DEF EnvTypeOK
    <2> QED
      BY <1>1, <2>1 DEF EnvSteps
  <1> QED
    BY <1>5, <1>6, <1>7, <1>8, <1>9

(* A job that starts takes its CPUs.                                       *)
LEMMA LegalStep ==
  ASSUME EnvTypeOK, EnvPlaces, EnvTimes, EnvAccounts, EnvSteps, StepLegal
  PROVE  EnvTypeOK' /\ EnvPlaces' /\ EnvTimes' /\ EnvAccounts' /\ EnvAsked' /\ EnvSteps'
  <1> DEFINE started(job) == [job |-> job, start_ts |-> clock_ts, end_ts |-> clock_ts + jobs[job].runtime_actual_sec]
  <1>1. PICK job \in Masked :
          /\ queued' = queued \ {job}
          /\ running' = running \cup {started(job)}
          /\ free_cpus' = free_cpus - jobs[job].requested_cpus
    BY Zenon DEF StepLegal
  <1>2. env_pc' = "advance" /\ UNCHANGED <<jobs, clock_ts, submit_idx, completed, advanced, steps, reward>>
    BY DEF StepLegal
  <1>3. /\ jobs \in Seq(WindowJob) /\ clock_ts \in Int /\ free_cpus \in Int
        /\ Len(jobs) \in Nat /\ submit_idx \in 0..Len(jobs) /\ queued \in SUBSET (1..submit_idx)
        /\ running \in SUBSET EnvHolders /\ IsFiniteSet(running)
        /\ completed \in SUBSET EnvHolders
    BY DEF EnvTypeOK
  <1>4. job \in queued /\ jobs[job].requested_cpus <= free_cpus /\ job \in 1..submit_idx /\ job \in 1..Len(jobs)
    <2>1. job \in Shown /\ FitsNow(job)
      BY DEF Masked
    <2>2. job \in queued /\ jobs[job].requested_cpus <= free_cpus
      BY <2>1 DEF Shown, FitsNow
    <2>3. job \in 1..submit_idx
      BY <1>3, <2>2
    <2> QED
      BY <1>3, <2>2, <2>3
  <1>5. /\ jobs[job].runtime_actual_sec \in Nat /\ jobs[job].requested_cpus \in Nat \ {0}
        /\ jobs[job].submit_ts \in Int /\ jobs[job].submit_ts <= clock_ts
    BY <1>3, <1>4, WindowJobIs DEF EnvTimes
  <1>6. PICK h \in EnvHolders : h = started(job) /\ h.job = job /\ h.start_ts = clock_ts
    <2>1. clock_ts + jobs[job].runtime_actual_sec \in Int
      BY <1>3, <1>5
    <2>2. started(job) \in EnvHolders
      BY <1>3, <1>4, <2>1 DEF EnvHolders
    <2>3. started(job).job = job /\ started(job).start_ts = clock_ts
      OBVIOUS
    <2> HIDE DEF started
    <2> QED
      BY <2>2, <2>3
  <1> HIDE DEF started
  <1>7. running' = running \cup {h} /\ h \notin running /\ h \notin completed
    <2>1. running' = running \cup {h}
      BY <1>1, <1>6
    <2>2. \A g \in running \cup completed : g.job \notin queued
      BY DEF EnvPlaces
    <2> QED
      BY <1>4, <1>6, <2>1, <2>2
  <1>8. EnvTypeOK'
    <2>1. IsFiniteSet(running')
      BY <1>3, <1>7, FS_AddElement
    <2>2. running' \in SUBSET EnvHolders
      BY <1>3, <1>6, <1>7
    <2>3. queued' \in SUBSET (1..submit_idx')
      BY <1>1, <1>2, <1>3
    <2>4. free_cpus' \in Int
      BY <1>1, <1>3, <1>5
    <2> QED
      BY <1>2, <2>1, <2>2, <2>3, <2>4 DEF EnvTypeOK, EnvHolders
  <1>9. EnvPlaces'
    <2>1. running' \cup completed' = (running \cup completed) \cup {h} /\ running' \cap completed' = {}
      BY <1>2, <1>7 DEF EnvPlaces
    <2>2. \A g \in running \cup completed : g.job # job /\ g.job \notin queued' /\ g.job \in 1..submit_idx
      BY <1>1, <1>4 DEF EnvPlaces
    <2>3. job \notin queued' /\ \A i \in 1..submit_idx : i \in queued' \/ i = job \/ \E g \in running \cup completed : g.job = i
      BY <1>1 DEF EnvPlaces
    <2>4. \A g, k \in running \cup completed : g.job = k.job => g = k
      BY DEF EnvPlaces
    <2>5. \A g, k \in (running \cup completed) \cup {h} : g.job = k.job => g = k
      BY <1>6, <2>2, <2>4
    <2>6. \A g \in (running \cup completed) \cup {h} : g.job \in 1..submit_idx /\ g.job \notin queued'
      BY <1>4, <1>6, <2>2, <2>3
    <2>7. \A i \in 1..submit_idx : i \in queued' \/ \E g \in (running \cup completed) \cup {h} : g.job = i
      BY <1>6, <2>3
    <2> QED
      BY <1>2, <2>1, <2>5, <2>6, <2>7 DEF EnvPlaces
  <1>10. EnvTimes'
    BY <1>1, <1>2, <1>5, <1>6, <1>7 DEF EnvTimes
  <1>11. EnvAccounts'
    <2> DEFINE now == running \cup {h}
    <2>1. now \in SUBSET EnvHolders /\ IsFiniteSet(now) /\ {h} \in SUBSET now /\ now \ {h} = running
      BY <1>3, <1>7, FS_AddElement
    <2>2. CpusOf({h}) = jobs[job].requested_cpus
      <3> DEFINE size == [r \in {h} |-> jobs[r.job].requested_cpus]
      <3>1. size[h] = jobs[job].requested_cpus
        BY <1>6
      <3>2. CpusOf({h}) = TotalOf(size, {h})
        BY DEF CpusOf
      <3> HIDE DEF size
      <3> QED
        BY <1>5, <3>1, <3>2, TotalSingle
    <2>3. CpusOf(running)' = CpusOf(now)
      BY <1>2, <1>7 DEF CpusOf
    <2> HIDE DEF now
    <2>4. CpusOf({h}) + CpusOf(now \ {h}) = CpusOf(now) /\ CpusOf(now \ {h}) \in Nat
      BY <1>3, <2>1, CpusSplit
    <2>5. PICK c \in Nat \ {0} : c = jobs[job].requested_cpus
      BY <1>5
    <2>6. c + CpusOf(running) = CpusOf(now) /\ CpusOf(running) \in Nat
      BY <2>1, <2>2, <2>4, <2>5
    <2>7. free_cpus' = free_cpus - c /\ c <= free_cpus
      BY <1>1, <1>4, <2>5
    <2>8. free_cpus' >= 0 /\ free_cpus' + CpusOf(now) = EnvCapacity
      <3>1. free_cpus + CpusOf(running) = EnvCapacity
        BY DEF EnvAccounts
      <3>2. PICK f \in Int, held \in Nat : f = free_cpus /\ held = CpusOf(running)
        BY <1>3, <2>6
      <3>3. free_cpus' = f - c /\ c <= f /\ f + held = EnvCapacity /\ c + held = CpusOf(now)
        BY <2>6, <2>7, <3>1, <3>2
      <3> QED
        BY <2>5, <3>2, <3>3
    <2>9. Slowdowns(advanced)' = Slowdowns(advanced) /\ Slowdowns(completed)' = Slowdowns(completed)
      BY <1>2 DEF Slowdowns, EnvBsld
    <2> QED
      BY <1>2, <2>3, <2>8, <2>9 DEF EnvAccounts
  <1> QED
    BY <1>2, <1>8, <1>9, <1>10, <1>11 DEF EnvAsked, EnvSteps

(* A refused action costs a penalty.                                       *)
LEMMA IllegalStep ==
  ASSUME EnvTypeOK, EnvPlaces, EnvTimes, EnvAccounts, EnvSteps, StepIllegal
  PROVE  EnvTypeOK' /\ EnvPlaces' /\ EnvTimes' /\ EnvAccounts' /\ EnvAsked' /\ EnvSteps'
  <1>1. /\ env_pc' = "advance"
        /\ reward' = [reward EXCEPT !.penalties = Min({MaxJobs + 1, @ + 1})]
        /\ UNCHANGED <<jobs, clock_ts, free_cpus, submit_idx, queued, running, completed, advanced, steps>>
    BY DEF StepIllegal
  <1>2. PICK p \in Int : p = Min({MaxJobs + 1, reward.penalties + 1})
    <2>1. MaxJobs + 1 \in Int /\ reward.penalties + 1 \in Int
      BY EnvAssumption DEF EnvTypeOK
    <2> QED
      BY <2>1, PairMax
  <1>3. reward' = [reward EXCEPT !.penalties = p]
    BY <1>1, <1>2
  <1>4. reward' \in [slowdowns : Int, penalties : Int] /\ reward'.slowdowns = reward.slowdowns
    BY <1>2, <1>3 DEF EnvTypeOK
  <1>5. EnvTypeOK'
    BY <1>1, <1>4 DEF EnvTypeOK, EnvHolders
  <1>6. EnvPlaces' /\ EnvTimes'
    BY <1>1 DEF EnvPlaces, EnvTimes
  <1>7. EnvAccounts'
    BY <1>1, <1>4 DEF EnvAccounts, CpusOf, Slowdowns, EnvBsld
  <1> QED
    BY <1>1, <1>5, <1>6, <1>7 DEF EnvAsked, EnvSteps

(* The invariant holds of every step of an episode.                        *)
LEMMA EnvStep ==
  ASSUME EnvInv, [EnvNext]_envVars
  PROVE  EnvInv'
  <1>1. jobs' = jobs
    BY DEF EnvNext, envVars, ReturnToAgent, AdmitNow, AdvanceClock, StepLegal, StepIllegal
  <1>2. DistinctIds' = DistinctIds
    BY <1>1 DEF DistinctIds
  <1> SUFFICES ASSUME DistinctIds
               PROVE  EnvTypeOK' /\ EnvPlaces' /\ EnvTimes' /\ EnvAccounts' /\ EnvAsked' /\ EnvSteps'
    BY <1>2 DEF EnvInv
  <1>3. EnvTypeOK /\ EnvPlaces /\ EnvTimes /\ EnvAccounts /\ EnvAsked /\ EnvSteps
    BY DEF EnvInv
  <1>4. CASE ReturnToAgent
    BY <1>3, <1>4, ReturnStep
  <1>5. CASE AdmitNow
    BY <1>3, <1>5, AdmitStep
  <1>6. CASE AdvanceClock
    BY <1>3, <1>6, AdvanceStep
  <1>7. CASE StepLegal
    BY <1>3, <1>7, LegalStep
  <1>8. CASE StepIllegal
    BY <1>3, <1>8, IllegalStep
  <1>9. CASE UNCHANGED envVars
    <2>1. UNCHANGED <<env_pc, jobs, clock_ts, free_cpus, submit_idx, queued, running, completed, advanced, steps, reward>>
      BY <1>9 DEF envVars
    <2>2. EnvTypeOK' /\ EnvPlaces' /\ EnvTimes'
      BY <1>3, <2>1 DEF EnvTypeOK, EnvPlaces, EnvTimes, EnvHolders
    <2>3. EnvAccounts'
      BY <1>3, <2>1 DEF EnvAccounts, CpusOf, Slowdowns, EnvBsld
    <2>4. EnvAsked'
      BY <1>3, <2>1 DEF EnvAsked, SomethingFits, FitsNow, NextEventTs
    <2>5. EnvSteps'
      BY <1>3, <2>1 DEF EnvSteps
    <2> QED
      BY <2>2, <2>3, <2>4, <2>5
  <1> QED
    BY <1>4, <1>5, <1>6, <1>7, <1>8, <1>9 DEF EnvNext

(* Nothing is lost and nothing is paid twice.                              *)
LEMMA ConservesIs == EnvInv => EnvConserves
  <1> SUFFICES ASSUME EnvInv, DistinctIds PROVE EnvConserves
    BY DEF EnvConserves
  <1>1. EnvTypeOK /\ EnvPlaces /\ EnvTimes /\ EnvAccounts /\ EnvSteps
    BY DEF EnvInv
  <1>2. ASSUME NEW i \in 1..submit_idx
        PROVE  Cardinality({r \in running \cup completed : r.job = i}) = IF i \in queued THEN 0 ELSE 1
    <2>1. CASE i \in queued
      <3>1. {r \in running \cup completed : r.job = i} = {}
        BY <1>1, <2>1 DEF EnvPlaces
      <3> QED
        BY <2>1, <3>1, FS_EmptySet
    <2>2. CASE i \notin queued
      <3>1. PICK h \in running \cup completed : h.job = i
        BY <1>1, <2>2 DEF EnvPlaces
      <3>2. {r \in running \cup completed : r.job = i} = {h}
        BY <1>1, <3>1 DEF EnvPlaces
      <3> QED
        BY <2>2, <3>2, FS_Singleton
    <2> QED
      BY <2>1, <2>2
  <1>3. \A r \in running \cup completed : r.job \in 1..submit_idx /\ r.start_ts >= jobs[r.job].submit_ts
    <2> SUFFICES ASSUME NEW r \in running \cup completed
                 PROVE  r.job \in 1..submit_idx /\ r.start_ts >= jobs[r.job].submit_ts
      OBVIOUS
    <2>1. r \in EnvHolders /\ jobs \in Seq(WindowJob)
      BY <1>1 DEF EnvTypeOK
    <2>2. r.start_ts \in Int /\ jobs[r.job].submit_ts \in Int
      BY <2>1, WindowJobIs DEF EnvHolders
    <2> QED
      BY <1>1, <2>2 DEF EnvPlaces, EnvTimes
  <1>4. steps < MaxSteps
    BY <1>1, StepsBounded
  <1> QED
    BY <1>1, <1>2, <1>3, <1>4 DEF EnvConserves, EnvTypeOK, EnvPlaces, EnvAccounts

(* The decisions of RLSchedulerEnv (rl/env.py): whenever the agent is asked*)
(* over a window of distinct ids there is an action for it, or what is left*)
(* is too large for the machine or not shown; in between, each job is in   *)
(* one place, CPUs add up, each completion is paid for once, and an advance*)
(* takes all the events it has to within its limit of iterations.          *)
THEOREM AgentsAreAskedToAct == EnvSpec => []DecisionHasAction
  <1>1. EnvInv => DecisionHasAction
    <2> SUFFICES ASSUME EnvInv PROVE DecisionHasAction
      OBVIOUS
    <2>1. EnvConserves
      BY ConservesIs
    <2>2. ASSUME env_pc = "decide", DistinctIds, Masked = {}, ~ \E job \in queued \ Shown : FitsNow(job)
          PROVE  /\ running = {} /\ submit_idx = Len(jobs)
                 /\ \A job \in queued : jobs[job].requested_cpus > EnvCapacity
      <3>1. EnvTypeOK /\ EnvAccounts /\ EnvAsked
        BY <2>2 DEF EnvInv
      <3>2. \A job \in queued : ~ FitsNow(job)
        BY <2>2 DEF Masked
      <3>3. NextEventTs = {}
        BY <2>2, <3>1, <3>2 DEF EnvAsked, SomethingFits
      <3>4. running = {}
        BY <3>3 DEF NextEventTs
      <3>5. submit_idx = Len(jobs)
        <4>1. submit_idx + 1 \notin DOMAIN jobs
          <5> SUFFICES ASSUME submit_idx + 1 \in DOMAIN jobs PROVE FALSE
            OBVIOUS
          <5>1. submit_idx + 1 \in {submit_idx + 1} \cap DOMAIN jobs
            OBVIOUS
          <5>2. jobs[submit_idx + 1].submit_ts \in NextEventTs
            BY <5>1 DEF NextEventTs
          <5> QED
            BY <3>3, <5>2
        <4>2. PICK n \in Nat : n = Len(jobs) /\ DOMAIN jobs = 1..n /\ submit_idx \in 0..n
          <5>1. jobs \in Seq(WindowJob) /\ submit_idx \in 0..Len(jobs)
            BY <3>1 DEF EnvTypeOK
          <5>2. Len(jobs) \in Nat /\ DOMAIN jobs = 1..Len(jobs)
            BY <5>1
          <5> QED
            BY <5>1, <5>2, Zenon
        <4>3. submit_idx + 1 \notin 1..n /\ submit_idx \in 0..n
          BY <4>1, <4>2, Zenon
        <4>4. PICK s \in 0..n : s = submit_idx /\ s + 1 \notin 1..n
          BY <4>3, Zenon
        <4>5. s = n
          BY <4>4
        <4> QED
          BY <4>2, <4>4, <4>5, Zenon
      <3>6. free_cpus = EnvCapacity
        <4>1. CpusOf({}) = 0
          BY TotalNone DEF CpusOf
        <4>2. free_cpus + 0 = EnvCapacity /\ free_cpus \in Int
          BY <3>1, <3>4, <4>1 DEF EnvAccounts, EnvTypeOK
        <4> QED
          BY <4>2
      <3>7. ASSUME NEW job \in queued PROVE jobs[job].requested_cpus > EnvCapacity
        <4>1. job \in 1..Len(jobs) /\ jobs \in Seq(WindowJob)
          BY <3>1, <3>5 DEF EnvTypeOK
        <4>2. jobs[job].requested_cpus \in Nat /\ EnvCapacity \in Nat
          BY <4>1, WindowJobIs, EnvAssumption
        <4>3. ~ (jobs[job].requested_cpus <= EnvCapacity)
          BY <3>2, <3>6 DEF FitsNow
        <4> QED
          BY <4>2, <4>3
      <3> QED
        BY <3>4, <3>5, <3>7
    <2> QED
      BY <2>1, <2>2 DEF DecisionHasAction
  <1> QED
    BY <1>1, EnvInitInv, EnvStep, PTL DEF EnvSpec

-----------------------------------------------------------------------------
(* The policy search.  In every episode each job of the line is there once,*)
(* what runs and what is free are the machine, and what was paid is what   *)
(* ran; an episode is one path of rounds, so its action has one outcome.   *)

SearchRecord == [job : Nat, start_ts : Int, end_ts : Int]

SimRecord ==
  [trace : Seq(SearchRow), action : SearchAction, clock : Int, free : Int, job_idx : Nat,
   queue : Seq(Nat), active : SUBSET SearchRecord, finished : SUBSET SearchRecord, events : Int,
   cpu_time_used : Int, total_time : Int]

(* A sequence of jobs, each once.                                          *)
Line(s, seq) ==
  /\ seq \in Seq(Nat)
  /\ \A i \in DOMAIN seq : seq[i] \in 1..Len(s.trace)
  /\ \A i, j \in DOMAIN seq : seq[i] = seq[j] => i = j
Members(seq) == {seq[i] : i \in DOMAIN seq}

(* The fields of an environment.                                           *)
LEMMA SimFields ==
  ASSUME NEW s \in SimRecord
  PROVE  /\ s.trace \in Seq(SearchRow) /\ s.action \in SearchAction /\ s.clock \in Int /\ s.free \in Int
         /\ s.job_idx \in Nat /\ s.queue \in Seq(Nat)
         /\ s.active \in SUBSET SearchRecord /\ s.finished \in SUBSET SearchRecord /\ s.events \in Int
         /\ s.cpu_time_used \in Int /\ s.total_time \in Int
  BY DEF SimRecord

(* The fields of a job of its trace.                                       *)
LEMMA SearchRowIs ==
  ASSUME NEW s \in SimRecord, NEW job \in 1..Len(s.trace)
  PROVE  /\ s.trace[job].submit_ts \in Int /\ s.trace[job].runtime_actual_sec \in Nat
         /\ s.trace[job].requested_cpus \in Nat \ {0}
         /\ Cpus(s, job) \in Nat \ {0}
  <1>1. s.trace \in Seq(SearchRow)
    BY SimFields
  <1>2. s.trace[job] \in SearchRow
    BY <1>1
  <1> QED
    BY <1>2 DEF SearchRow, Cpus

(* CPUs at the places of a line, place by place.                           *)
LEMMA CpusAtSplit ==
  ASSUME NEW s \in SimRecord, NEW seq, Line(s, seq), NEW S \in SUBSET DOMAIN seq, NEW T \in SUBSET S
  PROVE  /\ CpusAt(s, seq, S) \in Nat /\ CpusAt(s, seq, T) \in Nat /\ CpusAt(s, seq, S \ T) \in Nat
         /\ CpusAt(s, seq, T) + CpusAt(s, seq, S \ T) = CpusAt(s, seq, S)
         /\ IsFiniteSet(S)
  <1> DEFINE size == [i \in DOMAIN seq |-> Cpus(s, seq[i])]
  <1>1. \A i \in S : size[i] \in Nat
    BY SearchRowIs DEF Line
  <1>2. IsFiniteSet(S)
    <2>1. Len(seq) \in Nat /\ DOMAIN seq = 1..Len(seq)
      BY DEF Line
    <2>2. IsFiniteSet(1..Len(seq))
      BY <2>1, FS_Interval
    <2> QED
      BY <2>1, <2>2, FS_Subset
  <1> HIDE DEF size
  <1>3. /\ TotalOf(size, S) \in Nat /\ TotalOf(size, T) \in Nat /\ TotalOf(size, S \ T) \in Nat
        /\ TotalOf(size, T) + TotalOf(size, S \ T) = TotalOf(size, S)
    BY <1>1, <1>2, TotalSplit
  <1>4. \A U : CpusAt(s, seq, U) = TotalOf(size, U)
    BY DEF CpusAt, size
  <1> QED
    BY <1>2, <1>3, <1>4

(* The CPUs at one place are those of its job.                             *)
LEMMA CpusAtPlace ==
  ASSUME NEW s \in SimRecord, NEW seq, Line(s, seq), NEW i \in DOMAIN seq
  PROVE  CpusAt(s, seq, {i}) = Cpus(s, seq[i])
  <1> DEFINE size == [k \in DOMAIN seq |-> Cpus(s, seq[k])]
  <1>1. size[i] \in Nat /\ size[i] = Cpus(s, seq[i])
    BY SearchRowIs DEF Line
  <1>2. CpusAt(s, seq, {i}) = TotalOf(size, {i})
    BY DEF CpusAt
  <1> HIDE DEF size
  <1> QED
    BY <1>1, <1>2, TotalSingle

GreedyTo(s, seq, left, n, P) ==
  /\ P \in SUBSET (1..n)
  /\ \A i \in 1..n : i \in P <=> Cpus(s, seq[i]) + CpusAt(s, seq, {k \in P : k < i}) <= left

(* The first n places of a line can be gone through in turn.               *)
LEMMA GreedyExists ==
  ASSUME NEW s \in SimRecord, NEW seq, Line(s, seq), NEW left \in Nat
  PROVE  \E P : GreedyTo(s, seq, left, Len(seq), P)
  <1> DEFINE Bad == {n \in Nat : n <= Len(seq) /\ ~ \E P : GreedyTo(s, seq, left, n, P)}
  <1>1. Len(seq) \in Nat
    BY DEF Line
  <1>2. Bad = {}
    <2> SUFFICES ASSUME Bad # {} PROVE FALSE
      OBVIOUS
    <2>1. PICK n \in Bad : \A m \in Bad : n <= m
      <3>1. Bad \in SUBSET Nat
        OBVIOUS
      <3> HIDE DEF Bad
      <3> QED
        BY <3>1, LeastNatural
    <2>2. n \in Nat /\ n <= Len(seq) /\ ~ \E P : GreedyTo(s, seq, left, n, P)
      BY <2>1
    <2>3. n # 0
      <3>1. GreedyTo(s, seq, left, 0, {})
        BY DEF GreedyTo
      <3> QED
        BY <2>2, <3>1
    <2>4. n - 1 \in Nat /\ n - 1 \notin Bad
      BY <2>1, <2>2, <2>3
    <2>5. PICK P : GreedyTo(s, seq, left, n - 1, P)
      BY <1>1, <2>2, <2>4
    <2> HIDE DEF Bad
    <2> DEFINE Q == IF Cpus(s, seq[n]) + CpusAt(s, seq, P) <= left THEN P \cup {n} ELSE P
    <2>6. P \in SUBSET (1..(n - 1)) /\ 1..n = 1..(n - 1) \cup {n} /\ n \notin P
      BY <2>2, <2>3, <2>5 DEF GreedyTo
    <2>7. \A i \in 1..n : {k \in Q : k < i} = {k \in P : k < i}
      BY <2>2, <2>6
    <2>8. {k \in P : k < n} = P
      <3>1. \A k \in P : k < n
        BY <2>2, <2>6
      <3> QED
        BY <3>1
    <2>9. Q \in SUBSET (1..n) /\ (n \in Q <=> Cpus(s, seq[n]) + CpusAt(s, seq, P) <= left)
          /\ \A i \in 1..(n - 1) : i \in Q <=> i \in P
      BY <2>2, <2>6
    <2> HIDE DEF Q
    <2>10. ASSUME NEW i \in 1..n
           PROVE  i \in Q <=> Cpus(s, seq[i]) + CpusAt(s, seq, {k \in Q : k < i}) <= left
      <3>1. CASE i = n
        BY <2>2, <2>7, <2>8, <2>9, <3>1
      <3>2. CASE i \in 1..(n - 1)
        BY <2>5, <2>7, <2>9, <3>2 DEF GreedyTo
      <3> QED
        BY <2>6, <3>1, <3>2
    <2>11. GreedyTo(s, seq, left, n, Q)
      BY <2>9, <2>10 DEF GreedyTo
    <2> QED
      BY <2>2, <2>11
  <1> QED
    BY <1>1, <1>2

(* What a pass is over, and what it leaves.                                *)
PassOver(s, pass, seq, left) ==
  /\ pass.jobs = seq /\ pass.left = left /\ pass.started \in SUBSET DOMAIN seq
  /\ CpusLeft(s, pass) \in Nat
  /\ CpusAt(s, seq, pass.started) \in Nat
  /\ CpusLeft(s, pass) + CpusAt(s, seq, pass.started) = left

(* None of the jobs a pass does not start would fit in what it leaves.     *)
NoneFits(s, pass, seq) == \A i \in DOMAIN seq \ pass.started : Cpus(s, seq[i]) > CpusLeft(s, pass)

(* A pass leaves what its places do not take, and none that would fit.     *)
LEMMA PassIs ==
  ASSUME NEW s \in SimRecord, NEW seq, Line(s, seq), NEW left \in Nat
  PROVE  PassOver(s, Pass(s, seq, left), seq, left) /\ NoneFits(s, Pass(s, seq, left), seq)
  <1> DEFINE passes == [jobs : {seq}, left : {left}, started : SUBSET DOMAIN seq]
             good(p) == \A i \in DOMAIN p.jobs :
               i \in p.started <=> Cpus(s, p.jobs[i]) + CpusAt(s, p.jobs, {k \in p.started : k < i}) <= p.left
             pass == Pass(s, seq, left)
  <1>1. Len(seq) \in Nat /\ DOMAIN seq = 1..Len(seq)
    BY DEF Line
  <1>2. \E p \in passes : good(p)
    <2>1. PICK P : GreedyTo(s, seq, left, Len(seq), P)
      BY GreedyExists
    <2> DEFINE p == [jobs |-> seq, left |-> left, started |-> P]
    <2>2. p \in passes
      BY <1>1, <2>1 DEF GreedyTo
    <2>3. p.jobs = seq /\ p.left = left /\ p.started = P
      OBVIOUS
    <2> HIDE DEF p
    <2>4. good(p)
      BY <1>1, <2>1, <2>3 DEF GreedyTo
    <2> QED
      BY <2>2, <2>4
  <1>3. pass \in passes /\ good(pass)
    BY <1>2 DEF Pass
  <1> HIDE DEF pass
  <1>4. pass.jobs = seq /\ pass.left = left /\ pass.started \in SUBSET DOMAIN seq
    BY <1>3
  <1> DEFINE P == pass.started
  <1>5. \A i \in DOMAIN seq : i \in P <=> Cpus(s, seq[i]) + CpusAt(s, seq, {k \in P : k < i}) <= left
    BY <1>3, <1>4
  <1> HIDE DEF good, passes
  <1>6. CpusAt(s, seq, P) \in Nat /\ IsFiniteSet(P)
    BY <1>4, CpusAtSplit
  <1>7. CpusAt(s, seq, P) <= left
    <2>1. CASE P = {}
      <3>1. CpusAt(s, seq, {}) = 0
        BY TotalNone DEF CpusAt
      <3> QED
        BY <2>1, <3>1
    <2>2. CASE P # {}
      <3>1. PICK m \in P : \A n \in P : n <= m
        <4>1. P \in SUBSET Int
          BY <1>1, <1>4
        <4> QED
          BY <1>6, <2>2, <4>1, MaxOfFinite
      <3>2. {k \in P : k < m} = P \ {m}
        BY <1>1, <1>4, <3>1
      <3>3. m \in DOMAIN seq /\ {m} \in SUBSET P /\ P \in SUBSET DOMAIN seq
        BY <1>4, <3>1
      <3>4. Cpus(s, seq[m]) + CpusAt(s, seq, P \ {m}) <= left
        BY <1>5, <3>1, <3>2, <3>3
      <3>5. CpusAt(s, seq, {m}) + CpusAt(s, seq, P \ {m}) = CpusAt(s, seq, P)
        BY <3>3, CpusAtSplit
      <3>6. CpusAt(s, seq, {m}) = Cpus(s, seq[m])
        BY <3>3, CpusAtPlace
      <3> QED
        BY <3>4, <3>5, <3>6
    <2> QED
      BY <2>1, <2>2
  <1>8. CpusLeft(s, pass) = left - CpusAt(s, seq, P)
    BY <1>4 DEF CpusLeft
  <1>9. CpusLeft(s, pass) \in Nat /\ CpusLeft(s, pass) + CpusAt(s, seq, P) = left
    BY <1>6, <1>7, <1>8
  <1>10. ASSUME NEW i \in DOMAIN seq \ P PROVE Cpus(s, seq[i]) > CpusLeft(s, pass)
    <2> DEFINE T == {k \in P : k < i}
    <2>1. ~ (Cpus(s, seq[i]) + CpusAt(s, seq, T) <= left)
      BY <1>5, <1>10
    <2>2. T \in SUBSET P /\ P \in SUBSET DOMAIN seq
      BY <1>4
    <2> HIDE DEF T
    <2>3. CpusAt(s, seq, T) \in Nat /\ CpusAt(s, seq, P \ T) \in Nat
          /\ CpusAt(s, seq, T) + CpusAt(s, seq, P \ T) = CpusAt(s, seq, P)
      BY <2>2, CpusAtSplit
    <2>4. Cpus(s, seq[i]) \in Nat
      BY <1>10, SearchRowIs DEF Line
    <2> QED
      BY <1>9, <2>1, <2>3, <2>4
  <1> QED
    BY <1>4, <1>6, <1>9, <1>10 DEF PassOver, NoneFits, pass

(* And no pass takes nothing.                                              *)
LEMMA NoPassIs ==
  ASSUME NEW s, NEW seq, NEW left \in Nat
  PROVE  PassOver(s, NoPass(seq, left), seq, left)
  <1>1. CpusAt(s, seq, {}) = 0
    BY TotalNone DEF CpusAt
  <1>2. /\ NoPass(seq, left).jobs = seq /\ NoPass(seq, left).left = left
        /\ NoPass(seq, left).started = {}
    BY DEF NoPass
  <1>3. CpusLeft(s, NoPass(seq, left)) = left - 0
    BY <1>1, <1>2 DEF CpusLeft
  <1> QED
    BY <1>1, <1>2, <1>3 DEF PassOver

(* The places of a line are finitely many.                                 *)
LEMMA UpToIs ==
  ASSUME NEW n \in Nat
  PROVE  IsFiniteSet(1..n) /\ Cardinality(1..n) = n
  BY FS_Interval

(* What is kept of a line is what did not start.                           *)
LEMMA KeptIs ==
  ASSUME NEW s \in SimRecord, NEW seq, Line(s, seq), NEW pass, pass.jobs = seq,
         pass.started \in SUBSET DOMAIN seq
  PROVE  /\ Line(s, Kept(pass))
         /\ \A p \in DOMAIN Kept(pass) : \E i \in DOMAIN seq \ pass.started : Kept(pass)[p] = seq[i]
  <1> DEFINE started == pass.started
             key == [i \in DOMAIN seq |-> <<IF i \in started THEN 1 ELSE 0, 0>>]
             sorted == Sorted(seq, key)
  <1>1. PICK n \in Nat : n = Len(seq) /\ DOMAIN seq = 1..n
    <2>1. Len(seq) \in Nat /\ DOMAIN seq = 1..Len(seq)
      BY DEF Line
    <2> QED
      BY <2>1
  <1>2. started \in SUBSET (1..n)
    BY <1>1
  <1>0. started = pass.started
    OBVIOUS
  <1> HIDE DEF started
  <1>3. PICK k \in Nat : k = Cardinality(started) /\ k <= n /\ IsFiniteSet(started)
    <2>1. IsFiniteSet(1..n) /\ Cardinality(1..n) = n
      BY UpToIs
    <2>2. IsFiniteSet(started) /\ Cardinality(started) <= n
      BY <1>2, <2>1, FS_Subset
    <2>3. Cardinality(started) \in Nat
      BY <2>2, FS_CardinalityType
    <2> QED
      BY <2>2, <2>3, Zenon
  <1>4. Kept(pass) = SubSeq(sorted, 1, n - k)
    BY <1>0, <1>1, <1>3 DEF Kept
  <1>5. DOMAIN key = 1..n /\ \A i \in 1..n : key[i][1] = (IF i \in started THEN 1 ELSE 0) /\ key[i][2] = 0
    BY <1>1
  <1>6. SortKeys(key, n)
    BY <1>5 DEF SortKeys
  <1> HIDE DEF key
  <1>7. PICK order : Permuted(order, seq, key, n)
    BY <1>1, <1>6, SortedIs
  <1>8. /\ order \in Bijection(1..n, 1..n)
        /\ \A p, q \in 1..n : p < q => KeyBefore(key, order[p], order[q])
        /\ sorted = [p \in 1..n |-> seq[order[p]]]
    BY <1>7 DEF Permuted, Ordering
  <1>9. /\ \A p \in 1..n : order[p] \in 1..n
        /\ \A p, q \in 1..n : order[p] = order[q] => p = q
    BY <1>8 DEF Bijection, Injection, IsInjective
  <1> HIDE DEF sorted
  <1>10. sorted \in Seq(Nat) /\ Len(sorted) = n /\ \A p \in 1..n : sorted[p] = seq[order[p]]
    <2>1. \A i \in 1..n : seq[i] \in Nat
      BY <1>1 DEF Line
    <2>2. sorted \in [1..n -> Nat]
      BY <1>8, <1>9, <2>1
    <2> QED
      BY <1>8, <2>2
  <1>11. ASSUME NEW p \in 1..n, p <= n - k PROVE order[p] \notin started
    <2> SUFFICES ASSUME order[p] \in started PROVE FALSE
      OBVIOUS
    <2> DEFINE image == {order[q] : q \in p..n}
               f == [q \in p..n |-> order[q]]
    <2>1. ASSUME NEW q \in p..n PROVE order[q] \in started
      <3>1. CASE q = p
        BY <3>1
      <3>2. CASE q # p
        <4>1. q \in 1..n /\ p < q
          BY <3>2
        <4>2. KeyBefore(key, order[p], order[q]) /\ order[q] \in 1..n /\ order[p] \in 1..n
          BY <1>8, <1>9, <4>1
        <4>3. key[order[p]][1] = 1 /\ key[order[p]][2] = 0 /\ key[order[q]][2] = 0
              /\ key[order[q]][1] = (IF order[q] \in started THEN 1 ELSE 0)
          BY <1>5, <4>2
        <4> QED
          BY <4>2, <4>3 DEF KeyBefore
      <3> QED
        BY <3>1, <3>2
    <2>2. image \in SUBSET started
      BY <2>1
    <2>3. f \in Bijection(p..n, image)
      <3>1. \A q \in p..n : q \in 1..n
        OBVIOUS
      <3>2. f \in [p..n -> image] /\ \A a, b \in p..n : f[a] = f[b] => a = b
        BY <1>9, <3>1
      <3>3. \A y \in image : \E q \in p..n : f[q] = y
        OBVIOUS
      <3> HIDE DEF f, image
      <3> QED
        BY <3>2, <3>3 DEF Bijection, Injection, IsInjective, Surjection
    <2>4. IsFiniteSet(p..n) /\ Cardinality(p..n) = n - p + 1
      BY FS_Interval
    <2> HIDE DEF f, image
    <2>5. Cardinality(image) = n - p + 1
      BY <2>3, <2>4, FS_Bijection DEF ExistsBijection
    <2>6. Cardinality(image) <= k
      BY <1>3, <2>2, FS_Subset
    <2> QED
      BY <1>11, <2>5, <2>6
  <1> DEFINE kept == SubSeq(sorted, 1, n - k)
  <1>12. n - k \in Nat /\ n - k <= n
    BY <1>3
  <1>13. PICK m \in Nat : m = n - k /\ m <= n
    BY <1>12
  <1>14. kept \in Seq(Nat) /\ Len(kept) = m /\ DOMAIN kept = 1..m /\ \A p \in 1..m : kept[p] = sorted[p]
    <2>1. kept = [p \in 1..m |-> sorted[p]]
      BY <1>10, <1>13
    <2>2. \A p \in 1..m : sorted[p] \in Nat
      BY <1>10, <1>13
    <2> HIDE DEF kept
    <2> QED
      BY <2>1, <2>2
  <1> HIDE DEF kept
  <1>15. ASSUME NEW p \in 1..m PROVE order[p] \in DOMAIN seq \ started /\ kept[p] = seq[order[p]] /\ p \in 1..n
    <2>1. p \in 1..n /\ p <= n - k
      BY <1>13
    <2> QED
      BY <1>1, <1>9, <1>10, <1>11, <1>14, <2>1
  <1>16. Line(s, kept)
    <2>1. \A p \in 1..m : kept[p] \in 1..Len(s.trace)
      BY <1>15 DEF Line
    <2>2. ASSUME NEW p \in 1..m, NEW q \in 1..m, kept[p] = kept[q] PROVE p = q
      <3>1. order[p] = order[q]
        BY <1>15, <2>2 DEF Line
      <3> QED
        BY <1>9, <1>15, <3>1
    <2> QED
      BY <1>14, <2>1, <2>2 DEF Line
  <1>17. Kept(pass) = kept
    BY <1>4 DEF kept
  <1>18. \A p \in DOMAIN kept : \E i \in DOMAIN seq \ pass.started : kept[p] = seq[i]
    BY <1>14, <1>15 DEF started
  <1> QED
    BY <1>16, <1>17, <1>18, Zenon

(* A boost leaves the jobs of a line in another order.                     *)
LEMMA BoostedIs ==
  ASSUME NEW s \in SimRecord, NEW seq, Line(s, seq)
  PROVE  Line(s, Boosted(s, seq)) /\ Members(Boosted(s, seq)) \subseteq Members(seq)
  <1> DEFINE early(job) == IF 2 * s.trace[job].runtime_actual_sec < Median2(s, seq) THEN s.action.boost ELSE 0
             key == [i \in DOMAIN seq |-> <<s.trace[seq[i]].submit_ts - early(seq[i]), 0>>]
  <1>1. PICK n \in Nat : n = Len(seq) /\ DOMAIN seq = 1..n
    <2>1. Len(seq) \in Nat /\ DOMAIN seq = 1..Len(seq)
      BY DEF Line
    <2> QED
      BY <2>1
  <1>2. CASE s.action.boost = 0
    <2>1. Boosted(s, seq) = seq
      BY <1>2 DEF Boosted
    <2> QED
      BY <2>1
  <1>3. CASE s.action.boost # 0
    <2>1. Boosted(s, seq) = Sorted(seq, key)
      BY <1>3 DEF Boosted
    <2>2. \A i \in 1..n : s.trace[seq[i]].submit_ts - early(seq[i]) \in Int
      <3> TAKE i \in 1..n
      <3>1. s.trace[seq[i]].submit_ts \in Int
        BY <1>1, SearchRowIs DEF Line
      <3>2. s.action.boost \in Nat
        BY SimFields DEF SearchAction
      <3>3. early(seq[i]) \in Int
        <4>1. early(seq[i]) \in {s.action.boost, 0}
          OBVIOUS
        <4> HIDE DEF early
        <4> QED
          BY <3>2, <4>1
      <3> HIDE DEF early
      <3> QED
        BY <3>1, <3>3
    <2> HIDE DEF early
    <2>3. DOMAIN key = 1..n /\ \A i \in 1..n : key[i][1] \in Int /\ key[i][2] \in Int
      BY <1>1, <2>2
    <2>4. SortKeys(key, n)
      BY <2>3 DEF SortKeys
    <2> HIDE DEF key
    <2>5. PICK order : Permuted(order, seq, key, n)
      BY <1>1, <2>4, SortedIs
    <2>6. /\ order \in Bijection(1..n, 1..n)
          /\ Boosted(s, seq) = [p \in 1..n |-> seq[order[p]]]
      BY <2>1, <2>5 DEF Permuted, Ordering
    <2>7. /\ \A p \in 1..n : order[p] \in 1..n
          /\ \A p, q \in 1..n : order[p] = order[q] => p = q
      BY <2>6 DEF Bijection, Injection, IsInjective
    <2>8. PICK sorted : sorted = Boosted(s, seq)
      OBVIOUS
    <2>9. /\ \A i \in 1..n : seq[i] \in Nat /\ seq[i] \in 1..Len(s.trace)
          /\ \A i, j \in 1..n : seq[i] = seq[j] => i = j
      <3>1. \A i \in DOMAIN seq : seq[i] \in Nat
        BY DEF Line
      <3>2. /\ \A i \in DOMAIN seq : seq[i] \in 1..Len(s.trace)
            /\ \A i, j \in DOMAIN seq : seq[i] = seq[j] => i = j
        BY Zenon DEF Line
      <3>3. DOMAIN seq = 1..n
        BY <1>1
      <3> QED
        BY <3>1, <3>2, <3>3
    <2>10. sorted \in [1..n -> Nat] /\ \A p \in 1..n : sorted[p] = seq[order[p]]
      <3>1. sorted = [p \in 1..n |-> seq[order[p]]]
        BY <2>6, <2>8
      <3>2. \A p \in 1..n : seq[order[p]] \in Nat
        BY <2>7, <2>9
      <3> QED
        BY <3>1, <3>2
    <2>11. sorted \in Seq(Nat) /\ DOMAIN sorted = 1..n
      <3>1. sorted \in [1..n -> Nat]
        BY <2>10
      <3> QED
        BY <3>1
    <2>12. \A p \in 1..n : sorted[p] \in 1..Len(s.trace)
      BY <2>7, <2>9, <2>10
    <2>13. ASSUME NEW p \in 1..n, NEW q \in 1..n, sorted[p] = sorted[q] PROVE p = q
      BY <2>7, <2>9, <2>10, <2>13
    <2>14. Line(s, sorted)
      BY <2>11, <2>12, <2>13 DEF Line
    <2>15. Members(sorted) \subseteq Members(seq)
      BY <1>1, <2>7, <2>10, <2>11 DEF Members
    <2> QED
      BY <2>8, <2>14, <2>15, Zenon
  <1> QED
    BY <1>2, <1>3

(* The queue is of jobs that were admitted and have no record yet.         *)
SimQueue(s) ==
  /\ Line(s, s.queue)
  /\ \A i \in DOMAIN s.queue : s.queue[i] <= s.job_idx /\ s.trace[s.queue[i]].submit_ts <= s.clock

SimPlaces(s) ==
  /\ s.job_idx <= Len(s.trace)
  /\ IsFiniteSet(s.active) /\ IsFiniteSet(s.finished) /\ s.active \cap s.finished = {}
  /\ \A r \in s.active \cup s.finished :
       /\ r.job \in 1..s.job_idx /\ \A i \in DOMAIN s.queue : s.queue[i] # r.job
       /\ s.trace[r.job].submit_ts <= r.start_ts /\ r.start_ts <= s.clock /\ r.start_ts <= r.end_ts
  /\ \A r \in s.active : s.clock <= r.end_ts
  /\ \A r \in s.finished : r.end_ts <= s.clock

SimAccounts(s) ==
  /\ s.free >= 0
  /\ s.free + CpusOfRecords(s, s.active) = SearchCapacity
  /\ s.total_time = SearchCapacity * s.clock
  /\ s.cpu_time_used = Used(s, s.active \cup s.finished)

SimInv(s) == s \in SimRecord /\ SimQueue(s) /\ SimPlaces(s) /\ SimAccounts(s)

(* Records of an environment.                                              *)
RecordsOf(s, S) ==
  /\ S \in SUBSET SearchRecord /\ IsFiniteSet(S)
  /\ \A r \in S : r.job \in 1..Len(s.trace) /\ r.start_ts <= r.end_ts /\ r.start_ts <= s.clock

UsedBy(s, r) == Cpus(s, r.job) * (Min({r.end_ts, s.clock}) - r.start_ts)

(* A record has used its CPUs from its start to the clock or to its end.   *)
LEMMA UsedByIs ==
  ASSUME NEW s \in SimRecord, NEW S, RecordsOf(s, S), NEW r \in S
  PROVE  /\ UsedBy(s, r) \in Nat /\ Cpus(s, r.job) \in Nat
         /\ r.job \in Nat /\ r.start_ts \in Int /\ r.end_ts \in Int
         /\ r.end_ts >= s.clock => UsedBy(s, r) = Cpus(s, r.job) * (s.clock - r.start_ts)
         /\ r.end_ts <= s.clock => UsedBy(s, r) = Cpus(s, r.job) * (r.end_ts - r.start_ts)
  <1>1. r \in SearchRecord
    BY DEF RecordsOf
  <1>2. /\ r.job \in Nat /\ r.start_ts \in Int /\ r.end_ts \in Int /\ s.clock \in Int
        /\ r.start_ts <= r.end_ts /\ r.start_ts <= s.clock
    BY <1>1, SimFields DEF RecordsOf, SearchRecord
  <1>3. Cpus(s, r.job) \in Nat
    BY SearchRowIs DEF RecordsOf
  <1>4. PICK least \in Int : least = Min({r.end_ts, s.clock})
                             /\ least = (IF r.end_ts <= s.clock THEN r.end_ts ELSE s.clock)
    BY <1>2, PairMax
  <1>5. UsedBy(s, r) = Cpus(s, r.job) * (least - r.start_ts)
    BY <1>4 DEF UsedBy
  <1>6. least - r.start_ts \in Nat
    BY <1>2, <1>4
  <1>7. UsedBy(s, r) \in Nat
    BY <1>3, <1>5, <1>6
  <1>8. r.end_ts >= s.clock => least = s.clock
    BY <1>2, <1>4
  <1>9. r.end_ts <= s.clock => least = r.end_ts
    BY <1>2, <1>4
  <1> QED
    BY <1>2, <1>3, <1>5, <1>7, <1>8, <1>9

(* CPUs and what they were used for are sums over parts.                   *)
LEMMA RecordsSplit ==
  ASSUME NEW s \in SimRecord, NEW S, RecordsOf(s, S), NEW T \in SUBSET S
  PROVE  /\ CpusOfRecords(s, S) \in Nat /\ CpusOfRecords(s, T) \in Nat /\ CpusOfRecords(s, S \ T) \in Nat
         /\ CpusOfRecords(s, T) + CpusOfRecords(s, S \ T) = CpusOfRecords(s, S)
         /\ Used(s, S) \in Nat /\ Used(s, T) \in Nat /\ Used(s, S \ T) \in Nat
         /\ Used(s, T) + Used(s, S \ T) = Used(s, S)
  <1> DEFINE size == [r \in S |-> Cpus(s, r.job)]
             use == [r \in S |-> UsedBy(s, r)]
  <1>1. IsFiniteSet(S) /\ (\A r \in S : size[r] \in Nat) /\ (\A r \in S : use[r] \in Nat)
    BY UsedByIs DEF RecordsOf
  <1>2. \A U \in SUBSET S : CpusOfRecords(s, U) = TotalOf(size, U) /\ Used(s, U) = TotalOf(use, U)
    <2> TAKE U \in SUBSET S
    <2> DEFINE sizeU == [r \in U |-> Cpus(s, r.job)]
               useU == [r \in U |-> UsedBy(s, r)]
    <2>1. (\A r \in U : sizeU[r] = size[r]) /\ (\A r \in U : useU[r] = use[r])
      OBVIOUS
    <2>2. CpusOfRecords(s, U) = TotalOf(sizeU, U) /\ Used(s, U) = TotalOf(useU, U)
      BY DEF CpusOfRecords, Used, UsedBy
    <2> HIDE DEF size, use, sizeU, useU
    <2>3. TotalOf(sizeU, U) = TotalOf(size, U) /\ TotalOf(useU, U) = TotalOf(use, U)
      BY <2>1, TotalSame
    <2> QED
      BY <2>2, <2>3
  <1> HIDE DEF size, use
  <1>3. /\ TotalOf(size, S) \in Nat /\ TotalOf(size, T) \in Nat /\ TotalOf(size, S \ T) \in Nat
        /\ TotalOf(size, T) + TotalOf(size, S \ T) = TotalOf(size, S)
    BY <1>1, TotalSplit
  <1>4. /\ TotalOf(use, S) \in Nat /\ TotalOf(use, T) \in Nat /\ TotalOf(use, S \ T) \in Nat
        /\ TotalOf(use, T) + TotalOf(use, S \ T) = TotalOf(use, S)
    BY <1>1, TotalSplit
  <1>5. S \in SUBSET S /\ T \in SUBSET S /\ S \ T \in SUBSET S
    OBVIOUS
  <1> QED
    BY <1>2, <1>3, <1>4, <1>5

(* What is admitted is what has arrived.                                   *)
LEMMA AdmittedIs ==
  ASSUME NEW s, SimInv(s)
  PROVE  /\ Admitted(s) \in Nat /\ s.job_idx <= Admitted(s) /\ Admitted(s) <= Len(s.trace)
         /\ Admitted(s) < Len(s.trace) => s.trace[Admitted(s) + 1].submit_ts > s.clock
         /\ \A job \in (s.job_idx + 1)..Admitted(s) : s.trace[job].submit_ts <= s.clock
  <1>1. s \in SimRecord /\ s.job_idx \in Nat /\ s.clock \in Int /\ s.job_idx <= Len(s.trace)
        /\ s.trace \in Seq(SearchRow)
    BY SimFields DEF SimInv, SimPlaces
  <1>2. PICK len \in Nat : len = Len(s.trace)
    BY <1>1
  <1> DEFINE A == {n \in s.job_idx..Len(s.trace) : n < Len(s.trace) => s.trace[n + 1].submit_ts > s.clock}
  <1>3. A \in SUBSET Int /\ A # {} /\ IsFiniteSet(A)
    <2>1. A \in SUBSET (s.job_idx..len)
      BY <1>2
    <2>2. len \in A
      BY <1>1, <1>2
    <2>3. IsFiniteSet(s.job_idx..len)
      BY <1>1, FS_Interval
    <2>4. s.job_idx..len \in SUBSET Int
      OBVIOUS
    <2> HIDE DEF A
    <2> QED
      BY <2>1, <2>2, <2>3, <2>4, FS_Subset
  <1>4. PICK a : a = Admitted(s) /\ a \in A /\ \A n \in A : a <= n
    <2>1. Admitted(s) = Min(A)
      BY DEF Admitted
    <2> HIDE DEF A
    <2> QED
      BY <1>3, <2>1, MinOfFinite
  <1>5. a \in Nat /\ s.job_idx <= a /\ a <= len /\ (a < len => s.trace[a + 1].submit_ts > s.clock)
    BY <1>1, <1>2, <1>4
  <1>6. ASSUME NEW job \in (s.job_idx + 1)..a PROVE s.trace[job].submit_ts <= s.clock
    <2>1. PICK n \in Nat : n + 1 = job /\ n \in s.job_idx..len /\ n < len /\ n < a /\ job \in 1..len
      <3>1. job - 1 \in Nat /\ (job - 1) + 1 = job
        BY <1>1, <1>5
      <3>2. job - 1 \in s.job_idx..len /\ job - 1 < len /\ job - 1 < a /\ job \in 1..len
        BY <1>1, <1>5
      <3> QED
        BY <3>1, <3>2
    <2>2. n \notin A
      BY <1>4, <1>5, <2>1
    <2>3. ~ (s.trace[n + 1].submit_ts > s.clock)
      BY <1>2, <2>1, <2>2
    <2>4. s.trace[job].submit_ts \in Int
      BY <1>1, <1>2, <2>1, SearchRowIs
    <2> QED
      BY <1>1, <2>1, <2>3, <2>4
  <1> HIDE DEF A
  <1> QED
    BY <1>2, <1>4, <1>5, <1>6

(* A job of the line that is dispatched was admitted and has no record.    *)
Startable(s, job) ==
  /\ job \in 1..Admitted(s) /\ job \in 1..Len(s.trace)
  /\ s.trace[job].submit_ts <= s.clock
  /\ \A r \in s.active \cup s.finished : r.job # job

(* A line behind a line.                                                   *)
LEMMA LinesJoined ==
  ASSUME NEW front \in Seq(Nat), NEW back \in Seq(Nat)
  PROVE  /\ front \o back \in Seq(Nat) /\ Len(front \o back) = Len(front) + Len(back)
         /\ \A i \in 1..Len(front) : (front \o back)[i] = front[i]
         /\ \A i \in (Len(front) + 1)..(Len(front) + Len(back)) : (front \o back)[i] = back[i - Len(front)]
  OBVIOUS

(* All that waits once arrivals are admitted can be started.               *)
LEMMA WaitingIs ==
  ASSUME NEW s, SimInv(s)
  PROVE  Line(s, Waiting(s)) /\ \A job \in Members(Waiting(s)) : Startable(s, job)
  <1>1. s \in SimRecord /\ s.job_idx \in Nat /\ SimQueue(s) /\ SimPlaces(s)
    BY SimFields DEF SimInv
  <1>2. PICK a \in Nat : a = Admitted(s) /\ s.job_idx <= a /\ a <= Len(s.trace)
    BY AdmittedIs
  <1>3. PICK len \in Nat, k \in Nat, m \in Nat :
          len = Len(s.trace) /\ k = Len(s.queue) /\ DOMAIN s.queue = 1..k /\ m = a - s.job_idx
    <2>1. Len(s.trace) \in Nat /\ Len(s.queue) \in Nat /\ DOMAIN s.queue = 1..Len(s.queue)
      BY <1>1, SimFields
    <2>2. a - s.job_idx \in Nat
      BY <1>1, <1>2
    <2> QED
      BY <2>1, <2>2
  <1> DEFINE more == [n \in 1..m |-> s.job_idx + n]
             line == s.queue \o more
  <1>4. more \in Seq(Nat) /\ Len(more) = m /\ \A n \in 1..m : more[n] = s.job_idx + n
    <2>1. more \in [1..m -> Nat]
      BY <1>1
    <2> QED
      BY <2>1
  <1>5. Waiting(s) = line
    BY <1>2, <1>3 DEF Waiting
  <1> HIDE DEF more
  <1>6. /\ line \in Seq(Nat) /\ Len(line) = k + m
        /\ \A i \in 1..k : line[i] = s.queue[i]
        /\ \A i \in (k + 1)..(k + m) : line[i] = more[i - k]
    <2>1. s.queue \in Seq(Nat) /\ Len(s.queue) = k
      BY <1>1, <1>3, SimFields
    <2>2. /\ line \in Seq(Nat) /\ Len(line) = Len(s.queue) + Len(more)
          /\ \A i \in 1..Len(s.queue) : line[i] = s.queue[i]
          /\ \A i \in (Len(s.queue) + 1)..(Len(s.queue) + Len(more)) : line[i] = more[i - Len(s.queue)]
      BY <1>4, <2>1, LinesJoined
    <2> HIDE DEF line
    <2> QED
      BY <1>4, <2>1, <2>2
  <1>7. DOMAIN line = 1..(k + m)
    BY <1>6
  <1> HIDE DEF line
  <1>8. ASSUME NEW i \in 1..k
        PROVE  line[i] \in 1..s.job_idx /\ line[i] \in 1..len /\ Startable(s, line[i])
    <2>1. /\ s.queue[i] \in 1..len /\ s.queue[i] <= s.job_idx /\ s.trace[s.queue[i]].submit_ts <= s.clock
      <3>1. i \in DOMAIN s.queue
        BY <1>3
      <3>2. s.queue[i] \in 1..Len(s.trace) /\ s.queue[i] <= s.job_idx /\ s.trace[s.queue[i]].submit_ts <= s.clock
        BY <1>1, <3>1, Zenon DEF SimQueue, Line
      <3> QED
        BY <1>3, <3>2
    <2>2. s.queue[i] \in 1..s.job_idx /\ s.queue[i] \in 1..a
      BY <1>1, <1>2, <2>1
    <2>3. \A r \in s.active \cup s.finished : r.job # s.queue[i]
      BY <1>1, <1>3 DEF SimPlaces
    <2> QED
      BY <1>2, <1>3, <1>6, <2>1, <2>2, <2>3 DEF Startable
  <1>9. ASSUME NEW i \in (k + 1)..(k + m)
        PROVE  /\ line[i] = s.job_idx + (i - k) /\ line[i] \in (s.job_idx + 1)..a
               /\ line[i] \in 1..len /\ Startable(s, line[i])
    <2>1. i - k \in 1..m
      OBVIOUS
    <2>2. line[i] = s.job_idx + (i - k)
      BY <1>4, <1>6, <2>1
    <2>3. line[i] \in (s.job_idx + 1)..a /\ line[i] \in 1..a /\ line[i] \in 1..len
      <3>1. PICK n \in 1..m : n = i - k
        BY <2>1
      <3>2. PICK v \in Nat : v = line[i] /\ v = s.job_idx + n
        BY <1>1, <2>2, <3>1
      <3>3. v >= s.job_idx + 1 /\ v <= a /\ v <= len /\ v >= 1
        <4>1. PICK q \in Nat : q = s.job_idx
          BY <1>1
        <4>2. v = q + n /\ n \in 1..m /\ m = a - q /\ a <= len
          BY <1>2, <1>3, <3>1, <3>2, <4>1
        <4>3. v >= q + 1 /\ v <= a /\ v <= len /\ v >= 1
          BY <4>2
        <4> QED
          BY <4>1, <4>3
      <3>4. v \in (s.job_idx + 1)..a /\ v \in 1..a /\ v \in 1..len
        BY <1>1, <3>2, <3>3
      <3> QED
        BY <3>2, <3>4
    <2>4. s.trace[line[i]].submit_ts <= s.clock
      BY <1>2, <2>3, AdmittedIs
    <2>5. \A r \in s.active \cup s.finished : r.job \in 1..s.job_idx
      BY <1>1 DEF SimPlaces
    <2>6. \A r \in s.active \cup s.finished : r.job # line[i]
      BY <1>1, <2>3, <2>5
    <2> QED
      BY <1>2, <1>3, <2>2, <2>3, <2>4, <2>6 DEF Startable
  <1>10. \A i \in 1..(k + m) : i \in 1..k \/ i \in (k + 1)..(k + m)
    OBVIOUS
  <1>11. ASSUME NEW i \in 1..(k + m), NEW j \in 1..(k + m), line[i] = line[j] PROVE i = j
    <2>1. CASE i \in 1..k /\ j \in 1..k
      <3>1. s.queue[i] = s.queue[j]
        BY <1>6, <1>11, <2>1
      <3>2. i \in DOMAIN s.queue /\ j \in DOMAIN s.queue
        BY <1>3, <2>1
      <3>3. \A p, q \in DOMAIN s.queue : s.queue[p] = s.queue[q] => p = q
        BY <1>1, Zenon DEF SimQueue, Line
      <3> QED
        BY <3>1, <3>2, <3>3
    <2>2. CASE i \in (k + 1)..(k + m) /\ j \in (k + 1)..(k + m)
      BY <1>1, <1>9, <1>11, <2>2
    <2>3. CASE i \in 1..k /\ j \in (k + 1)..(k + m)
      <3>1. line[i] <= s.job_idx /\ line[j] > s.job_idx /\ line[i] \in Nat
        BY <1>1, <1>8, <1>9, <2>3
      <3> QED
        BY <1>1, <1>11, <3>1
    <2>4. CASE i \in (k + 1)..(k + m) /\ j \in 1..k
      <3>1. line[j] <= s.job_idx /\ line[i] > s.job_idx /\ line[j] \in Nat
        BY <1>1, <1>8, <1>9, <2>4
      <3> QED
        BY <1>1, <1>11, <3>1
    <2> QED
      BY <1>10, <2>1, <2>2, <2>3, <2>4
  <1>12. \A i \in 1..(k + m) : line[i] \in 1..len /\ Startable(s, line[i])
    BY <1>8, <1>9, <1>10
  <1>13. Line(s, line)
    BY <1>3, <1>6, <1>7, <1>11, <1>12 DEF Line
  <1> QED
    BY <1>5, <1>7, <1>12, <1>13 DEF Members

RecordAt(s, job) == [job |-> job, start_ts |-> s.clock, end_ts |-> s.clock + s.trace[job].runtime_actual_sec]
RecordsAt(s, jobs_started) == {RecordAt(s, job) : job \in jobs_started}

(* The record of a job that starts now.                                    *)
LEMMA RecordAtIs ==
  ASSUME NEW s \in SimRecord, NEW job \in 1..Len(s.trace)
  PROVE  /\ RecordAt(s, job) \in SearchRecord
         /\ RecordAt(s, job).job = job /\ RecordAt(s, job).start_ts = s.clock
         /\ RecordAt(s, job).end_ts >= s.clock /\ s.clock \in Int
  <1>1. s.clock \in Int /\ s.trace[job].runtime_actual_sec \in Nat /\ job \in Nat
    BY SimFields, SearchRowIs
  <1>2. s.clock + s.trace[job].runtime_actual_sec \in Int
        /\ s.clock + s.trace[job].runtime_actual_sec >= s.clock
    BY <1>1
  <1> QED
    BY <1>1, <1>2 DEF RecordAt, SearchRecord

(* The CPUs of what starts are those of its places, and it has used none.  *)
LEMMA StartedCpus ==
  ASSUME NEW s \in SimRecord, NEW seq, Line(s, seq), NEW P \in SUBSET DOMAIN seq,
         NEW R, R = RecordsAt(s, {seq[i] : i \in P})
  PROVE  RecordsOf(s, R) /\ CpusOfRecords(s, R) = CpusAt(s, seq, P) /\ Used(s, R) = 0
  <1> DEFINE places == [i \in DOMAIN seq |-> Cpus(s, seq[i])]
             sizes == [r \in R |-> Cpus(s, r.job)]
             use == [r \in R |-> UsedBy(s, r)]
             f == [i \in P |-> RecordAt(s, seq[i])]
  <1>1. IsFiniteSet(P)
    BY CpusAtSplit
  <1>2. \A i \in P : seq[i] \in 1..Len(s.trace)
    BY DEF Line
  <1>3. \A i \in P : f[i] \in R /\ f[i] = RecordAt(s, seq[i]) /\ f[i].job = seq[i]
    <2>1. \A i \in P : RecordAt(s, seq[i]).job = seq[i]
      BY <1>2, RecordAtIs
    <2> QED
      BY <2>1 DEF RecordsAt
  <1>4. f \in Bijection(P, R)
    <2>1. f \in [P -> R]
      BY <1>3
    <2>2. \A i, j \in P : f[i] = f[j] => i = j
      BY <1>3 DEF Line
    <2>3. \A r \in R : \E i \in P : f[i] = r
      BY <1>3 DEF RecordsAt
    <2> HIDE DEF f
    <2> QED
      BY <2>1, <2>2, <2>3 DEF Bijection, Injection, IsInjective, Surjection
  <1>5. \A i \in P : places[i] \in Nat /\ places[i] = sizes[f[i]]
    <2> TAKE i \in P
    <2>1. places[i] = Cpus(s, seq[i]) /\ sizes[f[i]] = Cpus(s, seq[i])
      BY <1>3
    <2>2. Cpus(s, seq[i]) \in Nat
      BY <1>2, SearchRowIs
    <2> QED
      BY <2>1, <2>2
  <1>6. CpusOfRecords(s, R) = TotalOf(sizes, R) /\ CpusAt(s, seq, P) = TotalOf(places, P)
        /\ Used(s, R) = TotalOf(use, R)
    BY DEF CpusOfRecords, CpusAt, Used, UsedBy
  <1>7. \A r \in R : \E job \in 1..Len(s.trace) : r = RecordAt(s, job)
    BY <1>2 DEF RecordsAt
  <1>8. ASSUME NEW r \in R
        PROVE  /\ r \in SearchRecord /\ r.job \in 1..Len(s.trace) /\ r.start_ts = s.clock /\ s.clock \in Int
               /\ r.end_ts >= s.clock /\ r.start_ts <= r.end_ts /\ r.start_ts <= s.clock
    <2>1. PICK job \in 1..Len(s.trace) : r = RecordAt(s, job)
      BY <1>7
    <2>2. /\ RecordAt(s, job) \in SearchRecord
          /\ RecordAt(s, job).job = job /\ RecordAt(s, job).start_ts = s.clock
          /\ RecordAt(s, job).end_ts >= s.clock /\ s.clock \in Int
      BY RecordAtIs
    <2>3. r.start_ts = s.clock /\ r.end_ts >= s.clock
      BY <2>1, <2>2
    <2> QED
      BY <2>1, <2>2, <2>3
  <1> HIDE DEF f, places, sizes
  <1>9. IsFiniteSet(R)
    BY <1>1, <1>4, FS_Bijection DEF ExistsBijection
  <1>10. RecordsOf(s, R)
    BY <1>8, <1>9 DEF RecordsOf
  <1>11. \A r \in R : use[r] = 0
    <2> TAKE r \in R
    <2>1. UsedBy(s, r) = Cpus(s, r.job) * (s.clock - r.start_ts) /\ Cpus(s, r.job) \in Nat
      BY <1>8, <1>10, UsedByIs
    <2>2. s.clock - r.start_ts = 0
      BY <1>8
    <2>3. UsedBy(s, r) = 0
      BY <2>1, <2>2
    <2> QED
      BY <2>3
  <1> HIDE DEF use
  <1>12. TotalOf(places, P) = TotalOf(sizes, R)
    BY <1>1, <1>4, <1>5, TotalMoved
  <1>13. TotalOf(use, R) = 0
    BY <1>11, TotalZeros
  <1> QED
    BY <1>6, <1>10, <1>12, <1>13

(* The two passes over the line, and the queue they leave.                 *)
Passes(s, ordered, first, second) ==
  /\ ordered = Boosted(s, Waiting(s))
  /\ first = FirstPass(s, ordered)
  /\ second = SecondPass(s, first)

(* What the passes start and what they keep was waiting, each job once.    *)
LEMMA PassesAre ==
  ASSUME NEW s, SimInv(s), NEW ordered, NEW first, NEW second, Passes(s, ordered, first, second)
  PROVE  /\ Line(s, ordered) /\ \A i \in DOMAIN ordered : Startable(s, ordered[i])
         /\ PassOver(s, first, ordered, s.free)
         /\ Line(s, Kept(first)) /\ PassOver(s, second, Kept(first), CpusLeft(s, first))
         /\ \A p \in DOMAIN Kept(first) : \E i \in DOMAIN ordered \ first.started : Kept(first)[p] = ordered[i]
         /\ Line(s, Kept(second))
         /\ \A p \in DOMAIN Kept(second) :
              \E i \in DOMAIN Kept(first) \ second.started : Kept(second)[p] = Kept(first)[i]
  <1>1. s \in SimRecord /\ s.free \in Nat
    BY SimFields DEF SimInv, SimAccounts
  <1>2. Line(s, ordered) /\ Members(ordered) \subseteq Members(Waiting(s))
    BY <1>1, WaitingIs, BoostedIs DEF Passes
  <1>3. \A i \in DOMAIN ordered : Startable(s, ordered[i])
    BY <1>2, WaitingIs DEF Members
  <1>4. PassOver(s, first, ordered, s.free)
    <2>1. first = NoPass(ordered, s.free) \/ first = Pass(s, ordered, s.free)
      BY DEF Passes, FirstPass
    <2> QED
      BY <1>1, <1>2, <2>1, PassIs, NoPassIs
  <1>5. first.jobs = ordered /\ first.started \in SUBSET DOMAIN ordered /\ CpusLeft(s, first) \in Nat
    BY <1>4 DEF PassOver
  <1>6. PICK rest : rest = Kept(first)
    OBVIOUS
  <1>7. /\ Line(s, rest)
        /\ \A p \in DOMAIN rest : \E i \in DOMAIN ordered \ first.started : rest[p] = ordered[i]
    BY <1>1, <1>2, <1>5, <1>6, KeptIs
  <1>8. PassOver(s, second, rest, CpusLeft(s, first))
    <2>1. second = NoPass(rest, CpusLeft(s, first)) \/ second = Pass(s, rest, CpusLeft(s, first))
      BY <1>6 DEF Passes, SecondPass
    <2> QED
      BY <1>1, <1>5, <1>7, <2>1, PassIs, NoPassIs
  <1>9. second.jobs = rest /\ second.started \in SUBSET DOMAIN rest
    BY <1>8 DEF PassOver
  <1>10. /\ Line(s, Kept(second))
         /\ \A p \in DOMAIN Kept(second) : \E i \in DOMAIN rest \ second.started : Kept(second)[p] = rest[i]
    BY <1>1, <1>7, <1>9, KeptIs
  <1> QED
    BY <1>2, <1>3, <1>4, <1>6, <1>7, <1>8, <1>10

NextNotArrived(s) == s.job_idx < Len(s.trace) => s.trace[s.job_idx + 1].submit_ts > s.clock

(* A dispatch admits, starts and queues, and every job is in one place.    *)
LEMMA DispatchedInv ==
  ASSUME NEW s, SimInv(s), NEW ordered, NEW first, NEW second, Passes(s, ordered, first, second),
         NEW d, d = Dispatched(s, first, second)
  PROVE  /\ SimInv(d) /\ NextNotArrived(d)
         /\ d.trace = s.trace /\ d.action = s.action /\ d.events = s.events
  <1>1. s \in SimRecord /\ SimQueue(s) /\ SimPlaces(s) /\ SimAccounts(s)
    BY DEF SimInv
  <1>2. PICK rest : rest = Kept(first)
    OBVIOUS
  <1>3. PICK queue_left : queue_left = Kept(second)
    OBVIOUS
  <1>4. /\ Line(s, ordered) /\ \A i \in DOMAIN ordered : Startable(s, ordered[i])
        /\ PassOver(s, first, ordered, s.free)
        /\ Line(s, rest) /\ PassOver(s, second, rest, CpusLeft(s, first))
        /\ \A p \in DOMAIN rest : \E i \in DOMAIN ordered \ first.started : rest[p] = ordered[i]
        /\ Line(s, queue_left)
        /\ \A p \in DOMAIN queue_left : \E i \in DOMAIN rest \ second.started : queue_left[p] = rest[i]
    BY <1>2, <1>3, PassesAre
  <1>once. /\ \A i, j \in DOMAIN ordered : ordered[i] = ordered[j] => i = j
           /\ \A i, j \in DOMAIN rest : rest[i] = rest[j] => i = j
    BY <1>4, Zenon DEF Line
  <1>5. /\ first.jobs = ordered /\ first.started \in SUBSET DOMAIN ordered
        /\ second.jobs = rest /\ second.started \in SUBSET DOMAIN rest
        /\ CpusLeft(s, first) \in Nat /\ CpusLeft(s, second) \in Nat
        /\ CpusAt(s, ordered, first.started) \in Nat /\ CpusAt(s, rest, second.started) \in Nat
        /\ CpusLeft(s, first) + CpusAt(s, ordered, first.started) = s.free
        /\ CpusLeft(s, second) + CpusAt(s, rest, second.started) = CpusLeft(s, first)
    BY <1>4 DEF PassOver
  <1>6. PICK R1, R2 : /\ R1 = RecordsAt(s, {ordered[i] : i \in first.started})
                      /\ R2 = RecordsAt(s, {rest[i] : i \in second.started})
    OBVIOUS
  <1>7. Running(s, Started(first, second)) = s.active \cup (R1 \cup R2)
    BY <1>5, <1>6 DEF Running, Started, RecordsAt, RecordAt
  <1>8. /\ RecordsOf(s, R1) /\ CpusOfRecords(s, R1) = CpusAt(s, ordered, first.started) /\ Used(s, R1) = 0
        /\ RecordsOf(s, R2) /\ CpusOfRecords(s, R2) = CpusAt(s, rest, second.started) /\ Used(s, R2) = 0
    BY <1>1, <1>4, <1>5, <1>6, StartedCpus
  <1>9. PICK a \in Nat : a = Admitted(s) /\ s.job_idx <= a /\ a <= Len(s.trace)
                         /\ (a < Len(s.trace) => s.trace[a + 1].submit_ts > s.clock)
    BY AdmittedIs
  <1>10. PICK running_now : running_now = s.active \cup (R1 \cup R2)
    OBVIOUS
  <1>11. running_now \in SUBSET SearchRecord
    BY <1>1, <1>8, <1>10, SimFields DEF RecordsOf
  <1>12. d = [s EXCEPT !.job_idx = a, !.queue = queue_left, !.free = CpusLeft(s, second), !.active = running_now]
    BY <1>3, <1>7, <1>9, <1>10 DEF Dispatched
  <1>13. queue_left \in Seq(Nat)
    BY <1>4 DEF Line
  <1>14. /\ d \in SimRecord
         /\ d.trace = s.trace /\ d.action = s.action /\ d.events = s.events /\ d.clock = s.clock
         /\ d.finished = s.finished /\ d.cpu_time_used = s.cpu_time_used /\ d.total_time = s.total_time
         /\ d.job_idx = a /\ d.queue = queue_left /\ d.free = CpusLeft(s, second) /\ d.active = running_now
    <2>1. PICK left \in Int : left = CpusLeft(s, second)
      BY <1>5
    <2> QED
      BY <1>1, <1>11, <1>12, <1>13, <2>1 DEF SimRecord
  <1>15. ASSUME NEW r \in R1 \cup R2
         PROVE  \E i \in DOMAIN ordered : /\ r = RecordAt(s, ordered[i]) /\ r.job = ordered[i]
                                          /\ i \in first.started <=> r \in R1
    <2>1. ASSUME NEW x \in R1 PROVE \E i \in first.started : x = RecordAt(s, ordered[i]) /\ x.job = ordered[i]
      BY <1>6, <2>1 DEF RecordsAt, RecordAt
    <2>2. ASSUME NEW x \in R2
          PROVE  \E i \in DOMAIN ordered \ first.started : x = RecordAt(s, ordered[i]) /\ x.job = ordered[i]
      <3>1. PICK p \in second.started : x = RecordAt(s, rest[p]) /\ x.job = rest[p]
        BY <1>6, <2>2 DEF RecordsAt, RecordAt
      <3> QED
        BY <1>4, <1>5, <3>1
    <2> QED
      BY <1>once, <1>5, <2>1, <2>2
  <1>16. R1 \cap R2 = {}
    <2> SUFFICES ASSUME NEW x \in R1, x \in R2 PROVE FALSE
      OBVIOUS
    <2>1. PICK i \in first.started : x.job = ordered[i]
      BY <1>6 DEF RecordsAt, RecordAt
    <2>2. PICK p \in second.started : x.job = rest[p]
      BY <1>6 DEF RecordsAt, RecordAt
    <2>3. PICK j \in DOMAIN ordered \ first.started : rest[p] = ordered[j]
      BY <1>4, <1>5
    <2> QED
      BY <1>once, <1>5, <2>1, <2>2, <2>3
  <1>17. ASSUME NEW p \in DOMAIN queue_left
         PROVE  /\ Startable(s, queue_left[p]) /\ \A r \in R1 \cup R2 : r.job # queue_left[p]
    <2>1. PICK q \in DOMAIN rest \ second.started : queue_left[p] = rest[q]
      BY <1>4
    <2>2. PICK j \in DOMAIN ordered \ first.started : rest[q] = ordered[j]
      BY <1>4
    <2>3. \A r \in R1 : r.job # queue_left[p]
      <3> SUFFICES ASSUME NEW r \in R1, r.job = queue_left[p] PROVE FALSE
        OBVIOUS
      <3>1. PICK i \in first.started : r.job = ordered[i]
        BY <1>6 DEF RecordsAt, RecordAt
      <3> QED
        BY <1>once, <1>5, <2>1, <2>2, <3>1
    <2>4. \A r \in R2 : r.job # queue_left[p]
      <3> SUFFICES ASSUME NEW r \in R2, r.job = queue_left[p] PROVE FALSE
        OBVIOUS
      <3>1. PICK i \in second.started : r.job = rest[i]
        BY <1>6 DEF RecordsAt, RecordAt
      <3> QED
        BY <1>once, <1>5, <2>1, <3>1
    <2> QED
      BY <1>4, <2>1, <2>2, <2>3, <2>4
  <1>18. ASSUME NEW r \in R1 \cup R2
         PROVE  /\ r.job \in 1..a /\ r \notin s.active \cup s.finished
                /\ s.trace[r.job].submit_ts <= r.start_ts /\ r.start_ts = s.clock /\ s.clock <= r.end_ts
    <2>1. PICK i \in DOMAIN ordered : r = RecordAt(s, ordered[i]) /\ r.job = ordered[i]
      BY <1>15
    <2>2. Startable(s, ordered[i])
      BY <1>4
    <2>3. ordered[i] \in 1..Len(s.trace)
      BY <2>2 DEF Startable
    <2>4. r.start_ts = s.clock /\ r.end_ts >= s.clock /\ s.clock \in Int /\ r.end_ts \in Int
      <3>1. /\ RecordAt(s, ordered[i]) \in SearchRecord
            /\ RecordAt(s, ordered[i]).start_ts = s.clock
            /\ RecordAt(s, ordered[i]).end_ts >= s.clock /\ s.clock \in Int
        BY <1>1, <2>3, RecordAtIs
      <3> QED
        BY <2>1, <3>1 DEF SearchRecord
    <2>5. s.clock <= r.end_ts
      BY <2>4
    <2> QED
      BY <1>9, <2>1, <2>2, <2>4, <2>5 DEF Startable
  <1>19. SimQueue(d)
    <2>1. Line(d, d.queue)
      BY <1>4, <1>14 DEF Line
    <2>2. ASSUME NEW i \in DOMAIN queue_left
          PROVE  queue_left[i] <= a /\ s.trace[queue_left[i]].submit_ts <= s.clock
      <3>1. Startable(s, queue_left[i])
        BY <1>17
      <3> QED
        BY <1>9, <3>1 DEF Startable
    <2> QED
      BY <1>14, <2>1, <2>2 DEF SimQueue
  <1>20. s.job_idx \in Nat /\ s.clock \in Int /\ IsFiniteSet(s.active) /\ IsFiniteSet(s.finished)
         /\ IsFiniteSet(R1) /\ IsFiniteSet(R2)
    BY <1>1, <1>8, SimFields DEF SimPlaces, RecordsOf
  <1>21. IsFiniteSet(running_now)
    BY <1>10, <1>20, FS_Union
  <1>22. SimPlaces(d)
    <2>1. s.active \cap s.finished = {}
      BY <1>1 DEF SimPlaces
    <2>2. running_now \cap s.finished = {}
      BY <1>10, <1>18, <2>1
    <2>3. ASSUME NEW r \in s.active \cup s.finished
          PROVE  /\ r.job \in 1..a /\ \A i \in DOMAIN queue_left : queue_left[i] # r.job
                 /\ s.trace[r.job].submit_ts <= r.start_ts /\ r.start_ts <= s.clock /\ r.start_ts <= r.end_ts
      <3>1. /\ r.job \in 1..s.job_idx
            /\ s.trace[r.job].submit_ts <= r.start_ts /\ r.start_ts <= s.clock /\ r.start_ts <= r.end_ts
        BY <1>1 DEF SimPlaces
      <3>2. \A i \in DOMAIN queue_left : queue_left[i] # r.job
        BY <1>17 DEF Startable
      <3>3. r.job \in 1..a
        BY <1>9, <1>20, <3>1
      <3> QED
        BY <3>1, <3>2, <3>3
    <2>4. ASSUME NEW r \in R1 \cup R2
          PROVE  /\ r.job \in 1..a /\ \A i \in DOMAIN queue_left : queue_left[i] # r.job
                 /\ s.trace[r.job].submit_ts <= r.start_ts /\ r.start_ts <= s.clock /\ r.start_ts <= r.end_ts
                 /\ s.clock <= r.end_ts
      <3>1. /\ r.job \in 1..a /\ s.trace[r.job].submit_ts <= r.start_ts
            /\ r.start_ts = s.clock /\ s.clock <= r.end_ts
        BY <1>18
      <3>2. r.start_ts <= s.clock /\ r.start_ts <= r.end_ts
        BY <1>20, <3>1
      <3> QED
        BY <1>17, <3>1, <3>2
    <2>5. \A r \in running_now \cup s.finished : r \in s.active \cup s.finished \/ r \in R1 \cup R2
      BY <1>10
    <2>6. \A r \in running_now \cup s.finished :
            /\ r.job \in 1..a /\ \A i \in DOMAIN queue_left : queue_left[i] # r.job
            /\ s.trace[r.job].submit_ts <= r.start_ts /\ r.start_ts <= s.clock /\ r.start_ts <= r.end_ts
      BY <2>3, <2>4, <2>5
    <2>7. \A r \in running_now : s.clock <= r.end_ts
      BY <1>1, <1>10, <2>4 DEF SimPlaces
    <2>8. \A r \in s.finished : r.end_ts <= s.clock
      BY <1>1 DEF SimPlaces
    <2> QED
      BY <1>9, <1>14, <1>20, <1>21, <2>2, <2>6, <2>7, <2>8 DEF SimPlaces
  <1>23. \A S : CpusOfRecords(d, S) = CpusOfRecords(s, S) /\ Used(d, S) = Used(s, S)
    BY <1>14 DEF CpusOfRecords, Used, Cpus
  <1>24. SimAccounts(d)
    <2> DEFINE old == s.active \cup s.finished
               new == R1 \cup R2
               all == old \cup new
    <2>1. RecordsOf(s, all)
      <3>1. ASSUME NEW r \in old
            PROVE  r.job \in 1..Len(s.trace) /\ r.start_ts <= r.end_ts /\ r.start_ts <= s.clock
        <4>1. r.job \in 1..s.job_idx /\ r.start_ts <= r.end_ts /\ r.start_ts <= s.clock
              /\ s.job_idx <= Len(s.trace)
          BY <1>1 DEF SimPlaces
        <4>2. Len(s.trace) \in Nat
          BY <1>1, SimFields
        <4> QED
          BY <1>20, <4>1, <4>2
      <3>2. \A r \in new : r.job \in 1..Len(s.trace) /\ r.start_ts <= r.end_ts /\ r.start_ts <= s.clock
        BY <1>8 DEF RecordsOf
      <3>3. all \in SUBSET SearchRecord
        BY <1>1, <1>8, SimFields DEF RecordsOf
      <3>4. IsFiniteSet(all)
        BY <1>20, FS_Union
      <3> HIDE DEF old, new
      <3> QED
        BY <3>1, <3>2, <3>3, <3>4 DEF RecordsOf
    <2>2. \A r \in new : r \notin old
      BY <1>18
    <2>3. /\ new \in SUBSET all /\ running_now \in SUBSET all /\ s.active \in SUBSET all /\ old \in SUBSET all
          /\ running_now \ s.active = new /\ new \ R1 = R2 /\ all \ old = new /\ R1 \in SUBSET new
          /\ s.active \in SUBSET running_now
      BY <1>10, <1>16, <2>2
    <2>4. running_now \cup s.finished = all
      BY <1>10
    <2> HIDE DEF old, new, all
    <2>5. ASSUME NEW S \in SUBSET all PROVE RecordsOf(s, S)
      BY <2>1, FS_Subset DEF RecordsOf
    <2>6. /\ CpusOfRecords(s, R1) + CpusOfRecords(s, R2) = CpusOfRecords(s, new)
          /\ Used(s, R1) + Used(s, R2) = Used(s, new)
      BY <1>1, <2>3, <2>5, RecordsSplit
    <2>7. /\ CpusOfRecords(s, s.active) + CpusOfRecords(s, new) = CpusOfRecords(s, running_now)
          /\ CpusOfRecords(s, s.active) \in Nat /\ CpusOfRecords(s, new) \in Nat
      <3>1. RecordsOf(s, running_now)
        BY <2>3, <2>5
      <3> QED
        BY <1>1, <2>3, <3>1, RecordsSplit
    <2>8. Used(s, old) + Used(s, new) = Used(s, all) /\ Used(s, old) \in Nat
      BY <1>1, <2>1, <2>3, RecordsSplit
    <2>9. Used(s, all) = s.cpu_time_used
      <3>1. s.cpu_time_used = Used(s, old)
        BY <1>1 DEF SimAccounts, old
      <3> QED
        BY <1>8, <2>6, <2>8, <3>1
    <2>10. s.free + CpusOfRecords(s, s.active) = SearchCapacity /\ s.total_time = SearchCapacity * s.clock
      BY <1>1 DEF SimAccounts
    <2>11. CpusLeft(s, second) + CpusOfRecords(s, running_now) = SearchCapacity
      <3>1. s.free \in Int
        BY <1>1, SimFields
      <3> QED
        BY <1>5, <1>8, <2>6, <2>7, <2>10, <3>1
    <2>12. CpusLeft(s, second) >= 0
      BY <1>5
    <2> QED
      BY <1>14, <1>23, <2>4, <2>9, <2>10, <2>11, <2>12 DEF SimAccounts
  <1>25. NextNotArrived(d)
    BY <1>9, <1>14 DEF NextNotArrived
  <1> QED
    BY <1>14, <1>19, <1>22, <1>24, <1>25 DEF SimInv

(* The events of a step are counted beside all this.                       *)
LEMMA CountedInv ==
  ASSUME NEW s, SimInv(s), NEW n \in Int, NEW e, e = [s EXCEPT !.events = n]
  PROVE  SimInv(e) /\ e.trace = s.trace /\ e.action = s.action
  <1>1. s \in SimRecord
    BY DEF SimInv
  <1>2. /\ e \in SimRecord /\ e.events = n
        /\ e.trace = s.trace /\ e.action = s.action /\ e.clock = s.clock /\ e.free = s.free
        /\ e.job_idx = s.job_idx /\ e.queue = s.queue /\ e.active = s.active /\ e.finished = s.finished
        /\ e.cpu_time_used = s.cpu_time_used /\ e.total_time = s.total_time
    BY <1>1 DEF SimRecord
  <1>3. SimQueue(e)
    BY <1>2 DEF SimInv, SimQueue, Line
  <1>4. SimPlaces(e)
    BY <1>2 DEF SimInv, SimPlaces
  <1>5. \A S : CpusOfRecords(e, S) = CpusOfRecords(s, S) /\ Used(e, S) = Used(s, S)
    BY <1>2 DEF CpusOfRecords, Used, Cpus
  <1>6. SimAccounts(e)
    BY <1>2, <1>5 DEF SimInv, SimAccounts
  <1> QED
    BY <1>2, <1>3, <1>4, <1>6 DEF SimInv

(* The next event is not in the past, and nothing that runs ends before it.*)
LEMMA NextIs ==
  ASSUME NEW s, SimInv(s), NextNotArrived(s), Upcoming(s) # {}, NEW next, next = Min(Upcoming(s))
  PROVE  next \in Int /\ s.clock <= next /\ \A r \in s.active : next <= r.end_ts
  <1> DEFINE ends == {r.end_ts : r \in s.active}
             submits == {s.trace[i].submit_ts : i \in {s.job_idx + 1} \cap DOMAIN s.trace}
             f == [r \in s.active |-> r.end_ts]
  <1>1. s \in SimRecord /\ s.clock \in Int /\ s.job_idx \in Nat /\ s.trace \in Seq(SearchRow)
        /\ s.active \in SUBSET SearchRecord /\ SimPlaces(s)
    BY SimFields DEF SimInv
  <1>2. PICK len \in Nat : len = Len(s.trace) /\ DOMAIN s.trace = 1..len
    BY <1>1
  <1>3. ASSUME NEW x \in ends PROVE x \in Int /\ s.clock <= x
    BY <1>1, <1>3 DEF SearchRecord, SimPlaces
  <1>4. ASSUME NEW x \in submits PROVE x \in Int /\ s.clock <= x /\ x = s.trace[s.job_idx + 1].submit_ts
    <2>1. s.job_idx + 1 \in 1..len /\ x = s.trace[s.job_idx + 1].submit_ts
      BY <1>2
    <2>2. s.trace[s.job_idx + 1].submit_ts \in Int
      BY <1>1, <1>2, <2>1, SearchRowIs
    <2>3. s.job_idx < len
      BY <1>1, <2>1
    <2>4. s.trace[s.job_idx + 1].submit_ts > s.clock
      BY <1>2, <2>3 DEF NextNotArrived
    <2> QED
      BY <1>1, <2>1, <2>2, <2>4
  <1>5. IsFiniteSet(ends)
    <2>1. ends = {f[r] : r \in DOMAIN f} /\ DOMAIN f = s.active
      OBVIOUS
    <2>2. IsFiniteSet(s.active)
      BY <1>1 DEF SimPlaces
    <2> HIDE DEF f, ends
    <2> QED
      BY <2>1, <2>2, ImageIsFinite
  <1>6. IsFiniteSet(submits)
    <2> DEFINE one == {s.trace[s.job_idx + 1].submit_ts}
    <2>1. submits \in SUBSET one
      BY <1>4
    <2>2. IsFiniteSet(one)
      BY FS_Singleton
    <2> HIDE DEF submits, one
    <2> QED
      BY <2>1, <2>2, FS_Subset
  <1>7. Upcoming(s) = ends \cup submits
    BY DEF Upcoming
  <1>8. \A r \in s.active : r.end_ts \in ends
    OBVIOUS
  <1> HIDE DEF ends, submits
  <1>9. Upcoming(s) \in SUBSET Int /\ IsFiniteSet(Upcoming(s)) /\ \A x \in Upcoming(s) : s.clock <= x
    BY <1>3, <1>4, <1>5, <1>6, <1>7, FS_Union
  <1>10. next \in Upcoming(s) /\ \A x \in Upcoming(s) : next <= x
    BY <1>9, MinOfFinite
  <1> QED
    BY <1>7, <1>8, <1>9, <1>10

(* The clock moves, and the CPUs in use are paid for the time it takes.    *)
LEMMA MovedInv ==
  ASSUME NEW s, SimInv(s), NextNotArrived(s), Upcoming(s) # {}, NEW next, next = Min(Upcoming(s)),
         NEW e, e = MovedTo(s, next)
  PROVE  SimInv(e) /\ e.trace = s.trace /\ e.action = s.action
  <1>1. s \in SimRecord /\ SimQueue(s) /\ SimPlaces(s) /\ SimAccounts(s)
    BY DEF SimInv
  <1>2. /\ s.clock \in Int /\ s.free \in Int /\ s.events \in Int /\ s.job_idx \in Nat
        /\ s.cpu_time_used \in Int /\ s.total_time \in Int /\ s.trace \in Seq(SearchRow)
        /\ s.active \in SUBSET SearchRecord /\ s.finished \in SUBSET SearchRecord
    BY <1>1, SimFields
  <1>3. next \in Int /\ s.clock <= next /\ \A r \in s.active : next <= r.end_ts
    BY NextIs
  <1>4. PICK elapsed \in Nat : elapsed = next - s.clock /\ Elapsed(s, next) = elapsed
    <2>1. next - s.clock \in Nat
      BY <1>2, <1>3
    <2> QED
      BY <2>1 DEF Elapsed, Clip
  <1>5. PICK over : over = {r \in s.active : r.end_ts <= next}
    OBVIOUS
  <1>6. SearchCapacity \in Nat
    BY SearchAssumption
  <1>7. RecordsOf(s, s.active \cup s.finished)
    <2>1. IsFiniteSet(s.active \cup s.finished)
      BY <1>1, FS_Union DEF SimPlaces
    <2>2. ASSUME NEW r \in s.active \cup s.finished
          PROVE  r.job \in 1..Len(s.trace) /\ r.start_ts <= r.end_ts /\ r.start_ts <= s.clock
      <3>1. r.job \in 1..s.job_idx /\ r.start_ts <= r.end_ts /\ r.start_ts <= s.clock
            /\ s.job_idx <= Len(s.trace) /\ Len(s.trace) \in Nat
        BY <1>1, <1>2 DEF SimPlaces
      <3> QED
        BY <1>2, <3>1
    <2> QED
      BY <1>2, <2>1, <2>2 DEF RecordsOf
  <1>8. ASSUME NEW S \in SUBSET (s.active \cup s.finished) PROVE RecordsOf(s, S)
    BY <1>7, FS_Subset DEF RecordsOf
  <1>9. /\ CpusOfRecords(s, over) \in Nat /\ CpusOfRecords(s, s.active) \in Nat
        /\ CpusOfRecords(s, s.active \ over) \in Nat
        /\ CpusOfRecords(s, over) + CpusOfRecords(s, s.active \ over) = CpusOfRecords(s, s.active)
    BY <1>1, <1>5, <1>8, RecordsSplit
  <1>10. PICK c \in Nat : c = CpusOfRecords(s, s.active) /\ s.free + c = SearchCapacity
    BY <1>1, <1>9 DEF SimAccounts
  <1>11. SearchCapacity - s.free = c
    BY <1>2, <1>6, <1>10
  <1>12. PICK paid \in Nat, whole \in Nat : paid = c * elapsed /\ whole = SearchCapacity * elapsed
    BY <1>6
  <1>13. e = [s EXCEPT !.events = s.events + 1, !.cpu_time_used = s.cpu_time_used + paid,
                       !.total_time = s.total_time + whole, !.clock = next,
                       !.active = s.active \ over, !.finished = s.finished \cup over,
                       !.free = s.free + CpusOfRecords(s, over)]
    BY <1>4, <1>5, <1>11, <1>12 DEF MovedTo
  <1>14. /\ e \in SimRecord
         /\ e.trace = s.trace /\ e.action = s.action /\ e.clock = next
         /\ e.free = s.free + CpusOfRecords(s, over)
         /\ e.job_idx = s.job_idx /\ e.queue = s.queue
         /\ e.active = s.active \ over /\ e.finished = s.finished \cup over
         /\ e.cpu_time_used = s.cpu_time_used + paid /\ e.total_time = s.total_time + whole
    <2>0. PICK o \in Nat : o = CpusOfRecords(s, over)
      BY <1>9
    <2>1. /\ s.events + 1 \in Int /\ s.cpu_time_used + paid \in Int /\ s.total_time + whole \in Int
          /\ s.free + o \in Int
      <3>1. s.events \in Int /\ s.cpu_time_used \in Int /\ s.total_time \in Int /\ s.free \in Int
        BY <1>2
      <3> QED
        BY <3>1
    <2>2. s.active \ over \in SUBSET SearchRecord /\ s.finished \cup over \in SUBSET SearchRecord
      <3>1. over \in SUBSET s.active
        BY <1>5
      <3>2. s.active \in SUBSET SearchRecord /\ s.finished \in SUBSET SearchRecord
        BY <1>2
      <3> QED
        BY <3>1, <3>2
    <2>3. PICK events \in Int, used \in Int, total \in Int, free \in Int,
               runs \in SUBSET SearchRecord, ends \in SUBSET SearchRecord :
            /\ events = s.events + 1 /\ used = s.cpu_time_used + paid /\ total = s.total_time + whole
            /\ free = s.free + o
            /\ runs = s.active \ over /\ ends = s.finished \cup over
      BY <2>1, <2>2
    <2>4. e = [s EXCEPT !.events = events, !.cpu_time_used = used, !.total_time = total, !.clock = next,
                        !.active = runs, !.finished = ends, !.free = free]
      BY <1>13, <2>0, <2>3
    <2>5. e = [trace |-> s.trace, action |-> s.action, clock |-> next, free |-> free, job_idx |-> s.job_idx,
               queue |-> s.queue, active |-> runs, finished |-> ends, events |-> events,
               cpu_time_used |-> used, total_time |-> total]
      BY <1>1, <2>4 DEF SimRecord
    <2>6. s.trace \in Seq(SearchRow) /\ s.action \in SearchAction /\ s.job_idx \in Nat /\ s.queue \in Seq(Nat)
          /\ next \in Int
      BY <1>1, <1>3, SimFields
    <2>7. e \in SimRecord
      BY <2>5, <2>6 DEF SimRecord
    <2>8. /\ e.trace = s.trace /\ e.action = s.action /\ e.clock = next /\ e.free = free
          /\ e.job_idx = s.job_idx /\ e.queue = s.queue /\ e.active = runs /\ e.finished = ends
          /\ e.cpu_time_used = used /\ e.total_time = total
      BY <2>5
    <2> QED
      BY <2>0, <2>3, <2>7, <2>8
  <1>15. SimQueue(e)
    <2>1. ASSUME NEW i \in DOMAIN s.queue
          PROVE  s.queue[i] <= s.job_idx /\ s.trace[s.queue[i]].submit_ts <= next
      <3>1. s.queue[i] <= s.job_idx /\ s.trace[s.queue[i]].submit_ts <= s.clock /\ s.queue[i] \in 1..Len(s.trace)
        BY <1>1 DEF SimQueue, Line
      <3>2. s.trace[s.queue[i]].submit_ts \in Int
        BY <1>1, <3>1, SearchRowIs
      <3> QED
        BY <1>2, <1>3, <3>1, <3>2
    <2>2. Line(e, e.queue)
      BY <1>1, <1>14 DEF SimQueue, Line
    <2> QED
      BY <1>14, <2>1, <2>2 DEF SimQueue
  <1>16. SimPlaces(e)
    <2>1. IsFiniteSet(s.active \ over) /\ IsFiniteSet(s.finished \cup over)
      <3>1. IsFiniteSet(s.active) /\ IsFiniteSet(s.finished) /\ over \in SUBSET s.active
            /\ s.active \ over \in SUBSET s.active
        BY <1>1, <1>5 DEF SimPlaces
      <3> QED
        BY <3>1, FS_Subset, FS_Union
    <2>2. (s.active \ over) \cap (s.finished \cup over) = {}
      BY <1>1 DEF SimPlaces
    <2>3. (s.active \ over) \cup (s.finished \cup over) = s.active \cup s.finished
      BY <1>5
    <2>4. ASSUME NEW r \in s.active \cup s.finished
          PROVE  /\ r.job \in 1..s.job_idx /\ \A i \in DOMAIN s.queue : s.queue[i] # r.job
                 /\ s.trace[r.job].submit_ts <= r.start_ts /\ r.start_ts <= next /\ r.start_ts <= r.end_ts
      <3>1. /\ r.job \in 1..s.job_idx /\ \A i \in DOMAIN s.queue : s.queue[i] # r.job
            /\ s.trace[r.job].submit_ts <= r.start_ts /\ r.start_ts <= s.clock /\ r.start_ts <= r.end_ts
        BY <1>1 DEF SimPlaces
      <3>2. r.start_ts \in Int
        BY <1>2 DEF SearchRecord
      <3>3. r.start_ts <= next
        BY <1>2, <1>3, <3>1, <3>2
      <3> QED
        BY <3>1, <3>3
    <2>5. \A r \in s.active \ over : next <= r.end_ts
      BY <1>3
    <2>6. ASSUME NEW r \in s.finished \cup over PROVE r.end_ts <= next
      <3>1. CASE r \in over
        BY <1>5, <3>1
      <3>2. CASE r \in s.finished
        <4>1. r.end_ts <= s.clock /\ r.end_ts \in Int
          BY <1>1, <1>2, <3>2 DEF SimPlaces, SearchRecord
        <4> QED
          BY <1>2, <1>3, <4>1
      <3> QED
        BY <3>1, <3>2
    <2>7. s.job_idx <= Len(s.trace)
      BY <1>1 DEF SimPlaces
    <2> QED
      BY <1>14, <2>1, <2>2, <2>3, <2>4, <2>5, <2>6, <2>7 DEF SimPlaces
  <1>17. \A S : CpusOfRecords(e, S) = CpusOfRecords(s, S)
    BY <1>14 DEF CpusOfRecords, Cpus
  <1>18. \A S \in SUBSET (s.active \cup s.finished) : RecordsOf(e, S)
    <2> TAKE S \in SUBSET (s.active \cup s.finished)
    <2>1. RecordsOf(s, S)
      BY <1>8
    <2>2. \A r \in S : r.start_ts <= next
      <3> TAKE r \in S
      <3>1. r.start_ts <= s.clock /\ r.start_ts \in Int
        BY <2>1 DEF RecordsOf, SearchRecord
      <3> QED
        BY <1>2, <1>3, <3>1
    <2> QED
      BY <1>14, <2>1, <2>2 DEF RecordsOf
  <1>19. Used(e, s.finished) = Used(s, s.finished)
    <2> DEFINE before == [r \in s.finished |-> UsedBy(s, r)]
               after == [r \in s.finished |-> UsedBy(e, r)]
    <2>1. Used(s, s.finished) = TotalOf(before, s.finished) /\ Used(e, s.finished) = TotalOf(after, s.finished)
      BY DEF Used, UsedBy
    <2>2. ASSUME NEW r \in s.finished PROVE before[r] = after[r]
      <3>1. RecordsOf(s, s.finished) /\ RecordsOf(e, s.finished)
        BY <1>8, <1>18
      <3>2. r.end_ts <= s.clock /\ r.end_ts \in Int
        BY <1>1, <1>2 DEF SimPlaces, SearchRecord
      <3>3. r.end_ts <= e.clock
        BY <1>2, <1>3, <1>14, <3>2
      <3>4. UsedBy(s, r) = Cpus(s, r.job) * (r.end_ts - r.start_ts)
        BY <1>1, <3>1, <3>2, UsedByIs
      <3>5. UsedBy(e, r) = Cpus(e, r.job) * (r.end_ts - r.start_ts)
        BY <1>14, <3>1, <3>3, UsedByIs
      <3>6. Cpus(e, r.job) = Cpus(s, r.job)
        BY <1>14 DEF Cpus
      <3> QED
        BY <3>4, <3>5, <3>6
    <2> HIDE DEF before, after
    <2> QED
      BY <2>1, <2>2, TotalSame
  <1>20. Used(e, s.active) = Used(s, s.active) + elapsed * c
    <2> DEFINE before == [r \in s.active |-> UsedBy(s, r)]
               after == [r \in s.active |-> UsedBy(e, r)]
               cpus == [r \in s.active |-> Cpus(s, r.job)]
    <2>1. Used(s, s.active) = TotalOf(before, s.active) /\ Used(e, s.active) = TotalOf(after, s.active)
          /\ CpusOfRecords(s, s.active) = TotalOf(cpus, s.active)
      BY DEF Used, UsedBy, CpusOfRecords
    <2>2. ASSUME NEW r \in s.active
          PROVE  before[r] \in Nat /\ cpus[r] \in Nat /\ after[r] = before[r] + elapsed * cpus[r]
      <3>1. RecordsOf(s, s.active) /\ RecordsOf(e, s.active)
        BY <1>8, <1>18
      <3>2. r.end_ts >= s.clock /\ r.end_ts >= next
        BY <1>1, <1>2, <1>3 DEF SimPlaces, SearchRecord
      <3>3. UsedBy(s, r) = Cpus(s, r.job) * (s.clock - r.start_ts) /\ UsedBy(s, r) \in Nat
            /\ Cpus(s, r.job) \in Nat /\ r.start_ts \in Int
        BY <1>1, <3>1, <3>2, UsedByIs
      <3>4. UsedBy(e, r) = Cpus(e, r.job) * (next - r.start_ts)
        BY <1>14, <3>1, <3>2, UsedByIs
      <3>5. Cpus(e, r.job) = Cpus(s, r.job)
        BY <1>14 DEF Cpus
      <3>6. PICK x \in Nat, y \in Int : x = Cpus(s, r.job) /\ y = s.clock - r.start_ts /\ next - r.start_ts = y + elapsed
        <4>1. s.clock - r.start_ts \in Int /\ next - r.start_ts = (s.clock - r.start_ts) + elapsed
          <5>1. s.clock \in Int /\ next \in Int /\ r.start_ts \in Int /\ elapsed = next - s.clock
            BY <1>2, <1>3, <1>4, <3>3
          <5> QED
            BY <5>1
        <4> QED
          BY <3>3, <4>1
      <3>7. x * (y + elapsed) = x * y + elapsed * x
        OBVIOUS
      <3>8. UsedBy(e, r) = UsedBy(s, r) + elapsed * Cpus(s, r.job)
        BY <3>3, <3>4, <3>5, <3>6, <3>7
      <3> QED
        BY <3>3, <3>8
    <2> HIDE DEF before, after, cpus
    <2>3. IsFiniteSet(s.active)
      BY <1>1 DEF SimPlaces
    <2>4. Linear(s.active, before, elapsed, cpus, after)
      BY <2>3, TotalLinear
    <2> QED
      BY <1>10, <2>1, <2>2, <2>4 DEF Linear
  <1>21. SimAccounts(e)
    <2> DEFINE all == s.active \cup s.finished
    <2>1. /\ Used(s, s.active) + Used(s, s.finished) = Used(s, all)
          /\ Used(e, s.active) + Used(e, s.finished) = Used(e, all)
          /\ Used(s, s.active) \in Nat /\ Used(s, s.finished) \in Nat
      <3>1. RecordsOf(s, all) /\ RecordsOf(e, all)
        BY <1>8, <1>18
      <3>2. s.active \in SUBSET all /\ all \ s.active = s.finished
        BY <1>1 DEF SimPlaces
      <3> HIDE DEF all
      <3>3. /\ Used(s, s.active) + Used(s, s.finished) = Used(s, all)
            /\ Used(s, s.active) \in Nat /\ Used(s, s.finished) \in Nat
        BY <1>1, <3>1, <3>2, RecordsSplit
      <3>4. Used(e, s.active) + Used(e, s.finished) = Used(e, all)
        <4>1. e \in SimRecord
          BY <1>14
        <4>2. Used(e, s.active) + Used(e, all \ s.active) = Used(e, all)
          BY <4>1, <3>1, <3>2, RecordsSplit
        <4> QED
          BY <3>2, <4>2
      <3> QED
        BY <3>3, <3>4
    <2>2. (s.active \ over) \cup (s.finished \cup over) = all
      BY <1>5
    <2>3. s.cpu_time_used = Used(s, all) /\ s.total_time = SearchCapacity * s.clock /\ s.free >= 0
      BY <1>1 DEF SimAccounts
    <2> HIDE DEF all
    <2>4. elapsed * c = paid
      BY <1>12
    <2>5. Used(e, all) = s.cpu_time_used + paid
      BY <1>12, <1>19, <1>20, <2>1, <2>3, <2>4
    <2>6. e.total_time = SearchCapacity * next
      <3>1. PICK k \in Nat, t \in Int : k = SearchCapacity /\ t = s.clock /\ next = t + elapsed
        <4>1. next = s.clock + elapsed
          BY <1>2, <1>3, <1>4
        <4> QED
          BY <1>2, <1>6, <4>1
      <3>2. k * (t + elapsed) = k * t + k * elapsed
        OBVIOUS
      <3>3. e.total_time = k * t + k * elapsed
        BY <1>12, <1>14, <2>3, <3>1
      <3> QED
        BY <3>1, <3>2, <3>3
    <2>7. e.free >= 0 /\ e.free + CpusOfRecords(e, e.active) = SearchCapacity
      <3>1. CpusOfRecords(e, e.active) = CpusOfRecords(s, s.active \ over)
        BY <1>14, <1>17
      <3>2. PICK f \in Int, o \in Nat, rest \in Nat :
              f = s.free /\ o = CpusOfRecords(s, over) /\ rest = CpusOfRecords(s, s.active \ over)
        BY <1>2, <1>9
      <3>3. f >= 0 /\ o + rest = c /\ f + c = SearchCapacity /\ e.free = f + o
        BY <1>9, <1>10, <1>14, <2>3, <3>2
      <3> QED
        BY <1>6, <3>1, <3>2, <3>3
    <2> QED
      BY <1>14, <2>2, <2>5, <2>6, <2>7 DEF SimAccounts
  <1> QED
    BY <1>14, <1>15, <1>16, <1>21 DEF SimInv

(* The event of an environment, its passes and all.                        *)
SimEvent(s) ==
  LET ordered == Boosted(s, Waiting(s))
      first   == FirstPass(s, ordered)
  IN  AfterDispatch(Dispatched(s, first, SecondPass(s, first)))

(* An event, to its clock and completions, keeps it all.                   *)
LEMMA EventInv ==
  ASSUME NEW s, SimInv(s), NEW e, e = SimEvent(s)
  PROVE  SimInv(e) /\ e.trace = s.trace /\ e.action = s.action
  <1>1. PICK ordered, first, second : Passes(s, ordered, first, second)
    BY DEF Passes
  <1>2. PICK d : d = Dispatched(s, first, second)
    OBVIOUS
  <1>3. SimInv(d) /\ NextNotArrived(d) /\ d.trace = s.trace /\ d.action = s.action
    BY <1>1, <1>2, DispatchedInv
  <1>4. e = AfterDispatch(d)
    BY <1>1, <1>2 DEF SimEvent, Passes
  <1>5. CASE Upcoming(d) = {}
    <2>1. e = [d EXCEPT !.events = DecisionInterval]
      BY <1>4, <1>5 DEF AfterDispatch
    <2>2. DecisionInterval \in Int
      BY SearchAssumption
    <2> QED
      BY <1>3, <2>1, <2>2, CountedInv
  <1>6. CASE Upcoming(d) # {}
    <2>1. e = MovedTo(d, Min(Upcoming(d)))
      BY <1>4, <1>6 DEF AfterDispatch
    <2> QED
      BY <1>3, <1>6, <2>1, MovedInv
  <1> QED
    BY <1>5, <1>6

(* An episode starts with nothing done.                                    *)
LEMMA NewEpisodeInv ==
  ASSUME NEW trace \in SearchTraces, NEW action \in SearchAction, NEW s, s = NewEpisode(trace, action)
  PROVE  SimInv(s) /\ s.trace = trace /\ s.action = action
  <1>1. trace \in Seq(SearchRow) /\ SearchCapacity \in Nat
    BY SearchAssumption
  <1>2. /\ s.trace = trace /\ s.action = action /\ s.clock = 0 /\ s.free = SearchCapacity /\ s.job_idx = 0
        /\ s.queue = <<>> /\ s.active = {} /\ s.finished = {} /\ s.cpu_time_used = 0 /\ s.total_time = 0
    BY DEF NewEpisode
  <1>3. s \in SimRecord
    <2>1. <<>> \in Seq(Nat) /\ {} \in SUBSET SearchRecord
      OBVIOUS
    <2> QED
      BY <1>1, <2>1 DEF NewEpisode, SimRecord
  <1>4. SimQueue(s)
    BY <1>2 DEF SimQueue, Line
  <1>5. SimPlaces(s)
    <2>1. IsFiniteSet({})
      BY FS_EmptySet
    <2>2. Len(trace) \in Nat
      BY <1>1
    <2> QED
      BY <1>2, <2>1, <2>2 DEF SimPlaces
  <1>6. SimAccounts(s)
    <2>1. CpusOfRecords(s, {}) = 0 /\ Used(s, {}) = 0
      BY TotalNone DEF CpusOfRecords, Used
    <2>2. s.active \cup s.finished = {}
      BY <1>2
    <2> QED
      BY <1>1, <1>2, <2>1, <2>2 DEF SimAccounts
  <1> QED
    BY <1>2, <1>3, <1>4, <1>5, <1>6 DEF SimInv

(* A percentile of integers is one.                                        *)
LEMMA P95Int ==
  ASSUME NEW n \in Nat, NEW values \in [1..n -> Int]
  PROVE  P95(values) \in Int
  <1> DEFINE key == [i \in DOMAIN values |-> <<values[i], 0>>]
             sorted == Sorted(values, key)
  <1>1. DOMAIN values = 1..n /\ Len(values) = n
    OBVIOUS
  <1>2. CASE n = 0
    <2>1. values = <<>>
      BY <1>2
    <2> QED
      BY <2>1 DEF P95
  <1>3. CASE n # 0
    <2>1. values # <<>>
      BY <1>1, <1>3
    <2>2. SortKeys(key, n)
      BY <1>1 DEF SortKeys
    <2>3. PICK order : Permuted(order, values, key, n)
      BY <1>1, <2>2, SortedIs
    <2>4. order \in Bijection(1..n, 1..n) /\ sorted = [p \in 1..n |-> values[order[p]]]
      BY <2>3 DEF Permuted, Ordering
    <2>5. \A p \in 1..n : order[p] \in 1..n
      BY <2>4 DEF Bijection, Injection
    <2>6. P95(values) = 20 * sorted[1 + (19 * (Len(values) - 1)) \div 20]
                        + (sorted[1 + (19 * (Len(values) - 1) + 19) \div 20]
                             - sorted[1 + (19 * (Len(values) - 1)) \div 20]) * ((19 * (Len(values) - 1)) % 20)
      BY <2>1 DEF P95
    <2> HIDE DEF sorted
    <2>7. \A p \in 1..n : sorted[p] \in Int
      BY <2>4, <2>5
    <2>8. PICK pos \in Nat : pos = 19 * (Len(values) - 1) /\ pos = 19 * (n - 1)
      BY <1>1, <1>3
    <2>9. 1 + pos \div 20 \in 1..n /\ 1 + (pos + 19) \div 20 \in 1..n /\ pos % 20 \in Int
      BY <1>3, <2>8
    <2>10. PICK lower \in Int, upper \in Int, share \in Int :
             lower = sorted[1 + pos \div 20] /\ upper = sorted[1 + (pos + 19) \div 20] /\ share = pos % 20
      BY <2>7, <2>9
    <2>11. P95(values) = 20 * lower + (upper - lower) * share
      BY <2>6, <2>8, <2>10
    <2>12. (upper - lower) * share \in Int
      OBVIOUS
    <2> QED
      BY <2>11, <2>12
  <1> QED
    BY <1>2, <1>3

(* The slowdown of a record is an integer.                                 *)
LEMMA SearchBsldInt ==
  ASSUME NEW s, SimInv(s), NEW r \in s.finished
  PROVE  SearchBsld(s, r) \in Int
  <1> DEFINE over == WaitFloorSec * (WaitFloorSec + 1)
             wait == r.start_ts - s.trace[r.job].submit_ts
             span == Max({s.trace[r.job].runtime_actual_sec, WaitFloorSec})
  <1>1. s \in SimRecord /\ r \in SearchRecord /\ r.job \in 1..s.job_idx /\ s.job_idx <= Len(s.trace)
        /\ Len(s.trace) \in Nat /\ s.job_idx \in Nat
    BY SimFields DEF SimInv, SimPlaces
  <1>2. r.job \in 1..Len(s.trace)
    BY <1>1
  <1>3. s.trace[r.job].submit_ts \in Int /\ s.trace[r.job].runtime_actual_sec \in Int /\ r.start_ts \in Int
    BY <1>1, <1>2, SearchRowIs DEF SearchRecord
  <1>4. PICK floor \in Nat \ {0} : floor = WaitFloorSec
    BY SearchAssumption
  <1>5. floor * (floor + 1) \in Nat
    OBVIOUS
  <1>6. over \in Nat /\ wait \in Int
    BY <1>3, <1>4, <1>5
  <1>7. span \in Int /\ span > 0
    <2>1. \A a, b \in Int : b > 0 => (IF a >= b THEN a ELSE b) > 0
      OBVIOUS
    <2> QED
      BY <1>3, <1>4, <2>1, PairMax
  <1>8. SearchBsld(s, r) = Max({over, (wait * over) \div span})
    BY DEF SearchBsld
  <1> HIDE DEF over, wait, span
  <1>9. PICK p \in Int : p = wait * over
    BY <1>6
  <1>10. p \div span \in Int
    BY <1>7, <1>9
  <1>11. PICK q \in Int : q = (wait * over) \div span
    BY <1>9, <1>10
  <1>12. Max({over, q}) \in Int
    BY <1>6, <1>11, PairMax
  <1> QED
    BY <1>8, <1>11, <1>12

SimResult(s) == EpisodeMetrics(s, SetToSeq(s.finished))

(* What is compared is a number.                                           *)
LEMMA ResultIs ==
  ASSUME NEW s, SimInv(s)
  PROVE  SimResult(s).p95_bsld \in Int
  <1> DEFINE ended == SetToSeq(s.finished)
             values == [i \in DOMAIN ended |-> SearchBsld(s, ended[i])]
  <1>1. PICK n \in Nat : ended \in [1..n -> s.finished]
    <2>1. IsFiniteSet(s.finished)
      BY DEF SimInv, SimPlaces
    <2> QED
      BY <2>1, SequenceOfSet
  <1>2. SimResult(s).p95_bsld = P95(values)
    BY DEF SimResult, EpisodeMetrics
  <1> HIDE DEF ended
  <1>3. values \in [1..n -> Int]
    BY <1>1, SearchBsldInt
  <1> HIDE DEF values
  <1> QED
    BY <1>2, <1>3, P95Int

(* An episode goes on by events, and by steps until it is over.            *)
EpisodeOver(s) == s.events = DecisionInterval /\ Done(s)
After(s) == IF s.events < DecisionInterval THEN SimEvent(s) ELSE [s EXCEPT !.events = 0]

Path(trace, action, n, f) ==
  /\ f[0] = NewEpisode(trace, action)
  /\ \A i \in 0..(n - 1) : ~ EpisodeOver(f[i]) /\ f[i + 1] = After(f[i])
ComesTo(trace, action, s) == \E n \in Nat : \E f : Path(trace, action, n, f) /\ f[n] = s

(* An episode comes to its start.                                          *)
LEMMA EpisodeStarts ==
  ASSUME NEW trace, NEW action
  PROVE  ComesTo(trace, action, NewEpisode(trace, action))
  <1> DEFINE f == [i \in 0..0 |-> NewEpisode(trace, action)]
  <1>1. f[0] = NewEpisode(trace, action)
    OBVIOUS
  <1> HIDE DEF f
  <1>2. Path(trace, action, 0, f)
    BY <1>1 DEF Path
  <1> QED
    BY <1>1, <1>2 DEF ComesTo

(* And from where it is not over, to what comes after.                     *)
LEMMA EpisodeGoesOn ==
  ASSUME NEW trace, NEW action, NEW s, ComesTo(trace, action, s), ~ EpisodeOver(s)
  PROVE  ComesTo(trace, action, After(s))
  <1>1. PICK n \in Nat : \E f : Path(trace, action, n, f) /\ f[n] = s
    BY DEF ComesTo
  <1>2. PICK f : Path(trace, action, n, f) /\ f[n] = s
    BY <1>1
  <1> DEFINE g == [i \in 0..(n + 1) |-> IF i = n + 1 THEN After(s) ELSE f[i]]
  <1>3. g[n + 1] = After(s) /\ \A i \in 0..n : g[i] = f[i]
    OBVIOUS
  <1> HIDE DEF g
  <1>4. ASSUME NEW i \in 0..n PROVE ~ EpisodeOver(g[i]) /\ g[i + 1] = After(g[i])
    <2>1. CASE i = n
      BY <1>2, <1>3, <2>1
    <2>2. CASE i \in 0..(n - 1)
      <3>1. i + 1 \in 0..n
        BY <2>2
      <3>2. g[i] = f[i] /\ g[i + 1] = f[i + 1]
        BY <1>3, <3>1
      <3> QED
        BY <1>2, <2>2, <3>2 DEF Path
    <2> QED
      BY <2>1, <2>2
  <1>5. Path(trace, action, n + 1, g)
    <2>1. g[0] = f[0] /\ (n + 1) - 1 = n
      BY <1>3
    <2>2. \A i \in 0..((n + 1) - 1) : ~ EpisodeOver(g[i]) /\ g[i + 1] = After(g[i])
      BY <1>4, <2>1
    <2> QED
      BY <1>2, <2>1, <2>2 DEF Path
  <1>6. PICK k \in Nat : k = n + 1
    OBVIOUS
  <1>7. Path(trace, action, k, g) /\ g[k] = After(s)
    BY <1>3, <1>5, <1>6
  <1> QED
    BY <1>7, Zenon DEF ComesTo

(* A shorter path is the beginning of a longer one.                        *)
LEMMA PathsAgree ==
  ASSUME NEW trace, NEW action, NEW m \in Nat, NEW n \in Nat, m <= n,
         NEW f, NEW g, Path(trace, action, m, f), Path(trace, action, n, g)
  PROVE  f[m] = g[m]
  <1> DEFINE Bad == {i \in Nat : i <= m /\ f[i] # g[i]}
  <1>1. Bad = {}
    <2> SUFFICES ASSUME Bad # {} PROVE FALSE
      OBVIOUS
    <2>1. Bad \in SUBSET Nat
      OBVIOUS
    <2>2. PICK i \in Bad : \A j \in Bad : i <= j
      <3> HIDE DEF Bad
      <3> QED
        BY <2>1, LeastNatural
    <2>3. i \in Nat /\ i <= m /\ f[i] # g[i]
      BY <2>2
    <2>4. i # 0
      BY <2>3 DEF Path
    <2>5. i - 1 \in Nat /\ i - 1 \in 0..(m - 1) /\ i - 1 \in 0..(n - 1) /\ (i - 1) + 1 = i
      BY <2>3, <2>4
    <2>6. f[i - 1] = g[i - 1]
      BY <2>2, <2>3, <2>5
    <2>7. f[(i - 1) + 1] = After(f[i - 1]) /\ g[(i - 1) + 1] = After(g[i - 1])
      BY <2>5 DEF Path
    <2> QED
      BY <2>3, <2>5, <2>6, <2>7
  <1> QED
    BY <1>1

(* An action has one outcome: there is one place where its episode is over.*)
LEMMA OneOutcome ==
  ASSUME NEW trace, NEW action, NEW s, NEW u,
         ComesTo(trace, action, s), ComesTo(trace, action, u), EpisodeOver(s), EpisodeOver(u)
  PROVE  s = u
  <1>1. PICK m \in Nat : \E f : Path(trace, action, m, f) /\ f[m] = s
    BY DEF ComesTo
  <1>2. PICK f : Path(trace, action, m, f) /\ f[m] = s
    BY <1>1
  <1>3. PICK n \in Nat : \E g : Path(trace, action, n, g) /\ g[n] = u
    BY DEF ComesTo
  <1>4. PICK g : Path(trace, action, n, g) /\ g[n] = u
    BY <1>3
  <1>5. CASE m = n
    BY <1>2, <1>4, <1>5, PathsAgree
  <1>6. CASE m < n
    <2>1. g[m] = s
      BY <1>2, <1>4, <1>6, PathsAgree
    <2>2. m \in 0..(n - 1)
      BY <1>6
    <2> QED
      BY <1>4, <2>1, <2>2 DEF Path
  <1>7. CASE n < m
    <2>1. f[n] = u
      BY <1>2, <1>4, <1>7, PathsAgree
    <2>2. n \in 0..(m - 1)
      BY <1>7
    <2> QED
      BY <1>2, <2>1, <2>2 DEF Path
  <1> QED
    BY <1>5, <1>6, <1>7

-----------------------------------------------------------------------------
(* The search.                                                             *)

(* What a trial can come to on a trace.                                    *)
EndsOn(trace) == {s \in SimRecord : SimInv(s) /\ EpisodeOver(s) /\ ComesTo(trace, s.action, s)}
Outcomes(trace) == {[action |-> s.action, result |-> SimResult(s)] : s \in EndsOn(trace)}

(* Outcomes of the same action are the same.                               *)
LEMMA OutcomeIs ==
  ASSUME NEW trace, NEW o \in Outcomes(trace), NEW q \in Outcomes(trace)
  PROVE  o.result.p95_bsld \in Int /\ (o.action = q.action => o.result = q.result)
  <1>1. PICK s \in EndsOn(trace) : o = [action |-> s.action, result |-> SimResult(s)]
    BY DEF Outcomes
  <1>2. PICK u \in EndsOn(trace) : q = [action |-> u.action, result |-> SimResult(u)]
    BY DEF Outcomes
  <1>3. /\ SimInv(s) /\ EpisodeOver(s) /\ ComesTo(trace, s.action, s)
        /\ EpisodeOver(u) /\ ComesTo(trace, u.action, u)
    BY DEF EndsOn
  <1>4. o.action = s.action /\ o.result = SimResult(s) /\ q.action = u.action /\ q.result = SimResult(u)
    BY <1>1, <1>2
  <1>5. o.result.p95_bsld \in Int
    BY <1>3, <1>4, ResultIs
  <1>6. ASSUME o.action = q.action PROVE o.result = q.result
    <2>1. s = u
      BY <1>3, <1>4, <1>6, OneOutcome
    <2> QED
      BY <1>4, <2>1
  <1> QED
    BY <1>5, <1>6

(* The best so far is the first of the least.                              *)
BestSoFar ==
  /\ best \in 0..Len(results)
  /\ best = 0 => results = <<>>
  /\ best # 0 =>
       /\ \A n \in DOMAIN results : results[best].result.p95_bsld <= results[n].result.p95_bsld
       /\ \A n \in 1..(best - 1) : results[best].result.p95_bsld < results[n].result.p95_bsld

SearchInv ==
  /\ search_pc \in {"trial", "step", "chosen"}
  /\ sim.trace \in SearchTraces
  /\ search_pc = "step" => SimInv(sim) /\ ComesTo(sim.trace, sim.action, sim)
  /\ results \in Seq(Outcomes(sim.trace))
  /\ BestSoFar
  /\ search_pc = "chosen" => best # 0

(* Each action of the search keeps its invariant.                          *)
LEMMA SearchInitInv == SearchInit => SearchInv
  <1> SUFFICES ASSUME SearchInit PROVE SearchInv
    OBVIOUS
  <1>1. PICK trace \in SearchTraces : sim = NewEpisode(trace, NoAction)
    BY DEF SearchInit
  <1>2. sim.trace = trace
    BY <1>1 DEF NewEpisode
  <1>3. search_pc = "trial" /\ results = <<>> /\ best = 0
    BY DEF SearchInit
  <1>4. BestSoFar
    BY <1>3 DEF BestSoFar
  <1>5. <<>> \in Seq(Outcomes(sim.trace))
    OBVIOUS
  <1> QED
    BY <1>2, <1>3, <1>4, <1>5 DEF SearchInv

(* A trial starts a new episode on the same trace.                         *)
LEMMA StartTrialInv == SearchInv /\ StartTrial => SearchInv'
  <1> SUFFICES ASSUME SearchInv, StartTrial PROVE SearchInv'
    OBVIOUS
  <1>1. PICK action \in Actions : sim' = NewEpisode(sim.trace, action)
    BY DEF StartTrial, ResetState
  <1>2. sim.trace \in SearchTraces /\ action \in SearchAction
    BY SearchAssumption DEF SearchInv
  <1>3. SimInv(sim') /\ sim'.trace = sim.trace /\ sim'.action = action
    BY <1>1, <1>2, NewEpisodeInv
  <1>4. ComesTo(sim'.trace, sim'.action, sim')
    BY <1>1, <1>3, EpisodeStarts
  <1>5. search_pc' = "step" /\ results' = results /\ best' = best
    BY DEF StartTrial
  <1>6. BestSoFar'
    BY <1>5 DEF SearchInv, BestSoFar
  <1>7. results' \in Seq(Outcomes(sim'.trace))
    BY <1>3, <1>5 DEF SearchInv
  <1> QED
    BY <1>2, <1>3, <1>4, <1>5, <1>6, <1>7 DEF SearchInv

(* A round of an episode, whichever it is.                                 *)
LEMMA RoundInv ==
  ASSUME SearchInv, search_pc = "step", ~ EpisodeOver(sim), sim' = After(sim),
         UNCHANGED <<search_pc, results, best>>
  PROVE  SearchInv'
  <1>1. SimInv(sim) /\ ComesTo(sim.trace, sim.action, sim)
    BY DEF SearchInv
  <1>2. SimInv(sim') /\ sim'.trace = sim.trace /\ sim'.action = sim.action
    <2>1. CASE sim.events < DecisionInterval
      <3>1. sim' = SimEvent(sim)
        BY <2>1 DEF After
      <3> QED
        BY <1>1, <3>1, EventInv
    <2>2. CASE ~ (sim.events < DecisionInterval)
      <3>1. sim' = [sim EXCEPT !.events = 0]
        BY <2>2 DEF After
      <3> QED
        BY <1>1, <3>1, CountedInv
    <2> QED
      BY <2>1, <2>2
  <1>3. ComesTo(sim'.trace, sim'.action, sim')
    BY <1>1, <1>2, EpisodeGoesOn
  <1>4. BestSoFar'
    BY DEF SearchInv, BestSoFar
  <1>5. results' \in Seq(Outcomes(sim'.trace)) /\ sim'.trace \in SearchTraces
    BY <1>2 DEF SearchInv
  <1> QED
    BY <1>2, <1>3, <1>4, <1>5 DEF SearchInv

(* An event is a round of an episode that is not over.                     *)
LEMMA ProcessEventInv == SearchInv /\ ProcessEvent => SearchInv'
  <1> SUFFICES ASSUME SearchInv, ProcessEvent PROVE SearchInv'
    OBVIOUS
  <1>1. search_pc = "step" /\ sim.events < DecisionInterval /\ UNCHANGED <<search_pc, results, best>>
    BY DEF ProcessEvent
  <1>2. sim' = SimEvent(sim)
    BY Zenon DEF ProcessEvent, SimEvent
  <1>3. sim' = After(sim)
    BY <1>1, <1>2 DEF After
  <1>4. ~ EpisodeOver(sim)
    <2>1. sim.events # DecisionInterval
      <3>1. DecisionInterval \in Int
        BY SearchAssumption
      <3>2. sim.events \in Int
        BY <1>1, SimFields DEF SearchInv, SimInv
      <3> QED
        BY <1>1, <3>1, <3>2
    <2> QED
      BY <2>1 DEF EpisodeOver
  <1> QED
    BY <1>1, <1>3, <1>4, RoundInv

(* So is the return of a step that goes on.                                *)
LEMMA NextStepInv == SearchInv /\ NextStep => SearchInv'
  <1> SUFFICES ASSUME SearchInv, NextStep PROVE SearchInv'
    OBVIOUS
  <1>1. /\ search_pc = "step" /\ sim.events = DecisionInterval /\ ~ Done(sim)
        /\ sim' = [sim EXCEPT !.events = 0] /\ UNCHANGED <<search_pc, results, best>>
    BY DEF NextStep
  <1>2. ~ EpisodeOver(sim)
    BY <1>1 DEF EpisodeOver
  <1>3. ~ (sim.events < DecisionInterval)
    <2>1. DecisionInterval \in Int
      BY SearchAssumption
    <2> QED
      BY <1>1, <2>1
  <1>4. sim' = After(sim)
    BY <1>1, <1>3 DEF After
  <1> QED
    BY <1>1, <1>2, <1>4, RoundInv

(* A result is the best if it is less than the best so far.                *)
LEMMA EndTrialInv == SearchInv /\ EndTrial => SearchInv'
  <1> SUFFICES ASSUME SearchInv, EndTrial PROVE SearchInv'
    OBVIOUS
  <1> DEFINE outcomes == Outcomes(sim.trace)
  <1>1. PICK o : /\ o = [action |-> sim.action, result |-> SimResult(sim)]
                 /\ results' = Append(results, o)
                 /\ best' = IF Better(SimResult(sim)) THEN Len(results') ELSE best
    BY Zenon DEF EndTrial, SimResult
  <1>2. /\ search_pc = "step" /\ sim.events = DecisionInterval /\ Done(sim) /\ sim' = sim
        /\ search_pc' \in {"chosen", "trial"}
    BY DEF EndTrial
  <1>3. SimInv(sim) /\ ComesTo(sim.trace, sim.action, sim)
    BY <1>2 DEF SearchInv
  <1>4. o \in outcomes
    <2>1. sim \in EndsOn(sim.trace)
      BY <1>2, <1>3 DEF EndsOn, EpisodeOver, SimInv
    <2> QED
      BY <1>1, <2>1 DEF Outcomes
  <1>5. results \in Seq(outcomes) /\ BestSoFar
    BY DEF SearchInv
  <1>6. PICK result : result = SimResult(sim) /\ o.result = result
    BY <1>1
  <1> HIDE DEF outcomes
  <1>7. PICK n \in Nat : n = Len(results) /\ DOMAIN results = 1..n
    BY <1>5
  <1>8. /\ results' \in Seq(outcomes) /\ Len(results') = n + 1 /\ DOMAIN results' = 1..(n + 1)
        /\ results'[n + 1] = o /\ \A k \in 1..n : results'[k] = results[k] /\ results[k] \in outcomes
    BY <1>1, <1>4, <1>5, <1>7
  <1>9. o.result.p95_bsld \in Int /\ \A k \in 1..n : results[k].result.p95_bsld \in Int
    BY <1>4, <1>8, OutcomeIs DEF outcomes
  <1>10. /\ best \in 0..n /\ (best = 0 => n = 0)
         /\ best # 0 =>
              /\ \A k \in 1..n : results[best].result.p95_bsld <= results[k].result.p95_bsld
              /\ \A k \in 1..(best - 1) : results[best].result.p95_bsld < results[k].result.p95_bsld
    BY <1>5, <1>7 DEF BestSoFar
  <1>11. BestSoFar' /\ best' # 0
    <2>1. CASE Better(SimResult(sim))
      <3>1. best' = n + 1
        BY <1>1, <1>8, <2>1
      <3>2. \A k \in 1..n : o.result.p95_bsld < results[k].result.p95_bsld
        <4>1. CASE best = 0
          BY <1>10, <4>1
        <4>2. CASE best # 0
          <5>1. best \in 1..n /\ o.result.p95_bsld < results[best].result.p95_bsld
            BY <1>6, <1>10, <2>1, <4>2 DEF Better
          <5> QED
            BY <1>9, <1>10, <5>1
        <4> QED
          BY <4>1, <4>2
      <3>3. \A k \in 1..(n + 1) : o.result.p95_bsld <= results'[k].result.p95_bsld
        BY <1>8, <1>9, <3>2
      <3>4. \A k \in 1..n : o.result.p95_bsld < results'[k].result.p95_bsld
        BY <1>8, <3>2
      <3>5. results'[best'] = o /\ best' - 1 = n /\ best' \in 0..(n + 1) /\ best' # 0
        BY <1>8, <3>1
      <3> QED
        BY <1>8, <3>3, <3>4, <3>5 DEF BestSoFar
    <2>2. CASE ~ Better(SimResult(sim))
      <3>1. best' = best
        BY <1>1, <2>2
      <3>2. best # 0 /\ ~ (o.result.p95_bsld < results[best].result.p95_bsld)
        BY <1>6, <2>2 DEF Better
      <3>3. best \in 1..n /\ results'[best] = results[best]
        BY <1>8, <1>10, <3>2
      <3>4. \A k \in 1..(n + 1) : results[best].result.p95_bsld <= results'[k].result.p95_bsld
        <4>1. results[best].result.p95_bsld <= o.result.p95_bsld
          BY <1>9, <3>2, <3>3
        <4>2. ASSUME NEW k \in 1..n PROVE results[best].result.p95_bsld <= results'[k].result.p95_bsld
          BY <1>8, <1>10, <3>2
        <4>3. \A k \in 1..(n + 1) : k = n + 1 \/ k \in 1..n
          OBVIOUS
        <4> QED
          BY <1>8, <4>1, <4>2, <4>3
      <3>5. \A k \in 1..(best - 1) : results[best].result.p95_bsld < results'[k].result.p95_bsld
        <4>1. \A k \in 1..(best - 1) : k \in 1..n
          BY <3>3
        <4> QED
          BY <1>8, <1>10, <3>2, <4>1
      <3>6. best \in 0..(n + 1)
        BY <3>3
      <3> QED
        BY <1>8, <3>1, <3>2, <3>3, <3>4, <3>5, <3>6 DEF BestSoFar
    <2> QED
      BY <2>1, <2>2
  <1>12. results' \in Seq(Outcomes(sim'.trace)) /\ sim'.trace \in SearchTraces
    BY <1>2, <1>8 DEF SearchInv, outcomes
  <1> QED
    BY <1>2, <1>11, <1>12 DEF SearchInv

(* Every step of the search keeps the invariant.                           *)
LEMMA SearchStep == SearchInv /\ [SearchNext]_searchVars => SearchInv'
  <1>1. SearchInv /\ UNCHANGED searchVars => SearchInv'
    BY DEF SearchInv, BestSoFar, searchVars
  <1> QED
    BY <1>1, StartTrialInv, ProcessEventInv, NextStepInv, EndTrialInv DEF SearchNext

(* Results are outcomes, and an action has one.                            *)
LEMMA SearchComparable == SearchInv => TrialsComparable
  <1> SUFFICES ASSUME SearchInv PROVE TrialsComparable
    OBVIOUS
  <1>1. results \in Seq(Outcomes(sim.trace))
    BY DEF SearchInv
  <1>2. \A n \in DOMAIN results : results[n] \in Outcomes(sim.trace)
    BY <1>1
  <1>3. \A m, n \in DOMAIN results : results[m].action = results[n].action =>
          results[m].result = results[n].result
    BY <1>2, OutcomeIs
  <1>4. search_pc = "chosen" =>
          /\ \A n \in DOMAIN results : results[best].result.p95_bsld <= results[n].result.p95_bsld
          /\ \A n \in 1..(best - 1) : results[best].result.p95_bsld < results[n].result.p95_bsld
    BY DEF SearchInv, BestSoFar
  <1>5. search_pc = "step" =>
          /\ sim.free + CpusOfRecords(sim, sim.active) = SearchCapacity
          /\ sim.total_time = SearchCapacity * sim.clock
          /\ sim.cpu_time_used = Used(sim, sim.active \cup sim.finished)
    BY DEF SearchInv, SimInv, SimAccounts
  <1> QED
    BY <1>3, <1>4, <1>5 DEF TrialsComparable

(* At threshold 0 backfill wants all of the machine free, and a head that  *)
(* is blocked and fits it says that something runs.                        *)
LEMMA NoneAtZero ==
  ASSUME SearchInv, search_pc = "step", sim.action.threshold.num = 0,
         NEW ordered, NEW first, NEW second, Passes(sim, ordered, first, second),
         Blocked(sim, ordered), Cpus(sim, ordered[1]) <= SearchCapacity
  PROVE  Started(first, second) = {}
  <1>1. SimInv(sim) /\ sim \in SimRecord /\ sim.free \in Int /\ sim.action \in SearchAction
    BY SimFields DEF SearchInv, SimInv
  <1>3. Line(sim, ordered)
    BY <1>1, PassesAre
  <1>4. Cpus(sim, ordered[1]) \in Nat /\ Cpus(sim, ordered[1]) > sim.free
    <2>1. ordered # <<>> /\ ordered \in Seq(Nat) /\ Cpus(sim, ordered[1]) > sim.free
      BY <1>3 DEF Blocked, Line
    <2>2. 1 \in DOMAIN ordered
      BY <2>1
    <2>3. ordered[1] \in 1..Len(sim.trace)
      BY <1>3, <2>2 DEF Line
    <2> QED
      BY <1>1, <2>1, <2>3, SearchRowIs
  <1>5. first = NoPass(ordered, sim.free)
    BY DEF FirstPass, Passes
  <1>6. first.started = {} /\ CpusLeft(sim, first) = sim.free
    <2>1. first.jobs = ordered /\ first.left = sim.free /\ first.started = {}
      BY <1>5 DEF NoPass
    <2>2. CpusAt(sim, ordered, {}) = 0
      BY TotalNone DEF CpusAt
    <2>3. CpusLeft(sim, first) = sim.free - 0
      BY <2>1, <2>2 DEF CpusLeft
    <2> QED
      BY <1>1, <2>1, <2>3
  <1>7. ~ MayBackfill(sim, sim.free)
    <2>1. PICK den \in Nat \ {0} : den = sim.action.threshold.den
      BY <1>1 DEF SearchAction
    <2>2. PICK cap \in Nat : cap = SearchCapacity
      BY SearchAssumption
    <2>3. (0 * cap) \div den = 0
      <3>1. 0 * cap = 0
        OBVIOUS
      <3>2. 0 \div den = 0
        OBVIOUS
      <3> QED
        BY <3>1, <3>2
    <2>4. SearchCapacity - (sim.action.threshold.num * SearchCapacity) \div sim.action.threshold.den = cap
      BY <2>1, <2>2, <2>3
    <2>5. ~ (sim.free >= cap)
      BY <1>1, <1>4, <2>2
    <2> QED
      BY <2>4, <2>5 DEF MayBackfill
  <1>8. second = NoPass(Kept(first), sim.free)
    BY <1>6, <1>7 DEF SecondPass, Passes
  <1>9. second.started = {}
    BY <1>8 DEF NoPass
  <1> QED
    BY <1>6, <1>9 DEF Started

(* At threshold 1 backfill wants no more than a CPU that is free.          *)
LEMMA WantsNothing ==
  ASSUME NEW s \in SimRecord, s.action \in SearchAction, NEW left \in Nat,
         s.action.threshold.num = s.action.threshold.den, ~ MayBackfill(s, left)
  PROVE  left = 0
  <1>1. PICK den \in Nat \ {0} : den = s.action.threshold.den
    BY DEF SearchAction
  <1>2. PICK cap \in Nat : cap = SearchCapacity
    BY SearchAssumption
  <1>3. (den * cap) \div den = cap
    OBVIOUS
  <1>4. SearchCapacity - (s.action.threshold.num * SearchCapacity) \div s.action.threshold.den = 0
    BY <1>1, <1>2, <1>3
  <1> QED
    BY <1>4 DEF MayBackfill

(* A pass over jobs none of which fits starts none.                        *)
LEMMA NoneStarts ==
  ASSUME NEW s \in SimRecord, NEW seq, Line(s, seq), NEW left \in Nat, NEW pass,
         PassOver(s, pass, seq, left), \A i \in DOMAIN seq : Cpus(s, seq[i]) > left
  PROVE  pass.started = {}
  <1> SUFFICES ASSUME NEW i \in pass.started PROVE FALSE
    OBVIOUS
  <1> DEFINE P == pass.started
  <1>1. P \in SUBSET DOMAIN seq /\ {i} \in SUBSET P /\ i \in DOMAIN seq
    BY DEF PassOver
  <1>2. CpusLeft(s, pass) \in Nat /\ CpusLeft(s, pass) + CpusAt(s, seq, P) = left
    BY DEF PassOver
  <1> HIDE DEF P
  <1>3. /\ CpusAt(s, seq, P) \in Nat /\ CpusAt(s, seq, P \ {i}) \in Nat
        /\ CpusAt(s, seq, {i}) + CpusAt(s, seq, P \ {i}) = CpusAt(s, seq, P)
    BY <1>1, CpusAtSplit
  <1>4. CpusAt(s, seq, {i}) = Cpus(s, seq[i]) /\ Cpus(s, seq[i]) \in Nat
    BY <1>1, CpusAtPlace, SearchRowIs DEF Line
  <1>5. Cpus(s, seq[i]) > left
    BY <1>1
  <1> QED
    BY <1>2, <1>3, <1>4, <1>5

(* What the two passes leave in the queue does not fit, unless the head is *)
(* blocked and the threshold keeps jobs from going past it.                *)
LEMMA NoneThatFits ==
  ASSUME SearchInv, search_pc = "step",
         NEW ordered, NEW first, NEW second, Passes(sim, ordered, first, second)
  PROVE  /\ ~ Blocked(sim, ordered) => second.started = {}
         /\ ~ Blocked(sim, ordered) \/ sim.action.threshold.num = sim.action.threshold.den =>
              \A i \in DOMAIN Kept(second) : Cpus(sim, Kept(second)[i]) > CpusLeft(sim, second)
  <1>1. SimInv(sim) /\ sim \in SimRecord /\ sim.free \in Nat /\ sim.action \in SearchAction
    BY SimFields DEF SearchInv, SimInv, SimAccounts
  <1>2. PICK rest : rest = Kept(first)
    OBVIOUS
  <1>3. PICK left : left = CpusLeft(sim, first)
    OBVIOUS
  <1>4. PICK stays : stays = Kept(second)
    OBVIOUS
  <1>5. /\ Line(sim, ordered) /\ PassOver(sim, first, ordered, sim.free)
        /\ Line(sim, rest) /\ PassOver(sim, second, rest, left)
        /\ \A p \in DOMAIN rest : \E i \in DOMAIN ordered \ first.started : rest[p] = ordered[i]
        /\ Line(sim, stays)
        /\ \A p \in DOMAIN stays : \E i \in DOMAIN rest \ second.started : stays[p] = rest[i]
    BY <1>1, <1>2, <1>3, <1>4, PassesAre
  <1>6. left \in Nat
    BY <1>3, <1>5 DEF PassOver
  <1>7. second = IF MayBackfill(sim, left) THEN Pass(sim, rest, left) ELSE NoPass(rest, left)
    BY <1>2, <1>3 DEF Passes, SecondPass
  <1>8. ASSUME MayBackfill(sim, left)
        PROVE  NoneFits(sim, second, rest)
    BY <1>1, <1>5, <1>6, <1>7, <1>8, PassIs
  <1>9. ASSUME ~ MayBackfill(sim, left)
        PROVE  second.started = {} /\ CpusLeft(sim, second) = left
    <2>1. second = NoPass(rest, left)
      BY <1>7, <1>9
    <2>2. second.jobs = rest /\ second.left = left /\ second.started = {}
      BY <2>1 DEF NoPass
    <2>3. CpusAt(sim, rest, {}) = 0
      BY TotalNone DEF CpusAt
    <2>4. CpusLeft(sim, second) = left - 0
      BY <2>2, <2>3 DEF CpusLeft
    <2> QED
      BY <1>6, <2>2, <2>4
  <1>10. ASSUME ~ Blocked(sim, ordered)
         PROVE  \A i \in DOMAIN rest : Cpus(sim, rest[i]) > left
    <2>1. first = Pass(sim, ordered, sim.free)
      BY <1>10 DEF Passes, FirstPass
    <2>2. NoneFits(sim, first, ordered)
      BY <1>1, <1>5, <2>1, PassIs
    <2> QED
      BY <1>3, <1>5, <2>2 DEF NoneFits
  <1>11. ~ Blocked(sim, ordered) => second.started = {}
    BY <1>1, <1>5, <1>6, <1>10, NoneStarts
  <1>12. ASSUME ~ Blocked(sim, ordered) \/ sim.action.threshold.num = sim.action.threshold.den,
                NEW p \in DOMAIN stays
         PROVE  Cpus(sim, stays[p]) > CpusLeft(sim, second)
    <2>1. PICK i \in DOMAIN rest \ second.started : stays[p] = rest[i]
      BY <1>5, <1>12
    <2>2. CASE MayBackfill(sim, left)
      BY <1>8, <2>1, <2>2 DEF NoneFits
    <2>3. CASE ~ MayBackfill(sim, left) /\ ~ Blocked(sim, ordered)
      BY <1>9, <1>10, <2>1, <2>3
    <2>4. CASE ~ MayBackfill(sim, left) /\ sim.action.threshold.num = sim.action.threshold.den
      <3>1. CpusLeft(sim, second) = 0
        BY <1>1, <1>6, <1>9, <2>4, WantsNothing
      <3>2. Cpus(sim, rest[i]) \in Nat \ {0}
        BY <1>1, <1>5, <2>1, SearchRowIs DEF Line
      <3> QED
        BY <2>1, <3>1, <3>2
    <2> QED
      BY <1>12, <2>2, <2>3, <2>4
  <1> QED
    BY <1>4, <1>11, <1>12

(* The threshold decides what it does by the invariant of the search.      *)
LEMMA SearchBackfills == SearchInv => BackfillByThreshold
  <1> SUFFICES ASSUME SearchInv, search_pc = "step",
                      NEW ordered, NEW first, NEW second, Passes(sim, ordered, first, second)
               PROVE  /\ Blocked(sim, ordered) /\ Cpus(sim, ordered[1]) <= SearchCapacity
                           /\ sim.action.threshold.num = 0 => Started(first, second) = {}
                      /\ ~ Blocked(sim, ordered) => second.started = {}
                      /\ ~ Blocked(sim, ordered) \/ sim.action.threshold.num = sim.action.threshold.den =>
                           \A i \in DOMAIN Kept(second) :
                             Cpus(sim, Kept(second)[i]) > CpusLeft(sim, second)
    BY DEF BackfillByThreshold, Passes
  <1> QED
    BY NoneAtZero, NoneThatFits

(* The invariant of the search holds.                                      *)
LEMMA SearchHolds == SearchSpec => []SearchInv
  <1> QED
    BY SearchInitInv, SearchStep, PTL DEF SearchSpec

(* random_search_policy and grid_search_policy compare like with like:     *)
(* whatever ran before a trial, its result is the one its action has, the  *)
(* figures are those of the schedule, and best_result is the first of the  *)
(* least.                                                                  *)
THEOREM TrialsCompare == SearchSpec => []TrialsComparable
  <1> QED
    BY SearchHolds, SearchComparable, PTL

(* _dispatch of simulate/rl_env.py: with backfill_threshold 0 none starts  *)
(* while the head of the queue is blocked; with 1, and with any threshold  *)
(* once the head starts, no job stays that would fit in what is left, so   *)
(* that jobs go past a later one that is blocked whatever the threshold.   *)
THEOREM ThresholdDecidesBackfill == SearchSpec => []BackfillByThreshold
  <1> QED
    BY SearchHolds, SearchBackfills, PTL
=============================================================================
