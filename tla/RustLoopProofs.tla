--------------------------- MODULE RustLoopProofs ---------------------------
(***************************************************************************)
(* Proofs about the Rust replay loop, for every capacity, trace, power cap *)
(* and mode: resources and power add up and an enforced cap is kept; under *)
(* EASY a blocked head starts at the shadow time first computed for it;    *)
(* what a run leaves behind could never have run; and the report agrees    *)
(* with the Python formulas and with a meter read second by second.        *)
(***************************************************************************)
EXTENDS RustLoop, SharedLemmas

Dimensions == Modelled \cup {"watts"}

Holders == [job : 1..Len(jobs), start_ts : Int, end_ts : Int]

(* What LoadJobs makes of any records.                                     *)
PreparedJob ==
  [job_id : Nat, submit_ts : Int, runtime_actual_sec : Int, requested : [Modelled -> Nat],
   power_mean_watts : Nat]

PreparedJobs ==
  /\ jobs \in Seq(PreparedJob)
  /\ \A i, j \in 1..Len(jobs) : i <= j => jobs[i].submit_ts <= jobs[j].submit_ts

-----------------------------------------------------------------------------
(* What holders have of a dimension.                                       *)

(* The fields of a job.                                                    *)
LEMMA JobFields ==
  ASSUME PreparedJobs
  PROVE  /\ Len(jobs) \in Nat /\ DOMAIN jobs = 1..Len(jobs)
         /\ \A i \in 1..Len(jobs) :
              /\ jobs[i].submit_ts \in Int /\ jobs[i].runtime_actual_sec \in Int
              /\ jobs[i].requested \in [Modelled -> Nat] /\ jobs[i].power_mean_watts \in Nat
  <1>1. \A i \in 1..Len(jobs) : jobs[i] \in PreparedJob
    BY DEF PreparedJobs
  <1>2. \A j \in PreparedJob :
          /\ j.submit_ts \in Int /\ j.runtime_actual_sec \in Int
          /\ j.requested \in [Modelled -> Nat] /\ j.power_mean_watts \in Nat
    BY DEF PreparedJob
  <1> QED
    BY <1>1, <1>2 DEF PreparedJobs

(* What a job asks for is a number.                                        *)
LEMMA AsksNat ==
  ASSUME PreparedJobs, NEW job \in 1..Len(jobs), NEW d \in Dimensions
  PROVE  Asks(job, d) \in Nat
  BY JobFields DEF Asks, Dimensions

(* A finite set of holders has a finite number of units.                   *)
LEMMA HeldFinite ==
  ASSUME PreparedJobs, NEW d \in Dimensions, NEW S \in SUBSET Holders, IsFiniteSet(S)
  PROVE  IsFiniteSet(Units(S, d)) /\ Held(S, d) \in Nat
  <1> DEFINE of(h) == {h} \X (1..Asks(h.job, d))
             parts == {of(h) : h \in S}
             f == [h \in S |-> of(h)]
  <1>1. f \in Surjection(S, parts)
    BY DEF Surjection
  <1>2. IsFiniteSet(parts)
    BY <1>1, FS_Surjection
  <1>3. \A T \in parts : IsFiniteSet(T)
    <2> SUFFICES ASSUME NEW h \in S PROVE IsFiniteSet(of(h))
      OBVIOUS
    <2>1. IsFiniteSet({h})
      BY FS_Singleton
    <2>2. h.job \in 1..Len(jobs)
      BY DEF Holders
    <2>3. IsFiniteSet(1..Asks(h.job, d))
      BY <2>2, AsksNat, FS_Interval
    <2> QED
      BY <2>1, <2>3, FS_Product
  <1>4. IsFiniteSet(Units(S, d))
    BY <1>2, <1>3, FS_UNION DEF Units
  <1> QED
    BY <1>4, FS_CardinalityType DEF Held

(* Taking holders out takes out what they hold.                            *)
LEMMA HeldDifference ==
  ASSUME PreparedJobs, NEW d \in Dimensions, NEW S \in SUBSET Holders, IsFiniteSet(S),
         NEW D \in SUBSET S
  PROVE  /\ Held(S \ D, d) = Held(S, d) - Held(D, d)
         /\ Held(S \ D, d) \in Nat /\ Held(D, d) \in Nat
  <1>1. IsFiniteSet(Units(S, d))
    BY HeldFinite
  <1>2. Units(S \ D, d) = Units(S, d) \ Units(D, d)
    BY DEF Units
  <1>3. Units(S, d) \cap Units(D, d) = Units(D, d)
    BY DEF Units
  <1>4. Held(S \ D, d) = Held(S, d) - Held(D, d)
    <2>1. \A X, Y : IsFiniteSet(X) => Cardinality(X \ Y) = Cardinality(X) - Cardinality(X \cap Y)
      BY FS_Difference
    <2>2. Cardinality(Units(S, d) \ Units(D, d)) = Cardinality(Units(S, d)) - Cardinality(Units(D, d))
      BY <1>1, <1>3, <2>1
    <2> QED
      BY <1>2, <2>2 DEF Held
  <1>5. IsFiniteSet(D) /\ IsFiniteSet(S \ D) /\ D \in SUBSET Holders /\ S \ D \in SUBSET Holders
    BY FS_Subset
  <1> QED
    BY <1>4, <1>5, HeldFinite

(* Holders apart hold together what each holds.                            *)
LEMMA HeldUnion ==
  ASSUME PreparedJobs, NEW d \in Dimensions,
         NEW S \in SUBSET Holders, IsFiniteSet(S),
         NEW T \in SUBSET Holders, IsFiniteSet(T), S \cap T = {}
  PROVE  Held(S \cup T, d) = Held(S, d) + Held(T, d)
  <1>1. IsFiniteSet(S \cup T) /\ S \cup T \in SUBSET Holders
    BY FS_Union
  <1>2. (S \cup T) \ T = S
    OBVIOUS
  <1>3. Held(S, d) = Held(S \cup T, d) - Held(T, d)
    BY <1>1, <1>2, HeldDifference
  <1>4. Held(S, d) \in Nat /\ Held(T, d) \in Nat /\ Held(S \cup T, d) \in Nat
    BY <1>1, HeldFinite
  <1> QED
    BY <1>3, <1>4

(* A single holder has what its job asks for.                              *)
LEMMA HeldSingle ==
  ASSUME PreparedJobs, NEW d \in Dimensions, NEW h \in Holders
  PROVE  Held({h}, d) = Asks(h.job, d)
  <1>1. PICK c \in Nat : c = Asks(h.job, d)
    BY AsksNat DEF Holders
  <1>2. Units({h}, d) = {h} \X (1..c)
    BY <1>1 DEF Units
  <1>3. IsFiniteSet({h}) /\ Cardinality({h}) = 1
    BY FS_Singleton
  <1>4. IsFiniteSet(1..c) /\ Cardinality(1..c) = c
    BY FS_Interval
  <1>5. Cardinality({h} \X (1..c)) = Cardinality({h}) * Cardinality(1..c)
    BY <1>3, <1>4, FS_Product
  <1>6. Cardinality({h} \X (1..c)) = c
    BY <1>3, <1>4, <1>5
  <1> QED
    BY <1>1, <1>2, <1>6 DEF Held

(* No holders hold nothing.                                                *)
LEMMA HeldNone ==
  ASSUME NEW d
  PROVE  Held({}, d) = 0
  <1>1. Units({}, d) = {}
    BY DEF Units
  <1> QED
    BY <1>1, FS_EmptySet DEF Held

(* What is held depends on the trace only.                                 *)
LEMMA HeldStays ==
  ASSUME UNCHANGED jobs, NEW S, NEW d
  PROVE  Held(S, d)' = Held(S', d')
  BY DEF Held, Units, Asks

-----------------------------------------------------------------------------
(* The invariant.                                                          *)

RustTypeOK ==
  /\ PreparedJobs
  /\ policy \in {"FIFO_STRICT", "EASY_BACKFILL_BASELINE"}
  /\ enforce_power_cap \in BOOLEAN
  /\ pc \in {"loop", "dispatch", "refused", "strict_error", "reported"}
  /\ power_cap_watts \in Nat \cup {NoCap}
  /\ enforce_power_cap /\ pc # "refused" => power_cap_watts # NoCap
  /\ clock_ts \in Int
  /\ submit_idx \in 0..Len(jobs)
  /\ queued \subseteq 1..submit_idx
  /\ running \subseteq Holders /\ IsFiniteSet(running)
  /\ completed \subseteq Holders /\ IsFiniteSet(completed)
  /\ free \in [Modelled -> Int]
  /\ power \in [current_watts : Int, peak_watts : Int, energy_joules : Int,
                seconds_above_cap : Int, joules_above_cap : Int, last_ts : Int]

(* An admitted job is queued, runs or is completed, in one place.          *)
Places ==
  /\ \A g, h \in running \cup completed : g.job = h.job => g = h
  /\ running \cap completed = {}
  /\ \A h \in running \cup completed : h.job \in 1..submit_idx /\ h.job \notin queued

(* The clock is between what was submitted and what is to come, and nothing*)
(* that runs is overdue.                                                   *)
InTime ==
  /\ \A i \in (submit_idx + 1)..Len(jobs) : clock_ts <= jobs[i].submit_ts
  /\ \A i \in 1..submit_idx : jobs[i].submit_ts <= clock_ts
  /\ \A h \in running : jobs[h.job].submit_ts <= h.start_ts /\ clock_ts <= h.end_ts

RustInv == RustTypeOK /\ Places /\ InTime /\ ResourcesAccounted

(* The order in which records are loaded is that of their submissions.     *)
LEMMA LoadedPrepared ==
  ASSUME NEW records \in RecordLists, jobs \in LoadJobs(records)
  PROVE  PreparedJobs
  <1>1. records \in Seq(JobRecord)
    BY RustAssumption
  <1>2. PICK place \in [DOMAIN records -> DOMAIN records] :
          /\ \A i, j \in DOMAIN records : i < j => Precedes(records, place[i], place[j])
          /\ jobs = [i \in DOMAIN records |-> Normalized(records[place[i]])]
    BY DEF LoadJobs
  <1>3. \A r \in JobRecord : /\ Normalized(r) \in PreparedJob
                            /\ Normalized(r).submit_ts = r.submit_ts
    <2> SUFFICES ASSUME NEW r \in JobRecord
                 PROVE  Normalized(r) \in PreparedJob /\ Normalized(r).submit_ts = r.submit_ts
      OBVIOUS
    <2>1. /\ r.job_id \in Nat /\ r.submit_ts \in Int /\ r.runtime_actual_sec \in Int
          /\ r.requested \in [Modelled -> Nat] /\ r.power_mean_watts \in Int
      BY DEF JobRecord
    <2>2. Clip(r.power_mean_watts) \in Nat
      BY <2>1 DEF Clip
    <2>3. [d \in Modelled |-> IF d # "cpus" /\ Capacity[d] = 0 THEN 0 ELSE r.requested[d]]
            \in [Modelled -> Nat]
      BY <2>1
    <2> QED
      BY <2>1, <2>2, <2>3 DEF Normalized, PreparedJob
  <1>4. DOMAIN records = 1..Len(records) /\ Len(records) \in Nat
    BY <1>1
  <1>5. \A i \in 1..Len(records) : place[i] \in 1..Len(records) /\ records[place[i]] \in JobRecord
    BY <1>1, <1>4
  <1>6. jobs \in Seq(PreparedJob) /\ Len(jobs) = Len(records)
    <2>1. \A i \in 1..Len(records) : jobs[i] \in PreparedJob
      BY <1>2, <1>3, <1>4, <1>5
    <2>2. jobs = [i \in 1..Len(records) |-> Normalized(records[place[i]])]
      BY <1>2, <1>4
    <2> QED
      BY <1>4, <2>1, <2>2
  <1>7. \A i, j \in 1..Len(jobs) : i <= j => jobs[i].submit_ts <= jobs[j].submit_ts
    <2> SUFFICES ASSUME NEW i \in 1..Len(jobs), NEW j \in 1..Len(jobs), i <= j
                 PROVE  jobs[i].submit_ts <= jobs[j].submit_ts
      OBVIOUS
    <2>1. /\ jobs[i].submit_ts = records[place[i]].submit_ts
          /\ jobs[j].submit_ts = records[place[j]].submit_ts
      BY <1>2, <1>3, <1>4, <1>5, <1>6
    <2>2. records[place[i]].submit_ts \in Int /\ records[place[j]].submit_ts \in Int
      BY <1>5, <1>6 DEF JobRecord
    <2>3. CASE i = j
      BY <2>1, <2>2, <2>3
    <2>4. CASE i < j
      <3>1. Precedes(records, place[i], place[j])
        BY <1>2, <1>4, <1>6, <2>4
      <3> QED
        BY <2>1, <2>2, <3>1 DEF Precedes
    <2> QED
      BY <1>6, <1>4, <2>3, <2>4
  <1> QED
    BY <1>6, <1>7 DEF PreparedJobs

(* The invariant holds at the start.                                       *)
LEMMA RustInitInv ==
  ASSUME RustInit
  PROVE  RustInv
  <1>1. PreparedJobs
    BY LoadedPrepared DEF RustInit
  <1>2. jobs \in Seq(PreparedJob) /\ Len(jobs) \in Nat
    BY <1>1 DEF PreparedJobs
  <1>3. \A i \in 1..Len(jobs) : jobs[i].submit_ts \in Int
    BY <1>1, JobFields
  <1>4. MinSubmit \in Int /\ \A i \in 1..Len(jobs) : MinSubmit <= jobs[i].submit_ts
    <2>1. CASE jobs = <<>>
      BY <2>1 DEF MinSubmit
    <2>2. CASE jobs # <<>>
      <3>1. 1 \in 1..Len(jobs) /\ MinSubmit = jobs[1].submit_ts
        BY <1>2, <2>2 DEF MinSubmit
      <3>2. \A i \in 1..Len(jobs) : 1 <= i
        BY <1>2
      <3> QED
        BY <1>1, <1>3, <3>1, <3>2 DEF PreparedJobs
    <2> QED
      BY <2>1, <2>2
  <1>5. RustTypeOK
    <2>1. IsFiniteSet({})
      BY FS_EmptySet
    <2>2. power = NewPowerProfile(MinSubmit) /\ free = Capacity
      BY DEF RustInit
    <2>3. power \in [current_watts : Int, peak_watts : Int, energy_joules : Int,
                    seconds_above_cap : Int, joules_above_cap : Int, last_ts : Int]
      BY <1>4, <2>2 DEF NewPowerProfile
    <2>4. free \in [Modelled -> Int]
      BY <2>2, RustAssumption
    <2> QED
      BY <1>1, <1>2, <1>4, <2>1, <2>3, <2>4, RustAssumption DEF RustInit, RustTypeOK
  <1>6. Places
    BY DEF Places, RustInit
  <1>7. InTime
    BY <1>2, <1>4 DEF InTime, RustInit
  <1>8. ResourcesAccounted
    <2>1. running = {} /\ violations = {} /\ free = Capacity /\ power = NewPowerProfile(MinSubmit)
      BY DEF RustInit
    <2>2. power.current_watts = 0 /\ power.seconds_above_cap = 0
      BY <2>1 DEF NewPowerProfile
    <2>3. \A d \in Modelled : free[d] >= 0 /\ free[d] + Held(running, d) = Capacity[d]
      BY <2>1, HeldNone, RustAssumption
    <2>4. enforce_power_cap /\ pc # "refused" => 0 <= power_cap_watts
      BY <1>5 DEF RustTypeOK
    <2> QED
      BY <2>1, <2>2, <2>3, <2>4, HeldNone DEF ResourcesAccounted, Watts
  <1> QED
    BY <1>5, <1>6, <1>7, <1>8 DEF RustInv

-----------------------------------------------------------------------------
(* An event.                                                               *)

Ending(now) == {r \in running : r.end_ts = now}

PowerRecord ==
  [current_watts : Int, peak_watts : Int, energy_joules : Int,
   seconds_above_cap : Int, joules_above_cap : Int, last_ts : Int]

(* The energy account takes up the time since the last event; where the    *)
(* draw was under the cap there is nothing to add.                         *)
LEMMA AccountAdvances ==
  ASSUME power \in PowerRecord, power_cap_watts \in Nat \cup {NoCap}, NEW now \in Int
  PROVE  /\ AdvancedTo(now) \in PowerRecord
         /\ AdvancedTo(now).current_watts = power.current_watts
         /\ power_cap_watts # NoCap /\ power.current_watts <= power_cap_watts =>
              AdvancedTo(now).seconds_above_cap = power.seconds_above_cap
  <1> DEFINE dt == Clip(now - power.last_ts)
             excess == IF power_cap_watts = NoCap THEN 0 ELSE Clip(power.current_watts - power_cap_watts)
             counted == IF excess > 0 THEN dt ELSE 0
  <1>1. /\ power.current_watts \in Int /\ power.energy_joules \in Int /\ power.peak_watts \in Int
        /\ power.seconds_above_cap \in Int /\ power.joules_above_cap \in Int
        /\ power.last_ts \in Int
    BY DEF PowerRecord
  <1>2. dt \in Int /\ excess \in Int
    BY <1>1 DEF Clip
  <1>3. counted \in Int
    BY <1>2
  <1>4. power.current_watts * dt \in Int /\ excess * dt \in Int
    BY <1>1, <1>2
  <1>5. AdvancedTo(now) =
          [power EXCEPT !.last_ts = now,
                        !.energy_joules = @ + power.current_watts * dt,
                        !.seconds_above_cap = @ + counted,
                        !.joules_above_cap = @ + excess * dt]
    BY DEF AdvancedTo
  <1>6. power_cap_watts # NoCap /\ power.current_watts <= power_cap_watts => counted = 0
    BY <1>1 DEF Clip
  <1> HIDE DEF dt, excess, counted
  <1>7. PICK e \in Int, x \in Int : e = power.current_watts * dt /\ x = excess * dt
    BY <1>4
  <1>8. AdvancedTo(now) =
          [power EXCEPT !.last_ts = now, !.energy_joules = @ + e,
                        !.seconds_above_cap = @ + counted, !.joules_above_cap = @ + x]
    BY <1>5, <1>7
  <1>9. /\ AdvancedTo(now) \in PowerRecord
        /\ AdvancedTo(now).current_watts = power.current_watts
        /\ AdvancedTo(now).seconds_above_cap = power.seconds_above_cap + counted
    <2> DEFINE s == power.seconds_above_cap + counted
               j == power.energy_joules + e
               y == power.joules_above_cap + x
    <2>1. s \in Int /\ j \in Int /\ y \in Int
      BY <1>1, <1>3
    <2>2. AdvancedTo(now) = [power EXCEPT !.last_ts = now, !.energy_joules = j,
                                          !.seconds_above_cap = s, !.joules_above_cap = y]
      BY <1>8
    <2>3. s = power.seconds_above_cap + counted
      OBVIOUS
    <2> HIDE DEF s, j, y
    <2> QED
      BY <2>1, <2>2, <2>3 DEF PowerRecord
  <1> QED
    BY <1>1, <1>6, <1>9

(* An event is that of the least time, and admits all that is submitted    *)
(* at it.                                                                  *)
LEMMA EventParts ==
  ASSUME RustInv, Advance
  PROVE  \E now \in Int :
           /\ clock_ts' = now /\ clock_ts <= now
           /\ \A h \in running : now <= h.end_ts
           /\ running' = running \ Ending(now) /\ completed' = completed \cup Ending(now)
           /\ free' = [d \in Modelled |-> free[d] + Held(Ending(now), d)]
           /\ power' = [AdvancedTo(now) EXCEPT
                !.current_watts = IF running' = {} THEN 0 ELSE Clip(@ - Watts(Ending(now)))]
           /\ submit_idx' \in submit_idx..Len(jobs)
           /\ \A i \in (submit_idx + 1)..submit_idx' : jobs[i].submit_ts = now
           /\ \A i \in (submit_idx' + 1)..Len(jobs) : now <= jobs[i].submit_ts
           /\ queued' = queued \cup ((submit_idx + 1)..submit_idx')
           /\ pc = "loop" /\ pc' = "dispatch"
           /\ UNCHANGED <<arguments, report, violations, shadow>>
  <1>1. PICK now \in EventTimes :
           /\ \A ts \in EventTimes : now <= ts
           /\ clock_ts' = now
           /\ running' = running \ Ending(now) /\ completed' = completed \cup Ending(now)
           /\ free' = [d \in Modelled |-> free[d] + Held(Ending(now), d)]
           /\ power' = [AdvancedTo(now) EXCEPT
                !.current_watts = IF running' = {} THEN 0 ELSE Clip(@ - Watts(Ending(now)))]
           /\ submit_idx' \in submit_idx..Len(jobs)
           /\ \A i \in (submit_idx + 1)..submit_idx' : jobs[i].submit_ts = now
    BY Zenon DEF Advance, Ending
  <1>2. PreparedJobs /\ submit_idx \in 0..Len(jobs) /\ running \subseteq Holders
    BY DEF RustInv, RustTypeOK
  <1>3. Len(jobs) \in Nat /\ submit_idx \in Nat /\ submit_idx' \in Nat
    BY <1>1, <1>2, JobFields
  <1>4. \A i \in (submit_idx + 1)..Len(jobs) :
          jobs[i].submit_ts \in EventTimes /\ jobs[i].submit_ts \in Int
                                          /\ clock_ts <= jobs[i].submit_ts
    BY <1>2, <1>3, JobFields DEF EventTimes, RustInv, InTime
  <1>5. \A h \in running : h.end_ts \in EventTimes /\ h.end_ts \in Int /\ clock_ts <= h.end_ts
    BY <1>2 DEF EventTimes, Holders, RustInv, InTime
  <1>6. now \in Int /\ clock_ts <= now
    BY <1>4, <1>5 DEF EventTimes
  <1>7. \A i \in (submit_idx' + 1)..Len(jobs) : now <= jobs[i].submit_ts
    BY <1>1, <1>3, <1>4
  <1>8. /\ queued' = queued \cup ((submit_idx + 1)..submit_idx')
        /\ pc = "loop" /\ pc' = "dispatch"
        /\ UNCHANGED <<arguments, report, violations, shadow>>
    BY DEF Advance
  <1> QED
    BY <1>1, <1>5, <1>6, <1>7, <1>8

(* What ends gives back what it held.                                      *)
LEMMA AdvanceInv ==
  ASSUME RustInv, Advance
  PROVE  RustInv'
  <1>1. PICK now \in Int :
           /\ clock_ts' = now /\ clock_ts <= now
           /\ \A h \in running : now <= h.end_ts
           /\ running' = running \ Ending(now) /\ completed' = completed \cup Ending(now)
           /\ free' = [d \in Modelled |-> free[d] + Held(Ending(now), d)]
           /\ power' = [AdvancedTo(now) EXCEPT
                !.current_watts = IF running' = {} THEN 0 ELSE Clip(@ - Watts(Ending(now)))]
           /\ submit_idx' \in submit_idx..Len(jobs)
           /\ \A i \in (submit_idx + 1)..submit_idx' : jobs[i].submit_ts = now
           /\ \A i \in (submit_idx' + 1)..Len(jobs) : now <= jobs[i].submit_ts
           /\ queued' = queued \cup ((submit_idx + 1)..submit_idx')
           /\ pc = "loop" /\ pc' = "dispatch"
           /\ UNCHANGED <<arguments, report, violations, shadow>>
    BY EventParts
  <1> DEFINE done == Ending(now)
  <1>2. /\ UNCHANGED <<jobs, policy, power_cap_watts, enforce_power_cap, strict_invariants, violations>>
    BY <1>1 DEF arguments
  <1>3. RustTypeOK /\ Places /\ InTime /\ ResourcesAccounted
    BY DEF RustInv
  <1>4. PreparedJobs /\ running \in SUBSET Holders /\ IsFiniteSet(running)
    BY <1>3 DEF RustTypeOK
  <1>5. /\ done \in SUBSET running /\ IsFiniteSet(done) /\ IsFiniteSet(running \ done)
        /\ IsFiniteSet(completed \cup done)
    BY <1>3, <1>4, FS_Subset, FS_Union DEF Ending, RustTypeOK
  <1>6. \A d \in Dimensions :
          /\ Held(running \ done, d) = Held(running, d) - Held(done, d)
          /\ Held(running \ done, d) \in Nat /\ Held(done, d) \in Nat /\ Held(running, d) \in Nat
    BY <1>4, <1>5, HeldDifference, HeldFinite
  <1>7. \A d : Held(running, d)' = Held(running \ done, d)
    BY <1>1, <1>2 DEF Held, Units, Asks
  <1>8. Len(jobs) \in Nat /\ submit_idx \in Nat /\ submit_idx <= Len(jobs) /\ submit_idx' \in Nat
        /\ submit_idx <= submit_idx' /\ submit_idx' <= Len(jobs)
    BY <1>1, <1>3, <1>4, JobFields DEF RustTypeOK
  <1>9. power \in PowerRecord /\ power_cap_watts \in Nat \cup {NoCap}
    BY <1>3 DEF RustTypeOK, PowerRecord
  <1>10. /\ power' \in PowerRecord
         /\ power'.current_watts = IF running' = {} THEN 0
                                   ELSE Clip(power.current_watts - Watts(done))
         /\ power'.seconds_above_cap = AdvancedTo(now).seconds_above_cap
    <2> DEFINE before == AdvancedTo(now)
               draw == IF running' = {} THEN 0 ELSE Clip(power.current_watts - Watts(done))
    <2>1. before \in PowerRecord /\ before.current_watts = power.current_watts
      BY <1>9, AccountAdvances
    <2>2. power.current_watts \in Int /\ Watts(done) \in Nat
      BY <1>6, <1>9 DEF PowerRecord, Watts, Dimensions
    <2>3. draw \in Int
      BY <2>2 DEF Clip
    <2>4. power' = [before EXCEPT !.current_watts = draw]
      BY <1>1, <2>1 DEF PowerRecord
    <2> HIDE DEF before, draw
    <2>5. power' \in PowerRecord /\ power'.current_watts = draw
          /\ power'.seconds_above_cap = before.seconds_above_cap
      BY <2>1, <2>3, <2>4 DEF PowerRecord
    <2> QED
      BY <2>5 DEF draw, before
  <1>11. power'.current_watts = Watts(running)'
    <2>1. power.current_watts = Held(running, "watts")
      BY <1>3 DEF ResourcesAccounted, Watts
    <2>2. "watts" \in Dimensions
      BY DEF Dimensions
    <2>3. Held(running, "watts")' = Held(running, "watts") - Held(done, "watts")
          /\ Held(running, "watts")' \in Nat
      BY <1>6, <1>7, <2>2
    <2>4. running' = {} => Held(running, "watts")' = 0
      BY HeldNone, <1>1, <1>7
    <2> QED
      BY <1>10, <2>1, <2>3, <2>4 DEF Clip, Watts
  <1>12. RustTypeOK'
    <2>1. PreparedJobs' /\ Holders' = Holders
      BY <1>2, <1>4 DEF PreparedJobs, Holders
    <2>2. free' \in [Modelled -> Int]
      BY <1>1, <1>3, <1>6 DEF RustTypeOK, Dimensions
    <2>3. queued' \subseteq 1..submit_idx'
      BY <1>1, <1>3, <1>8 DEF RustTypeOK
    <2>4. running' \subseteq Holders /\ completed' \subseteq Holders
      BY <1>1, <1>3, <1>4, <1>5 DEF RustTypeOK
    <2>5. power' \in PowerRecord
      BY <1>10
    <2>6. submit_idx' \in 0..Len(jobs)'
      BY <1>2, <1>8
    <2> QED
      BY <1>1, <1>2, <1>3, <1>5, <2>1, <2>2, <2>3, <2>4, <2>5, <2>6 DEF RustTypeOK, PowerRecord
  <1>13. Places'
    <2>1. running' \cup completed' = running \cup completed /\ running' \cap completed' = {}
      BY <1>1, <1>3, <1>5 DEF Places
    <2>2. \A h \in running \cup completed :
            h.job \in 1..submit_idx /\ h.job \in 1..submit_idx' /\ h.job \notin queued'
      BY <1>1, <1>3, <1>8 DEF Places
    <2> QED
      BY <1>3, <2>1, <2>2 DEF Places
  <1>14. InTime'
    <2>1. \A i \in 1..submit_idx' : i \in 1..submit_idx \/ i \in (submit_idx + 1)..submit_idx'
      BY <1>8
    <2>2. \A i \in 1..submit_idx : jobs[i].submit_ts \in Int /\ jobs[i].submit_ts <= clock_ts
      BY <1>3, <1>4, <1>8, JobFields DEF InTime
    <2>3. \A i \in 1..submit_idx' : jobs[i].submit_ts <= now
      BY <1>1, <1>3, <2>1, <2>2 DEF RustTypeOK
    <2>4. \A h \in running' : h \in running /\ jobs[h.job].submit_ts <= h.start_ts /\ now <= h.end_ts
      BY <1>1, <1>3, <1>5 DEF InTime
    <2> QED
      BY <1>1, <1>2, <2>3, <2>4 DEF InTime
  <1>15. ResourcesAccounted'
    <2>1. \A d \in Modelled : free'[d] >= 0 /\ free'[d] + Held(running, d)' = Capacity[d]
      <3> SUFFICES ASSUME NEW d \in Modelled
                   PROVE  free'[d] >= 0 /\ free'[d] + Held(running, d)' = Capacity[d]
        OBVIOUS
      <3>1. free[d] \in Int /\ free[d] >= 0 /\ free[d] + Held(running, d) = Capacity[d]
        BY <1>3 DEF ResourcesAccounted, RustTypeOK
      <3>2. free'[d] = free[d] + Held(done, d)
        BY <1>1, Zenon
      <3>3. d \in Dimensions
        BY DEF Dimensions
      <3>4. /\ Held(running, d)' = Held(running, d) - Held(done, d)
            /\ Held(running, d) \in Nat /\ Held(done, d) \in Nat
        BY <1>6, <1>7, <3>3
      <3>5. Capacity[d] \in Nat
        BY RustAssumption
      <3> HIDE DEF done
      <3> QED
        BY <3>1, <3>2, <3>4, <3>5
    <2>2. enforce_power_cap => /\ power_cap_watts \in Nat /\ power_cap_watts # NoCap
                              /\ power.current_watts <= power_cap_watts
                              /\ power.seconds_above_cap = 0
      BY <1>1, <1>3 DEF ResourcesAccounted, RustTypeOK
    <2>3. enforce_power_cap => power'.seconds_above_cap = 0
      BY <1>9, <1>10, <2>2, AccountAdvances
    <2>4. enforce_power_cap => power'.current_watts <= power_cap_watts
      <3>1. "watts" \in Dimensions
        BY DEF Dimensions
      <3>2. Watts(done) \in Nat /\ power.current_watts \in Int
        BY <1>6, <1>9, <3>1 DEF Watts, PowerRecord
      <3> QED
        BY <1>10, <2>2, <3>2 DEF Clip
    <2>5. violations' = {}
      BY <1>2, <1>3 DEF ResourcesAccounted
    <2> QED
      BY <1>1, <1>2, <1>11, <2>1, <2>3, <2>4, <2>5 DEF ResourcesAccounted
  <1> QED
    BY <1>12, <1>13, <1>14, <1>15 DEF RustInv

-----------------------------------------------------------------------------
(* A dispatch.                                                             *)

FrontJobs == FromFront(Left)
LeftBehind == Taken(Left, FrontJobs)
Rest == queued \ FrontJobs
HeadTime == ShadowTime(Min(Rest), LeftBehind, running \cup Startings(FrontJobs))
Blocked ==
  policy = "EASY_BACKFILL_BASELINE" /\ Rest # {} /\ ~ FitsIn(Min(Rest), LeftBehind)

(* A dispatch starts what it starts from the front, and behind a blocked   *)
(* head a set of the jobs that backfill it.                                *)
LEMMA DispatchParts ==
  ASSUME Dispatch
  PROVE  /\ pc = "dispatch"
         /\ \/ ~ Blocked /\ Start(FrontJobs) /\ UNCHANGED shadow
            \/ /\ Blocked
               /\ \E behind \in Backfills(Rest \ {Min(Rest)}, LeftBehind, HeadTime) :
                    Start(FrontJobs \cup behind)
               /\ shadow' = [job \in DOMAIN shadow \cup {Min(Rest)} |->
                              IF job \in DOMAIN shadow THEN shadow[job] ELSE HeadTime]
         /\ violations' = violations \cup FailedChecks(queued', running', free')
         /\ pc' = IF strict_invariants /\ FailedChecks(queued', running', free') # {}
                  THEN "strict_error" ELSE "loop"
         /\ UNCHANGED <<arguments, clock_ts, submit_idx, completed, totals, report>>
  BY Zenon DEF Dispatch, FrontJobs, LeftBehind, Rest, HeadTime, Blocked

(* Jobs that start become holders, each of its own job.                    *)
LEMMA StartingHolders ==
  ASSUME RustInv, NEW S \in SUBSET queued
  PROVE  /\ Startings(S) \in SUBSET Holders /\ IsFiniteSet(S) /\ IsFiniteSet(Startings(S))
         /\ \A h \in Startings(S) : h.job \in S /\ h.start_ts = clock_ts /\ clock_ts <= h.end_ts
         /\ Startings(S) \cap (running \cup completed) = {}
  <1>1. PreparedJobs /\ submit_idx \in 0..Len(jobs) /\ queued \subseteq 1..submit_idx /\ clock_ts \in Int
    BY DEF RustInv, RustTypeOK
  <1>2. Len(jobs) \in Nat /\ S \subseteq 1..Len(jobs)
    BY <1>1, JobFields
  <1>3. IsFiniteSet(S)
    <2>1. IsFiniteSet(1..Len(jobs))
      BY <1>2, FS_Interval
    <2> QED
      BY <1>2, <2>1, FS_Subset
  <1>4. \A job \in S : Starting(job) \in Holders /\ Starting(job).job = job
                      /\ Starting(job).start_ts = clock_ts /\ clock_ts <= Starting(job).end_ts
    <2> SUFFICES ASSUME NEW job \in S
                 PROVE  /\ Starting(job) \in Holders /\ Starting(job).job = job
                        /\ Starting(job).start_ts = clock_ts /\ clock_ts <= Starting(job).end_ts
      OBVIOUS
    <2>1. jobs[job].runtime_actual_sec \in Int
      BY <1>1, <1>2, JobFields
    <2>2. Clip(jobs[job].runtime_actual_sec) \in Nat
      BY <2>1 DEF Clip
    <2> QED
      BY <1>1, <1>2, <2>2 DEF Starting, Holders
  <1>5. IsFiniteSet(Startings(S))
    <2> DEFINE f == [job \in S |-> Starting(job)]
    <2>1. f \in Surjection(S, Startings(S))
      BY DEF Surjection, Startings
    <2> QED
      BY <1>3, <2>1, FS_Surjection
  <1>6. \A h \in Startings(S) : h \in Holders /\ h.job \in S /\ h.start_ts = clock_ts /\ clock_ts <= h.end_ts
    BY <1>4 DEF Startings
  <1>7. \A h \in running \cup completed : h.job \notin queued
    BY DEF RustInv, Places
  <1> QED
    BY <1>3, <1>5, <1>6, <1>7

(* One more start takes what its job asks for.                             *)
LEMMA StartingOneMore ==
  ASSUME RustInv, NEW S \in SUBSET queued, NEW m \in queued, m \notin S, NEW d \in Dimensions
  PROVE  Held(Startings(S \cup {m}), d) = Held(Startings(S), d) + Asks(m, d)
  <1>1. PreparedJobs
    BY DEF RustInv, RustTypeOK
  <1>2. Startings(S \cup {m}) = Startings(S) \cup {Starting(m)}
    BY DEF Startings
  <1>3. Startings(S) \in SUBSET Holders /\ IsFiniteSet(Startings(S))
        /\ \A h \in Startings(S) : h.job # m
    BY StartingHolders
  <1>4. Starting(m) \in Holders
    <2>1. {m} \in SUBSET queued /\ Starting(m) \in Startings({m})
      BY DEF Startings
    <2> QED
      BY <2>1, StartingHolders
  <1>5. Starting(m).job = m
    BY DEF Starting
  <1>6. {Starting(m)} \in SUBSET Holders /\ IsFiniteSet({Starting(m)})
        /\ Startings(S) \cap {Starting(m)} = {}
    BY <1>3, <1>4, <1>5, FS_Singleton
  <1>7. Held({Starting(m)}, d) = Asks(m, d)
    BY <1>1, <1>4, <1>5, HeldSingle
  <1>8. Held(Startings(S) \cup {Starting(m)}, d) = Held(Startings(S), d) + Held({Starting(m)}, d)
    BY <1>1, <1>3, <1>6, HeldUnion
  <1> QED
    BY <1>2, <1>7, <1>8

(* Jobs each of which fits in what the earlier of them leave fit together. *)
LEMMA GreedyFits ==
  ASSUME RustInv, NEW left, \A d \in Limited : left[d] \in Nat, NEW S \in SUBSET queued,
         \A m \in S : FitsIn(m, Taken(left, {k \in S : k < m}))
  PROVE  \A d \in Limited : Held(Startings(S), d) <= left[d]
  <1> SUFFICES ASSUME NEW d \in Limited PROVE Held(Startings(S), d) <= left[d]
    OBVIOUS
  <1>0. d \in Dimensions
    BY DEF Limited, Dimensions
  <1>1. CASE S = {}
    <2>1. Startings(S) = {}
      BY <1>1 DEF Startings
    <2> QED
      BY <2>1, HeldNone
  <1>2. CASE S # {}
    <2>0. IsFiniteSet(S)
      BY StartingHolders
    <2>1. IsFiniteSet(S) /\ S \in SUBSET Int
      BY <2>0 DEF RustInv, RustTypeOK
    <2>2. Max(S) \in S /\ \A n \in S : n <= Max(S)
      BY <1>2, <2>1, MaxOfFinite
    <2>3. PICK m \in S : \A n \in S : n <= m
      BY <2>2
    <2> DEFINE T == {k \in S : k < m}
    <2>4. T \in SUBSET queued /\ m \notin T /\ S = T \cup {m} /\ m \in queued
      <3>1. m \in Int /\ \A n \in S : n \in Int /\ (n < m \/ n = m)
        BY <2>1, <2>3
      <3>2. \A n \in S : n \in T \/ n = m
        BY <3>1
      <3>3. m \notin T
        BY <3>1
      <3> QED
        BY <2>3, <3>2, <3>3
    <2>5. Held(Startings(S), d) = Held(Startings(T), d) + Asks(m, d)
      BY <1>0, <2>4, StartingOneMore
    <2>6. Asks(m, d) <= left[d] - Held(Startings(T), d)
      BY <2>3 DEF FitsIn, Taken
    <2>7. PreparedJobs /\ m \in 1..Len(jobs)
      BY <2>4, JobFields DEF RustInv, RustTypeOK
    <2>8. Asks(m, d) \in Nat
      BY <1>0, <2>7, AsksNat
    <2>9. Held(Startings(T), d) \in Nat
      BY <1>0, <2>4, <2>7, StartingHolders, HeldFinite
    <2> HIDE DEF T
    <2> QED
      BY <2>5, <2>6, <2>8, <2>9
  <1> QED
    BY <1>1, <1>2

(* What is left is a number in every limited dimension, and power is what  *)
(* the cap leaves of it.                                                   *)
LEMMA LeftIs ==
  ASSUME RustInv, pc # "refused"
  PROVE  /\ \A d \in Limited : Left[d] \in Nat
         /\ \A d \in Modelled : d \in Limited /\ Left[d] = free[d]
         /\ enforce_power_cap =>
              /\ "watts" \in Limited /\ Left["watts"] = power_cap_watts - power.current_watts
              /\ power_cap_watts \in Nat /\ power.current_watts \in Int
         /\ ~ enforce_power_cap => "watts" \notin Limited
  <1>1. \A d \in Modelled : free[d] \in Nat
    BY DEF RustInv, RustTypeOK, ResourcesAccounted
  <1>2. enforce_power_cap => /\ power_cap_watts \in Nat /\ power.current_watts \in Int
                            /\ power.current_watts <= power_cap_watts
    BY DEF RustInv, RustTypeOK, ResourcesAccounted
  <1>3. "watts" \notin Modelled
    BY DEF Modelled
  <1> QED
    BY <1>1, <1>2, <1>3 DEF Left, Limited, Clip

(* What a dispatch starts fits in what is left, dimension by dimension.    *)
LEMMA FrontFits ==
  ASSUME RustInv, pc # "refused"
  PROVE  /\ FrontJobs \in SUBSET queued
         /\ \A m \in FrontJobs : Startable(m, Taken(Left, {k \in FrontJobs : k < m}))
         /\ \A d \in Limited : Held(Startings(FrontJobs), d) <= Left[d] /\ LeftBehind[d] \in Nat
  <1>1. FrontJobs \in SUBSET queued
    BY DEF FrontJobs, FromFront
  <1>2. \A m \in FrontJobs : Startable(m, Taken(Left, {k \in FrontJobs : k < m}))
    <2> SUFFICES ASSUME NEW m \in FrontJobs
                 PROVE  Startable(m, Taken(Left, {k \in FrontJobs : k < m}))
      OBVIOUS
    <2>1. queued \subseteq Int
      BY DEF RustInv, RustTypeOK
    <2>2. Startable(m, Taken(Left, {k \in queued : k < m}))
      BY <1>1, <2>1 DEF FrontJobs, FromFront
    <2>3. {k \in queued : k < m} = {k \in FrontJobs : k < m}
      <3> SUFFICES ASSUME NEW k \in queued, k < m PROVE k \in FrontJobs
        BY <1>1
      <3>1. \A other \in queued : other <= k => other <= m
        BY <1>1, <2>1
      <3> QED
        BY <3>1 DEF FrontJobs, FromFront
    <2> QED
      BY <2>2, <2>3
  <1>3. \A d \in Limited : Left[d] \in Nat
    BY LeftIs
  <1>4. \A d \in Limited : Held(Startings(FrontJobs), d) <= Left[d]
    BY <1>1, <1>2, <1>3, GreedyFits DEF Startable
  <1>5. \A d \in Limited : Held(Startings(FrontJobs), d) \in Nat
    <2>1. PreparedJobs /\ Startings(FrontJobs) \in SUBSET Holders /\ IsFiniteSet(Startings(FrontJobs))
      BY <1>1, StartingHolders DEF RustInv, RustTypeOK
    <2> QED
      BY <2>1, HeldFinite DEF Limited, Dimensions
  <1>6. \A d \in Limited : LeftBehind[d] \in Nat
    BY <1>3, <1>4, <1>5 DEF LeftBehind, Taken
  <1> QED
    BY <1>1, <1>2, <1>4, <1>6

(* So does what it starts behind a head.                                   *)
LEMMA StartedFits ==
  ASSUME RustInv, pc # "refused", NEW time,
         NEW behind \in Backfills(Rest \ {Min(Rest)}, LeftBehind, time)
  PROVE  /\ behind \in SUBSET (Rest \ {Min(Rest)})
         /\ Startings(FrontJobs) \cap Startings(behind) = {}
         /\ Startings(FrontJobs \cup behind) = Startings(FrontJobs) \cup Startings(behind)
         /\ \A d \in Limited : Held(Startings(behind), d) <= LeftBehind[d]
         /\ \A d \in Limited : Held(Startings(FrontJobs \cup behind), d) <= Left[d]
  <1>1. behind \in SUBSET (Rest \ {Min(Rest)}) /\ behind \in SUBSET queued
        /\ FrontJobs \in SUBSET queued /\ FrontJobs \cap behind = {}
    BY FrontFits DEF Backfills, Rest
  <1>2. \A m \in behind : FitsIn(m, Taken(LeftBehind, {k \in behind : k < m}))
    BY <1>1 DEF Backfills, Startable
  <1>3. \A d \in Limited : Held(Startings(behind), d) <= LeftBehind[d]
    BY <1>1, <1>2, FrontFits, GreedyFits
  <1>4. /\ Startings(FrontJobs) \in SUBSET Holders /\ IsFiniteSet(Startings(FrontJobs))
        /\ \A h \in Startings(FrontJobs) : h.job \in FrontJobs
    BY <1>1, StartingHolders
  <1>5. /\ Startings(behind) \in SUBSET Holders /\ IsFiniteSet(Startings(behind))
        /\ \A h \in Startings(behind) : h.job \in behind
    BY <1>1, StartingHolders
  <1>6. Startings(FrontJobs) \cap Startings(behind) = {}
    BY <1>1, <1>4, <1>5
  <1>7. Startings(FrontJobs \cup behind) = Startings(FrontJobs) \cup Startings(behind)
    BY DEF Startings
  <1>8. \A d \in Limited : Held(Startings(FrontJobs \cup behind), d) <= Left[d]
    <2> SUFFICES ASSUME NEW d \in Limited PROVE Held(Startings(FrontJobs \cup behind), d) <= Left[d]
      OBVIOUS
    <2>1. d \in Dimensions /\ PreparedJobs
      BY DEF Limited, Dimensions, RustInv, RustTypeOK
    <2>2. Held(Startings(FrontJobs \cup behind), d) = Held(Startings(FrontJobs), d) + Held(Startings(behind), d)
      BY <1>4, <1>5, <1>6, <1>7, <2>1, HeldUnion
    <2>3. Held(Startings(FrontJobs), d) \in Nat /\ Held(Startings(behind), d) \in Nat
      BY <1>4, <1>5, <2>1, HeldFinite
    <2>4. LeftBehind[d] = Left[d] - Held(Startings(FrontJobs), d) /\ Left[d] \in Nat
      BY LeftIs DEF LeftBehind, Taken
    <2> QED
      BY <1>3, <2>2, <2>3, <2>4
  <1> QED
    BY <1>1, <1>3, <1>6, <1>7, <1>8

(* Starting jobs that fit keeps the account, and no check of it fails.     *)
LEMMA StartInv ==
  ASSUME RustInv, pc = "dispatch", NEW S \in SUBSET queued,
         \A d \in Limited : Held(Startings(S), d) <= Left[d],
         Start(S),
         violations' = violations \cup FailedChecks(queued', running', free'),
         pc' = IF strict_invariants /\ FailedChecks(queued', running', free') # {}
               THEN "strict_error" ELSE "loop",
         UNCHANGED <<arguments, clock_ts, submit_idx, completed, totals, report>>
  PROVE  RustInv' /\ pc' = "loop"
  <1> DEFINE new == Startings(S)
  <1>1. /\ UNCHANGED <<jobs, policy, power_cap_watts, enforce_power_cap, strict_invariants>>
        /\ UNCHANGED <<clock_ts, submit_idx, completed>>
    BY DEF arguments
  <1>2. RustTypeOK /\ Places /\ InTime /\ ResourcesAccounted
    BY DEF RustInv
  <1>3. PreparedJobs /\ running \in SUBSET Holders /\ IsFiniteSet(running)
    BY <1>2 DEF RustTypeOK
  <1>4. /\ new \in SUBSET Holders /\ IsFiniteSet(new)
        /\ \A h \in new : h.job \in S /\ h.start_ts = clock_ts /\ clock_ts <= h.end_ts
        /\ new \cap (running \cup completed) = {}
    BY StartingHolders
  <1>5. /\ queued' = queued \ S /\ running' = running \cup new
        /\ free' = [d \in Modelled |-> free[d] - Held(new, d)]
    BY DEF Start
  <1>6. \A d \in Dimensions :
          /\ Held(running \cup new, d) = Held(running, d) + Held(new, d)
          /\ Held(running, d) \in Nat /\ Held(new, d) \in Nat
    BY <1>3, <1>4, HeldUnion, HeldFinite
  <1>7. \A d : Held(running, d)' = Held(running \cup new, d)
    BY <1>1, <1>5 DEF Held, Units, Asks
  <1>8. "watts" \in Dimensions /\ Modelled \subseteq Dimensions
    BY DEF Dimensions
  <1>9. power \in PowerRecord
    BY <1>2 DEF RustTypeOK, PowerRecord
  <1>10. /\ power' \in PowerRecord
         /\ power'.current_watts = power.current_watts + Watts(new)
         /\ power'.seconds_above_cap = power.seconds_above_cap
    <2> DEFINE draw == power.current_watts + Watts(new)
               peak == Max({power.peak_watts, draw})
    <2>1. power.current_watts \in Int /\ power.peak_watts \in Int /\ Watts(new) \in Nat
      BY <1>6, <1>8, <1>9 DEF PowerRecord, Watts
    <2>2. draw \in Int
      BY <2>1
    <2>3. peak \in Int
      <3>1. {power.peak_watts, draw} \in SUBSET Int /\ {power.peak_watts, draw} # {}
        BY <2>1, <2>2
      <3>2. IsFiniteSet({power.peak_watts, draw})
        <4>1. IsFiniteSet({power.peak_watts}) /\ IsFiniteSet({draw})
          BY FS_Singleton
        <4>2. {power.peak_watts, draw} = {power.peak_watts} \cup {draw}
          OBVIOUS
        <4> QED
          BY <4>1, <4>2, FS_Union
      <3> HIDE DEF draw
      <3>3. Max({power.peak_watts, draw}) \in {power.peak_watts, draw}
        BY <3>1, <3>2, MaxOfFinite
      <3> QED
        BY <3>1, <3>3
    <2>4. power' = [power EXCEPT !.current_watts = draw, !.peak_watts = peak]
      BY <1>9 DEF Start, PowerRecord
    <2> HIDE DEF draw, peak
    <2>5. power' \in PowerRecord /\ power'.current_watts = draw
          /\ power'.seconds_above_cap = power.seconds_above_cap
      BY <1>9, <2>2, <2>3, <2>4 DEF PowerRecord
    <2> QED
      BY <2>5 DEF draw
  <1>11. power'.current_watts = Watts(running)'
    <2>1. power.current_watts = Held(running, "watts")
      BY <1>2 DEF ResourcesAccounted, Watts
    <2>2. Held(running, "watts")' = Held(running, "watts") + Held(new, "watts")
      BY <1>6, <1>7, <1>8
    <2> QED
      BY <1>10, <2>1, <2>2 DEF Watts
  <1>12. \A d \in Modelled : /\ free'[d] \in Int /\ free'[d] >= 0
                            /\ free'[d] + Held(running, d)' = Capacity[d]
    <2> SUFFICES ASSUME NEW d \in Modelled
                 PROVE  /\ free'[d] \in Int /\ free'[d] >= 0
                        /\ free'[d] + Held(running, d)' = Capacity[d]
      OBVIOUS
    <2>1. free[d] \in Int /\ free[d] + Held(running, d) = Capacity[d] /\ Capacity[d] \in Nat
      BY <1>2, RustAssumption DEF ResourcesAccounted, RustTypeOK
    <2>2. Held(new, d) <= free[d]
      BY LeftIs
    <2>3. free'[d] = free[d] - Held(new, d)
      BY <1>5, Zenon
    <2>4. /\ Held(running, d)' = Held(running, d) + Held(new, d)
          /\ Held(running, d) \in Nat /\ Held(new, d) \in Nat
      BY <1>6, <1>7, <1>8
    <2> HIDE DEF new
    <2> QED
      BY <2>1, <2>2, <2>3, <2>4
  <1>13. InTime'
    <2>1. \A job \in S : job \in 1..submit_idx /\ jobs[job].submit_ts <= clock_ts
      BY <1>2 DEF RustTypeOK, InTime
    <2>2. \A h \in running \cup new : jobs[h.job].submit_ts <= h.start_ts /\ clock_ts <= h.end_ts
      BY <1>2, <1>4, <2>1 DEF InTime
    <2>3. /\ \A k \in (submit_idx + 1)..Len(jobs) : clock_ts <= jobs[k].submit_ts
          /\ \A k \in 1..submit_idx : jobs[k].submit_ts <= clock_ts
      BY <1>2 DEF InTime
    <2> QED
      BY <1>1, <1>5, <2>2, <2>3 DEF InTime
  <1>14. FailedChecks(queued', running', free') = {}
    <2>1. ~ \E d \in Modelled : free'[d] > Capacity[d]
      <3> SUFFICES ASSUME NEW d \in Modelled PROVE ~ (free'[d] > Capacity[d])
        OBVIOUS
      <3>1. /\ Held(running \cup new, d) = Held(running, d) + Held(new, d)
            /\ Held(running, d) \in Nat /\ Held(new, d) \in Nat
        BY <1>6, <1>8
      <3>2. Held(running, d)' \in Nat
        BY <1>7, <3>1
      <3>3. Capacity[d] \in Nat
        BY RustAssumption
      <3> QED
        BY <1>12, <3>2, <3>3
    <2>2. ~ \E d \in Modelled : Held(running', d) + free'[d] # Capacity[d]
      <3> SUFFICES ASSUME NEW d \in Modelled PROVE Held(running', d) + free'[d] = Capacity[d]
        OBVIOUS
      <3>1. /\ Held(running \cup new, d) = Held(running, d) + Held(new, d)
            /\ Held(running, d) \in Nat /\ Held(new, d) \in Nat
        BY <1>6, <1>8
      <3>2. Held(running', d) = Held(running \cup new, d)
        BY <1>5, Zenon
      <3>4. Held(running, d)' = Held(running \cup new, d)
        BY <1>7
      <3>3. free'[d] \in Int /\ free'[d] + Held(running, d)' = Capacity[d]
        BY <1>12
      <3> HIDE DEF new
      <3> QED
        BY <3>1, <3>2, <3>3, <3>4
    <2>3. ~ \E h \in running' : h.start_ts < jobs[h.job].submit_ts
      <3> SUFFICES ASSUME NEW h \in running' PROVE ~ (h.start_ts < jobs[h.job].submit_ts)
        OBVIOUS
      <3>1. jobs[h.job].submit_ts <= h.start_ts
        BY <1>1, <1>13 DEF InTime
      <3>2. h \in Holders
        BY <1>3, <1>4, <1>5
      <3>3. h.start_ts \in Int /\ jobs[h.job].submit_ts \in Int
        BY <1>3, <3>2, JobFields DEF Holders
      <3> QED
        BY <3>1, <3>3
    <2>4. ~ \E job \in queued' : jobs[job].submit_ts > clock_ts
      <3> SUFFICES ASSUME NEW job \in queued' PROVE ~ (jobs[job].submit_ts > clock_ts)
        OBVIOUS
      <3>1. job \in 1..submit_idx /\ jobs[job].submit_ts <= clock_ts
        BY <1>2, <1>5 DEF RustTypeOK, InTime
      <3>2. job \in 1..Len(jobs)
        BY <1>2, <3>1, JobFields DEF RustTypeOK
      <3>3. jobs[job].submit_ts \in Int /\ clock_ts \in Int
        BY <1>2, <1>3, <3>2, JobFields DEF RustTypeOK
      <3> QED
        BY <3>1, <3>3
    <2> QED
      BY <2>1, <2>2, <2>3, <2>4 DEF FailedChecks
  <1>15. violations' = {} /\ pc' = "loop"
    BY <1>2, <1>14 DEF ResourcesAccounted
  <1>16. RustTypeOK'
    <2>1. PreparedJobs' /\ Holders' = Holders
      BY <1>1, <1>3 DEF PreparedJobs, Holders
    <2>2. free' \in [Modelled -> Int]
      BY <1>5, <1>12
    <2>3. queued' \subseteq 1..submit_idx'
      BY <1>1, <1>2, <1>5 DEF RustTypeOK
    <2>4. running' \subseteq Holders /\ IsFiniteSet(running')
      BY <1>3, <1>4, <1>5, FS_Union
    <2> QED
      BY <1>1, <1>2, <1>10, <1>15, <2>1, <2>2, <2>3, <2>4 DEF RustTypeOK, PowerRecord
  <1>17. Places'
    <2>1. \A g, h \in new : g.job = h.job => g = h
      BY DEF Startings, Starting
    <2>2. \A h \in new : h.job \in queued /\ h.job \in 1..submit_idx /\ h.job \notin queued'
      BY <1>2, <1>4, <1>5 DEF RustTypeOK
    <2>3. \A h \in running \cup completed : h.job \in 1..submit_idx /\ h.job \notin queued
      BY <1>2 DEF Places
    <2>4. \A g, h \in running' \cup completed : g.job = h.job => g = h
      BY <1>2, <1>5, <2>1, <2>2, <2>3 DEF Places
    <2>5. running' \cap completed = {}
      BY <1>2, <1>4, <1>5 DEF Places
    <2>6. \A h \in running' \cup completed : h.job \in 1..submit_idx /\ h.job \notin queued'
      BY <1>5, <2>2, <2>3
    <2> QED
      BY <1>1, <2>4, <2>5, <2>6 DEF Places
  <1>18. ResourcesAccounted'
    <2>1. enforce_power_cap => /\ power_cap_watts \in Nat
                              /\ power.seconds_above_cap = 0
      BY <1>2 DEF ResourcesAccounted, RustTypeOK
    <2>2. enforce_power_cap => power'.current_watts <= power_cap_watts
      <3>1. enforce_power_cap =>
              /\ Watts(new) <= power_cap_watts - power.current_watts
              /\ power_cap_watts \in Nat /\ power.current_watts \in Int
        BY LeftIs DEF Watts
      <3>2. Watts(new) \in Nat
        BY <1>6, <1>8 DEF Watts
      <3> HIDE DEF new
      <3> QED
        BY <1>10, <3>1, <3>2
    <2> QED
      BY <1>1, <1>10, <1>11, <1>12, <1>15, <2>1, <2>2 DEF ResourcesAccounted
  <1> QED
    BY <1>13, <1>15, <1>16, <1>17, <1>18 DEF RustInv

(* A dispatch starts a set of queued jobs that fits.                       *)
LEMMA DispatchInv ==
  ASSUME RustInv, Dispatch
  PROVE  RustInv' /\ pc' = "loop"
  <1>1. pc = "dispatch" /\ UNCHANGED <<arguments, clock_ts, submit_idx, completed, totals, report>>
        /\ violations' = violations \cup FailedChecks(queued', running', free')
        /\ pc' = IF strict_invariants /\ FailedChecks(queued', running', free') # {}
                 THEN "strict_error" ELSE "loop"
    BY DispatchParts
  <1>2. PICK S \in SUBSET queued : Start(S) /\ \A d \in Limited : Held(Startings(S), d) <= Left[d]
    <2>1. CASE Start(FrontJobs)
      BY <1>1, <2>1, FrontFits
    <2>2. CASE \E behind \in Backfills(Rest \ {Min(Rest)}, LeftBehind, HeadTime) :
                 Start(FrontJobs \cup behind)
      <3>1. PICK behind \in Backfills(Rest \ {Min(Rest)}, LeftBehind, HeadTime) :
              Start(FrontJobs \cup behind)
        BY <2>2
      <3>2. /\ behind \in SUBSET (Rest \ {Min(Rest)})
            /\ \A d \in Limited : Held(Startings(FrontJobs \cup behind), d) <= Left[d]
        BY <1>1, StartedFits
      <3>3. FrontJobs \cup behind \in SUBSET queued
        BY <1>1, <3>2, FrontFits DEF Rest
      <3> QED
        BY <3>1, <3>2, <3>3
    <2> QED
      BY <2>1, <2>2, DispatchParts
  <1> QED
    BY <1>1, <1>2, StartInv

(* The invariant holds of every run.                                       *)
LEMMA RustStep ==
  ASSUME RustInv, [RustNext]_rvars
  PROVE  RustInv'
  <1>1. CASE Advance
    BY <1>1, AdvanceInv
  <1>2. CASE Dispatch
    BY <1>2, DispatchInv
  <1>3. CASE WriteReport
    <2>1. /\ pc = "loop" /\ pc' = "reported"
          /\ UNCHANGED <<arguments, clock_ts, submit_idx, queued, running, completed, free,
                         power, totals, violations, shadow>>
      BY <1>3 DEF WriteReport
    <2>2. RustTypeOK' /\ Places' /\ InTime'
      BY <2>1 DEF arguments, RustInv, RustTypeOK, PreparedJobs, Holders, Places, InTime
    <2>3. ResourcesAccounted'
      BY <2>1 DEF arguments, RustInv, ResourcesAccounted, Watts, Held, Units, Asks
    <2> QED
      BY <2>2, <2>3 DEF RustInv
  <1>4. CASE UNCHANGED rvars
    <2>1. RustTypeOK' /\ Places' /\ InTime'
      BY <1>4 DEF rvars, arguments, RustInv, RustTypeOK, PreparedJobs, Holders, Places, InTime
    <2>2. ResourcesAccounted'
      BY <1>4 DEF rvars, arguments, RustInv, ResourcesAccounted, Watts, Held, Units, Asks
    <2> QED
      BY <2>1, <2>2 DEF RustInv
  <1> QED
    BY <1>1, <1>2, <1>3, <1>4 DEF RustNext, RustTerminated

(* In every dimension what is free and what runs add up, the draw is that  *)
(* of what runs, and an enforced cap is never exceeded, not for a second.  *)
THEOREM AllIsAccounted == RustSpec => []ResourcesAccounted
  <1>1. RustInv => ResourcesAccounted
    BY DEF RustInv
  <1> QED
    BY <1>1, RustInitInv, RustStep, PTL DEF RustSpec

-----------------------------------------------------------------------------
(* The promise to a blocked head.                                          *)

(* A head once blocked is still the head.  It fits at its time, and before *)
(* that it does not and its shadow time computed again is the same.        *)
Expected(job) ==
  IF pc = "dispatch" /\ FitsIn(job, Left) THEN clock_ts = shadow[job]
  ELSE ~ FitsIn(job, Left) /\ ShadowTime(job, Left, running) = shadow[job]

ShadowInv ==
  /\ DOMAIN shadow \subseteq 1..submit_idx
  /\ \A job \in DOMAIN shadow : policy = "EASY_BACKFILL_BASELINE"
  /\ \A job \in DOMAIN shadow \cap queued : \A other \in queued : job <= other
  /\ \A job \in DOMAIN shadow \cap queued : jobs[job].requested.cpus > 0 => Expected(job)
  /\ \A h \in running \cup completed : h.job \in DOMAIN shadow => h.start_ts = shadow[h.job]

(* After a dispatch the head cannot start; with nothing running, nothing   *)
(* behind a head to reserve for can start either.                          *)
WaitInv ==
  /\ pc # "dispatch" /\ queued # {} =>
       /\ ~ Startable(Min(queued), Left)
       /\ policy = "EASY_BACKFILL_BASELINE" /\ running = {} /\ jobs[Min(queued)].requested.cpus > 0 =>
            \A job \in queued : ~ Startable(job, Left)
  /\ pc = "reported" /\ queued # {} => running = {}

(* The shadow time is the least end by which there is enough, or NEVER.    *)
LEMMA ShadowIs ==
  ASSUME NEW head, NEW left, NEW S \in SUBSET Holders, IsFiniteSet(S)
  PROVE  LET enough == EndsEnough(head, left, S)
             time   == ShadowTime(head, left, S)
         IN  /\ enough \in SUBSET Int
             /\ \/ enough = {} /\ time = NEVER
                \/ time \in Int /\ time \in enough /\ \A ts \in enough : time <= ts
  <1> DEFINE ends == {h.end_ts : h \in S}
             enough == EndsEnough(head, left, S)
  <1>1. enough \in SUBSET ends /\ ends \in SUBSET Int
    BY DEF EndsEnough, Holders
  <1>2. IsFiniteSet(enough)
    <2> DEFINE f == [h \in S |-> h.end_ts]
    <2>1. f \in Surjection(S, ends)
      BY DEF Surjection
    <2>2. IsFiniteSet(ends)
      BY <2>1, FS_Surjection
    <2> QED
      BY <1>1, <2>2, FS_Subset
  <1>3. CASE enough = {}
    BY <1>1, <1>3 DEF ShadowTime
  <1>4. CASE enough # {}
    <2> HIDE DEF enough
    <2>0. enough \in SUBSET Int
      BY <1>1
    <2>1. Min(enough) \in enough /\ \A ts \in enough : Min(enough) <= ts
      BY <1>2, <1>4, <2>0, MinOfFinite
    <2>2. ShadowTime(head, left, S) = Min(enough)
      BY <1>4 DEF ShadowTime, enough
    <2> QED
      BY <2>0, <2>1, <2>2 DEF enough
  <1> QED
    BY <1>3, <1>4

(* Before the shadow time a head that is blocked stays so, whether or not  *)
(* anything ends at the very moment.                                       *)
LEMMA BlockedBefore ==
  ASSUME PreparedJobs, NEW head, NEW left, NEW S \in SUBSET Holders, IsFiniteSet(S),
         \A d \in Limited : left[d] \in Int,
         ~ FitsIn(head, left), NEW ts \in Int,
         ShadowTime(head, left, S) = NEVER \/ ts < ShadowTime(head, left, S)
  PROVE  ~ FitsIn(head, LeftAt(left, S, ts))
  <1> DEFINE over == {h \in S : h.end_ts <= ts}
             ends == {h.end_ts : h \in over}
  <1>1. CASE over = {}
    <2>1. \A d \in Limited : LeftAt(left, S, ts)[d] = left[d]
      BY <1>1, HeldNone DEF LeftAt
    <2> QED
      BY <2>1 DEF FitsIn
  <1>2. CASE over # {}
    <2>1. ends \in SUBSET Int /\ ends # {}
      BY <1>2 DEF Holders
    <2>2. IsFiniteSet(ends)
      <3> DEFINE f == [h \in over |-> h.end_ts]
      <3>1. f \in Surjection(over, ends)
        BY DEF Surjection
      <3>2. IsFiniteSet(over)
        BY FS_Subset
      <3> QED
        BY <3>1, <3>2, FS_Surjection
    <2>3. PICK last \in ends : \A e \in ends : e <= last
      <3> HIDE DEF ends
      <3> QED
        BY <2>1, <2>2, MaxOfFinite
    <2>4. last \in Int /\ last <= ts /\ last \in {h.end_ts : h \in S}
      BY <2>1, <2>3
    <2>5. {h \in S : h.end_ts <= last} = over
      <3> SUFFICES ASSUME NEW h \in S PROVE h.end_ts <= last <=> h.end_ts <= ts
        OBVIOUS
      <3>1. h.end_ts \in Int
        BY DEF Holders
      <3>2. h.end_ts <= ts => h.end_ts <= last
        BY <2>3
      <3> QED
        BY <2>4, <3>1, <3>2
    <2>6. LeftAt(left, S, last) = LeftAt(left, S, ts)
      BY <2>5 DEF LeftAt
    <2>7. ASSUME FitsIn(head, LeftAt(left, S, ts)) PROVE FALSE
      <3>1. last \in EndsEnough(head, left, S)
        BY <2>4, <2>6, <2>7 DEF EndsEnough
      <3>2. ShadowTime(head, left, S) \in Int /\ ShadowTime(head, left, S) <= last
        BY <3>1, ShadowIs
      <3>3. ShadowTime(head, left, S) # NEVER
        BY <3>2, RustAssumption
      <3> QED
        BY <2>4, <3>2, <3>3
    <2> QED
      BY <2>7
  <1> QED
    BY <1>1, <1>2

Numbers(left) == \A d \in Limited : left[d] \in Int
AreFirst(D, S, now) ==
  D = {h \in S : h.end_ts = now} /\ \A h \in S : now <= h.end_ts
GivesBack(after, left, D) == \A d \in Limited : after[d] = left[d] + Held(D, d)
Takes(after, left, T) == \A d \in Limited : after[d] = left[d] - Held(T, d)
OverBy(T, time) == \A h \in T : NoLater(h.end_ts, time)

(* A head that does not fit does not fit in less.                          *)
LEMMA StillBlocked ==
  ASSUME PreparedJobs, NEW head \in 1..Len(jobs), NEW T \in SUBSET Holders, IsFiniteSet(T),
         NEW left, Numbers(left), ~ FitsIn(head, left), NEW after, Takes(after, left, T)
  PROVE  ~ FitsIn(head, after)
  <1>1. PICK d \in Limited : ~ (Asks(head, d) <= left[d])
    BY DEF FitsIn
  <1>2. d \in Dimensions
    BY DEF Limited, Dimensions
  <1>3. Held(T, d) \in Nat /\ after[d] = left[d] - Held(T, d) /\ left[d] \in Int /\ Asks(head, d) \in Nat
    BY <1>2, HeldFinite, AsksNat DEF Numbers, Takes
  <1>4. ~ (Asks(head, d) <= after[d])
    BY <1>1, <1>3
  <1> QED
    BY <1>4 DEF FitsIn

(* Jobs that end by the shadow time do not move it when they start.        *)
LEMMA BackfillKeeps ==
  ASSUME PreparedJobs, NEW head \in 1..Len(jobs),
         NEW S \in SUBSET Holders, IsFiniteSet(S), NEW T \in SUBSET Holders, IsFiniteSet(T),
         S \cap T = {},
         NEW left, Numbers(left), ~ FitsIn(head, left), OverBy(T, ShadowTime(head, left, S)),
         NEW after, Takes(after, left, T)
  PROVE  ShadowTime(head, after, S \cup T) = ShadowTime(head, left, S)
  <1> DEFINE time == ShadowTime(head, left, S)
             again == ShadowTime(head, after, S \cup T)
             By(H, ts) == {h \in H : h.end_ts <= ts}
  <1>0. /\ \A d \in Limited : left[d] \in Int
        /\ \A d \in Limited : after[d] = left[d] - Held(T, d)
        /\ \A h \in T : NoLater(h.end_ts, time)
    BY DEF Numbers, Takes, OverBy
  <1>1. S \cup T \in SUBSET Holders /\ IsFiniteSet(S \cup T)
    BY FS_Union
  <1>2. \A d \in Limited : d \in Dimensions
    BY DEF Limited, Dimensions
  <1>3. \A d \in Limited : Asks(head, d) \in Nat
    BY <1>2, AsksNat
  <1>4. ASSUME NEW ts \in Int, NEW d \in Limited
        PROVE  /\ LeftAt(left, S, ts)[d] \in Int /\ LeftAt(after, S \cup T, ts)[d] \in Int
               /\ LeftAt(after, S \cup T, ts)[d] <= LeftAt(left, S, ts)[d]
               /\ By(T, ts) = T => LeftAt(after, S \cup T, ts)[d] = LeftAt(left, S, ts)[d]
    <2>1. /\ By(S, ts) \in SUBSET Holders /\ IsFiniteSet(By(S, ts))
          /\ By(T, ts) \in SUBSET T /\ By(T, ts) \in SUBSET Holders /\ IsFiniteSet(By(T, ts))
          /\ By(S, ts) \cap By(T, ts) = {}
      BY FS_Subset
    <2>2. By(S \cup T, ts) = By(S, ts) \cup By(T, ts)
      OBVIOUS
    <2>3. LeftAt(left, S, ts)[d] = left[d] + Held(By(S, ts), d)
      BY DEF LeftAt
    <2>4. LeftAt(after, S \cup T, ts)[d] = after[d] + Held(By(S \cup T, ts), d)
      BY DEF LeftAt
    <2> HIDE DEF By
    <2>5. Held(By(S \cup T, ts), d) = Held(By(S, ts), d) + Held(By(T, ts), d)
      BY <1>2, <2>1, <2>2, HeldUnion
    <2>6. Held(By(S, ts), d) \in Nat /\ Held(By(T, ts), d) \in Nat /\ Held(T, d) \in Nat
      BY <1>2, <2>1, HeldFinite
    <2>7. Held(By(T, ts), d) <= Held(T, d)
      <3>1. Held(T \ By(T, ts), d) = Held(T, d) - Held(By(T, ts), d) /\ Held(T \ By(T, ts), d) \in Nat
        BY <1>2, <2>1, HeldDifference
      <3> QED
        BY <2>6, <3>1
    <2>8. left[d] \in Int /\ after[d] = left[d] - Held(T, d)
      BY <1>0
    <2> QED
      BY <2>3, <2>4, <2>5, <2>6, <2>7, <2>8
  <1>5. \A ts \in Int : time = NEVER \/ ts < time => ts \notin EndsEnough(head, after, S \cup T)
    <2> SUFFICES ASSUME NEW ts \in Int, time = NEVER \/ ts < time,
                        FitsIn(head, LeftAt(after, S \cup T, ts))
                 PROVE  FALSE
      BY DEF EndsEnough
    <2>1. ~ FitsIn(head, LeftAt(left, S, ts))
      BY <1>0, BlockedBefore
    <2>2. PICK d \in Limited : ~ (Asks(head, d) <= LeftAt(left, S, ts)[d])
      BY <2>1 DEF FitsIn
    <2>3. Asks(head, d) <= LeftAt(after, S \cup T, ts)[d] /\ Asks(head, d) \in Nat
      BY <1>3 DEF FitsIn
    <2>4. /\ LeftAt(left, S, ts)[d] \in Int /\ LeftAt(after, S \cup T, ts)[d] \in Int
          /\ LeftAt(after, S \cup T, ts)[d] <= LeftAt(left, S, ts)[d]
      BY <1>4
    <2> QED
      BY <2>2, <2>3, <2>4
  <1>6. CASE time = NEVER
    <2>1. EndsEnough(head, after, S \cup T) = {}
      BY <1>1, <1>5, <1>6, ShadowIs
    <2> QED
      BY <1>6, <2>1 DEF ShadowTime
  <1>7. CASE time # NEVER
    <2>1. time \in Int /\ time \in EndsEnough(head, left, S)
      BY <1>7, ShadowIs
    <2>2. By(T, time) = T
      BY <1>0, <1>7 DEF NoLater
    <2>3. time \in {h.end_ts : h \in S} /\ FitsIn(head, LeftAt(left, S, time))
      BY <2>1 DEF EndsEnough
    <2>4. FitsIn(head, LeftAt(after, S \cup T, time))
      BY <1>4, <2>1, <2>2, <2>3 DEF FitsIn
    <2>5. time \in EndsEnough(head, after, S \cup T)
      BY <2>3, <2>4 DEF EndsEnough
    <2>6. again \in Int /\ again \in EndsEnough(head, after, S \cup T) /\ again <= time
      BY <1>1, <2>5, ShadowIs
    <2>7. ~ (again < time)
      BY <1>5, <2>6
    <2> QED
      BY <2>1, <2>6, <2>7
  <1> QED
    BY <1>6, <1>7

(* When the first holders end and there is enough, it is the shadow time. *)
LEMMA EndingBrings ==
  ASSUME PreparedJobs, NEW head \in 1..Len(jobs),
         NEW S \in SUBSET Holders, IsFiniteSet(S), NEW now \in Int,
         NEW D, AreFirst(D, S, now),
         NEW left, Numbers(left), ~ FitsIn(head, left),
         NEW after, GivesBack(after, left, D), FitsIn(head, after)
  PROVE  ShadowTime(head, left, S) = now
  <1>0. /\ \A d \in Limited : left[d] \in Int
        /\ \A d \in Limited : after[d] = left[d] + Held(D, d)
        /\ D = {h \in S : h.end_ts = now} /\ \A h \in S : now <= h.end_ts
    BY DEF Numbers, GivesBack, AreFirst
  <1>1. D \in SUBSET S /\ D \in SUBSET Holders /\ IsFiniteSet(D)
        /\ S \ D \in SUBSET Holders /\ IsFiniteSet(S \ D)
    BY <1>0, FS_Subset
  <1>2. \A d \in Limited : d \in Dimensions
    BY DEF Limited, Dimensions
  <1>3. \A h \in S : h.end_ts \in Int
    BY DEF Holders
  <1>4. {h \in S : h.end_ts <= now} = D
    BY <1>0, <1>3
  <1>5. \A d \in Limited : LeftAt(left, S, now)[d] = after[d]
    BY <1>0, <1>4 DEF LeftAt
  <1>6. D # {}
    <2> SUFFICES ASSUME D = {} PROVE FALSE
      OBVIOUS
    <2>1. ASSUME NEW d \in Limited PROVE after[d] = left[d]
      <3>1. Held({}, d) = 0
        BY HeldNone
      <3>2. after[d] = left[d] + Held({}, d)
        BY <1>0
      <3>3. left[d] \in Int
        BY <1>0
      <3> QED
        BY <3>1, <3>2, <3>3
    <2>2. \A d \in Limited : after[d] = left[d]
      BY <2>1
    <2> QED
      BY <2>2 DEF FitsIn
  <1>7. FitsIn(head, LeftAt(left, S, now))
    BY <1>5 DEF FitsIn
  <1>8. now \in EndsEnough(head, left, S)
    BY <1>0, <1>6, <1>7 DEF EndsEnough
  <1>9. \A ts \in EndsEnough(head, left, S) : now <= ts
    BY <1>0 DEF EndsEnough
  <1>10. /\ ShadowTime(head, left, S) \in Int /\ ShadowTime(head, left, S) <= now
        /\ ShadowTime(head, left, S) \in EndsEnough(head, left, S)
    BY <1>8, ShadowIs
  <1> QED
    BY <1>9, <1>10

(* When there is not, the shadow time is as it was.                       *)
LEMMA EndingKeeps ==
  ASSUME PreparedJobs, NEW head \in 1..Len(jobs),
         NEW S \in SUBSET Holders, IsFiniteSet(S), NEW now \in Int,
         NEW D, AreFirst(D, S, now),
         NEW left, Numbers(left), ~ FitsIn(head, left),
         NEW after, GivesBack(after, left, D), ~ FitsIn(head, after)
  PROVE  ShadowTime(head, after, S \ D) = ShadowTime(head, left, S)
  <1>0. /\ \A d \in Limited : left[d] \in Int
        /\ \A d \in Limited : after[d] = left[d] + Held(D, d)
        /\ D = {h \in S : h.end_ts = now} /\ \A h \in S : now <= h.end_ts
    BY DEF Numbers, GivesBack, AreFirst
  <1>1. D \in SUBSET S /\ D \in SUBSET Holders /\ IsFiniteSet(D)
        /\ S \ D \in SUBSET Holders /\ IsFiniteSet(S \ D)
    BY <1>0, FS_Subset
  <1>2. \A d \in Limited : d \in Dimensions
    BY DEF Limited, Dimensions
  <1>3. \A h \in S : h.end_ts \in Int
    BY DEF Holders
  <1>4. {h \in S : h.end_ts <= now} = D
    BY <1>0, <1>3
  <1>5. \A d \in Limited : LeftAt(left, S, now)[d] = after[d]
    BY <1>0, <1>4 DEF LeftAt
  <1>6. ASSUME NEW h \in S \ D
        PROVE  LeftAt(after, S \ D, h.end_ts) = LeftAt(left, S, h.end_ts)
    <2> DEFINE later == {r \in S \ D : r.end_ts <= h.end_ts}
               all == {r \in S : r.end_ts <= h.end_ts}
    <2>1. all = D \cup later
      BY <1>0, <1>3
    <2>2. later \in SUBSET Holders /\ IsFiniteSet(later) /\ D \cap later = {}
      BY <1>1, FS_Subset
    <2> HIDE DEF later, all
    <2>3. ASSUME NEW d \in Limited PROVE after[d] + Held(later, d) = left[d] + Held(all, d)
      <3>1. Held(all, d) = Held(D, d) + Held(later, d)
        BY <1>1, <1>2, <2>1, <2>2, HeldUnion
      <3>2. Held(D, d) \in Nat /\ Held(later, d) \in Nat
        BY <1>1, <1>2, <2>2, HeldFinite
      <3>3. after[d] = left[d] + Held(D, d) /\ left[d] \in Int
        BY <1>0
      <3> QED
        BY <3>1, <3>2, <3>3
    <2> QED
      BY <2>3 DEF LeftAt, later, all
  <1>7. ~ FitsIn(head, LeftAt(left, S, now))
    BY <1>5 DEF FitsIn
  <1>8. \A h \in S : h \notin D \/ h.end_ts = now
    BY <1>0
  <1>9. EndsEnough(head, after, S \ D) = EndsEnough(head, left, S)
    BY <1>6, <1>7, <1>8 DEF EndsEnough
  <1> QED
    BY <1>9 DEF ShadowTime

(* What a head asks for, and when it gets it, depend on the trace, what is *)
(* left and the holders only.                                              *)
LEMMA TimesStay ==
  ASSUME UNCHANGED <<jobs, enforce_power_cap>>
  PROVE  /\ Limited' = Limited
         /\ \A job, left : FitsIn(job, left)' <=> FitsIn(job, left)
         /\ \A job, left : Startable(job, left)' <=> Startable(job, left)
         /\ \A job, left, S : ShadowTime(job, left, S)' = ShadowTime(job, left, S)
         /\ \A S, d : Held(S, d)' = Held(S, d)
  <1>1. Limited' = Limited
    BY DEF Limited
  <1>2. \A job, d : Asks(job, d)' = Asks(job, d)
    BY DEF Asks
  <1>3. \A S, d : Held(S, d)' = Held(S, d)
    BY DEF Held, Units, Asks
  <1>4. \A job, left : FitsIn(job, left)' <=> FitsIn(job, left)
    BY <1>1, <1>2 DEF FitsIn
  <1>5. \A job, left : Startable(job, left)' <=> Startable(job, left)
    BY <1>4 DEF Startable
  <1>6. \A left, S, ts : LeftAt(left, S, ts)' = LeftAt(left, S, ts)
    BY <1>1, <1>3 DEF LeftAt
  <1>7. \A job, left, S : EndsEnough(job, left, S)' = EndsEnough(job, left, S)
    BY <1>4, <1>6 DEF EndsEnough
  <1>8. \A job, left, S : ShadowTime(job, left, S)' = ShadowTime(job, left, S)
    BY <1>7 DEF ShadowTime
  <1> QED
    BY <1>1, <1>3, <1>4, <1>5, <1>8

(* An event gives back what was held by what ends.                         *)
LEMMA AdvanceLeft ==
  ASSUME RustInv, RustInv', NEW now, now \in Int,
         running' = running \ Ending(now),
         free' = [d \in Modelled |-> free[d] + Held(Ending(now), d)],
         pc = "loop", pc' = "dispatch", UNCHANGED arguments
  PROVE  Limited' = Limited /\ \A d \in Limited : Left'[d] = Left[d] + Held(Ending(now), d)
  <1>1. UNCHANGED <<jobs, enforce_power_cap, power_cap_watts>>
    BY DEF arguments
  <1>2. Limited' = Limited /\ \A S, d : Held(S, d)' = Held(S, d)
    BY <1>1, TimesStay
  <1>3. /\ \A d \in Modelled : Left[d] = free[d] /\ Left'[d] = free'[d]
        /\ enforce_power_cap =>
              /\ Left["watts"] = power_cap_watts - power.current_watts
              /\ Left'["watts"] = power_cap_watts - power'.current_watts
              /\ power_cap_watts \in Nat /\ power.current_watts \in Int /\ power'.current_watts \in Int
    <2>1. "watts" \notin Modelled
      BY DEF Modelled
    <2>2. enforce_power_cap => /\ power_cap_watts \in Nat
                              /\ power.current_watts \in Int /\ power'.current_watts \in Int
                              /\ power.current_watts <= power_cap_watts
                              /\ power'.current_watts <= power_cap_watts
      BY <1>1 DEF RustInv, RustTypeOK, ResourcesAccounted
    <2> QED
      BY <1>1, <2>1, <2>2 DEF Left, Limited, Clip
  <1>4. power.current_watts = Held(running, "watts") /\ power'.current_watts = Held(running', "watts")
    BY <1>2 DEF RustInv, ResourcesAccounted, Watts
  <1>5. /\ Held(running \ Ending(now), "watts") = Held(running, "watts") - Held(Ending(now), "watts")
        /\ Held(Ending(now), "watts") \in Nat
    <2>1. "watts" \in Dimensions /\ Ending(now) \in SUBSET running
      BY DEF Dimensions, Ending
    <2>2. PreparedJobs /\ running \in SUBSET Holders /\ IsFiniteSet(running)
      BY DEF RustInv, RustTypeOK
    <2> QED
      BY <2>1, <2>2, HeldDifference
  <1>6. \A d \in Modelled : Left'[d] = Left[d] + Held(Ending(now), d)
    BY <1>3
  <1>7. enforce_power_cap => Left'["watts"] = Left["watts"] + Held(Ending(now), "watts")
    <2> SUFFICES ASSUME enforce_power_cap
                 PROVE  Left'["watts"] = Left["watts"] + Held(Ending(now), "watts")
      OBVIOUS
    <2>1. power'.current_watts = power.current_watts - Held(Ending(now), "watts")
      BY <1>4, <1>5, Zenon
    <2> QED
      BY <1>3, <1>5, <2>1
  <1>8. \A d \in Limited : d \in Modelled \/ (d = "watts" /\ enforce_power_cap)
    BY DEF Limited
  <1> QED
    BY <1>2, <1>6, <1>7, <1>8

(* An event brings a blocked head nearer to its time, or to it.            *)
LEMMA AdvanceShadow ==
  ASSUME RustInv, ShadowInv, Advance
  PROVE  ShadowInv'
  <1>0. RustInv'
    BY AdvanceInv
  <1>1. PICK now \in Int :
           /\ clock_ts' = now
           /\ \A h \in running : now <= h.end_ts
           /\ running' = running \ Ending(now) /\ completed' = completed \cup Ending(now)
           /\ free' = [d \in Modelled |-> free[d] + Held(Ending(now), d)]
           /\ submit_idx' \in submit_idx..Len(jobs)
           /\ queued' = queued \cup ((submit_idx + 1)..submit_idx')
           /\ pc = "loop" /\ pc' = "dispatch"
           /\ UNCHANGED <<arguments, shadow>>
    BY EventParts
  <1>2. PreparedJobs /\ running \in SUBSET Holders /\ IsFiniteSet(running)
        /\ submit_idx \in 0..Len(jobs) /\ queued \subseteq 1..submit_idx
    BY DEF RustInv, RustTypeOK
  <1>3. Len(jobs) \in Nat /\ submit_idx \in Nat /\ submit_idx' \in Nat /\ submit_idx <= submit_idx'
    BY <1>1, <1>2, JobFields
  <1>4. UNCHANGED <<jobs, policy, enforce_power_cap, shadow>>
    BY <1>1 DEF arguments
  <1>5. DOMAIN shadow \subseteq 1..submit_idx
    BY DEF ShadowInv
  <1>6. DOMAIN shadow \cap queued' = DOMAIN shadow \cap queued
    BY <1>1, <1>3, <1>5
  <1>7. \A job \in DOMAIN shadow \cap queued : \A other \in queued' : job <= other
    BY <1>1, <1>2, <1>3, <1>5 DEF ShadowInv
  <1>8. ASSUME NEW job \in DOMAIN shadow \cap queued, jobs[job].requested.cpus > 0
        PROVE  Expected(job)'
    <2>1. ~ FitsIn(job, Left) /\ ShadowTime(job, Left, running) = shadow[job]
      BY <1>1, <1>8 DEF ShadowInv, Expected
    <2>2. job \in 1..Len(jobs)
      BY <1>2, <1>3
    <2>3. \A d \in Limited : Left[d] \in Int
      BY <1>1, LeftIs
    <2>4. Limited' = Limited /\ \A d \in Limited : Left'[d] = Left[d] + Held(Ending(now), d)
      BY <1>0, <1>1, AdvanceLeft
    <2>5. /\ FitsIn(job, Left') => ShadowTime(job, Left, running) = now
          /\ ~ FitsIn(job, Left') =>
               ShadowTime(job, Left', running \ Ending(now)) = ShadowTime(job, Left, running)
      <3>1. Ending(now) = {h \in running : h.end_ts = now} /\ \A h \in running : now <= h.end_ts
        BY <1>1 DEF Ending
      <3>2. PICK left, after, S, D :
              left = Left /\ after = Left' /\ S = running /\ D = Ending(now)
        OBVIOUS
      <3>3. /\ Numbers(left) /\ GivesBack(after, left, D) /\ AreFirst(D, S, now)
            /\ S \in SUBSET Holders /\ IsFiniteSet(S) /\ ~ FitsIn(job, left)
        BY <1>2, <2>1, <2>3, <2>4, <3>1, <3>2, Zenon DEF Numbers, GivesBack, AreFirst
      <3>4. FitsIn(job, after) => ShadowTime(job, left, S) = now
        BY <1>2, <2>2, <3>3, EndingBrings
      <3>5. ~ FitsIn(job, after) => ShadowTime(job, after, S \ D) = ShadowTime(job, left, S)
        BY <1>2, <2>2, <3>3, EndingKeeps
      <3> QED
        BY <3>2, <3>4, <3>5
    <2>6. FitsIn(job, Left)' <=> FitsIn(job, Left')
      BY <1>4, TimesStay
    <2>7. ShadowTime(job, Left, running)' = ShadowTime(job, Left', running')
      BY <1>4, TimesStay
    <2> QED
      BY <1>1, <1>4, <2>1, <2>5, <2>6, <2>7 DEF Expected
  <1>9. DOMAIN shadow \subseteq 1..submit_idx'
    BY <1>3, <1>5
  <1>10. running' \cup completed' = running \cup completed
    BY <1>1 DEF Ending
  <1> QED
    BY <1>4, <1>6, <1>7, <1>8, <1>9, <1>10 DEF ShadowInv

(* What starts takes what it holds.                                        *)
LEMMA StartLeft ==
  ASSUME RustInv, RustInv', NEW S \in SUBSET queued, Start(S),
         pc = "dispatch", pc' = "loop", UNCHANGED arguments
  PROVE  Limited' = Limited /\ \A d \in Limited : Left'[d] = Left[d] - Held(Startings(S), d)
  <1>1. UNCHANGED <<jobs, enforce_power_cap, power_cap_watts>>
    BY DEF arguments
  <1>2. Limited' = Limited
    BY <1>1, TimesStay
  <1>3. /\ free' = [d \in Modelled |-> free[d] - Held(Startings(S), d)]
        /\ \E draw : /\ draw = power.current_watts + Watts(Startings(S))
                     /\ power' = [power EXCEPT !.current_watts = draw, !.peak_watts = Max({@, draw})]
    BY DEF Start
  <1>4. power'.current_watts = power.current_watts + Held(Startings(S), "watts")
    <2>1. PICK draw : /\ draw = power.current_watts + Watts(Startings(S))
                      /\ power' = [power EXCEPT !.current_watts = draw, !.peak_watts = Max({@, draw})]
      BY <1>3
    <2>2. PICK peak : peak = Max({power.peak_watts, draw})
      OBVIOUS
    <2>3. power' = [power EXCEPT !.current_watts = draw, !.peak_watts = peak]
      BY <2>1, <2>2
    <2>4. \A P, n, m : P \in PowerRecord =>
            [P EXCEPT !.current_watts = n, !.peak_watts = m].current_watts = n
      BY DEF PowerRecord
    <2>5. power \in PowerRecord
      BY DEF RustInv, RustTypeOK, PowerRecord
    <2>6. power'.current_watts = draw
      BY <2>3, <2>4, <2>5
    <2> QED
      BY <2>1, <2>6 DEF Watts
  <1>5. Held(Startings(S), "watts") \in Nat
    <2>1. "watts" \in Dimensions /\ PreparedJobs
      BY DEF Dimensions, RustInv, RustTypeOK
    <2> QED
      BY <2>1, StartingHolders, HeldFinite
  <1>6. /\ \A d \in Modelled : Left[d] = free[d] /\ Left'[d] = free'[d]
        /\ enforce_power_cap =>
              /\ Left["watts"] = power_cap_watts - power.current_watts
              /\ Left'["watts"] = power_cap_watts - power'.current_watts
              /\ power_cap_watts \in Nat /\ power.current_watts \in Int /\ power'.current_watts \in Int
    <2>1. "watts" \notin Modelled
      BY DEF Modelled
    <2>2. enforce_power_cap => /\ power_cap_watts \in Nat
                              /\ power.current_watts \in Int /\ power'.current_watts \in Int
                              /\ power.current_watts <= power_cap_watts
                              /\ power'.current_watts <= power_cap_watts
      BY <1>1 DEF RustInv, RustTypeOK, ResourcesAccounted
    <2> QED
      BY <1>1, <2>1, <2>2 DEF Left, Limited, Clip
  <1>7. \A d \in Modelled : Left'[d] = Left[d] - Held(Startings(S), d)
    BY <1>3, <1>6
  <1>8. enforce_power_cap => Left'["watts"] = Left["watts"] - Held(Startings(S), "watts")
    BY <1>4, <1>5, <1>6
  <1>9. \A d \in Limited : d \in Modelled \/ (d = "watts" /\ enforce_power_cap)
    BY DEF Limited
  <1> QED
    BY <1>2, <1>7, <1>8, <1>9

(* Where nothing is started nothing is taken.                              *)
LEMMA TakenNone ==
  ASSUME NEW left, left = [d \in Limited |-> left[d]], \A d \in Limited : left[d] \in Int
  PROVE  Taken(left, {}) = left
  <1>1. Startings({}) = {}
    BY DEF Startings
  <1>2. \A d \in Limited : Held(Startings({}), d) = 0
    BY <1>1, HeldNone
  <1>3. \A d \in Limited : left[d] - Held(Startings({}), d) = left[d]
    BY <1>2
  <1>4. Taken(left, {}) = [d \in Limited |-> left[d]]
    BY <1>3 DEF Taken
  <1> QED
    BY <1>4

(* The least of the jobs that are not started from the front cannot start  *)
(* in what the others leave; and those are the jobs before it.             *)
LEMMA RestHead ==
  ASSUME RustInv, pc # "refused", Rest # {}
  PROVE  /\ Min(Rest) \in queued /\ Min(Rest) \in Rest /\ \A job \in Rest : Min(Rest) <= job
         /\ ~ Startable(Min(Rest), LeftBehind)
  <1>1. queued \in SUBSET Int /\ IsFiniteSet(queued)
    <2>1. submit_idx \in Nat /\ queued \subseteq 1..submit_idx
      BY JobFields DEF RustInv, RustTypeOK
    <2>2. IsFiniteSet(1..submit_idx)
      BY <2>1, FS_Interval
    <2>3. IsFiniteSet(queued)
      BY <2>1, <2>2, FS_Subset
    <2> QED
      BY <2>1, <2>3
  <1>2. Rest \in SUBSET Int /\ IsFiniteSet(Rest) /\ Rest \in SUBSET queued
    BY <1>1, FS_Subset DEF Rest
  <1>3. PICK head : head = Min(Rest)
    OBVIOUS
  <1>4. head \in Rest /\ \A job \in Rest : head <= job
    BY <1>2, <1>3, MinOfFinite
  <1>5. head \in queued /\ head \notin FrontJobs
    BY <1>4 DEF Rest
  <1>6. {k \in queued : k < head} = FrontJobs
    <2>1. ASSUME NEW k \in queued, k < head PROVE k \in FrontJobs
      BY <1>1, <1>4, <1>5, <2>1 DEF Rest
    <2>2. ASSUME NEW k \in FrontJobs PROVE k \in queued /\ k < head
      <3>1. k \in queued /\ k \in Int /\ head \in Int
        BY <1>1, <1>5 DEF FrontJobs, FromFront
      <3>2. ~ (head <= k)
        <4> SUFFICES ASSUME head <= k PROVE head \in FrontJobs
          BY <1>5
        <4>1. \A other \in queued : other <= head => other <= k
          BY <1>1, <3>1
        <4> QED
          BY <1>5, <4>1 DEF FrontJobs, FromFront
      <3> QED
        BY <3>1, <3>2
    <2> QED
      BY <2>1, <2>2
  <1>7. PICK other \in queued : other <= head /\ ~ Startable(other, Taken(Left, {k \in queued : k < other}))
    BY <1>5 DEF FrontJobs, FromFront
  <1>8. other = head
    <2> SUFFICES ASSUME other # head PROVE FALSE
      OBVIOUS
    <2>1. other < head
      BY <1>1, <1>5, <1>7
    <2>2. other \in FrontJobs
      BY <1>6, <2>1
    <2>3. other <= other
      BY <1>1
    <2> QED
      BY <1>7, <2>2, <2>3 DEF FrontJobs, FromFront
  <1>9. ~ Startable(head, LeftBehind)
    BY <1>6, <1>7, <1>8 DEF LeftBehind
  <1> QED
    BY <1>3, <1>4, <1>5, <1>9

(* The first in the queue starts exactly when it fits; when it does not,   *)
(* nothing is started from the front.                                      *)
LEMMA FirstStarts ==
  ASSUME RustInv, pc # "refused", NEW job \in queued, \A other \in queued : job <= other
  PROVE  /\ job \in FrontJobs <=> Startable(job, Left)
         /\ job \notin FrontJobs =>
              /\ FrontJobs = {} /\ Rest = queued /\ Min(Rest) = job /\ LeftBehind = Left
  <1>1. queued \in SUBSET Int
    BY DEF RustInv, RustTypeOK
  <1>2. Taken(Left, {}) = Left
    <2>1. Left = [d \in Limited |-> Left[d]] /\ \A d \in Limited : Left[d] \in Int
      BY LeftIs DEF Left
    <2>2. PICK left : left = Left
      OBVIOUS
    <2>3. left = [d \in Limited |-> left[d]] /\ \A d \in Limited : left[d] \in Int
      BY <2>1, <2>2, Zenon
    <2>4. Taken(left, {}) = left
      BY <2>3, TakenNone
    <2> QED
      BY <2>2, <2>4, Zenon
  <1>3. {k \in queued : k < job} = {}
    <2>1. ASSUME NEW k \in queued PROVE ~ (k < job)
      <3>1. job <= k /\ k \in Int /\ job \in Int
        BY <1>1
      <3> QED
        BY <3>1
    <2> QED
      BY <2>1
  <1>4. \A other \in queued : other <= job <=> other = job
    BY <1>1
  <1>5. job \in FrontJobs <=> Startable(job, Left)
    BY <1>2, <1>3, <1>4 DEF FrontJobs, FromFront
  <1>6. ASSUME job \notin FrontJobs
        PROVE  FrontJobs = {} /\ Rest = queued /\ Min(Rest) = job /\ LeftBehind = Left
    <2>1. ~ Startable(job, Taken(Left, {k \in queued : k < job}))
      BY <1>2, <1>3, <1>5, <1>6
    <2>2. FrontJobs = {}
      BY <2>1 DEF FrontJobs, FromFront
    <2>3. Rest = queued
      BY <2>2 DEF Rest
    <2>4. Min(Rest) = job
      <3>1. PICK head : head = Min(Rest)
        OBVIOUS
      <3>2. head \in queued /\ head <= job
        BY <2>3, <3>1, RestHead
      <3>3. head \in Int /\ job \in Int /\ job <= head
        BY <1>1, <3>2
      <3> QED
        BY <3>1, <3>2, <3>3
    <2>5. LeftBehind = Left
      BY <1>2, <2>2 DEF LeftBehind
    <2> QED
      BY <2>2, <2>3, <2>4, <2>5
  <1> QED
    BY <1>5, <1>6

(* What a dispatch with a blocked head leaves, and of what holders.        *)
LEMMA BlockedParts ==
  ASSUME RustInv, pc = "dispatch", Blocked,
         NEW behind \in Backfills(Rest \ {Min(Rest)}, LeftBehind, HeadTime)
  PROVE  /\ running \cup Startings(FrontJobs) \in SUBSET Holders
         /\ IsFiniteSet(running \cup Startings(FrontJobs))
         /\ Startings(behind) \in SUBSET Holders /\ IsFiniteSet(Startings(behind))
         /\ (running \cup Startings(FrontJobs)) \cap Startings(behind) = {}
         /\ Numbers(LeftBehind) /\ OverBy(Startings(behind), HeadTime)
         /\ FrontJobs \cup behind \in SUBSET queued
         /\ Startings(FrontJobs \cup behind) = Startings(FrontJobs) \cup Startings(behind)
         /\ \A d \in Limited : LeftBehind[d] - Held(Startings(behind), d)
                                 = Left[d] - Held(Startings(FrontJobs \cup behind), d)
  <1>1. /\ behind \in SUBSET (Rest \ {Min(Rest)})
        /\ Startings(FrontJobs) \cap Startings(behind) = {}
        /\ Startings(FrontJobs \cup behind) = Startings(FrontJobs) \cup Startings(behind)
    BY StartedFits
  <1>2. FrontJobs \in SUBSET queued /\ behind \in SUBSET queued
    BY <1>1, FrontFits DEF Rest
  <1>3. PreparedJobs /\ running \in SUBSET Holders /\ IsFiniteSet(running)
    BY DEF RustInv, RustTypeOK
  <1>4. Startings(FrontJobs) \in SUBSET Holders /\ IsFiniteSet(Startings(FrontJobs))
    BY <1>2, StartingHolders
  <1>5. /\ Startings(behind) \in SUBSET Holders /\ IsFiniteSet(Startings(behind))
        /\ Startings(behind) \cap (running \cup completed) = {}
    BY <1>2, StartingHolders
  <1>6. IsFiniteSet(running \cup Startings(FrontJobs))
    BY <1>3, <1>4, FS_Union
  <1>7. Numbers(LeftBehind)
    BY FrontFits DEF Numbers
  <1>8. OverBy(Startings(behind), HeadTime)
    BY DEF OverBy, Startings, Backfills
  <1>9. ASSUME NEW d \in Limited
        PROVE  LeftBehind[d] - Held(Startings(behind), d)
                 = Left[d] - Held(Startings(FrontJobs \cup behind), d)
    <2>1. d \in Dimensions
      BY DEF Limited, Dimensions
    <2>2. Held(Startings(FrontJobs \cup behind), d)
            = Held(Startings(FrontJobs), d) + Held(Startings(behind), d)
      BY <1>1, <1>3, <1>4, <1>5, <2>1, HeldUnion
    <2>3. Held(Startings(FrontJobs), d) \in Nat /\ Held(Startings(behind), d) \in Nat
      BY <1>3, <1>4, <1>5, <2>1, HeldFinite
    <2>4. LeftBehind[d] = Left[d] - Held(Startings(FrontJobs), d) /\ Left[d] \in Nat
      BY LeftIs DEF LeftBehind, Taken
    <2> QED
      BY <2>2, <2>3, <2>4
  <1> QED
    BY <1>1, <1>2, <1>3, <1>4, <1>5, <1>6, <1>7, <1>8, <1>9

(* After it, the head is blocked and its shadow time is as it was.         *)
LEMMA HeadKept ==
  ASSUME RustInv, RustInv', pc = "dispatch", pc' = "loop", Blocked, UNCHANGED arguments,
         NEW behind \in Backfills(Rest \ {Min(Rest)}, LeftBehind, HeadTime),
         Start(FrontJobs \cup behind)
  PROVE  /\ ~ FitsIn(Min(Rest), Left') /\ ShadowTime(Min(Rest), Left', running') = HeadTime
         /\ Min(Rest) \in queued' /\ \A job \in queued' : Min(Rest) <= job
  <1>1. PICK head, S, T, left, after :
          /\ head = Min(Rest) /\ left = LeftBehind /\ after = Left'
          /\ S = running \cup Startings(FrontJobs) /\ T = Startings(behind)
    OBVIOUS
  <1>2. Rest # {} /\ ~ FitsIn(head, left) /\ PreparedJobs
    BY <1>1 DEF Blocked, RustInv, RustTypeOK
  <1>3. head \in queued /\ head \in Rest /\ \A job \in Rest : head <= job
    BY <1>1, <1>2, RestHead
  <1>4. head \in 1..Len(jobs)
    BY <1>3, JobFields DEF RustInv, RustTypeOK
  <1>5. /\ S \in SUBSET Holders /\ IsFiniteSet(S) /\ T \in SUBSET Holders /\ IsFiniteSet(T)
        /\ S \cap T = {} /\ Numbers(left) /\ OverBy(T, HeadTime)
        /\ FrontJobs \cup behind \in SUBSET queued
        /\ Startings(FrontJobs \cup behind) = Startings(FrontJobs) \cup Startings(behind)
        /\ \A d \in Limited : LeftBehind[d] - Held(Startings(behind), d)
                                = Left[d] - Held(Startings(FrontJobs \cup behind), d)
    BY <1>1, BlockedParts, Zenon
  <1>6. HeadTime = ShadowTime(head, left, S)
    BY <1>1, Zenon DEF HeadTime
  <1>7. \A d \in Limited : Left'[d] = Left[d] - Held(Startings(FrontJobs \cup behind), d)
    BY <1>5, StartLeft
  <1>8. Takes(after, left, T)
    BY <1>1, <1>5, <1>7 DEF Takes
  <1>9. OverBy(T, ShadowTime(head, left, S))
    BY <1>5, <1>6, Zenon
  <1>10. ~ FitsIn(head, after)
    BY <1>2, <1>4, <1>5, <1>8, StillBlocked
  <1>11. ShadowTime(head, after, S \cup T) = ShadowTime(head, left, S)
    BY <1>2, <1>4, <1>5, <1>8, <1>9, BackfillKeeps
  <1>12. running' = S \cup T /\ queued' = queued \ (FrontJobs \cup behind)
    BY <1>1, <1>5 DEF Start
  <1>13. queued' \in SUBSET Rest
    BY <1>12 DEF Rest
  <1>14. behind \in SUBSET (Rest \ {Min(Rest)})
    BY DEF Backfills
  <1>15. head \in queued'
    BY <1>1, <1>3, <1>12, <1>14 DEF Rest
  <1>16. ShadowTime(Min(Rest), Left', running') = HeadTime
    BY <1>1, <1>6, <1>11, <1>12, Zenon
  <1> QED
    BY <1>1, <1>3, <1>10, <1>13, <1>15, <1>16

(* A head that was promised a time starts from the front, at that time.    *)
LEMMA PromisedStart ==
  ASSUME RustInv, ShadowInv, pc = "dispatch", NEW job \in FrontJobs, job \in DOMAIN shadow
  PROVE  clock_ts = shadow[job]
  <1>1. job \in queued /\ FrontJobs \in SUBSET queued
    BY FrontFits
  <1>2. \A other \in queued : job <= other
    BY <1>1 DEF ShadowInv
  <1>3. Startable(job, Left)
    BY <1>1, <1>2, FirstStarts
  <1>4. jobs[job].requested.cpus > 0 /\ FitsIn(job, Left)
    BY <1>3 DEF Startable
  <1>5. Expected(job)
    BY <1>1, <1>4 DEF ShadowInv
  <1> QED
    BY <1>4, <1>5 DEF Expected

(* A promised head that is not started from the front is the one that is   *)
(* blocked, and is promised that time again.                               *)
LEMMA PromisedWait ==
  ASSUME RustInv, ShadowInv, pc = "dispatch", NEW job \in queued, job \in DOMAIN shadow,
         job \notin FrontJobs, jobs[job].requested.cpus > 0
  PROVE  Blocked /\ Min(Rest) = job /\ HeadTime = shadow[job]
  <1>1. \A other \in queued : job <= other
    BY DEF ShadowInv
  <1>2. /\ ~ Startable(job, Left) /\ FrontJobs = {} /\ Rest = queued /\ Min(Rest) = job
        /\ LeftBehind = Left
    BY <1>1, FirstStarts
  <1>3. ~ FitsIn(job, Left)
    BY <1>2 DEF Startable
  <1>4. Expected(job) /\ policy = "EASY_BACKFILL_BASELINE"
    BY DEF ShadowInv
  <1>5. ShadowTime(job, Left, running) = shadow[job]
    BY <1>3, <1>4 DEF Expected
  <1>6. running \cup Startings(FrontJobs) = running
    BY <1>2 DEF Startings
  <1>7. HeadTime = ShadowTime(job, Left, running)
    BY <1>2, <1>6, Zenon DEF HeadTime
  <1>8. Blocked
    BY <1>2, <1>3, <1>4 DEF Blocked
  <1> QED
    BY <1>2, <1>5, <1>7, <1>8

(* A dispatch starts a promised head at its time, and keeps the time of the*)
(* one it leaves blocked.                                                  *)
LEMMA DispatchShadow ==
  ASSUME RustInv, ShadowInv, Dispatch
  PROVE  ShadowInv'
  <1>0. RustInv' /\ pc' = "loop"
    BY DispatchInv
  <1>1. pc = "dispatch" /\ UNCHANGED <<arguments, clock_ts, submit_idx, completed>>
    BY DispatchParts
  <1>2. UNCHANGED <<jobs, policy, enforce_power_cap>>
    BY <1>1 DEF arguments
  <1>3. /\ DOMAIN shadow \subseteq 1..submit_idx
        /\ \A job \in DOMAIN shadow \cap queued : \A other \in queued : job <= other
        /\ \A h \in running \cup completed : h.job \in DOMAIN shadow => h.start_ts = shadow[h.job]
    BY DEF ShadowInv
  <1>4. /\ FrontJobs \in SUBSET queued
        /\ \A h \in Startings(FrontJobs) : h.job \in FrontJobs /\ h.start_ts = clock_ts
    BY <1>1, FrontFits, StartingHolders
  <1>5. CASE ~ Blocked /\ Start(FrontJobs) /\ UNCHANGED shadow
    <2>1. queued' = queued \ FrontJobs /\ running' = running \cup Startings(FrontJobs) /\ UNCHANGED shadow
      BY <1>5 DEF Start
    <2>2. \A job \in DOMAIN shadow \cap queued' : ~ (jobs[job].requested.cpus > 0)
      BY <1>1, <1>5, <2>1, PromisedWait
    <2>3. \A h \in Startings(FrontJobs) : h.job \in DOMAIN shadow => h.start_ts = shadow[h.job]
      BY <1>1, <1>4, PromisedStart
    <2> QED
      BY <1>1, <1>2, <1>3, <2>1, <2>2, <2>3 DEF ShadowInv
  <1>6. CASE /\ Blocked
             /\ \E behind \in Backfills(Rest \ {Min(Rest)}, LeftBehind, HeadTime) :
                  Start(FrontJobs \cup behind)
             /\ shadow' = [job \in DOMAIN shadow \cup {Min(Rest)} |->
                            IF job \in DOMAIN shadow THEN shadow[job] ELSE HeadTime]
    <2>1. PICK behind \in Backfills(Rest \ {Min(Rest)}, LeftBehind, HeadTime) :
            Start(FrontJobs \cup behind)
      BY <1>6
    <2>2. PICK head : head = Min(Rest)
      OBVIOUS
    <2>3. /\ shadow' = [job \in DOMAIN shadow \cup {head} |->
                         IF job \in DOMAIN shadow THEN shadow[job] ELSE HeadTime]
          /\ behind \in SUBSET (Rest \ {head})
      BY <1>6, <2>2 DEF Backfills
    <2>4. head \in queued /\ head \in Rest /\ \A job \in Rest : head <= job
      BY <1>1, <1>6, <2>2, RestHead DEF Blocked
    <2>5. /\ ~ FitsIn(head, Left') /\ ShadowTime(head, Left', running') = HeadTime
          /\ head \in queued' /\ \A job \in queued' : head <= job
      BY <1>0, <1>1, <1>6, <2>1, <2>2, HeadKept
    <2>6. /\ queued' = queued \ (FrontJobs \cup behind)
          /\ running' = running \cup Startings(FrontJobs \cup behind)
      BY <2>1 DEF Start
    <2>7. queued \in SUBSET Int /\ Rest \in SUBSET queued
      BY DEF RustInv, RustTypeOK, Rest
    <2>8. \A job \in DOMAIN shadow \cap Rest : job = head
      BY <1>3, <2>4, <2>7
    <2>9. DOMAIN shadow' = DOMAIN shadow \cup {head}
      BY <2>3
    <2>10. \A job \in DOMAIN shadow : shadow'[job] = shadow[job]
      BY <2>3
    <2>11. queued' \in SUBSET Rest
      BY <2>6 DEF Rest
    <2>12. \A job \in DOMAIN shadow' \cap queued' : job = head
      BY <2>8, <2>9, <2>11
    <2>13. jobs[head].requested.cpus > 0 => shadow'[head] = HeadTime
      <3>1. CASE head \notin DOMAIN shadow
        BY <2>3, <3>1
      <3>2. CASE head \in DOMAIN shadow
        <4>1. head \notin FrontJobs
          BY <2>4 DEF Rest
        <4>2. jobs[head].requested.cpus > 0 => HeadTime = shadow[head]
          BY <1>1, <2>4, <3>2, <4>1, PromisedWait
        <4> QED
          BY <2>10, <3>2, <4>2
      <3> QED
        BY <3>1, <3>2
    <2>14. jobs[head].requested.cpus > 0 => Expected(head)'
      <3>1. FitsIn(head, Left)' <=> FitsIn(head, Left')
        BY <1>2, TimesStay
      <3>2. ShadowTime(head, Left, running)' = ShadowTime(head, Left', running')
        BY <1>2, TimesStay
      <3>3. (~ FitsIn(head, Left))'
        BY <2>5, <3>1
      <3> QED
        BY <1>0, <2>5, <2>13, <3>2, <3>3 DEF Expected
    <2>15. head \in 1..submit_idx
      BY <2>4 DEF RustInv, RustTypeOK
    <2>16. policy = "EASY_BACKFILL_BASELINE"
      BY <1>6 DEF Blocked
    <2>17. \A h \in running \cup completed : h.job # head
      BY <2>4 DEF RustInv, Places
    <2>18. \A h \in Startings(FrontJobs \cup behind) : h.job \in DOMAIN shadow' => h.start_ts = shadow'[h.job]
      <3> SUFFICES ASSUME NEW h \in Startings(FrontJobs \cup behind), h.job \in DOMAIN shadow'
                   PROVE  h.start_ts = shadow'[h.job]
        OBVIOUS
      <3>1. FrontJobs \cup behind \in SUBSET queued
        BY <1>4, <2>3, <2>7
      <3>2. h.job \in FrontJobs \cup behind /\ h.start_ts = clock_ts
        BY <3>1, StartingHolders
      <3>3. h.job # head
        BY <2>3, <2>4, <3>2 DEF Rest
      <3>4. h.job \in DOMAIN shadow
        BY <2>9, <3>3
      <3>5. h.job \notin Rest
        BY <2>8, <3>3, <3>4
      <3>6. h.job \in FrontJobs
        BY <2>3, <3>2, <3>5
      <3>7. clock_ts = shadow[h.job]
        BY <1>1, <3>4, <3>6, PromisedStart
      <3> QED
        BY <2>10, <3>2, <3>4, <3>7
    <2>19. \A h \in running' \cup completed' : h.job \in DOMAIN shadow' => h.start_ts = shadow'[h.job]
      BY <1>1, <1>3, <2>6, <2>9, <2>10, <2>17, <2>18
    <2>20. DOMAIN shadow' \subseteq 1..submit_idx'
      BY <1>1, <1>3, <2>9, <2>15
    <2>21. \A job \in DOMAIN shadow' : policy' = "EASY_BACKFILL_BASELINE"
      BY <1>2, <2>16
    <2>22. \A job \in DOMAIN shadow' \cap queued' : \A other \in queued' : job <= other
      BY <2>5, <2>12
    <2>23. \A job \in DOMAIN shadow' \cap queued' : jobs'[job].requested.cpus > 0 => Expected(job)'
      BY <1>2, <2>12, <2>14
    <2> QED
      BY <2>19, <2>20, <2>21, <2>22, <2>23 DEF ShadowInv
  <1> QED
    BY <1>5, <1>6, DispatchParts

(* The promise stands while nothing it depends on changes.                 *)
LEMMA ShadowStays ==
  ASSUME ShadowInv, pc' = pc \/ (pc = "loop" /\ pc' = "reported"),
         UNCHANGED <<arguments, clock_ts, submit_idx, queued, running, completed, free, power, shadow>>
  PROVE  ShadowInv'
  <1>1. /\ UNCHANGED <<jobs, policy, enforce_power_cap, power_cap_watts>>
        /\ UNCHANGED <<clock_ts, submit_idx, queued, running, completed, free, power, shadow>>
    BY DEF arguments
  <1>2. Left' = Left
    BY <1>1 DEF Left, Limited
  <1>3. \A job : Expected(job)' <=> Expected(job)
    <2> SUFFICES ASSUME NEW job PROVE Expected(job)' <=> Expected(job)
      OBVIOUS
    <2>1. FitsIn(job, Left)' <=> FitsIn(job, Left)
      BY <1>1, <1>2, TimesStay
    <2>2. ShadowTime(job, Left, running)' = ShadowTime(job, Left, running)
      BY <1>1, <1>2, TimesStay
    <2>3. (pc = "dispatch")' <=> pc = "dispatch"
      OBVIOUS
    <2> QED
      BY <1>1, <2>1, <2>2, <2>3 DEF Expected
  <1> QED
    BY <1>1, <1>3 DEF ShadowInv

(* The promise is kept by every step.                                      *)
LEMMA ShadowStep ==
  ASSUME RustInv, ShadowInv, [RustNext]_rvars
  PROVE  ShadowInv'
  <1>1. CASE Advance
    BY <1>1, AdvanceShadow
  <1>2. CASE Dispatch
    BY <1>2, DispatchShadow
  <1>3. CASE WriteReport
    BY <1>3, ShadowStays DEF WriteReport
  <1>4. CASE UNCHANGED rvars
    BY <1>4, ShadowStays DEF rvars
  <1> QED
    BY <1>1, <1>2, <1>3, <1>4 DEF RustNext, RustTerminated

(* Before the head is started, its time is an end that is still to come.   *)
LEMMA PromiseAhead ==
  ASSUME RustInv, ShadowInv, pc # "dispatch", NEW job \in queued \cap DOMAIN shadow,
         jobs[job].requested.cpus > 0
  PROVE  NoLater(clock_ts, shadow[job])
  <1>1. ShadowTime(job, Left, running) = shadow[job]
    BY DEF ShadowInv, Expected
  <1>2. running \in SUBSET Holders /\ IsFiniteSet(running) /\ \A h \in running : clock_ts <= h.end_ts
    BY DEF RustInv, RustTypeOK, InTime
  <1>3. \/ ShadowTime(job, Left, running) = NEVER
        \/ ShadowTime(job, Left, running) \in EndsEnough(job, Left, running)
    BY <1>2, ShadowIs
  <1>4. \A ts \in EndsEnough(job, Left, running) : clock_ts <= ts
    BY <1>2 DEF EndsEnough
  <1> QED
    BY <1>1, <1>3, <1>4 DEF NoLater

(* Under EASY a blocked head starts at the very shadow time that was       *)
(* computed when it came to be the head: no dimension, and no power, is    *)
(* taken past that time by what is let through.                            *)
THEOREM HeadsStartWhenPromised == RustSpec => []ShadowKept
  <1>1. RustInit => RustInv /\ ShadowInv
    <2> SUFFICES ASSUME RustInit PROVE RustInv /\ ShadowInv
      OBVIOUS
    <2>1. RustInv
      BY RustInitInv
    <2>2. DOMAIN shadow = {} /\ running = {} /\ completed = {}
      BY DEF RustInit
    <2> QED
      BY <2>1, <2>2 DEF ShadowInv
  <1>2. RustInv /\ ShadowInv /\ [RustNext]_rvars => RustInv' /\ ShadowInv'
    BY RustStep, ShadowStep
  <1>3. RustInv /\ ShadowInv => ShadowKept
    BY PromiseAhead DEF ShadowKept, ShadowInv
  <1> QED
    BY <1>1, <1>2, <1>3, PTL DEF RustSpec

-----------------------------------------------------------------------------
(* What is left behind.                                                    *)

(* After a dispatch the head of what waits cannot start, nor, if nothing   *)
(* runs, what is behind a head to reserve for.                             *)
LEMMA DispatchWait ==
  ASSUME RustInv, Dispatch
  PROVE  WaitInv'
  <1>0. RustInv' /\ pc' = "loop"
    BY DispatchInv
  <1>1. pc = "dispatch" /\ UNCHANGED <<arguments, clock_ts>>
    BY DispatchParts
  <1>2. UNCHANGED <<jobs, policy, enforce_power_cap>>
    BY <1>1 DEF arguments
  <1>3. \A job : Startable(job, Left)' <=> Startable(job, Left')
    BY <1>2, TimesStay
  <1>4. ASSUME NEW S \in SUBSET queued, running \cup Startings(S) = {} PROVE S = {} /\ running = {}
    BY <1>4 DEF Startings
  <1>5. FrontJobs \in SUBSET queued
    BY <1>1, FrontFits
  <1>6. CASE ~ Blocked /\ Start(FrontJobs)
    <2>1. queued' = Rest /\ running' = running \cup Startings(FrontJobs)
      BY <1>6 DEF Start, Rest
    <2>2. Left' = LeftBehind
      <3>1. Limited' = Limited /\ \A d \in Limited : Left'[d] = Left[d] - Held(Startings(FrontJobs), d)
        BY <1>0, <1>1, <1>5, <1>6, StartLeft
      <3>2. Left' = [d \in Limited' |-> Left'[d]]
        BY DEF Left
      <3>3. LeftBehind = [d \in Limited |-> Left[d] - Held(Startings(FrontJobs), d)]
        BY DEF LeftBehind, Taken
      <3> QED
        BY <3>1, <3>2, <3>3
    <2>3. ASSUME queued' # {}
          PROVE  /\ ~ Startable(Min(queued'), Left')
                 /\ policy = "EASY_BACKFILL_BASELINE" /\ running' = {}
                      /\ jobs[Min(queued')].requested.cpus > 0 => FALSE
      <3>1. ~ Startable(Min(Rest), LeftBehind)
        BY <1>1, <2>1, <2>3, RestHead
      <3>2. policy = "EASY_BACKFILL_BASELINE" => FitsIn(Min(Rest), LeftBehind)
        BY <1>6, <2>1, <2>3 DEF Blocked
      <3> QED
        BY <2>1, <2>2, <3>1, <3>2 DEF Startable
    <2> QED
      BY <1>0, <1>2, <1>3, <2>3 DEF WaitInv
  <1>7. CASE /\ Blocked
             /\ \E behind \in Backfills(Rest \ {Min(Rest)}, LeftBehind, HeadTime) :
                  Start(FrontJobs \cup behind)
    <2>1. PICK behind \in Backfills(Rest \ {Min(Rest)}, LeftBehind, HeadTime) :
            Start(FrontJobs \cup behind)
      BY <1>7
    <2>2. PICK head : head = Min(Rest)
      OBVIOUS
    <2>3. /\ ~ FitsIn(head, Left') /\ ShadowTime(head, Left', running') = HeadTime
          /\ head \in queued' /\ \A job \in queued' : head <= job
      BY <1>0, <1>1, <1>7, <2>1, <2>2, HeadKept
    <2>4. Min(queued') = head
      <3>1. queued' \in SUBSET Int /\ IsFiniteSet(queued')
        <4>1. submit_idx' \in Nat /\ queued' \subseteq 1..submit_idx'
          <5>1. PreparedJobs' /\ submit_idx' \in 0..Len(jobs)' /\ queued' \subseteq 1..submit_idx'
            BY <1>0 DEF RustInv, RustTypeOK
          <5>2. Len(jobs)' \in Nat
            BY <5>1 DEF PreparedJobs
          <5> QED
            BY <5>1, <5>2
        <4>2. IsFiniteSet(1..submit_idx')
          BY <4>1, FS_Interval
        <4>3. IsFiniteSet(queued')
          BY <4>1, <4>2, FS_Subset
        <4> QED
          BY <4>1, <4>3
      <3>2. PICK least : least = Min(queued')
        OBVIOUS
      <3>3. least \in queued' /\ \A job \in queued' : least <= job
        BY <2>3, <3>1, <3>2, MinOfFinite
      <3>4. least \in Int /\ head \in Int /\ least <= head /\ head <= least
        BY <2>3, <3>1, <3>3
      <3> QED
        BY <3>2, <3>4
    <2>5. ASSUME running' = {}
          PROVE  \A job \in queued' : ~ Startable(job, Left')
      <3>1. /\ FrontJobs \cup behind \in SUBSET queued
            /\ running' = running \cup Startings(FrontJobs \cup behind)
            /\ queued' = queued \ (FrontJobs \cup behind)
        <4>1. behind \in SUBSET Rest
          BY DEF Backfills
        <4> QED
          BY <1>5, <2>1, <4>1 DEF Start, Rest
      <3>2. FrontJobs = {} /\ behind = {} /\ running = {}
        BY <1>4, <2>5, <3>1
      <3>3. HeadTime = NEVER
        <4>1. ShadowTime(head, Left', {}) = HeadTime
          BY <2>3, <2>5, Zenon
        <4>2. EndsEnough(head, Left', {}) = {}
          BY DEF EndsEnough
        <4> QED
          BY <4>1, <4>2 DEF ShadowTime
      <3>4. LeftBehind = Left /\ Taken(Left, {}) = Left
        <4>1. Left = [d \in Limited |-> Left[d]] /\ \A d \in Limited : Left[d] \in Int
          BY <1>1, LeftIs DEF Left
        <4>2. PICK left : left = Left
          OBVIOUS
        <4>3. left = [d \in Limited |-> left[d]] /\ \A d \in Limited : left[d] \in Int
          BY <4>1, <4>2, Zenon
        <4>4. Taken(left, {}) = left
          BY <4>3, TakenNone
        <4>5. Taken(Left, {}) = Left
          BY <4>2, <4>4, Zenon
        <4> QED
          BY <3>2, <4>5, Zenon DEF LeftBehind
      <3>5. Left' = Left
        <4>1. Limited' = Limited
              /\ \A d \in Limited : Left'[d] = Left[d] - Held(Startings(FrontJobs \cup behind), d)
          BY <1>0, <1>1, <2>1, <3>1, StartLeft
        <4>2. \A d \in Limited : Left[d] - Held(Startings({}), d) = Left[d]
          <5>1. Startings({}) = {}
            BY DEF Startings
          <5>2. \A d \in Limited : Held(Startings({}), d) = 0
            BY <5>1, HeldNone
          <5> QED
            BY <1>1, <5>2, LeftIs
        <4>3. FrontJobs \cup behind = {}
          BY <3>2
        <4>4. \A d \in Limited : Left'[d] = Left[d]
          BY <4>1, <4>2, <4>3
        <4>5. Left = [d \in Limited |-> Left[d]] /\ Left' = [d \in Limited' |-> Left'[d]]
          BY DEF Left
        <4> QED
          BY <4>1, <4>4, <4>5
      <3>6. ASSUME NEW job \in Rest \ {head} PROVE ~ Startable(job, Left)
        <4>1. ~ Startable(job, Taken(LeftBehind, {k \in behind : k < job}))
          BY <2>2, <3>2, <3>3 DEF Backfills, NoLater
        <4>2. {k \in behind : k < job} = {}
          BY <3>2
        <4> QED
          BY <3>4, <4>1, <4>2
      <3>7. queued' = Rest
        BY <3>1, <3>2 DEF Rest
      <3>8. ~ Startable(head, Left')
        BY <2>3 DEF Startable
      <3> QED
        BY <3>5, <3>6, <3>7, <3>8
    <2>6. ~ Startable(head, Left')
      BY <2>3 DEF Startable
    <2> QED
      BY <1>0, <1>2, <1>3, <2>4, <2>5, <2>6 DEF WaitInv
  <1> QED
    BY <1>6, <1>7, DispatchParts

(* With a job still queued not all are completed: they are different jobs. *)
LEMMA QueuedRemains ==
  ASSUME RustInv, NEW job \in queued
  PROVE  ~ AllCompleted
  <1>1. /\ completed \in SUBSET Holders /\ IsFiniteSet(completed) /\ PreparedJobs
        /\ submit_idx \in 0..Len(jobs) /\ queued \subseteq 1..submit_idx
        /\ \A g, h \in completed : g.job = h.job => g = h
        /\ \A h \in completed : h.job \in 1..submit_idx /\ h.job \notin queued
    BY DEF RustInv, RustTypeOK, Places
  <1>2. Len(jobs) \in Nat /\ job \in 1..Len(jobs)
    BY <1>1, JobFields
  <1> DEFINE others == (1..Len(jobs)) \ {job}
             f == [h \in completed |-> h.job]
  <1>3. f \in Injection(completed, others)
    <2>1. \A h \in completed : h.job \in others
      BY <1>1, <1>2
    <2>2. f \in [completed -> others]
      BY <2>1
    <2>3. \A g, h \in completed : f[g] = f[h] => g = h
      BY <1>1
    <2> HIDE DEF f
    <2> QED
      BY <2>2, <2>3 DEF Injection, IsInjective
  <1>4. IsFiniteSet(1..Len(jobs)) /\ Cardinality(1..Len(jobs)) = Len(jobs)
    <2>1. PICK n \in Nat : n = Len(jobs)
      BY <1>2
    <2>2. IsFiniteSet(1..n) /\ Cardinality(1..n) = n
      BY FS_Interval
    <2> QED
      BY <2>1, <2>2
  <1>5. IsFiniteSet(others) /\ Cardinality(others) = Len(jobs) - 1
    BY <1>2, <1>4, FS_RemoveElement
  <1>6. Cardinality(completed) <= Cardinality(others)
    BY <1>3, <1>5, FS_Injection
  <1>7. Cardinality(completed) \in Nat
    BY <1>1, FS_CardinalityType
  <1> QED
    BY <1>2, <1>5, <1>6, <1>7 DEF AllCompleted

(* Every step keeps this; a report with jobs in the queue comes when       *)
(* nothing runs.                                                           *)
LEMMA WaitStep ==
  ASSUME RustInv, WaitInv, [RustNext]_rvars
  PROVE  WaitInv'
  <1>1. CASE Advance
    BY <1>1 DEF Advance, WaitInv
  <1>2. CASE Dispatch
    BY <1>2, DispatchWait
  <1>3. CASE WriteReport \/ UNCHANGED rvars
    <2>1. /\ UNCHANGED <<arguments, queued, running, completed, free, power>>
          /\ pc' = pc \/ (pc = "loop" /\ pc' = "reported" /\ WriteReport)
      BY <1>3 DEF WriteReport, rvars
    <2>2. UNCHANGED <<jobs, policy, enforce_power_cap, power_cap_watts>>
      BY <2>1 DEF arguments
    <2>3. Left' = Left
      BY <2>1, <2>2 DEF Left, Limited
    <2>4. \A job : Startable(job, Left)' <=> Startable(job, Left)
      BY <2>2, <2>3, TimesStay
    <2>5. WriteReport /\ queued # {} => running = {}
      <3> SUFFICES ASSUME WriteReport, queued # {} PROVE running = {}
        OBVIOUS
      <3>1. EventTimes = {}
        BY QueuedRemains DEF WriteReport
      <3> QED
        BY <3>1 DEF EventTimes
    <2> QED
      BY <2>1, <2>2, <2>4, <2>5 DEF WaitInv
  <1> QED
    BY <1>1, <1>2, <1>3 DEF RustNext, RustTerminated

(* A job that cannot start in the idle machine never can.                  *)
LEMMA IdleImpossible ==
  ASSUME RustInv, pc # "refused", running = {}, NEW job \in queued, ~ Startable(job, Left)
  PROVE  Impossible(job)
  <1>1. job \in 1..Len(jobs)
    BY JobFields DEF RustInv, RustTypeOK
  <1>2. jobs[job].requested \in [Modelled -> Nat]
    BY <1>1, JobFields DEF RustInv, RustTypeOK
  <1>3. \A d \in Modelled : free[d] = Capacity[d]
    <2>1. \A d \in Modelled : free[d] + 0 = Capacity[d] /\ free[d] \in Int
      BY HeldNone DEF RustInv, RustTypeOK, ResourcesAccounted
    <2> QED
      BY <2>1
  <1>4. power.current_watts = 0
    BY HeldNone DEF RustInv, ResourcesAccounted, Watts
  <1>5. jobs[job].requested.cpus = 0 \/ \E d \in Limited : ~ (Asks(job, d) <= Left[d])
    <2>1. jobs[job].requested.cpus \in Nat
      BY <1>2 DEF Modelled
    <2> QED
      BY <2>1 DEF Startable, FitsIn
  <1>6. ASSUME NEW d \in Modelled, ~ (Asks(job, d) <= Left[d])
        PROVE  jobs[job].requested[d] > Capacity[d]
    <2>1. d # "watts"
      BY DEF Modelled
    <2>2. Asks(job, d) = jobs[job].requested[d] /\ jobs[job].requested[d] \in Nat
      BY <1>2, <2>1 DEF Asks
    <2>3. Left[d] = Capacity[d] /\ Capacity[d] \in Nat
      BY <1>3, LeftIs, RustAssumption
    <2> QED
      BY <1>6, <2>2, <2>3
  <1>7. ASSUME enforce_power_cap, ~ (Asks(job, "watts") <= Left["watts"])
        PROVE  jobs[job].power_mean_watts > power_cap_watts
    <2>1. Asks(job, "watts") = jobs[job].power_mean_watts /\ jobs[job].power_mean_watts \in Nat
      BY <1>1, JobFields DEF Asks, RustInv, RustTypeOK
    <2>2. Left["watts"] = power_cap_watts /\ power_cap_watts \in Nat
      BY <1>4, <1>7, LeftIs
    <2> QED
      BY <1>7, <2>1, <2>2
  <1>8. \A d \in Limited : d \in Modelled \/ (d = "watts" /\ enforce_power_cap)
    BY DEF Limited
  <1> QED
    BY <1>5, <1>6, <1>7, <1>8 DEF Impossible

(* The jobs a run leaves behind could never have run: under FIFO the first *)
(* of them, under EASY all of them, unless the first asks for no CPU.      *)
THEOREM OnlyTheImpossibleAreLeft == RustSpec => []StrandedNeverRuns
  <1>1. RustInit => RustInv /\ WaitInv
    <2> SUFFICES ASSUME RustInit PROVE RustInv /\ WaitInv
      OBVIOUS
    <2>1. RustInv
      BY RustInitInv
    <2>2. queued = {}
      BY DEF RustInit
    <2> QED
      BY <2>1, <2>2 DEF WaitInv
  <1>2. RustInv /\ WaitInv /\ [RustNext]_rvars => RustInv' /\ WaitInv'
    BY RustStep, WaitStep
  <1>3. RustInv /\ WaitInv => StrandedNeverRuns
    <2> SUFFICES ASSUME RustInv, WaitInv, pc = "reported", queued # {}
                 PROVE  \/ policy = "FIFO_STRICT" /\ Impossible(Min(queued))
                        \/ jobs[Min(queued)].requested.cpus = 0
                        \/ \A job \in queued : Impossible(job)
      BY DEF StrandedNeverRuns
    <2>1. queued \in SUBSET (1..Len(jobs)) /\ IsFiniteSet(queued) /\ Len(jobs) \in Nat
      <3>1. Len(jobs) \in Nat /\ queued \subseteq 1..Len(jobs)
        BY JobFields DEF RustInv, RustTypeOK
      <3>2. IsFiniteSet(1..Len(jobs))
        BY <3>1, FS_Interval
      <3>3. IsFiniteSet(queued)
        BY <3>1, <3>2, FS_Subset
      <3> QED
        BY <3>1, <3>3
    <2>2. PICK head : head = Min(queued)
      OBVIOUS
    <2>3. head \in queued
      BY <2>1, <2>2, MinOfFinite
    <2>4. jobs[head].requested.cpus \in Nat
      <3>1. jobs[head].requested \in [Modelled -> Nat]
        BY <2>1, <2>3, JobFields DEF RustInv, RustTypeOK
      <3> QED
        BY <3>1 DEF Modelled
    <2>5. running = {} /\ ~ Startable(head, Left)
      BY <2>2 DEF WaitInv
    <2>6. CASE policy = "FIFO_STRICT"
      BY <2>2, <2>3, <2>5, <2>6, IdleImpossible
    <2>7. CASE policy = "EASY_BACKFILL_BASELINE" /\ jobs[head].requested.cpus > 0
      <3>1. \A job \in queued : ~ Startable(job, Left)
        BY <2>2, <2>5, <2>7 DEF WaitInv
      <3> QED
        BY <2>5, <3>1, IdleImpossible
    <2> QED
      BY <2>2, <2>4, <2>6, <2>7 DEF RustInv, RustTypeOK
  <1> QED
    BY <1>1, <1>2, <1>3, PTL DEF RustSpec

-----------------------------------------------------------------------------
(* What holders have had of a dimension over time.                         *)

Spent(d, C) == TotalOf([h \in C |-> Asks(h.job, d) * (h.end_ts - h.start_ts)], C)
SoFar(d, R, now) == TotalOf([h \in R |-> Asks(h.job, d) * (now - h.start_ts)], R)

(* What is held is such a sum.                                             *)
LEMMA HeldIsTotal ==
  ASSUME NEW S, NEW d
  PROVE  Held(S, d) = TotalOf([h \in S |-> Asks(h.job, d)], S)
  <1>1. UNION {{h} \X (1..Asks(h.job, d)) : h \in S}
          = UNION {{i} \X (1..[h \in S |-> Asks(h.job, d)][i]) : i \in S}
    OBVIOUS
  <1> QED
    BY <1>1 DEF Held, Units, TotalOf

(* Products of naturals.                                                   *)
LEMMA ProductNat == \A m, n \in Nat : m * n \in Nat
  OBVIOUS

(* What each has had is a number.                                          *)
LEMMA SpentNat ==
  ASSUME PreparedJobs, NEW d \in Dimensions, NEW C \in SUBSET Holders, IsFiniteSet(C),
         \A h \in C : h.start_ts <= h.end_ts
  PROVE  /\ Spent(d, C) \in Nat
         /\ \A h \in C : Asks(h.job, d) * (h.end_ts - h.start_ts) \in Nat
  <1>1. ASSUME NEW h \in C PROVE Asks(h.job, d) * (h.end_ts - h.start_ts) \in Nat
    <2>1. Asks(h.job, d) \in Nat
      BY AsksNat DEF Holders
    <2>2. h.end_ts - h.start_ts \in Nat
      BY DEF Holders
    <2> QED
      BY <2>1, <2>2, ProductNat
  <1> DEFINE size == [h \in C |-> Asks(h.job, d) * (h.end_ts - h.start_ts)]
  <1>2. \A h \in C : size[h] \in Nat
    BY <1>1
  <1>3. TotalOf(size, C) \in Nat
    <2> HIDE DEF size
    <2> QED
      BY <1>2, TotalSplit
  <1> QED
    BY <1>1, <1>3 DEF Spent

(* What joins was apart: its sum is added.                                 *)
LEMMA SpentUnion ==
  ASSUME PreparedJobs, NEW d \in Dimensions,
         NEW C \in SUBSET Holders, IsFiniteSet(C), \A h \in C : h.start_ts <= h.end_ts,
         NEW D \in SUBSET Holders, IsFiniteSet(D), \A h \in D : h.start_ts <= h.end_ts,
         C \cap D = {}
  PROVE  Spent(d, C \cup D) = Spent(d, C) + Spent(d, D)
  <1> DEFINE both == C \cup D
             size == [h \in both |-> Asks(h.job, d) * (h.end_ts - h.start_ts)]
             sizeC == [h \in C |-> Asks(h.job, d) * (h.end_ts - h.start_ts)]
             sizeD == [h \in D |-> Asks(h.job, d) * (h.end_ts - h.start_ts)]
  <1>1. IsFiniteSet(both) /\ both \in SUBSET Holders /\ \A h \in both : h.start_ts <= h.end_ts
    BY FS_Union
  <1>2. \A h \in both : size[h] \in Nat
    BY <1>1, SpentNat
  <1>3. C \in SUBSET both /\ both \ C = D
    OBVIOUS
  <1>4. \A h \in C : size[h] = sizeC[h]
    OBVIOUS
  <1>5. \A h \in D : size[h] = sizeD[h]
    OBVIOUS
  <1>6. Spent(d, both) = TotalOf(size, both) /\ Spent(d, C) = TotalOf(sizeC, C) /\ Spent(d, D) = TotalOf(sizeD, D)
    BY DEF Spent
  <1> HIDE DEF both, size, sizeC, sizeD
  <1>7. TotalOf(size, C) + TotalOf(size, both \ C) = TotalOf(size, both)
    BY <1>1, <1>2, <1>3, TotalSplit
  <1>8. TotalOf(size, C) = TotalOf(sizeC, C) /\ TotalOf(size, D) = TotalOf(sizeD, D)
    BY <1>4, <1>5, TotalSame
  <1>9. Spent(d, both) = Spent(d, C) + Spent(d, D)
    BY <1>3, <1>6, <1>7, <1>8
  <1> QED
    BY <1>9 DEF both

(* Until now, and until later: in between each has had what it holds.      *)
LEMMA SoFarLater ==
  ASSUME PreparedJobs, NEW d \in Dimensions, NEW R \in SUBSET Holders, IsFiniteSet(R),
         NEW before \in Int, NEW now \in Int, before <= now, \A h \in R : h.start_ts <= before
  PROVE  /\ SoFar(d, R, now) = SoFar(d, R, before) + (now - before) * Held(R, d)
         /\ SoFar(d, R, now) \in Nat /\ SoFar(d, R, before) \in Nat
  <1> DEFINE a == [h \in R |-> Asks(h.job, d) * (before - h.start_ts)]
             b == [h \in R |-> Asks(h.job, d)]
             c == [h \in R |-> Asks(h.job, d) * (now - h.start_ts)]
             k == now - before
  <1>1. k \in Nat
    OBVIOUS
  <1>2. ASSUME NEW h \in R PROVE a[h] \in Nat /\ b[h] \in Nat /\ c[h] = a[h] + k * b[h] /\ c[h] \in Nat
    <2>1. PICK w \in Nat : w = Asks(h.job, d)
      BY AsksNat DEF Holders
    <2>2. PICK s \in Int : s = h.start_ts
      BY DEF Holders
    <2>3. before - s \in Nat /\ now - s = (before - s) + k /\ now - s \in Nat
      BY <2>2
    <2>4. w * (before - s) \in Nat /\ w * (now - s) \in Nat
      BY <2>1, <2>3, ProductNat
    <2>5. \A p, q \in Nat : w * (p + q) = w * p + q * w
      BY <2>1
    <2>6. w * (now - s) = w * (before - s) + k * w
      BY <1>1, <2>3, <2>5
    <2> HIDE DEF k
    <2> QED
      BY <2>1, <2>2, <2>4, <2>6
  <1>3. SoFar(d, R, now) = TotalOf(c, R) /\ SoFar(d, R, before) = TotalOf(a, R)
    BY DEF SoFar
  <1>4. Held(R, d) = TotalOf(b, R)
    BY HeldIsTotal
  <1> HIDE DEF a, b, c
  <1>5. TotalOf(c, R) = TotalOf(a, R) + k * TotalOf(b, R)
    <2> HIDE DEF k
    <2> QED
      BY <1>1, <1>2, TotalLinear DEF Linear
  <1>6. TotalOf(c, R) \in Nat /\ TotalOf(a, R) \in Nat
    BY <1>2, TotalSplit
  <1> QED
    BY <1>3, <1>4, <1>5, <1>6

(* What ends now has been through: the two sums go on together.            *)
Going(R, C, D, before, now) ==
  /\ R \in SUBSET Holders /\ IsFiniteSet(R) /\ C \in SUBSET Holders /\ IsFiniteSet(C) /\ R \cap C = {}
  /\ before \in Int /\ now \in Int /\ before <= now
  /\ \A h \in R : h.start_ts <= before
  /\ \A h \in C : h.start_ts <= h.end_ts
  /\ D \in SUBSET R /\ \A h \in D : h.end_ts = now

LEMMA AreaAdvances ==
  ASSUME PreparedJobs, NEW d \in Dimensions, NEW R, NEW C, NEW D, NEW before, NEW now, Going(R, C, D, before, now)
  PROVE  /\ Spent(d, C \cup D) + SoFar(d, R \ D, now)
              = Spent(d, C) + SoFar(d, R, before) + (now - before) * Held(R, d)
         /\ Spent(d, C \cup D) = Spent(d, C) + Spent(d, D)
         /\ Spent(d, C) \in Nat /\ Spent(d, D) \in Nat /\ SoFar(d, R, before) \in Nat /\ SoFar(d, R \ D, now) \in Nat
  <1> DEFINE rest == R \ D
             c == [h \in R |-> Asks(h.job, d) * (now - h.start_ts)]
             cD == [h \in D |-> Asks(h.job, d) * (h.end_ts - h.start_ts)]
             cRest == [h \in rest |-> Asks(h.job, d) * (now - h.start_ts)]
  <1>0. /\ R \in SUBSET Holders /\ IsFiniteSet(R) /\ C \in SUBSET Holders /\ IsFiniteSet(C) /\ R \cap C = {}
        /\ before \in Int /\ now \in Int /\ before <= now
        /\ \A h \in R : h.start_ts <= before
        /\ \A h \in C : h.start_ts <= h.end_ts
        /\ D \in SUBSET R /\ \A h \in D : h.end_ts = now
    BY DEF Going
  <1>1. /\ SoFar(d, R, now) = SoFar(d, R, before) + (now - before) * Held(R, d)
        /\ SoFar(d, R, now) \in Nat /\ SoFar(d, R, before) \in Nat
    BY <1>0, SoFarLater
  <1>2. IsFiniteSet(D) /\ D \in SUBSET Holders /\ IsFiniteSet(rest) /\ rest \in SUBSET Holders /\ C \cap D = {}
    BY <1>0, FS_Subset
  <1>3. \A h \in D : h.start_ts <= h.end_ts
    BY <1>0 DEF Holders
  <1>4. Spent(d, C \cup D) = Spent(d, C) + Spent(d, D) /\ Spent(d, C) \in Nat /\ Spent(d, D) \in Nat
    BY <1>0, <1>2, <1>3, SpentUnion, SpentNat
  <1>5. \A h \in R : c[h] \in Nat
    <2> SUFFICES ASSUME NEW h \in R PROVE c[h] \in Nat
      BY <1>0
    <2>1. Asks(h.job, d) \in Nat /\ now - h.start_ts \in Nat
      BY <1>0, AsksNat DEF Holders
    <2>2. Asks(h.job, d) * (now - h.start_ts) \in Nat
      BY <1>0, <2>1, ProductNat
    <2> QED
      BY <1>0, <2>2
  <1>6. \A h \in D : c[h] = cD[h]
    BY <1>0
  <1>7. \A h \in rest : c[h] = cRest[h]
    BY <1>0
  <1>8. SoFar(d, R, now) = TotalOf(c, R) /\ Spent(d, D) = TotalOf(cD, D) /\ SoFar(d, rest, now) = TotalOf(cRest, rest)
    BY <1>0 DEF SoFar, Spent
  <1>9. TotalOf(c, D) + TotalOf(c, rest) = TotalOf(c, R) /\ TotalOf(c, rest) \in Nat
    <2> HIDE DEF c
    <2> QED
      BY <1>0, <1>5, TotalSplit
  <1> HIDE DEF c, cD, cRest
  <1>10. TotalOf(c, D) = TotalOf(cD, D) /\ TotalOf(c, rest) = TotalOf(cRest, rest)
    BY <1>0, <1>6, <1>7, TotalSame
  <1>11. Spent(d, D) + SoFar(d, rest, now) = SoFar(d, R, now) /\ SoFar(d, rest, now) \in Nat
    BY <1>0, <1>8, <1>9, <1>10
  <1>12. PICK gone : gone = (now - before) * Held(R, d)
    BY <1>0
  <1>13. Spent(d, C \cup D) + SoFar(d, rest, now) = Spent(d, C) + SoFar(d, R, before) + gone
    <2>1. gone \in Int
      <3>1. Held(R, d) \in Nat /\ now - before \in Nat
        BY <1>0, HeldFinite
      <3> QED
        BY <1>0, <1>12, <3>1, ProductNat
    <2>2. SoFar(d, R, now) = SoFar(d, R, before) + gone
      BY <1>0, <1>1, <1>12
    <2> HIDE DEF rest
    <2> QED
      BY <1>0, <1>1, <1>4, <1>11, <2>1, <2>2
  <1> QED
    BY <1>0, <1>1, <1>4, <1>11, <1>12, <1>13

(* What starts now has had nothing yet.                                    *)
LEMMA SoFarStarts ==
  ASSUME PreparedJobs, NEW d \in Dimensions, NEW R \in SUBSET Holders, IsFiniteSet(R),
         NEW now \in Int, \A h \in R : h.start_ts <= now,
         NEW N \in SUBSET Holders, IsFiniteSet(N), \A h \in N : h.start_ts = now, R \cap N = {}
  PROVE  SoFar(d, R \cup N, now) = SoFar(d, R, now)
  <1> DEFINE both == R \cup N
             c == [h \in both |-> Asks(h.job, d) * (now - h.start_ts)]
             cR == [h \in R |-> Asks(h.job, d) * (now - h.start_ts)]
  <1>1. IsFiniteSet(both) /\ both \ R = N /\ R \in SUBSET both /\ N \in SUBSET both
    BY FS_Union
  <1>2. \A h \in both : Asks(h.job, d) \in Nat /\ now - h.start_ts \in Nat
    BY AsksNat DEF Holders
  <1>3. \A h \in both : c[h] \in Nat
    BY <1>2, ProductNat
  <1>4. \A h \in N : c[h] = 0
    <2> SUFFICES ASSUME NEW h \in N PROVE c[h] = 0
      OBVIOUS
    <2>1. h \in both /\ now - h.start_ts = 0
      BY DEF Holders
    <2>2. \A w \in Nat : w * 0 = 0
      OBVIOUS
    <2>3. Asks(h.job, d) * (now - h.start_ts) = 0
      BY <1>2, <2>1, <2>2
    <2> QED
      BY <2>1, <2>3
  <1>5. \A h \in R : c[h] = cR[h]
    OBVIOUS
  <1>6. SoFar(d, both, now) = TotalOf(c, both) /\ SoFar(d, R, now) = TotalOf(cR, R)
    BY DEF SoFar
  <1> HIDE DEF c, cR, both
  <1>7. TotalOf(c, R) + TotalOf(c, N) = TotalOf(c, both) /\ TotalOf(c, R) \in Nat
    BY <1>1, <1>3, TotalSplit
  <1>8. TotalOf(c, N) = 0 /\ TotalOf(c, R) = TotalOf(cR, R)
    BY <1>4, <1>5, TotalZeros, TotalSame
  <1>9. SoFar(d, both, now) = SoFar(d, R, now)
    BY <1>6, <1>7, <1>8
  <1> QED
    BY <1>9 DEF both

-----------------------------------------------------------------------------
(* What a meter reads second by second.                                    *)

Live(H, ts) == {h \in H : h.start_ts <= ts /\ ts < h.end_ts}
Above(H, from, to) == {ts \in from..(to - 1) : Watts(Live(H, ts)) > power_cap_watts}
Over(H, ts) == Clip(Watts(Live(H, ts)) - power_cap_watts)
Excess(H, from, to) == TotalOf([ts \in from..(to - 1) |-> Over(H, ts)], from..(to - 1))

(* What is over the cap is a number.                                       *)
LEMMA OverNat ==
  ASSUME PreparedJobs, power_cap_watts \in Nat, NEW H \in SUBSET Holders, IsFiniteSet(H), NEW ts
  PROVE  Watts(Live(H, ts)) \in Nat /\ Over(H, ts) \in Nat
  <1>1. Live(H, ts) \in SUBSET Holders /\ IsFiniteSet(Live(H, ts))
    BY FS_Subset DEF Live
  <1>2. Watts(Live(H, ts)) \in Nat
    BY <1>1, HeldFinite DEF Watts, Dimensions
  <1> QED
    BY <1>2 DEF Over, Clip

(* Where the same w is drawn from before to now, the seconds above the cap *)
(* and the excess go on by the time in between.                            *)
LEMMA MeterReads ==
  ASSUME PreparedJobs, power_cap_watts \in Nat, NEW H \in SUBSET Holders, IsFiniteSet(H),
         NEW from \in Int, NEW before \in Int, NEW now \in Int, from <= before, before <= now,
         NEW w \in Nat, \A ts \in before..(now - 1) : Watts(Live(H, ts)) = w
  PROVE  /\ Cardinality(Above(H, from, now))
              = Cardinality(Above(H, from, before)) + (IF w > power_cap_watts THEN now - before ELSE 0)
         /\ Excess(H, from, now) = Excess(H, from, before) + Clip(w - power_cap_watts) * (now - before)
         /\ Cardinality(Above(H, from, before)) \in Nat /\ Excess(H, from, before) \in Nat
  <1> DEFINE old == from..(before - 1)
             new == before..(now - 1)
             all == from..(now - 1)
             k == now - before
             e == Clip(w - power_cap_watts)
             size == [ts \in all |-> Over(H, ts)]
             sizeOld == [ts \in old |-> Over(H, ts)]
  <1>1. old \cup new = all /\ old \cap new = {} /\ all \ old = new /\ old \in SUBSET all
    OBVIOUS
  <1>2. k \in Nat /\ e \in Nat
    BY DEF Clip
  <1>3. IsFiniteSet(old) /\ IsFiniteSet(all)
    BY FS_Interval
  <1>4. IsFiniteSet(new) /\ Cardinality(new) = k
    <2>1. now - 1 \in Int
      OBVIOUS
    <2>2. IsFiniteSet(new) /\ Cardinality(new) = IF before > now - 1 THEN 0 ELSE (now - 1) - before + 1
      BY <2>1, FS_Interval
    <2> QED
      BY <2>2
  <1> HIDE DEF k
  <1>5. /\ Cardinality(Above(H, from, now))
             = Cardinality(Above(H, from, before)) + (IF w > power_cap_watts THEN k ELSE 0)
        /\ Cardinality(Above(H, from, before)) \in Nat
    <2> DEFINE added == IF w > power_cap_watts THEN new ELSE {}
    <2>1. Above(H, from, now) = Above(H, from, before) \cup added
      <3>1. \A ts \in new : Watts(Live(H, ts)) > power_cap_watts <=> w > power_cap_watts
        OBVIOUS
      <3> HIDE DEF old, new, all
      <3>2. Above(H, from, now) = {ts \in all : Watts(Live(H, ts)) > power_cap_watts}
            /\ Above(H, from, before) = {ts \in old : Watts(Live(H, ts)) > power_cap_watts}
        BY DEF Above, old, all
      <3> QED
        BY <1>1, <3>1, <3>2
    <2>2. Above(H, from, before) \cap added = {} /\ Above(H, from, before) \in SUBSET old
      <3>1. Above(H, from, before) \in SUBSET old
        BY DEF Above
      <3> HIDE DEF old, new
      <3> QED
        BY <1>1, <3>1
    <2> HIDE DEF old, new
    <2>3. IsFiniteSet(added) /\ Cardinality(added) = (IF w > power_cap_watts THEN k ELSE 0)
      BY <1>4, FS_EmptySet
    <2>4. IsFiniteSet(Above(H, from, before))
      BY <1>3, <2>2, FS_Subset
    <2> HIDE DEF added
    <2>5. Cardinality(Above(H, from, before) \cup added)
            = Cardinality(Above(H, from, before)) + Cardinality(added) - Cardinality(Above(H, from, before) \cap added)
      BY <2>3, <2>4, FS_Union
    <2>6. Cardinality(Above(H, from, before) \cap added) = 0
      BY <2>2, FS_EmptySet
    <2>7. Cardinality(Above(H, from, before)) \in Nat /\ Cardinality(added) \in Nat
      BY <2>3, <2>4, FS_CardinalityType
    <2> QED
      BY <2>1, <2>3, <2>5, <2>6, <2>7
  <1>6. Excess(H, from, now) = Excess(H, from, before) + e * k /\ Excess(H, from, before) \in Nat
    <2> DEFINE none == [ts \in new |-> 0]
               ones == [ts \in new |-> 1]
    <2>1. Excess(H, from, now) = TotalOf(size, all) /\ Excess(H, from, before) = TotalOf(sizeOld, old)
      BY DEF Excess
    <2>2. \A ts \in all : size[ts] \in Nat
      BY OverNat
    <2>3. \A ts \in old : size[ts] = sizeOld[ts]
      BY <1>1
    <2>4. \A ts \in new : size[ts] = e
      <3>1. \A ts \in new : ts \in all /\ Watts(Live(H, ts)) = w
        OBVIOUS
      <3> HIDE DEF new, all
      <3> QED
        BY <3>1 DEF Over
    <2>5. \A ts \in new : none[ts] = 0 /\ ones[ts] = 1
      OBVIOUS
    <2> HIDE DEF old, new, all, size, sizeOld, none, ones, e
    <2>6. TotalOf(size, old) + TotalOf(size, new) = TotalOf(size, all) /\ TotalOf(size, old) \in Nat
      BY <1>1, <1>3, <2>2, TotalSplit
    <2>7. TotalOf(size, old) = TotalOf(sizeOld, old)
      BY <2>3, TotalSame
    <2>8. TotalOf(none, new) = 0 /\ TotalOf(ones, new) = k
      BY <1>4, <2>5, TotalZeros, TotalOnes
    <2>9. Linear(new, none, e, ones, size)
      BY <1>2, <1>4, TotalLinear
    <2>10. \A ts \in new : none[ts] \in Nat /\ ones[ts] \in Nat /\ size[ts] = none[ts] + e * ones[ts]
      BY <1>2, <2>4, <2>5
    <2>11. TotalOf(size, new) = 0 + e * k
      BY <2>8, <2>9, <2>10 DEF Linear
    <2>12. e * k \in Nat
      BY <1>2, ProductNat
    <2> QED
      BY <2>1, <2>6, <2>7, <2>11, <2>12
  <1> HIDE DEF e
  <1> QED
    BY <1>5, <1>6 DEF k, e

-----------------------------------------------------------------------------
(* What the report rests on.                                               *)

(* A run of a job lasts its time, and is over when it is completed.        *)
Timed ==
  /\ MinSubmit \in Int /\ MinSubmit <= clock_ts /\ power.last_ts = clock_ts
  /\ \A h \in running \cup completed :
       /\ MinSubmit <= h.start_ts /\ h.start_ts <= clock_ts
       /\ h.end_ts = h.start_ts + Clip(jobs[h.job].runtime_actual_sec)
  /\ \A h \in completed : h.end_ts <= clock_ts

(* The power profile is what a meter has read so far.                      *)
Metered ==
  /\ power.energy_joules = Spent("watts", completed) + SoFar("watts", running, clock_ts)
  /\ Watts(running) <= power.peak_watts
  /\ \A ts \in MinSubmit..(clock_ts - 1) : Watts(Live(running \cup completed, ts)) <= power.peak_watts
  /\ power_cap_watts # NoCap =>
       /\ power.seconds_above_cap = Cardinality(Above(running \cup completed, MinSubmit, clock_ts))
       /\ power.joules_above_cap = Excess(running \cup completed, MinSubmit, clock_ts)

(* The totals are those of what is completed, and what runs has had no more*)
(* CPU time than the capacity gives.                                       *)
Totalled ==
  /\ DOMAIN totals = {"cpu_seconds", "gpu_seconds", "max_end_ts"}
  /\ totals.cpu_seconds = Spent("cpus", completed)
  /\ totals.cpu_seconds + SoFar("cpus", running, clock_ts) <= Capacity.cpus * (clock_ts - MinSubmit)
  /\ completed = {} => totals.max_end_ts = MinSubmit
  /\ completed # {} => \E h \in completed : h.end_ts = totals.max_end_ts
  /\ \A h \in completed : h.end_ts <= totals.max_end_ts
  /\ totals.max_end_ts \in Int /\ totals.max_end_ts <= clock_ts
  /\ AllCompleted => totals.max_end_ts = clock_ts

Reported == pc = "reported" => running = {} /\ report = Metrics

MeterInv == RustInv /\ Timed /\ Metered /\ Totalled /\ Reported

(* What the time until now adds to the power profile.                      *)
LEMMA ProfileAdvances ==
  ASSUME power \in PowerRecord, power_cap_watts \in Nat \cup {NoCap}, NEW now \in Int,
         power.last_ts <= now, NEW draw
  PROVE  LET p == [AdvancedTo(now) EXCEPT !.current_watts = draw]
         IN  /\ p.last_ts = now /\ p.current_watts = draw /\ p.peak_watts = power.peak_watts
             /\ p.energy_joules = power.energy_joules + power.current_watts * (now - power.last_ts)
             /\ power_cap_watts # NoCap =>
                  /\ p.seconds_above_cap = power.seconds_above_cap
                       + (IF power.current_watts > power_cap_watts THEN now - power.last_ts ELSE 0)
                  /\ p.joules_above_cap = power.joules_above_cap
                       + Clip(power.current_watts - power_cap_watts) * (now - power.last_ts)
  <1> DEFINE dt == now - power.last_ts
             excess == IF power_cap_watts = NoCap THEN 0 ELSE Clip(power.current_watts - power_cap_watts)
             counted == IF excess > 0 THEN dt ELSE 0
             p == [AdvancedTo(now) EXCEPT !.current_watts = draw]
  <1>1. /\ power.current_watts \in Int /\ power.energy_joules \in Int /\ power.peak_watts \in Int
        /\ power.seconds_above_cap \in Int /\ power.joules_above_cap \in Int /\ power.last_ts \in Int
    BY DEF PowerRecord
  <1>2. Clip(now - power.last_ts) = dt
    BY <1>1 DEF Clip
  <1>3. AdvancedTo(now) =
          [power EXCEPT !.last_ts = now,
                        !.energy_joules = @ + power.current_watts * dt,
                        !.seconds_above_cap = @ + counted,
                        !.joules_above_cap = @ + excess * dt]
    BY <1>2 DEF AdvancedTo
  <1>4. power_cap_watts # NoCap =>
          /\ excess = Clip(power.current_watts - power_cap_watts)
          /\ counted = (IF power.current_watts > power_cap_watts THEN dt ELSE 0)
    BY <1>1 DEF Clip
  <1> HIDE DEF dt, excess, counted
  <1>5. DOMAIN power = {"current_watts", "peak_watts", "energy_joules", "seconds_above_cap", "joules_above_cap", "last_ts"}
        /\ power = [f \in DOMAIN power |-> power[f]]
    BY DEF PowerRecord
  <1>6. /\ p.last_ts = now /\ p.current_watts = draw /\ p.peak_watts = power.peak_watts
        /\ p.energy_joules = power.energy_joules + power.current_watts * dt
        /\ p.seconds_above_cap = power.seconds_above_cap + counted
        /\ p.joules_above_cap = power.joules_above_cap + excess * dt
    BY <1>3, <1>5
  <1> HIDE DEF p
  <1>7. power_cap_watts # NoCap =>
          /\ p.seconds_above_cap = power.seconds_above_cap
               + (IF power.current_watts > power_cap_watts THEN dt ELSE 0)
          /\ p.joules_above_cap = power.joules_above_cap + Clip(power.current_watts - power_cap_watts) * dt
    BY <1>4, <1>6
  <1> QED
    BY <1>6, <1>7 DEF p, dt

(* What ends at an event is counted.                                       *)
LEMMA EventTotals ==
  ASSUME Advance, DOMAIN totals = {"cpu_seconds", "gpu_seconds", "max_end_ts"}
  PROVE  /\ ~ AllCompleted /\ DOMAIN totals' = DOMAIN totals
         /\ totals'.cpu_seconds = totals.cpu_seconds + Spent("cpus", Ending(clock_ts'))
         /\ totals'.max_end_ts = IF Ending(clock_ts') = {} THEN totals.max_end_ts
                                 ELSE Max({totals.max_end_ts, clock_ts'})
  <1>0. PICK now \in EventTimes :
          /\ clock_ts' = now
          /\ totals' = [totals EXCEPT
               !.cpu_seconds = @ + TotalOf([r \in Ending(now) |-> CpuSeconds(r)], Ending(now)),
               !.gpu_seconds = @ + TotalOf([r \in Ending(now) |-> GpuSeconds(r)], Ending(now)),
               !.max_end_ts = IF Ending(now) = {} THEN @ ELSE Max({@, now})]
    BY Zenon DEF Advance, Ending
  <1> DEFINE done == Ending(clock_ts')
             gpu == TotalOf([r \in done |-> GpuSeconds(r)], done)
             cpu == TotalOf([r \in done |-> CpuSeconds(r)], done)
             end == IF done = {} THEN totals.max_end_ts ELSE Max({totals.max_end_ts, clock_ts'})
  <1>1. ~ AllCompleted /\ totals' = [totals EXCEPT !.cpu_seconds = @ + cpu, !.gpu_seconds = @ + gpu, !.max_end_ts = end]
    <2>1. ~ AllCompleted
      BY DEF Advance
    <2> QED
      BY <1>0, <2>1
  <1>2. \A r : CpuSeconds(r) = Asks(r.job, "cpus") * (r.end_ts - r.start_ts)
    BY DEF CpuSeconds, Asks
  <1>3. cpu = Spent("cpus", done)
    BY <1>2 DEF Spent
  <1> HIDE DEF done, gpu, cpu, end
  <1>4. /\ DOMAIN totals' = DOMAIN totals
        /\ totals'.cpu_seconds = totals.cpu_seconds + cpu /\ totals'.max_end_ts = end
    BY <1>1
  <1> QED
    BY <1>1, <1>3, <1>4 DEF done, end

(* Holders as the invariant has them.                                      *)
LEMMA TimedHolders ==
  ASSUME RustInv, Timed
  PROVE  /\ PreparedJobs /\ clock_ts \in Int /\ power \in PowerRecord /\ power_cap_watts \in Nat \cup {NoCap}
         /\ running \in SUBSET Holders /\ IsFiniteSet(running)
         /\ completed \in SUBSET Holders /\ IsFiniteSet(completed) /\ running \cap completed = {}
         /\ running \cup completed \in SUBSET Holders /\ IsFiniteSet(running \cup completed)
         /\ \A h \in running : h.start_ts <= clock_ts /\ clock_ts <= h.end_ts
         /\ \A h \in running \cup completed : h.start_ts <= h.end_ts
         /\ power.current_watts = Watts(running) /\ Watts(running) \in Nat
  <1>1. /\ PreparedJobs /\ clock_ts \in Int /\ power_cap_watts \in Nat \cup {NoCap}
        /\ running \in SUBSET Holders /\ IsFiniteSet(running)
        /\ completed \in SUBSET Holders /\ IsFiniteSet(completed)
    BY DEF RustInv, RustTypeOK
  <1>2. power \in PowerRecord
    BY DEF RustInv, RustTypeOK, PowerRecord
  <1>3. running \cap completed = {} /\ power.current_watts = Watts(running)
    BY DEF RustInv, Places, ResourcesAccounted
  <1>4. IsFiniteSet(running \cup completed)
    BY <1>1, FS_Union
  <1>5. \A h \in running : h.start_ts <= clock_ts /\ clock_ts <= h.end_ts
    BY DEF RustInv, InTime, Timed
  <1>6. ASSUME NEW h \in running \cup completed PROVE h.start_ts <= h.end_ts
    <2>1. h \in Holders
      BY <1>1
    <2>2. jobs[h.job].runtime_actual_sec \in Int /\ h.start_ts \in Int
      BY <1>1, <2>1, JobFields DEF Holders
    <2>3. h.end_ts = h.start_ts + Clip(jobs[h.job].runtime_actual_sec)
      BY DEF Timed
    <2> QED
      BY <2>2, <2>3 DEF Clip
  <1>7. Watts(running) \in Nat
    BY <1>1, HeldFinite DEF Watts, Dimensions
  <1> QED
    BY <1>1, <1>2, <1>3, <1>4, <1>5, <1>6, <1>7

(* Until the next event what runs is what is drawn.                        *)
LEMMA LiveUntil ==
  ASSUME RustInv, Timed, NEW now \in Int, \A h \in running : now <= h.end_ts, NEW ts \in clock_ts..(now - 1)
  PROVE  Live(running \cup completed, ts) = running
  <1>1. /\ clock_ts \in Int /\ running \in SUBSET Holders /\ completed \in SUBSET Holders
        /\ \A h \in running : h.start_ts <= clock_ts
    BY TimedHolders
  <1>2. ts \in Int /\ clock_ts <= ts /\ ts < now
    BY <1>1
  <1>3. ASSUME NEW h \in running PROVE h.start_ts <= ts /\ ts < h.end_ts
    <2>1. h.start_ts \in Int /\ h.end_ts \in Int /\ h.start_ts <= clock_ts /\ now <= h.end_ts
      BY <1>1 DEF Holders
    <2> QED
      BY <1>1, <1>2, <2>1
  <1>4. ASSUME NEW h \in completed PROVE ~ (ts < h.end_ts)
    <2>1. h.end_ts \in Int /\ h.end_ts <= clock_ts
      BY <1>1 DEF Holders, Timed
    <2> QED
      BY <1>1, <1>2, <2>1
  <1> QED
    BY <1>3, <1>4 DEF Live

(* The meter at an event.                                                  *)
LEMMA AdvanceMetered ==
  ASSUME RustInv, Timed, Metered, Advance
  PROVE  Timed' /\ Metered'
  <1>1. PICK now \in Int :
           /\ clock_ts' = now /\ clock_ts <= now
           /\ \A h \in running : now <= h.end_ts
           /\ running' = running \ Ending(now) /\ completed' = completed \cup Ending(now)
           /\ power' = [AdvancedTo(now) EXCEPT
                !.current_watts = IF running' = {} THEN 0 ELSE Clip(@ - Watts(Ending(now)))]
           /\ UNCHANGED <<jobs, power_cap_watts>>
    BY EventParts DEF arguments
  <1> DEFINE done == Ending(now)
             all == running \cup completed
             dt == now - clock_ts
  <1>2. /\ PreparedJobs /\ clock_ts \in Int /\ power \in PowerRecord /\ power_cap_watts \in Nat \cup {NoCap}
        /\ running \in SUBSET Holders /\ IsFiniteSet(running)
        /\ completed \in SUBSET Holders /\ IsFiniteSet(completed) /\ running \cap completed = {}
        /\ all \in SUBSET Holders /\ IsFiniteSet(all)
        /\ \A h \in running : h.start_ts <= clock_ts
        /\ \A h \in all : h.start_ts <= h.end_ts
        /\ power.current_watts = Watts(running) /\ Watts(running) \in Nat
    BY TimedHolders
  <1>3. /\ MinSubmit \in Int /\ MinSubmit <= clock_ts /\ power.last_ts = clock_ts /\ MinSubmit' = MinSubmit
        /\ MinSubmit <= now
    BY <1>1, <1>2 DEF Timed, MinSubmit
  <1>4. /\ done \in SUBSET running /\ \A h \in done : h.end_ts = now
        /\ running' \cup completed' = all
    BY <1>1 DEF Ending
  <1>5. PICK draw : power' = [AdvancedTo(now) EXCEPT !.current_watts = draw]
    <2>1. "current_watts" \in DOMAIN AdvancedTo(now)
      BY <1>2 DEF AdvancedTo, PowerRecord
    <2> QED
      BY <1>1
  <1>6. /\ power'.last_ts = now /\ power'.peak_watts = power.peak_watts
        /\ power'.energy_joules = power.energy_joules + Watts(running) * dt
        /\ power_cap_watts # NoCap =>
             /\ power'.seconds_above_cap = power.seconds_above_cap
                  + (IF Watts(running) > power_cap_watts THEN dt ELSE 0)
             /\ power'.joules_above_cap = power.joules_above_cap + Clip(Watts(running) - power_cap_watts) * dt
    BY <1>1, <1>2, <1>3, <1>5, ProfileAdvances
  <1>7. \A ts \in clock_ts..(now - 1) : Live(all, ts) = running
    BY <1>1, LiveUntil
  <1>8. Timed'
    <2>1. \A h \in all : /\ MinSubmit <= h.start_ts /\ h.start_ts <= now
                         /\ h.end_ts = h.start_ts + Clip(jobs[h.job].runtime_actual_sec)
      <3> SUFFICES ASSUME NEW h \in all PROVE h.start_ts <= now
        BY DEF Timed
      <3>1. h.start_ts \in Int /\ h.start_ts <= clock_ts
        BY <1>2 DEF Holders, Timed
      <3> QED
        BY <1>1, <1>2, <3>1
    <2>2. \A h \in completed \cup done : h.end_ts <= now
      <3> SUFFICES ASSUME NEW h \in completed \cup done PROVE h.end_ts <= now
        OBVIOUS
      <3>1. CASE h \in done
        BY <1>4, <3>1
      <3>2. CASE h \in completed
        <4>1. h.end_ts \in Int /\ h.end_ts <= clock_ts
          BY <1>2, <3>2 DEF Holders, Timed
        <4> QED
          BY <1>1, <1>2, <4>1
      <3> QED
        BY <3>1, <3>2
    <2> HIDE DEF done, all
    <2> QED
      BY <1>1, <1>3, <1>4, <1>6, <2>1, <2>2 DEF Timed, done
  <1>9. power'.energy_joules = (Spent("watts", completed) + SoFar("watts", running, clock_ts))'
    <2>1. "watts" \in Dimensions
      BY DEF Dimensions
    <2>2. Spent("watts", completed \cup done) + SoFar("watts", running \ done, now)
            = Spent("watts", completed) + SoFar("watts", running, clock_ts) + dt * Held(running, "watts")
      <3>1. Going(running, completed, done, clock_ts, now)
        BY <1>1, <1>2, <1>4 DEF Going
      <3> HIDE DEF done
      <3> QED
        BY <1>2, <2>1, <3>1, AreaAdvances
    <2>3. (Spent("watts", completed) + SoFar("watts", running, clock_ts))'
            = Spent("watts", completed \cup done) + SoFar("watts", running \ done, now)
      BY <1>1 DEF Spent, SoFar, Asks
    <2>4. power.energy_joules = Spent("watts", completed) + SoFar("watts", running, clock_ts)
      BY DEF Metered
    <2>5. Watts(running) * dt = dt * Held(running, "watts")
      <3>1. \A m, n \in Int : m * n = n * m
        OBVIOUS
      <3>2. Held(running, "watts") \in Int /\ dt \in Int
        BY <1>1, <1>2 DEF Watts
      <3> HIDE DEF dt
      <3> QED
        BY <3>1, <3>2 DEF Watts
    <2> HIDE DEF dt, done
    <2> QED
      BY <1>6, <2>2, <2>3, <2>4, <2>5
  <1>10. Watts(running)' <= power'.peak_watts
    <2>1. Held(running, "watts")' = Held(running \ done, "watts")
      BY <1>1 DEF Held, Units, Asks
    <2>2. /\ Held(running \ done, "watts") = Held(running, "watts") - Held(done, "watts")
          /\ Held(running \ done, "watts") \in Nat /\ Held(done, "watts") \in Nat
      BY <1>2, <1>4, HeldDifference DEF Dimensions
    <2>3. Held(running, "watts") \in Nat /\ Held(running, "watts") <= power.peak_watts /\ power.peak_watts \in Int
      BY <1>2 DEF Metered, Watts, PowerRecord
    <2> HIDE DEF done
    <2> QED
      BY <1>6, <2>1, <2>2, <2>3 DEF Watts
  <1>11. \A ts \in Int : Watts(Live(running \cup completed, ts))' = Watts(Live(all, ts))
    BY <1>1, <1>4 DEF Watts, Held, Units, Asks, Live
  <1>12. \A ts \in MinSubmit..(now - 1) : Watts(Live(all, ts)) <= power.peak_watts
    <2> SUFFICES ASSUME NEW ts \in MinSubmit..(now - 1) PROVE Watts(Live(all, ts)) <= power.peak_watts
      OBVIOUS
    <2>1. CASE ts \in MinSubmit..(clock_ts - 1)
      BY <2>1 DEF Metered
    <2>2. CASE ts \in clock_ts..(now - 1)
      BY <1>7, <2>2 DEF Metered
    <2> QED
      BY <1>1, <1>2, <1>3, <2>1, <2>2
  <1>13. ASSUME power_cap_watts # NoCap
         PROVE  /\ power'.seconds_above_cap = Cardinality(Above(running \cup completed, MinSubmit, clock_ts))'
                /\ power'.joules_above_cap = Excess(running \cup completed, MinSubmit, clock_ts)'
    <2>1. power_cap_watts \in Nat
      BY <1>2, <1>13
    <2>2. \A ts \in clock_ts..(now - 1) : Watts(Live(all, ts)) = Watts(running)
      BY <1>7
    <2>3. /\ Cardinality(Above(all, MinSubmit, now))
               = Cardinality(Above(all, MinSubmit, clock_ts)) + (IF Watts(running) > power_cap_watts THEN dt ELSE 0)
          /\ Excess(all, MinSubmit, now)
               = Excess(all, MinSubmit, clock_ts) + Clip(Watts(running) - power_cap_watts) * dt
      <3> HIDE DEF all
      <3> QED
        BY <1>1, <1>2, <1>3, <2>1, <2>2, MeterReads
    <2>4. /\ power.seconds_above_cap = Cardinality(Above(all, MinSubmit, clock_ts))
          /\ power.joules_above_cap = Excess(all, MinSubmit, clock_ts)
      BY <1>13 DEF Metered
    <2>5. Cardinality(Above(running \cup completed, MinSubmit, clock_ts))' = Cardinality(Above(all, MinSubmit, now))
      <3>1. Above(running \cup completed, MinSubmit, clock_ts)'
              = {ts \in MinSubmit..(now - 1) : Watts(Live(running \cup completed, ts))' > power_cap_watts}
        BY <1>1, <1>3 DEF Above
      <3>2. Above(all, MinSubmit, now) = {ts \in MinSubmit..(now - 1) : Watts(Live(all, ts)) > power_cap_watts}
        BY DEF Above
      <3>3. \A ts \in MinSubmit..(now - 1) : Watts(Live(running \cup completed, ts))' = Watts(Live(all, ts))
        <4>1. MinSubmit..(now - 1) \subseteq Int
          BY <1>3
        <4> HIDE DEF all
        <4> QED
          BY <4>1, <1>11, Zenon
      <3>4. Above(running \cup completed, MinSubmit, clock_ts)' = Above(all, MinSubmit, now)
        <4> HIDE DEF all
        <4> QED
          BY <3>1, <3>2, <3>3
      <3> QED
        BY <3>4
    <2>6. Excess(running \cup completed, MinSubmit, clock_ts)' = Excess(all, MinSubmit, now)
      <3> DEFINE after == [ts \in MinSubmit..(now - 1) |-> Over(running \cup completed, ts)']
                 here == [ts \in MinSubmit..(now - 1) |-> Over(all, ts)]
      <3>1. Excess(running \cup completed, MinSubmit, clock_ts)' = TotalOf(after, MinSubmit..(now - 1))
        BY <1>1, <1>3 DEF Excess, TotalOf
      <3>2. Excess(all, MinSubmit, now) = TotalOf(here, MinSubmit..(now - 1))
        BY DEF Excess
      <3>3. \A ts \in MinSubmit..(now - 1) : Over(running \cup completed, ts)' = Over(all, ts)
        <4>1. MinSubmit..(now - 1) \subseteq Int /\ power_cap_watts' = power_cap_watts
          BY <1>1, <1>3
        <4> HIDE DEF all
        <4>2. \A ts \in Int : Over(running \cup completed, ts)' = Over(all, ts)
          BY <4>1, <1>11, Zenon DEF Over, Clip
        <4> QED
          BY <4>1, <4>2, Zenon
      <3>4. \A ts \in MinSubmit..(now - 1) : after[ts] = here[ts]
        BY <3>3
      <3> HIDE DEF after, here
      <3> QED
        BY <3>1, <3>2, <3>4, TotalSame
    <2> HIDE DEF all, dt
    <2> QED
      BY <1>6, <1>13, <2>3, <2>4, <2>5, <2>6
  <1>14. Metered'
    <2> HIDE DEF all, done, dt
    <2>1. power_cap_watts' = power_cap_watts /\ MinSubmit' = MinSubmit /\ clock_ts' = now
      BY <1>1, <1>3
    <2>2. \A ts \in (MinSubmit..(clock_ts - 1))' : Watts(Live(running \cup completed, ts))' <= power'.peak_watts
      <3>1. (MinSubmit..(clock_ts - 1))' = MinSubmit..(now - 1) /\ MinSubmit..(now - 1) \subseteq Int
        BY <1>3, <2>1
      <3> QED
        BY <1>6, <1>11, <1>12, <3>1
    <2> QED
      BY <1>9, <1>10, <1>13, <2>1, <2>2 DEF Metered
  <1> QED
    BY <1>8, <1>14

(* Products grow with a factor.                                            *)
LEMMA ProductGrows ==
  ASSUME NEW k \in Nat, NEW m \in Nat, NEW n \in Nat, m <= n
  PROVE  k * m <= n * k /\ k * m \in Nat /\ n * k \in Nat
  <1>1. \A p, q \in Nat : k * (p + q) = k * p + k * q /\ k * p \in Nat /\ k * q \in Nat
    OBVIOUS
  <1>2. k * (m + (n - m)) = k * m + k * (n - m) /\ k * m \in Nat /\ k * (n - m) \in Nat
    BY <1>1
  <1>3. m + (n - m) = n /\ k * n = n * k
    OBVIOUS
  <1> QED
    BY <1>2, <1>3

(* The totals at an event.                                                 *)
LEMMA AdvanceTotalled ==
  ASSUME RustInv, Timed, Totalled, Advance
  PROVE  Totalled'
  <1>1. PICK now \in Int :
           /\ clock_ts' = now /\ clock_ts <= now
           /\ running' = running \ Ending(now) /\ completed' = completed \cup Ending(now)
           /\ UNCHANGED jobs
    BY EventParts DEF arguments
  <1> DEFINE done == Ending(now)
             dt == now - clock_ts
             max == totals.max_end_ts
  <1>2. /\ PreparedJobs /\ clock_ts \in Int
        /\ running \in SUBSET Holders /\ IsFiniteSet(running)
        /\ completed \in SUBSET Holders /\ IsFiniteSet(completed) /\ running \cap completed = {}
        /\ \A h \in running : h.start_ts <= clock_ts
        /\ \A h \in running \cup completed : h.start_ts <= h.end_ts
    BY TimedHolders
  <1>3. /\ ~ AllCompleted /\ DOMAIN totals' = {"cpu_seconds", "gpu_seconds", "max_end_ts"}
        /\ totals'.cpu_seconds = totals.cpu_seconds + Spent("cpus", done)
        /\ totals'.max_end_ts = IF done = {} THEN max ELSE Max({max, now})
    BY <1>1, EventTotals DEF Totalled
  <1>4. done \in SUBSET running /\ (\A h \in done : h.end_ts = now) /\ "cpus" \in Dimensions /\ "cpus" \in Modelled
    BY DEF Ending, Dimensions, Modelled
  <1>5. Going(running, completed, done, clock_ts, now)
    BY <1>1, <1>2, <1>4 DEF Going
  <1>6. MinSubmit \in Int /\ MinSubmit <= clock_ts /\ MinSubmit' = MinSubmit
    BY <1>1 DEF Timed, MinSubmit
  <1>7. /\ max \in Int /\ max <= clock_ts /\ totals.cpu_seconds = Spent("cpus", completed)
        /\ totals.cpu_seconds + SoFar("cpus", running, clock_ts) <= Capacity.cpus * (clock_ts - MinSubmit)
        /\ completed = {} => max = MinSubmit
        /\ completed # {} => \E h \in completed : h.end_ts = max
        /\ \A h \in completed : h.end_ts <= max
    BY DEF Totalled
  <1>8. totals'.max_end_ts = (IF done = {} THEN max ELSE now) /\ max <= now
    <2>1. Max({max, now}) = IF max >= now THEN max ELSE now
      BY <1>7, PairMax
    <2> HIDE DEF done, max
    <2> QED
      BY <1>1, <1>2, <1>3, <1>7, <2>1
  <1>9. /\ Spent("cpus", completed \cup done) + SoFar("cpus", running \ done, now)
             = Spent("cpus", completed) + SoFar("cpus", running, clock_ts) + dt * Held(running, "cpus")
        /\ Spent("cpus", completed \cup done) = Spent("cpus", completed) + Spent("cpus", done)
        /\ Spent("cpus", completed) \in Nat /\ Spent("cpus", done) \in Nat
        /\ SoFar("cpus", running, clock_ts) \in Nat /\ SoFar("cpus", running \ done, now) \in Nat
    <2>1. PreparedJobs /\ "cpus" \in Dimensions
      BY <1>2, <1>4
    <2> HIDE DEF done
    <2> QED
      BY <1>5, <2>1, AreaAdvances
  <1>10. /\ Spent("cpus", completed)' = Spent("cpus", completed \cup done)
         /\ SoFar("cpus", running, clock_ts)' = SoFar("cpus", running \ done, now)
    BY <1>1 DEF Spent, SoFar, Asks
  <1>11. totals'.cpu_seconds = Spent("cpus", completed)'
    BY <1>3, <1>7, <1>9, <1>10
  <1>12. totals'.cpu_seconds + SoFar("cpus", running, clock_ts)' <= Capacity.cpus * (now - MinSubmit)
    <2>1. Held(running, "cpus") \in Nat /\ Held(running, "cpus") <= Capacity.cpus /\ Capacity.cpus \in Nat
      <3>1. Held(running, "cpus") \in Nat
        BY <1>2, <1>4, HeldFinite
      <3>2. free["cpus"] \in Int /\ free["cpus"] >= 0 /\ free["cpus"] + Held(running, "cpus") = Capacity["cpus"]
        BY <1>4 DEF RustInv, RustTypeOK, ResourcesAccounted
      <3>3. Capacity["cpus"] \in Nat
        BY <1>4, RustAssumption
      <3> QED
        BY <3>1, <3>2, <3>3
    <2>2. dt \in Nat
      BY <1>1, <1>2
    <2>3. dt * Held(running, "cpus") <= Capacity.cpus * dt /\ dt * Held(running, "cpus") \in Nat /\ Capacity.cpus * dt \in Nat
      BY <2>1, <2>2, ProductGrows
    <2>4. Capacity.cpus * (now - MinSubmit) = Capacity.cpus * (clock_ts - MinSubmit) + Capacity.cpus * dt
      <3>1. \A p, q \in Nat : Capacity.cpus * (p + q) = Capacity.cpus * p + Capacity.cpus * q
        BY <2>1
      <3>2. clock_ts - MinSubmit \in Nat /\ (clock_ts - MinSubmit) + dt = now - MinSubmit
        BY <1>1, <1>2, <1>6
      <3> HIDE DEF dt
      <3> QED
        BY <2>2, <3>1, <3>2
    <2>5. Capacity.cpus * (clock_ts - MinSubmit) \in Nat
      <3>1. clock_ts - MinSubmit \in Nat
        BY <1>2, <1>6
      <3> QED
        BY <2>1, <3>1, ProductNat
    <2> HIDE DEF dt, done, max
    <2> QED
      BY <1>7, <1>9, <1>10, <1>11, <2>3, <2>4, <2>5
  <1>13. completed' = {} => totals'.max_end_ts = MinSubmit
    <2> HIDE DEF done, max
    <2> QED
      BY <1>1, <1>7, <1>8 DEF done
  <1>14. completed' # {} => \E h \in completed' : h.end_ts = totals'.max_end_ts
    <2>1. CASE done = {}
      BY <1>1, <1>7, <1>8, <2>1
    <2>2. CASE done # {}
      <3>1. PICK h \in done : h.end_ts = now
        BY <1>4, <2>2
      <3> HIDE DEF max
      <3> QED
        BY <1>1, <1>8, <2>2, <3>1
    <2> QED
      BY <2>1, <2>2
  <1>15. \A h \in completed' : h.end_ts <= totals'.max_end_ts
    <2> SUFFICES ASSUME NEW h \in completed \cup done PROVE h.end_ts <= totals'.max_end_ts
      BY <1>1
    <2>1. CASE h \in done
      BY <1>4, <1>8, <2>1
    <2>2. CASE h \in completed
      <3>1. h.end_ts \in Int /\ h.end_ts <= max
        BY <1>2, <1>7, <2>2 DEF Holders
      <3> HIDE DEF done, max
      <3> QED
        BY <1>7, <1>8, <3>1
    <2> QED
      BY <2>1, <2>2
  <1>16. AllCompleted' => totals'.max_end_ts = now
    <2>1. done = {} => AllCompleted' = AllCompleted
      BY <1>1 DEF AllCompleted
    <2> HIDE DEF done, max
    <2> QED
      BY <1>3, <1>8, <2>1
  <1>17. totals'.max_end_ts \in Int /\ totals'.max_end_ts <= now
    <2> HIDE DEF done, max
    <2> QED
      BY <1>7, <1>8
  <1> HIDE DEF done, max, dt
  <1> QED
    BY <1>1, <1>3, <1>6, <1>11, <1>12, <1>13, <1>14, <1>15, <1>16, <1>17 DEF Totalled

(* What starts is not read before it starts.                               *)
LEMMA StartMeters ==
  ASSUME RustInv, Timed, Metered, Totalled, pc = "dispatch", NEW S \in SUBSET queued, Start(S),
         UNCHANGED <<arguments, clock_ts, completed, totals>>
  PROVE  Timed' /\ Metered' /\ Totalled'
  <1> DEFINE new == Startings(S)
             all == running \cup completed
  <1>1. /\ UNCHANGED <<jobs, power_cap_watts, clock_ts, completed, totals>>
    BY DEF arguments
  <1>2. PICK draw, peak :
          /\ draw = power.current_watts + Watts(new) /\ peak = Max({power.peak_watts, draw})
          /\ power' = [power EXCEPT !.current_watts = draw, !.peak_watts = peak]
          /\ running' = running \cup new
    BY DEF Start
  <1>3. /\ PreparedJobs /\ clock_ts \in Int /\ power \in PowerRecord
        /\ running \in SUBSET Holders /\ IsFiniteSet(running) /\ completed \in SUBSET Holders
        /\ \A h \in running : h.start_ts <= clock_ts
        /\ power.current_watts = Watts(running) /\ Watts(running) \in Nat
    BY TimedHolders
  <1>4. /\ new \in SUBSET Holders /\ IsFiniteSet(new)
        /\ \A h \in new : h.job \in S /\ h.start_ts = clock_ts /\ clock_ts <= h.end_ts
        /\ new \cap (running \cup completed) = {}
    BY StartingHolders
  <1>5. \A h \in new : h.end_ts = h.start_ts + Clip(jobs[h.job].runtime_actual_sec)
    BY DEF Startings, Starting
  <1>6. /\ power'.last_ts = power.last_ts /\ power'.peak_watts = peak
        /\ power'.energy_joules = power.energy_joules
        /\ power'.seconds_above_cap = power.seconds_above_cap /\ power'.joules_above_cap = power.joules_above_cap
    BY <1>2, <1>3 DEF PowerRecord
  <1>7. /\ Held(running \cup new, "watts") = Held(running, "watts") + Held(new, "watts")
        /\ Held(running, "watts") \in Nat /\ Held(new, "watts") \in Nat
    <2>1. "watts" \in Dimensions /\ running \cap new = {}
      BY <1>4 DEF Dimensions
    <2> QED
      BY <1>3, <1>4, <2>1, HeldUnion, HeldFinite
  <1>8. draw \in Int /\ power.peak_watts \in Int /\ peak \in Int /\ draw <= peak /\ power.peak_watts <= peak
    <2>1. draw \in Int /\ power.peak_watts \in Int
      BY <1>2, <1>3, <1>7 DEF Watts, PowerRecord
    <2>2. peak = IF power.peak_watts >= draw THEN power.peak_watts ELSE draw
      BY <1>2, <2>1, PairMax
    <2> QED
      BY <2>1, <2>2
  <1>9. MinSubmit' = MinSubmit /\ MinSubmit \in Int /\ MinSubmit <= clock_ts
    BY <1>1 DEF MinSubmit, Timed
  <1>10. Timed'
    <2>1. \A h \in new : MinSubmit <= h.start_ts /\ h.start_ts <= clock_ts
      BY <1>3, <1>4, <1>9
    <2> HIDE DEF new
    <2> QED
      BY <1>1, <1>2, <1>5, <1>6, <1>9, <2>1 DEF Timed
  <1>11. \A d \in Dimensions : /\ Spent(d, completed)' = Spent(d, completed)
                              /\ SoFar(d, running, clock_ts)' = SoFar(d, running, clock_ts)
    <2> SUFFICES ASSUME NEW d \in Dimensions
                 PROVE  /\ Spent(d, completed)' = Spent(d, completed)
                        /\ SoFar(d, running, clock_ts)' = SoFar(d, running, clock_ts)
      OBVIOUS
    <2>1. SoFar(d, running, clock_ts)' = SoFar(d, running \cup new, clock_ts)
      BY <1>1, <1>2 DEF SoFar, Asks
    <2>2. running \cap new = {} /\ \A h \in new : h.start_ts = clock_ts
      BY <1>4
    <2>3. SoFar(d, running \cup new, clock_ts) = SoFar(d, running, clock_ts)
      <3> HIDE DEF new
      <3> QED
        BY <1>3, <1>4, <2>2, SoFarStarts
    <2>4. Spent(d, completed)' = Spent(d, completed)
      BY <1>1 DEF Spent, Asks
    <2> QED
      BY <2>1, <2>3, <2>4
  <1>12. "watts" \in Dimensions /\ "cpus" \in Dimensions
    BY DEF Dimensions, Modelled
  <1>13. Totalled'
    <2>1. AllCompleted' = AllCompleted
      BY <1>1 DEF AllCompleted
    <2>2. /\ Spent("cpus", completed)' = Spent("cpus", completed)
          /\ SoFar("cpus", running, clock_ts)' = SoFar("cpus", running, clock_ts)
      BY <1>11, <1>12
    <2> QED
      BY <1>1, <1>9, <2>1, <2>2 DEF Totalled
  <1>14. \A ts \in Int : ts < clock_ts => Live(running \cup completed, ts)' = Live(all, ts)
    <2> SUFFICES ASSUME NEW ts \in Int, ts < clock_ts PROVE Live(running \cup completed, ts)' = Live(all, ts)
      OBVIOUS
    <2>1. Live(running \cup completed, ts)' = {h \in all \cup new : h.start_ts <= ts /\ ts < h.end_ts}
      BY <1>1, <1>2 DEF Live
    <2>2. \A h \in new : ~ (h.start_ts <= ts)
      BY <1>3, <1>4, <2>1
    <2> HIDE DEF all, new
    <2> QED
      BY <2>1, <2>2 DEF Live
  <1>15. \A ts \in MinSubmit..(clock_ts - 1) : Watts(Live(running \cup completed, ts))' = Watts(Live(all, ts))
    <2> SUFFICES ASSUME NEW ts \in MinSubmit..(clock_ts - 1)
                 PROVE  Watts(Live(running \cup completed, ts))' = Watts(Live(all, ts))
      OBVIOUS
    <2>1. Live(running \cup completed, ts)' = Live(all, ts)
      <3>1. ts \in Int /\ ts < clock_ts
        BY <1>3, <1>9
      <3> HIDE DEF all
      <3> QED
        BY <3>1, <1>14, Zenon
    <2> HIDE DEF all
    <2> QED
      BY <1>1, <2>1 DEF Watts, Held, Units, Asks
  <1>16. ASSUME power_cap_watts # NoCap
         PROVE  /\ Cardinality(Above(running \cup completed, MinSubmit, clock_ts))' = Cardinality(Above(all, MinSubmit, clock_ts))
                /\ Excess(running \cup completed, MinSubmit, clock_ts)' = Excess(all, MinSubmit, clock_ts)
    <2> DEFINE span == MinSubmit..(clock_ts - 1)
               after == [ts \in span |-> Over(running \cup completed, ts)']
               here == [ts \in span |-> Over(all, ts)]
    <2>1. Above(running \cup completed, MinSubmit, clock_ts)'
            = {ts \in span : Watts(Live(running \cup completed, ts))' > power_cap_watts}
      BY <1>1, <1>9 DEF Above
    <2>2. Above(all, MinSubmit, clock_ts) = {ts \in span : Watts(Live(all, ts)) > power_cap_watts}
      BY DEF Above
    <2>3. Excess(running \cup completed, MinSubmit, clock_ts)' = TotalOf(after, span)
      BY <1>1, <1>9 DEF Excess, TotalOf
    <2>4. Excess(all, MinSubmit, clock_ts) = TotalOf(here, span)
      BY DEF Excess
    <2> HIDE DEF all
    <2>5. \A ts \in span : Over(running \cup completed, ts)' = Over(all, ts)
      <3>1. power_cap_watts' = power_cap_watts
        BY <1>1
      <3> QED
        BY <3>1, <1>15, Zenon DEF Over, Clip
    <2>6. \A ts \in span : after[ts] = here[ts]
      BY <2>5
    <2>7. Above(running \cup completed, MinSubmit, clock_ts)' = Above(all, MinSubmit, clock_ts)
      BY <2>1, <2>2, <1>15
    <2> HIDE DEF span, after, here
    <2> QED
      BY <2>3, <2>4, <2>6, <2>7, TotalSame
  <1>17. Metered'
    <2>1. power'.energy_joules = (Spent("watts", completed) + SoFar("watts", running, clock_ts))'
      BY <1>6, <1>11, <1>12 DEF Metered
    <2>2. Watts(running)' <= power'.peak_watts
      <3>1. Held(running, "watts")' = Held(running \cup new, "watts")
        BY <1>1, <1>2 DEF Held, Units, Asks
      <3> HIDE DEF new
      <3> QED
        BY <1>2, <1>3, <1>6, <1>7, <1>8, <3>1 DEF Watts
    <2>3. \A ts \in MinSubmit..(clock_ts - 1) : Watts(Live(running \cup completed, ts))' <= power'.peak_watts
      <3> SUFFICES ASSUME NEW ts \in MinSubmit..(clock_ts - 1)
                   PROVE  Watts(Live(running \cup completed, ts))' <= power'.peak_watts
        OBVIOUS
      <3>1. Watts(Live(all, ts)) \in Nat
        <4>1. Live(all, ts) \in SUBSET Holders /\ IsFiniteSet(Live(all, ts))
          BY TimedHolders, FS_Subset DEF Live
        <4> QED
          BY <1>3, <1>12, <4>1, HeldFinite DEF Watts
      <3>2. Watts(Live(all, ts)) <= power.peak_watts
        BY DEF Metered
      <3> HIDE DEF all
      <3>3. Watts(Live(running \cup completed, ts))' = Watts(Live(all, ts))
        BY <1>15, Zenon
      <3>4. Watts(Live(all, ts)) <= power'.peak_watts
        BY <1>6, <1>8, <3>1, <3>2
      <3> QED
        BY <3>3, <3>4, Zenon
    <2>4. (MinSubmit..(clock_ts - 1))' = MinSubmit..(clock_ts - 1) /\ power_cap_watts' = power_cap_watts
      BY <1>1, <1>9
    <2>5. power_cap_watts # NoCap =>
            /\ power.seconds_above_cap = Cardinality(Above(all, MinSubmit, clock_ts))
            /\ power.joules_above_cap = Excess(all, MinSubmit, clock_ts)
      BY DEF Metered
    <2> HIDE DEF all, new
    <2> QED
      BY <1>6, <1>16, <2>1, <2>2, <2>3, <2>4, <2>5 DEF Metered
  <1> QED
    BY <1>10, <1>13, <1>17

(* Nothing has been read at the start.                                     *)
LEMMA MeterInit ==
  ASSUME RustInit
  PROVE  MeterInv
  <1>1. RustInv
    BY RustInitInv
  <1>2. /\ running = {} /\ completed = {} /\ clock_ts = MinSubmit /\ MinSubmit \in Int
        /\ power = NewPowerProfile(MinSubmit) /\ pc # "reported"
        /\ totals = [cpu_seconds |-> 0, gpu_seconds |-> 0, max_end_ts |-> MinSubmit]
    BY <1>1 DEF RustInit, RustInv, RustTypeOK
  <1>3. /\ power.current_watts = 0 /\ power.peak_watts = 0 /\ power.energy_joules = 0
        /\ power.seconds_above_cap = 0 /\ power.joules_above_cap = 0 /\ power.last_ts = MinSubmit
    BY <1>2 DEF NewPowerProfile
  <1>4. \A d : Spent(d, completed) = 0 /\ SoFar(d, running, clock_ts) = 0
    BY <1>2, TotalNone DEF Spent, SoFar
  <1>5. MinSubmit..(clock_ts - 1) = {}
    BY <1>2
  <1>6. Above(running \cup completed, MinSubmit, clock_ts) = {}
    BY <1>5 DEF Above
  <1>7. Excess(running \cup completed, MinSubmit, clock_ts) = 0
    BY <1>5, TotalNone DEF Excess
  <1>8. Timed
    BY <1>2, <1>3 DEF Timed
  <1>9. Metered
    <2>1. Watts(running) <= power.peak_watts
      BY <1>2, <1>3, HeldNone DEF Watts
    <2>2. Cardinality(Above(running \cup completed, MinSubmit, clock_ts)) = 0
      BY <1>6, FS_EmptySet
    <2>3. power.energy_joules = Spent("watts", completed) + SoFar("watts", running, clock_ts)
      BY <1>3, <1>4
    <2> QED
      BY <1>3, <1>5, <1>7, <2>1, <2>2, <2>3 DEF Metered
  <1>10. Totalled
    <2>1. Capacity.cpus \in Nat
      BY RustAssumption DEF Modelled
    <2>2. Capacity.cpus * (clock_ts - MinSubmit) = 0
      <3>1. clock_ts - MinSubmit = 0
        BY <1>2
      <3>2. \A m \in Nat : m * 0 = 0
        OBVIOUS
      <3> QED
        BY <2>1, <3>1, <3>2
    <2>3. totals.cpu_seconds = 0 /\ totals.max_end_ts = MinSubmit /\ DOMAIN totals = {"cpu_seconds", "gpu_seconds", "max_end_ts"}
      BY <1>2
    <2> QED
      BY <1>2, <1>4, <2>2, <2>3 DEF Totalled
  <1> QED
    BY <1>1, <1>2, <1>8, <1>9, <1>10 DEF MeterInv, Reported

(* When as many are completed as there are jobs, each is, and none runs.   *)
LEMMA EachIsCompleted ==
  ASSUME RustInv, AllCompleted
  PROVE  /\ running = {} /\ Cardinality(completed) = Len(jobs)
         /\ \A j \in 1..Len(jobs) : \E h \in completed : h.job = j
  <1>1. /\ running \in SUBSET Holders /\ completed \in SUBSET Holders /\ IsFiniteSet(completed)
        /\ Len(jobs) \in Nat
    BY JobFields DEF RustInv, RustTypeOK
  <1>2. (\A g, h \in running \cup completed : g.job = h.job => g = h) /\ running \cap completed = {}
    BY DEF RustInv, Places
  <1>3. IsFiniteSet(1..Len(jobs)) /\ Cardinality(1..Len(jobs)) = Len(jobs)
    <2>1. PICK n \in Nat : n = Len(jobs)
      BY <1>1
    <2>2. IsFiniteSet(1..n) /\ Cardinality(1..n) = n
      BY FS_Interval
    <2> QED
      BY <2>1, <2>2
  <1> DEFINE f == [h \in completed |-> h.job]
  <1>4. f \in Injection(completed, 1..Len(jobs))
    <2>1. \A h \in completed : h.job \in 1..Len(jobs)
      BY <1>1 DEF Holders
    <2>2. f \in [completed -> 1..Len(jobs)]
      BY <2>1
    <2>3. \A g, h \in completed : f[g] = f[h] => g = h
      BY <1>2
    <2> HIDE DEF f
    <2> QED
      BY <2>2, <2>3 DEF Injection, IsInjective
  <1> HIDE DEF f
  <1>5. Cardinality(completed) \in Nat /\ Cardinality(completed) <= Len(jobs)
    BY <1>1, <1>3, <1>4, FS_Injection, FS_CardinalityType
  <1>6. Cardinality(completed) = Len(jobs)
    BY <1>1, <1>5 DEF AllCompleted
  <1>7. f \in Surjection(completed, 1..Len(jobs))
    BY <1>3, <1>4, <1>6, FS_Injection
  <1>8. \A j \in 1..Len(jobs) : \E h \in completed : h.job = j
    BY <1>7 DEF Surjection, f
  <1>9. running = {}
    <2> SUFFICES ASSUME NEW r \in running PROVE FALSE
      OBVIOUS
    <2>1. PICK h \in completed : h.job = r.job
      BY <1>1, <1>8 DEF Holders
    <2> QED
      BY <1>2, <2>1
  <1> QED
    BY <1>6, <1>8, <1>9

(* What the report rests on holds of every run.                            *)
LEMMA MeterStep ==
  ASSUME MeterInv, [RustNext]_rvars
  PROVE  MeterInv'
  <1>1. RustInv /\ Timed /\ Metered /\ Totalled /\ Reported
    BY DEF MeterInv
  <1>2. RustInv'
    BY <1>1, RustStep
  <1>3. CASE Advance
    <2>1. pc' = "dispatch"
      BY <1>3 DEF Advance
    <2> QED
      BY <1>1, <1>2, <1>3, <2>1, AdvanceMetered, AdvanceTotalled DEF MeterInv, Reported
  <1>4. CASE Dispatch
    <2>1. pc = "dispatch" /\ UNCHANGED <<arguments, clock_ts, completed, totals>>
      BY <1>4, DispatchParts
    <2>2. PICK S \in SUBSET queued : Start(S)
      <3>1. CASE Start(FrontJobs)
        BY <1>1, <2>1, <3>1, FrontFits
      <3>2. CASE \E behind \in Backfills(Rest \ {Min(Rest)}, LeftBehind, HeadTime) :
                   Start(FrontJobs \cup behind)
        <4>1. PICK behind \in Backfills(Rest \ {Min(Rest)}, LeftBehind, HeadTime) :
                Start(FrontJobs \cup behind)
          BY <3>2
        <4>2. behind \in SUBSET (Rest \ {Min(Rest)})
          BY <1>1, <2>1, StartedFits
        <4>3. FrontJobs \cup behind \in SUBSET queued
          BY <1>1, <2>1, <4>2, FrontFits DEF Rest
        <4> QED
          BY <4>1, <4>3
      <3> QED
        BY <1>4, <3>1, <3>2, DispatchParts
    <2>3. pc' # "reported"
      BY <1>1, <1>4, DispatchInv
    <2>4. Timed' /\ Metered' /\ Totalled'
      BY <1>1, <2>1, <2>2, StartMeters
    <2> QED
      BY <1>2, <2>3, <2>4 DEF MeterInv, Reported
  <1>5. CASE WriteReport \/ UNCHANGED rvars
    <2>1. UNCHANGED <<jobs, power_cap_watts, clock_ts, running, completed, power, totals, violations>>
      BY <1>5 DEF WriteReport, rvars, arguments
    <2>2. Timed'
      BY <1>1, <2>1 DEF Timed, MinSubmit
    <2>3. MinSubmit' = MinSubmit /\ AllCompleted' = AllCompleted
      BY <2>1 DEF MinSubmit, AllCompleted
    <2>4. Metered'
      BY <1>1, <2>1, <2>3 DEF Metered, Spent, SoFar, Above, Excess, Over, Live, Watts, Held, Units, Asks, TotalOf
    <2>5. Totalled'
      BY <1>1, <2>1, <2>3 DEF Totalled, Spent, SoFar, Asks
    <2>6. Metrics' = Metrics
      BY <2>1, <2>3 DEF Metrics, ByJob, WaitOf, Makespan, HasPowerData
    <2>7. Reported'
      <3>1. CASE WriteReport
        <4>1. report' = Metrics /\ (AllCompleted \/ EventTimes = {})
          BY <3>1 DEF WriteReport
        <4>2. running = {}
          <5>1. EventTimes = {} => running = {}
            BY DEF EventTimes
          <5> QED
            BY <1>1, <4>1, <5>1, EachIsCompleted
        <4> QED
          BY <2>1, <2>6, <4>1, <4>2 DEF Reported
      <3>2. CASE UNCHANGED rvars
        BY <1>1, <2>1, <2>6, <3>2 DEF Reported, rvars
      <3> QED
        BY <1>5, <3>1, <3>2
    <2> QED
      BY <1>2, <2>2, <2>4, <2>5, <2>7 DEF MeterInv
  <1> QED
    BY <1>3, <1>4, <1>5 DEF RustNext, RustTerminated

-----------------------------------------------------------------------------
(* The report.                                                             *)

(* What is completed in the order of the trace: each of it once.           *)
LEMMA ByJobIs ==
  ASSUME RustInv
  PROVE  ByJob \in Bijection(1..Cardinality(completed), completed)
  <1> DEFINE n == Cardinality(completed)
             earlier(h) == {g \in completed : g.job < h.job}
             place == [h \in completed |-> 1 + Cardinality(earlier(h))]
  <1>1. completed \in SUBSET Holders /\ IsFiniteSet(completed) /\ n \in Nat
    BY FS_CardinalityType DEF RustInv, RustTypeOK
  <1>2. \A g, h \in completed : g.job = h.job => g = h
    BY DEF RustInv, Places
  <1>3. \A h \in completed : h.job \in Int
    <2>1. Len(jobs) \in Nat
      BY JobFields DEF RustInv, RustTypeOK
    <2> QED
      BY <1>1, <2>1 DEF Holders
  <1>4. \A h \in completed : /\ earlier(h) \in SUBSET completed /\ h \notin earlier(h)
                             /\ IsFiniteSet(earlier(h)) /\ Cardinality(earlier(h)) \in Nat
    <2> TAKE h \in completed
    <2>1. earlier(h) \in SUBSET completed /\ h \notin earlier(h)
      BY <1>3
    <2>2. IsFiniteSet(earlier(h)) /\ Cardinality(earlier(h)) \in Nat
      <3> HIDE DEF earlier
      <3> QED
        BY <1>1, <2>1, FS_Subset, FS_CardinalityType
    <2> QED
      BY <2>1, <2>2
  <1>5. ASSUME NEW g \in completed, NEW h \in completed, g.job < h.job
        PROVE  Cardinality(earlier(g)) < Cardinality(earlier(h))
    <2>1. earlier(g) \in SUBSET earlier(h) /\ g \in earlier(h) /\ g \notin earlier(g)
      BY <1>3, <1>5
    <2>2. Cardinality(earlier(g)) <= Cardinality(earlier(h)) /\ Cardinality(earlier(g)) # Cardinality(earlier(h))
      <3>1. IsFiniteSet(earlier(h)) /\ earlier(g) # earlier(h)
        BY <1>4, <2>1
      <3> HIDE DEF earlier
      <3> QED
        BY <2>1, <3>1, FS_Subset
    <2>3. Cardinality(earlier(g)) \in Nat /\ Cardinality(earlier(h)) \in Nat
      BY <1>4
    <2> HIDE DEF earlier
    <2> QED
      BY <2>2, <2>3
  <1>6. \A h \in completed : place[h] \in 1..n /\ place[h] = 1 + Cardinality(earlier(h))
    <2> TAKE h \in completed
    <2>1. Cardinality(earlier(h)) <= n /\ Cardinality(earlier(h)) # n
      <3>1. earlier(h) \in SUBSET completed /\ earlier(h) # completed
        BY <1>4
      <3> HIDE DEF earlier
      <3> QED
        BY <1>1, <3>1, FS_Subset
    <2>2. Cardinality(earlier(h)) \in Nat
      BY <1>4
    <2> HIDE DEF earlier, n
    <2> QED
      BY <1>1, <2>1, <2>2
  <1>7. \A g, h \in completed : place[g] = place[h] => g = h
    <2> SUFFICES ASSUME NEW g \in completed, NEW h \in completed, g # h PROVE place[g] # place[h]
      OBVIOUS
    <2>1. g.job < h.job \/ h.job < g.job
      BY <1>2, <1>3
    <2>2. Cardinality(earlier(g)) < Cardinality(earlier(h)) \/ Cardinality(earlier(h)) < Cardinality(earlier(g))
      BY <1>5, <2>1
    <2>3. Cardinality(earlier(g)) \in Nat /\ Cardinality(earlier(h)) \in Nat
      BY <1>4
    <2>4. place[g] = 1 + Cardinality(earlier(g)) /\ place[h] = 1 + Cardinality(earlier(h))
      BY <1>6
    <2> HIDE DEF earlier, place
    <2> QED
      BY <2>2, <2>3, <2>4
  <1>8. place \in Injection(completed, 1..n)
    <2>1. place \in [completed -> 1..n]
      BY <1>6
    <2> HIDE DEF place, n
    <2> QED
      BY <1>7, <2>1 DEF Injection, IsInjective
  <1>9. \A i \in 1..n : \E h \in completed : place[h] = i
    <2>1. IsFiniteSet(1..n) /\ Cardinality(1..n) = n
      <3> HIDE DEF n
      <3> QED
        BY <1>1, FS_Interval
    <2> HIDE DEF place
    <2>2. place \in Surjection(completed, 1..n)
      BY <1>8, <2>1, FS_Injection
    <2> QED
      BY <2>2 DEF Surjection
  <1>10. ASSUME NEW i \in 1..n
         PROVE  ByJob[i] \in completed /\ place[ByJob[i]] = i
    <2>1. ByJob[i] = CHOOSE h \in completed : Cardinality(earlier(h)) = i - 1
      BY DEF ByJob
    <2>2. PICK h \in completed : place[h] = i
      BY <1>9
    <2>3. Cardinality(earlier(h)) = i - 1
      <3>1. Cardinality(earlier(h)) \in Nat /\ place[h] = 1 + Cardinality(earlier(h))
        BY <1>4, <1>6
      <3> HIDE DEF earlier, place
      <3> QED
        BY <2>2, <3>1
    <2>4. ByJob[i] \in completed /\ Cardinality(earlier(ByJob[i])) = i - 1
      BY <2>1, <2>3, Zenon
    <2>5. place[ByJob[i]] = 1 + (i - 1)
      BY <1>6, <2>4
    <2> HIDE DEF earlier, place
    <2> QED
      BY <2>4, <2>5
  <1>11. ByJob \in [1..n -> completed]
    <2> DEFINE at(i) == CHOOSE h \in completed : Cardinality({g \in completed : g.job < h.job}) = i - 1
    <2>1. ByJob = [i \in 1..n |-> at(i)]
      BY DEF ByJob
    <2> HIDE DEF at, place, n
    <2>2. \A i \in 1..n : at(i) \in completed
      BY <1>10, <2>1
    <2> QED
      BY <2>1, <2>2
  <1>12. \A i, k \in 1..n : ByJob[i] = ByJob[k] => i = k
    <2> HIDE DEF place
    <2> QED
      BY <1>10
  <1>13. \A h \in completed : \E i \in 1..n : ByJob[i] = h
    <2> HIDE DEF place, n
    <2> SUFFICES ASSUME NEW h \in completed PROVE place[h] \in 1..n /\ ByJob[place[h]] = h
      OBVIOUS
    <2>1. place[h] \in 1..n
      BY <1>6
    <2>2. ByJob[place[h]] \in completed /\ place[ByJob[place[h]]] = place[h]
      BY <1>10, <2>1
    <2> QED
      BY <1>7, <2>1, <2>2
  <1> HIDE DEF n
  <1>14. ByJob \in Bijection(1..n, completed)
    BY <1>11, <1>12, <1>13 DEF Bijection, Injection, IsInjective, Surjection
  <1> QED
    BY <1>14 DEF n

(* The rows that the Python formulas read.                                 *)
RowsByJob ==
  [i \in DOMAIN ByJob |->
     [submit_ts |-> jobs[ByJob[i].job].submit_ts,
      start_ts |-> ByJob[i].start_ts, end_ts |-> ByJob[i].end_ts,
      requested_cpus |-> jobs[ByJob[i].job].requested.cpus]]

(* What the rows of a complete run hold.                                   *)
LEMMA RowsAre ==
  ASSUME MeterInv
  PROVE  /\ DOMAIN RowsByJob = 1..Cardinality(completed) /\ DOMAIN ByJob = 1..Cardinality(completed)
         /\ Cardinality(completed) \in Nat /\ Len(RowsByJob) = Cardinality(completed)
         /\ \A i \in 1..Cardinality(completed) :
              /\ ByJob[i] \in completed
              /\ Clip(RowsByJob[i].start_ts - RowsByJob[i].submit_ts) = WaitOf(ByJob[i])
              /\ Clip(RowsByJob[i].end_ts - RowsByJob[i].start_ts) = ByJob[i].end_ts - ByJob[i].start_ts
              /\ RowsByJob[i].requested_cpus = Asks(ByJob[i].job, "cpus")
              /\ RowsByJob[i].end_ts = ByJob[i].end_ts
              /\ RowsByJob[i].submit_ts = jobs[ByJob[i].job].submit_ts
  <1>1. RustInv /\ Timed
    BY DEF MeterInv
  <1>2. PICK n \in Nat : n = Cardinality(completed)
    BY <1>1, FS_CardinalityType DEF RustInv, RustTypeOK
  <1>3. ByJob \in [1..n -> completed]
    BY <1>1, <1>2, ByJobIs DEF Bijection, Injection
  <1>4. DOMAIN ByJob = 1..n /\ DOMAIN RowsByJob = 1..n
    BY <1>3 DEF RowsByJob
  <1>5. Len(RowsByJob) = n
    <2>1. RowsByJob = [i \in 1..n |-> RowsByJob[i]]
      BY <1>4 DEF RowsByJob
    <2> QED
      BY <1>2, <2>1
  <1>6. ASSUME NEW i \in 1..n
        PROVE  /\ ByJob[i] \in completed
               /\ Clip(RowsByJob[i].start_ts - RowsByJob[i].submit_ts) = WaitOf(ByJob[i])
               /\ Clip(RowsByJob[i].end_ts - RowsByJob[i].start_ts) = ByJob[i].end_ts - ByJob[i].start_ts
               /\ RowsByJob[i].requested_cpus = Asks(ByJob[i].job, "cpus")
               /\ RowsByJob[i].end_ts = ByJob[i].end_ts
               /\ RowsByJob[i].submit_ts = jobs[ByJob[i].job].submit_ts
    <2>1. ByJob[i] \in completed /\ ByJob[i] \in Holders
      BY <1>1, <1>3 DEF RustInv, RustTypeOK
    <2>2. /\ RowsByJob[i].submit_ts = jobs[ByJob[i].job].submit_ts
          /\ RowsByJob[i].start_ts = ByJob[i].start_ts /\ RowsByJob[i].end_ts = ByJob[i].end_ts
          /\ RowsByJob[i].requested_cpus = jobs[ByJob[i].job].requested.cpus
      BY <1>4 DEF RowsByJob
    <2>3. ByJob[i].start_ts \in Int /\ ByJob[i].end_ts \in Int /\ ByJob[i].start_ts <= ByJob[i].end_ts
      BY <1>1, <2>1, TimedHolders DEF Holders
    <2>4. Clip(ByJob[i].end_ts - ByJob[i].start_ts) = ByJob[i].end_ts - ByJob[i].start_ts
      BY <2>3 DEF Clip
    <2> QED
      BY <2>1, <2>2, <2>4 DEF WaitOf, Asks
  <1> QED
    BY <1>2, <1>4, <1>5, <1>6

(* The last end of what is completed.                                      *)
LEMMA LastEnd ==
  ASSUME MeterInv, completed # {}
  PROVE  Max({h.end_ts : h \in completed}) = totals.max_end_ts
  <1> DEFINE ends == {h.end_ts : h \in completed}
  <1>0. /\ completed \in SUBSET Holders /\ IsFiniteSet(completed)
        /\ totals.max_end_ts \in Int /\ (\E h \in completed : h.end_ts = totals.max_end_ts)
        /\ \A h \in completed : h.end_ts <= totals.max_end_ts
    BY DEF MeterInv, RustInv, RustTypeOK, Totalled
  <1>1. ends \in SUBSET Int /\ ends # {}
    <2>1. \A h \in completed : h.end_ts \in Int
      BY <1>0 DEF Holders
    <2> QED
      BY <2>1
  <1>2. IsFiniteSet(ends)
    <2> DEFINE f == [h \in completed |-> h.end_ts]
    <2>1. DOMAIN f = completed /\ {f[x] : x \in DOMAIN f} = ends
      OBVIOUS
    <2> HIDE DEF f, ends
    <2> QED
      BY <1>0, <2>1, ImageIsFinite
  <1>3. totals.max_end_ts \in ends /\ \A e \in ends : e <= totals.max_end_ts
    BY <1>0
  <1> HIDE DEF ends
  <1>4. Max(ends) \in ends /\ \A e \in ends : e <= Max(ends)
    BY <1>1, <1>2, MaxOfFinite
  <1>5. PICK m \in Int : m = Max(ends)
    BY <1>1, <1>4
  <1>6. m <= totals.max_end_ts /\ totals.max_end_ts <= m
    BY <1>3, <1>4, <1>5
  <1>7. Max(ends) = totals.max_end_ts
    BY <1>0, <1>5, <1>6
  <1> QED
    BY <1>7 DEF ends

(* The makespan is that of the rows.                                       *)
LEMMA MakespanIs ==
  ASSUME MeterInv, Cardinality(completed) = Len(jobs), completed # {}
  PROVE  /\ Max({RowsByJob[i].end_ts : i \in DOMAIN RowsByJob}) = totals.max_end_ts
         /\ Min({RowsByJob[i].submit_ts : i \in DOMAIN RowsByJob}) = MinSubmit
  <1> DEFINE n == Cardinality(completed)
             ends == {RowsByJob[i].end_ts : i \in DOMAIN RowsByJob}
             submits == {RowsByJob[i].submit_ts : i \in DOMAIN RowsByJob}
  <1>1. RustInv /\ Timed /\ Totalled
    BY DEF MeterInv
  <1>2. /\ DOMAIN RowsByJob = 1..n /\ n \in Nat
        /\ \A i \in 1..n : /\ ByJob[i] \in completed /\ RowsByJob[i].end_ts = ByJob[i].end_ts
                           /\ RowsByJob[i].submit_ts = jobs[ByJob[i].job].submit_ts
    BY RowsAre
  <1>3. ByJob \in Surjection(1..n, completed)
    BY <1>1, ByJobIs DEF Bijection
  <1>4. \A h \in completed : \E i \in 1..n : ByJob[i] = h
    BY <1>3 DEF Surjection
  <1>5. ends = {h.end_ts : h \in completed} /\ submits = {jobs[h.job].submit_ts : h \in completed}
    <2> HIDE DEF n
    <2>1. ends = {RowsByJob[i].end_ts : i \in 1..n} /\ submits = {RowsByJob[i].submit_ts : i \in 1..n}
      BY <1>2
    <2> HIDE DEF ends, submits
    <2>2. {RowsByJob[i].end_ts : i \in 1..n} = {ByJob[i].end_ts : i \in 1..n}
      BY <1>2
    <2>3. {RowsByJob[i].submit_ts : i \in 1..n} = {jobs[ByJob[i].job].submit_ts : i \in 1..n}
      BY <1>2
    <2>4. {ByJob[i].end_ts : i \in 1..n} = {h.end_ts : h \in completed}
      BY <1>2, <1>4
    <2>5. {jobs[ByJob[i].job].submit_ts : i \in 1..n} = {jobs[h.job].submit_ts : h \in completed}
      BY <1>2, <1>4
    <2> QED
      BY <2>1, <2>2, <2>3, <2>4, <2>5
  <1>6. /\ PreparedJobs /\ completed \in SUBSET Holders /\ IsFiniteSet(completed)
        /\ totals.max_end_ts \in Int /\ (\E h \in completed : h.end_ts = totals.max_end_ts)
        /\ \A h \in completed : h.end_ts <= totals.max_end_ts
    BY <1>1 DEF RustInv, RustTypeOK, Totalled
  <1>7. Max(ends) = totals.max_end_ts
    <2> HIDE DEF ends
    <2> QED
      BY <1>5, LastEnd
  <1>8. Min(submits) = MinSubmit
    <2> HIDE DEF submits
    <2>1. submits \in SUBSET Int /\ submits # {}
      <3>1. \A h \in completed : h.job \in 1..Len(jobs)
        BY <1>6 DEF Holders
      <3>2. \A h \in completed : jobs[h.job].submit_ts \in Int
        BY <1>6, <3>1, JobFields
      <3> QED
        BY <1>5, <1>6, <3>2
    <2>2. IsFiniteSet(submits)
      <3> DEFINE f == [h \in completed |-> jobs[h.job].submit_ts]
      <3>1. DOMAIN f = completed /\ {f[x] : x \in DOMAIN f} = submits
        BY <1>5
      <3> HIDE DEF f
      <3> QED
        BY <1>6, <3>1, ImageIsFinite
    <2>3. MinSubmit \in submits /\ \A s \in submits : MinSubmit <= s
      <3>1. Len(jobs) \in Nat /\ \A j \in 1..Len(jobs) : \E h \in completed : h.job = j
        <4>1. Len(jobs) \in Nat /\ AllCompleted
          BY <1>6, JobFields DEF AllCompleted
        <4> QED
          BY <1>1, <4>1, EachIsCompleted
      <3>2. PICK g \in completed : g.job \in 1..Len(jobs)
        BY <1>6 DEF Holders
      <3>3. 1 \in 1..Len(jobs) /\ jobs # <<>>
        BY <3>1, <3>2
      <3>4. MinSubmit = jobs[1].submit_ts
        BY <3>3 DEF MinSubmit
      <3>5. MinSubmit \in submits
        BY <1>5, <3>1, <3>3, <3>4
      <3>6. \A j \in 1..Len(jobs) : jobs[1].submit_ts <= jobs[j].submit_ts
        BY <1>6, <3>1, <3>3 DEF PreparedJobs
      <3>7. \A h \in completed : MinSubmit <= jobs[h.job].submit_ts
        BY <1>6, <3>4, <3>6 DEF Holders
      <3> QED
        BY <1>5, <3>5, <3>7
    <2> HIDE DEF submits
    <2>4. Min(submits) \in submits /\ \A s \in submits : Min(submits) <= s
      BY <2>1, <2>2, MinOfFinite
    <2>5. PICK m \in Int : m = Min(submits)
      BY <2>1, <2>4
    <2>6. m <= MinSubmit /\ MinSubmit <= m /\ MinSubmit \in Int
      BY <2>1, <2>3, <2>4, <2>5
    <2> QED
      BY <2>5, <2>6
  <1> QED
    BY <1>7, <1>8

(* The figures of the report.                                              *)
LEMMA ReportFigures ==
  ASSUME report = Metrics
  PROVE  /\ report.jobs_completed = Cardinality(completed)
         /\ report.wait_sec = TotalOf([h \in completed |-> WaitOf(h)], completed)
         /\ report.p95_wait = P95([i \in DOMAIN ByJob |-> WaitOf(ByJob[i])])
         /\ report.p95_bsld = P95([i \in DOMAIN ByJob |->
               Bsld(WaitOf(ByJob[i]), ByJob[i].end_ts - ByJob[i].start_ts, BsldFloorSec)])
         /\ report.makespan_sec = Makespan
         /\ report.utilization = Utilization(totals.cpu_seconds, Capacity.cpus, Makespan)
  BY DEF Metrics

(* No second of the machine is counted twice.                              *)
LEMMA NoMoreThanCapacity ==
  ASSUME MeterInv, AllCompleted
  PROVE  totals.cpu_seconds <= Capacity.cpus * Makespan
  <1>1. RustInv /\ Timed /\ Totalled
    BY DEF MeterInv
  <1>2. running = {}
    BY <1>1, EachIsCompleted
  <1>3. SoFar("cpus", {}, clock_ts) = 0
    BY TotalNone DEF SoFar
  <1>4. PICK seconds : seconds = totals.cpu_seconds
    OBVIOUS
  <1>5. seconds \in Nat
    <2>1. /\ PreparedJobs /\ completed \in SUBSET Holders /\ IsFiniteSet(completed)
          /\ \A h \in completed : h.start_ts <= h.end_ts
      BY <1>1, TimedHolders
    <2>2. Spent("cpus", completed) \in Nat
      BY <2>1, SpentNat DEF Dimensions, Modelled
    <2> QED
      BY <1>1, <1>4, <2>2 DEF Totalled
  <1>6. seconds + 0 <= Capacity.cpus * (clock_ts - MinSubmit)
    BY <1>1, <1>2, <1>3, <1>4 DEF Totalled
  <1>7. Makespan = clock_ts - MinSubmit
    <2>1. totals.max_end_ts = clock_ts /\ MinSubmit \in Int /\ clock_ts \in Int /\ MinSubmit <= clock_ts
      BY <1>1, TimedHolders DEF Totalled, Timed
    <2> QED
      BY <2>1 DEF Makespan, Clip
  <1> QED
    BY <1>4, <1>5, <1>6, <1>7

(* A run of no job reports what the Python formulas give for no row.       *)
LEMMA ParityOfNothing ==
  ASSUME MeterInv, report = Metrics, completed = {}
  PROVE  LET python == ComputeJobMetrics(RowsByJob, Capacity.cpus, BsldFloorSec)
         IN  /\ report.jobs_completed = python.job_count
             /\ report.wait_sec = python.wait_sec
             /\ report.p95_wait = python.p95_wait
             /\ report.p95_bsld = python.p95_bsld
             /\ report.makespan_sec = python.makespan_sec
             /\ report.utilization = python.utilization
  <1>1. Timed /\ Totalled
    BY DEF MeterInv
  <1>2. Cardinality(completed) = 0
    BY FS_EmptySet
  <1>3. DOMAIN ByJob = {} /\ DOMAIN RowsByJob = {}
    <2>1. DOMAIN ByJob = 1..0 /\ DOMAIN RowsByJob = 1..0
      BY <1>2, RowsAre
    <2> QED
      BY <2>1
  <1>4. RowsByJob = <<>>
    BY <1>3 DEF RowsByJob
  <1>5. ComputeJobMetrics(RowsByJob, Capacity.cpus, BsldFloorSec)
          = [job_count |-> 0, wait_sec |-> 0, p95_wait |-> 0, p95_bsld |-> 0,
             makespan_sec |-> 0, utilization |-> <<0, 1>>]
    BY <1>4 DEF ComputeJobMetrics
  <1>6. Makespan = 0
    BY <1>1 DEF Makespan, Clip, Totalled, Timed
  <1>7. report.utilization = <<0, 1>>
    BY <1>6, ReportFigures DEF Utilization
  <1>8. report.wait_sec = 0
    BY ReportFigures, TotalNone
  <1>9. report.p95_wait = 0
    <2>1. [i \in DOMAIN ByJob |-> WaitOf(ByJob[i])] = <<>>
      BY <1>3
    <2> QED
      BY <2>1, ReportFigures DEF P95
  <1>10. report.p95_bsld = 0
    <2>1. [i \in DOMAIN ByJob |->
             Bsld(WaitOf(ByJob[i]), ByJob[i].end_ts - ByJob[i].start_ts, BsldFloorSec)] = <<>>
      BY <1>3
    <2> QED
      BY <2>1, ReportFigures DEF P95
  <1> QED
    BY <1>2, <1>5, <1>6, <1>7, <1>8, <1>9, <1>10, ReportFigures

(* The sums over the rows are those over what is completed.                *)
LEMMA RowSums ==
  ASSUME MeterInv
  PROVE  /\ TotalOf([i \in DOMAIN RowsByJob |-> Clip(RowsByJob[i].start_ts - RowsByJob[i].submit_ts)],
                    DOMAIN RowsByJob)
              = TotalOf([h \in completed |-> WaitOf(h)], completed)
         /\ TotalOf([i \in DOMAIN RowsByJob |->
                       RowsByJob[i].requested_cpus * Clip(RowsByJob[i].end_ts - RowsByJob[i].start_ts)],
                    DOMAIN RowsByJob)
              = totals.cpu_seconds
  <1> DEFINE n == Cardinality(completed)
             waits == [i \in DOMAIN RowsByJob |-> Clip(RowsByJob[i].start_ts - RowsByJob[i].submit_ts)]
             areas == [i \in DOMAIN RowsByJob |->
                         RowsByJob[i].requested_cpus * Clip(RowsByJob[i].end_ts - RowsByJob[i].start_ts)]
             wait == [h \in completed |-> WaitOf(h)]
             area == [h \in completed |-> Asks(h.job, "cpus") * (h.end_ts - h.start_ts)]
  <1>1. RustInv /\ Timed /\ Totalled
    BY DEF MeterInv
  <1>2. /\ PreparedJobs /\ completed \in SUBSET Holders /\ IsFiniteSet(completed)
        /\ \A h \in completed : h.start_ts <= h.end_ts
    BY <1>1, TimedHolders
  <1>3. /\ DOMAIN RowsByJob = 1..n /\ n \in Nat
        /\ \A i \in 1..n :
             /\ ByJob[i] \in completed
             /\ Clip(RowsByJob[i].start_ts - RowsByJob[i].submit_ts) = WaitOf(ByJob[i])
             /\ Clip(RowsByJob[i].end_ts - RowsByJob[i].start_ts) = ByJob[i].end_ts - ByJob[i].start_ts
             /\ RowsByJob[i].requested_cpus = Asks(ByJob[i].job, "cpus")
    BY RowsAre
  <1>4. ByJob \in Bijection(1..n, completed)
    BY <1>1, ByJobIs
  <1>5. \A h \in completed : WaitOf(h) \in Nat
    <2> SUFFICES ASSUME NEW h \in completed PROVE WaitOf(h) \in Nat
      OBVIOUS
    <2>1. h.start_ts \in Int /\ h.job \in 1..Len(jobs)
      BY <1>2 DEF Holders
    <2>2. jobs[h.job].submit_ts \in Int
      BY <1>2, <2>1, JobFields
    <2> QED
      BY <2>1, <2>2 DEF WaitOf, Clip
  <1>6. \A h \in completed : Asks(h.job, "cpus") * (h.end_ts - h.start_ts) \in Nat
    BY <1>2, SpentNat DEF Dimensions, Modelled
  <1>7. IsFiniteSet(1..n)
    <2>1. PICK m \in Nat : m = n
      BY <1>3
    <2> HIDE DEF n
    <2> QED
      BY <2>1, FS_Interval
  <1>8. TotalOf(waits, 1..n) = TotalOf(wait, completed)
    <2>1. ASSUME NEW i \in 1..n PROVE waits[i] \in Nat /\ waits[i] = wait[ByJob[i]]
      <3>1. waits[i] = Clip(RowsByJob[i].start_ts - RowsByJob[i].submit_ts)
        BY <1>3
      <3>2. wait[ByJob[i]] = WaitOf(ByJob[i]) /\ WaitOf(ByJob[i]) \in Nat
        BY <1>3, <1>5
      <3>3. Clip(RowsByJob[i].start_ts - RowsByJob[i].submit_ts) = WaitOf(ByJob[i])
        BY <1>3
      <3> HIDE DEF waits, wait
      <3> QED
        BY <3>1, <3>2, <3>3
    <2>2. \A i \in 1..n : waits[i] \in Nat
      BY <2>1
    <2>3. \A i \in 1..n : waits[i] = wait[ByJob[i]]
      BY <2>1
    <2>4. PICK f, places : f = ByJob /\ places = 1..n
      OBVIOUS
    <2> HIDE DEF waits, wait, n
    <2>5. /\ IsFiniteSet(places) /\ f \in Bijection(places, completed)
          /\ \A i \in places : waits[i] \in Nat
          /\ \A i \in places : waits[i] = wait[f[i]]
      BY <1>4, <1>7, <2>2, <2>3, <2>4
    <2>6. TotalOf(waits, places) = TotalOf(wait, completed)
      BY <2>5, TotalMoved
    <2> QED
      BY <2>4, <2>6
  <1>9. TotalOf(areas, 1..n) = TotalOf(area, completed)
    <2>1. ASSUME NEW i \in 1..n PROVE areas[i] \in Nat /\ areas[i] = area[ByJob[i]]
      <3>1. areas[i] = RowsByJob[i].requested_cpus * Clip(RowsByJob[i].end_ts - RowsByJob[i].start_ts)
        BY <1>3
      <3>2. area[ByJob[i]] = (Asks(ByJob[i].job, "cpus") * (ByJob[i].end_ts - ByJob[i].start_ts)) /\ (Asks(ByJob[i].job, "cpus") * (ByJob[i].end_ts - ByJob[i].start_ts)) \in Nat
        BY <1>3, <1>6
      <3>3. RowsByJob[i].requested_cpus * Clip(RowsByJob[i].end_ts - RowsByJob[i].start_ts) = (Asks(ByJob[i].job, "cpus") * (ByJob[i].end_ts - ByJob[i].start_ts))
        BY <1>3
      <3> HIDE DEF areas, area
      <3> QED
        BY <3>1, <3>2, <3>3
    <2>2. \A i \in 1..n : areas[i] \in Nat
      BY <2>1
    <2>3. \A i \in 1..n : areas[i] = area[ByJob[i]]
      BY <2>1
    <2>4. PICK f, places : f = ByJob /\ places = 1..n
      OBVIOUS
    <2> HIDE DEF areas, area, n
    <2>5. /\ IsFiniteSet(places) /\ f \in Bijection(places, completed)
          /\ \A i \in places : areas[i] \in Nat
          /\ \A i \in places : areas[i] = area[f[i]]
      BY <1>4, <1>7, <2>2, <2>3, <2>4
    <2>6. TotalOf(areas, places) = TotalOf(area, completed)
      BY <2>5, TotalMoved
    <2> QED
      BY <2>4, <2>6
  <1>10. TotalOf(area, completed) = totals.cpu_seconds
    BY <1>1 DEF Totalled, Spent
  <1>11. TotalOf(waits, DOMAIN RowsByJob) = TotalOf(wait, completed)
         /\ TotalOf(areas, DOMAIN RowsByJob) = totals.cpu_seconds
    <2> HIDE DEF waits, wait, areas, area
    <2> QED
      BY <1>3, <1>8, <1>9, <1>10
  <1> QED
    BY <1>11

(* A run of some jobs reports what the Python formulas give for its rows.  *)
LEMMA ParityOfRows ==
  ASSUME MeterInv, report = Metrics, Cardinality(completed) = Len(jobs), completed # {}
  PROVE  LET python == ComputeJobMetrics(RowsByJob, Capacity.cpus, BsldFloorSec)
         IN  /\ report.jobs_completed = python.job_count
             /\ report.wait_sec = python.wait_sec
             /\ report.p95_wait = python.p95_wait
             /\ report.p95_bsld = python.p95_bsld
             /\ report.makespan_sec = python.makespan_sec
             /\ report.utilization = python.utilization
  <1> DEFINE n == Cardinality(completed)
             python == ComputeJobMetrics(RowsByJob, Capacity.cpus, BsldFloorSec)
             waits == [i \in DOMAIN RowsByJob |-> Clip(RowsByJob[i].start_ts - RowsByJob[i].submit_ts)]
             slowdowns == [i \in DOMAIN RowsByJob |->
               Bsld(Clip(RowsByJob[i].start_ts - RowsByJob[i].submit_ts),
                    Clip(RowsByJob[i].end_ts - RowsByJob[i].start_ts), BsldFloorSec)]
             areas == [i \in DOMAIN RowsByJob |->
               RowsByJob[i].requested_cpus * Clip(RowsByJob[i].end_ts - RowsByJob[i].start_ts)]
             makespan == Clip(Max({RowsByJob[i].end_ts : i \in DOMAIN RowsByJob})
                                - Min({RowsByJob[i].submit_ts : i \in DOMAIN RowsByJob}))
  <1>1. /\ DOMAIN RowsByJob = 1..n /\ DOMAIN ByJob = 1..n /\ n \in Nat /\ Len(RowsByJob) = n
        /\ \A i \in 1..n :
             /\ ByJob[i] \in completed
             /\ Clip(RowsByJob[i].start_ts - RowsByJob[i].submit_ts) = WaitOf(ByJob[i])
             /\ Clip(RowsByJob[i].end_ts - RowsByJob[i].start_ts) = ByJob[i].end_ts - ByJob[i].start_ts
    BY RowsAre
  <1>2. RowsByJob # <<>>
    <2>1. n # 0
      <3>1. IsFiniteSet(completed)
        BY TimedHolders DEF MeterInv
      <3> QED
        BY <3>1, FS_EmptySet
    <2> QED
      BY <1>1, <2>1
  <1>3. /\ python.job_count = Len(RowsByJob)
        /\ python.wait_sec = TotalOf(waits, DOMAIN RowsByJob)
        /\ python.p95_wait = P95(waits)
        /\ python.p95_bsld = P95(slowdowns)
        /\ python.makespan_sec = makespan
        /\ python.utilization = Utilization(TotalOf(areas, DOMAIN RowsByJob), Capacity.cpus, makespan)
    BY <1>2 DEF ComputeJobMetrics
  <1>4. makespan = Makespan
    BY MakespanIs DEF Makespan
  <1>5. TotalOf(waits, DOMAIN RowsByJob) = report.wait_sec /\ TotalOf(areas, DOMAIN RowsByJob) = totals.cpu_seconds
    BY RowSums, ReportFigures, Zenon
  <1>6. waits = [i \in DOMAIN ByJob |-> WaitOf(ByJob[i])]
    <2> HIDE DEF n
    <2> QED
      BY <1>1
  <1>7. slowdowns = [i \in DOMAIN ByJob |->
                       Bsld(WaitOf(ByJob[i]), ByJob[i].end_ts - ByJob[i].start_ts, BsldFloorSec)]
    <2> HIDE DEF n
    <2> QED
      BY <1>1
  <1> HIDE DEF python, waits, slowdowns, areas, makespan, n
  <1>8. python.p95_wait = report.p95_wait /\ python.p95_bsld = report.p95_bsld
    BY <1>3, <1>6, <1>7, ReportFigures
  <1>9. python.makespan_sec = report.makespan_sec /\ python.utilization = report.utilization
    BY <1>3, <1>4, <1>5, ReportFigures
  <1>10. python.job_count = report.jobs_completed
    BY <1>1, <1>3, ReportFigures DEF n
  <1>11. python.wait_sec = report.wait_sec
    BY <1>3, <1>5
  <1> QED
    BY <1>8, <1>9, <1>10, <1>11 DEF python

(* A complete run is reported as the Python formulas have it.              *)
LEMMA ParityHolds ==
  ASSUME MeterInv
  PROVE  MetricParity
  <1> SUFFICES ASSUME pc = "reported", Cardinality(completed) = Len(jobs)
               PROVE  LET python == ComputeJobMetrics(RowsByJob, Capacity.cpus, BsldFloorSec)
                      IN  /\ report.jobs_completed = python.job_count
                          /\ \A figure \in {"wait_sec", "p95_wait", "p95_bsld", "makespan_sec", "utilization"} :
                               report[figure] = python[figure]
                          /\ totals.cpu_seconds <= Capacity.cpus * Makespan
    BY DEF MetricParity, RowsByJob
  <1> DEFINE python == ComputeJobMetrics(RowsByJob, Capacity.cpus, BsldFloorSec)
  <1>1. report = Metrics /\ RustInv
    BY DEF MeterInv, Reported
  <1>2. /\ report.jobs_completed = python.job_count
        /\ report.wait_sec = python.wait_sec
        /\ report.p95_wait = python.p95_wait
        /\ report.p95_bsld = python.p95_bsld
        /\ report.makespan_sec = python.makespan_sec
        /\ report.utilization = python.utilization
    <2>1. CASE completed = {}
      BY <1>1, <2>1, ParityOfNothing
    <2>2. CASE completed # {}
      BY <1>1, <2>2, ParityOfRows
    <2> QED
      BY <2>1, <2>2
  <1>3. AllCompleted
    <2>1. PreparedJobs
      BY <1>1 DEF RustInv, RustTypeOK
    <2>2. Len(jobs) \in Nat
      BY <2>1, JobFields
    <2> QED
      BY <2>2 DEF AllCompleted
  <1>4. totals.cpu_seconds <= Capacity.cpus * Makespan
    BY <1>3, NoMoreThanCapacity
  <1> HIDE DEF python
  <1>5. \A figure \in {"wait_sec", "p95_wait", "p95_bsld", "makespan_sec", "utilization"} :
          report[figure] = python[figure]
    BY <1>2
  <1> QED
    BY <1>2, <1>4, <1>5 DEF python

(* The seconds of a schedule, and what is drawn in each.                   *)
LEMMA SecondsAre ==
  ASSUME MeterInv
  PROVE  /\ Seconds = MinSubmit..(totals.max_end_ts - 1)
         /\ \A ts : Draw(ts) = Watts(Live(completed, ts))
  <1>1. Seconds = MinSubmit..(totals.max_end_ts - 1)
    <2>1. CASE completed = {}
      <3>1. totals.max_end_ts = MinSubmit /\ MinSubmit \in Int
        BY <2>1 DEF MeterInv, Totalled, Timed
      <3>2. MinSubmit..(totals.max_end_ts - 1) = {}
        BY <3>1
      <3>3. Seconds = {}
        BY <2>1 DEF Seconds
      <3> QED
        BY <3>2, <3>3
    <2>2. CASE completed # {}
      <3>1. {h.end_ts : h \in completed} # {}
        BY <2>2
      <3> QED
        BY <2>2, <3>1, LastEnd DEF Seconds
    <2> QED
      BY <2>1, <2>2
  <1> QED
    BY <1>1 DEF Draw, Live

(* After the last end nothing is drawn.                                    *)
LEMMA QuietAfter ==
  ASSUME MeterInv, NEW ts \in Int, totals.max_end_ts <= ts
  PROVE  Watts(Live(completed, ts)) = 0
  <1>1. /\ completed \in SUBSET Holders /\ totals.max_end_ts \in Int
        /\ \A h \in completed : h.end_ts <= totals.max_end_ts
    BY DEF MeterInv, RustInv, RustTypeOK, Totalled
  <1>2. ASSUME NEW h \in completed PROVE ~ (ts < h.end_ts)
    <2>1. h.end_ts \in Int
      BY <1>1 DEF Holders
    <2> QED
      BY <1>1, <2>1
  <1>3. Live(completed, ts) = {}
    BY <1>2 DEF Live
  <1>4. Held({}, "watts") = 0
    BY HeldIsTotal, TotalNone
  <1> QED
    BY <1>3, <1>4 DEF Watts

(* The energy is that of the jobs, whatever the schedule.                  *)
LEMMA EnergyIs ==
  ASSUME MeterInv, running = {}
  PROVE  power.energy_joules =
           TotalOf([h \in completed |-> jobs[h.job].power_mean_watts * Clip(jobs[h.job].runtime_actual_sec)],
                   completed)
  <1> DEFINE spent == [h \in completed |-> Asks(h.job, "watts") * (h.end_ts - h.start_ts)]
             asked == [h \in completed |-> jobs[h.job].power_mean_watts * Clip(jobs[h.job].runtime_actual_sec)]
  <1>1. RustInv /\ Timed /\ Metered
    BY DEF MeterInv
  <1>2. PreparedJobs /\ completed \in SUBSET Holders /\ IsFiniteSet(completed) /\ \A h \in completed : h.start_ts <= h.end_ts
    BY <1>1, TimedHolders
  <1>3. Spent("watts", completed) \in Nat
    BY <1>2, SpentNat DEF Dimensions
  <1>4. SoFar("watts", {}, clock_ts) = 0
    BY TotalNone DEF SoFar
  <1>5. power.energy_joules = TotalOf(spent, completed)
    <2>1. power.energy_joules = Spent("watts", completed) + 0
      BY <1>1, <1>4 DEF Metered
    <2> QED
      BY <1>3, <2>1 DEF Spent
  <1>6. ASSUME NEW h \in completed PROVE spent[h] = asked[h]
    <2>1. h.start_ts \in Int /\ h.job \in 1..Len(jobs)
      BY <1>2 DEF Holders
    <2>2. jobs[h.job].runtime_actual_sec \in Int
      BY <1>2, <2>1, JobFields
    <2>3. h.end_ts = h.start_ts + Clip(jobs[h.job].runtime_actual_sec)
      BY <1>1 DEF Timed
    <2>4. h.end_ts - h.start_ts = Clip(jobs[h.job].runtime_actual_sec)
      BY <2>1, <2>2, <2>3 DEF Clip
    <2>5. spent[h] = Asks(h.job, "watts") * (h.end_ts - h.start_ts)
      OBVIOUS
    <2>6. asked[h] = jobs[h.job].power_mean_watts * Clip(jobs[h.job].runtime_actual_sec)
      OBVIOUS
    <2>7. Asks(h.job, "watts") = jobs[h.job].power_mean_watts
      BY DEF Asks
    <2> HIDE DEF spent, asked
    <2> QED
      BY <2>4, <2>5, <2>6, <2>7
  <1>7. \A h \in completed : spent[h] = asked[h]
    BY <1>6
  <1> HIDE DEF spent, asked
  <1>8. TotalOf(spent, completed) = TotalOf(asked, completed)
    BY <1>7, TotalSame
  <1> QED
    BY <1>5, <1>8 DEF asked

(* The exposure is that of the seconds in which something ran.             *)
LEMMA ExposureIs ==
  ASSUME MeterInv, running = {}, power_cap_watts # NoCap
  PROVE  /\ power.seconds_above_cap = Cardinality({ts \in Seconds : Draw(ts) > power_cap_watts})
         /\ power.joules_above_cap = TotalOf([ts \in Seconds |-> Clip(Draw(ts) - power_cap_watts)], Seconds)
  <1> DEFINE all == MinSubmit..(clock_ts - 1)
             over == [ts \in all |-> Over(completed, ts)]
             excess == [ts \in Seconds |-> Clip(Draw(ts) - power_cap_watts)]
  <1>1. RustInv /\ Timed /\ Metered /\ Totalled
    BY DEF MeterInv
  <1>2. /\ PreparedJobs /\ completed \in SUBSET Holders /\ IsFiniteSet(completed)
        /\ power_cap_watts \in Nat /\ clock_ts \in Int
    BY <1>1, TimedHolders
  <1>3. MinSubmit \in Int /\ totals.max_end_ts \in Int /\ totals.max_end_ts <= clock_ts
    BY <1>1 DEF Timed, Totalled
  <1>4. Seconds \in SUBSET all /\ \A ts \in all \ Seconds : ts \in Int /\ totals.max_end_ts <= ts
    <2>1. Seconds = MinSubmit..(totals.max_end_ts - 1)
      BY SecondsAre
    <2> QED
      BY <1>2, <1>3, <2>1
  <1>5. \A ts \in all \ Seconds : Watts(Live(completed, ts)) = 0
    BY <1>4, QuietAfter
  <1>6. IsFiniteSet(all)
    BY <1>2, <1>3, FS_Interval
  <1>7. running \cup completed = completed
    OBVIOUS
  <1>8. Above(completed, MinSubmit, clock_ts) = {ts \in Seconds : Draw(ts) > power_cap_watts}
    <2>1. Above(completed, MinSubmit, clock_ts) = {ts \in all : Watts(Live(completed, ts)) > power_cap_watts}
      BY DEF Above
    <2>2. \A ts : Draw(ts) = Watts(Live(completed, ts))
      BY SecondsAre
    <2>3. \A ts \in all \ Seconds : ~ (Watts(Live(completed, ts)) > power_cap_watts)
      BY <1>2, <1>5
    <2> HIDE DEF all
    <2> QED
      BY <1>4, <2>1, <2>2, <2>3
  <1>9. Excess(completed, MinSubmit, clock_ts) = TotalOf(excess, Seconds)
    <2>1. Excess(completed, MinSubmit, clock_ts) = TotalOf(over, all)
      BY DEF Excess
    <2>2. \A ts \in all : over[ts] = Over(completed, ts) /\ over[ts] \in Nat
      BY <1>2, OverNat
    <2>3. \A ts \in all \ Seconds : over[ts] = 0
      <3> HIDE DEF all
      <3> SUFFICES ASSUME NEW ts \in all \ Seconds PROVE Over(completed, ts) = 0
        BY <2>2
      <3> QED
        BY <1>2, <1>5 DEF Over, Clip
    <2>4. \A ts \in Seconds : over[ts] = excess[ts]
      <3> HIDE DEF all
      <3> SUFFICES ASSUME NEW ts \in Seconds PROVE Over(completed, ts) = excess[ts]
        BY <1>4, <2>2
      <3> QED
        BY SecondsAre DEF Over
    <2> HIDE DEF all, over, excess
    <2>5. /\ TotalOf(over, all) \in Nat /\ TotalOf(over, Seconds) \in Nat
          /\ TotalOf(over, Seconds) + TotalOf(over, all \ Seconds) = TotalOf(over, all)
      BY <1>4, <1>6, <2>2, TotalSplit
    <2>6. TotalOf(over, all \ Seconds) = 0
      BY <2>3, TotalZeros
    <2>7. TotalOf(over, Seconds) = TotalOf(excess, Seconds)
      BY <2>4, TotalSame
    <2> QED
      BY <2>1, <2>5, <2>6, <2>7
  <1>10. /\ power.seconds_above_cap = Cardinality(Above(completed, MinSubmit, clock_ts))
         /\ power.joules_above_cap = Excess(completed, MinSubmit, clock_ts)
    BY <1>1, <1>7 DEF Metered
  <1>11. /\ power.seconds_above_cap = Cardinality({ts \in Seconds : Draw(ts) > power_cap_watts})
         /\ power.joules_above_cap = TotalOf(excess, Seconds)
    <2> HIDE DEF excess, all
    <2> QED
      BY <1>8, <1>9, <1>10
  <1> QED
    BY <1>11

(* No second drew more than the peak.                                      *)
LEMMA PeakIs ==
  ASSUME MeterInv, running = {}
  PROVE  \A ts \in Seconds : Draw(ts) <= power.peak_watts
  <1>1. RustInv /\ Timed /\ Metered /\ Totalled
    BY DEF MeterInv
  <1>2. clock_ts \in Int /\ MinSubmit \in Int /\ totals.max_end_ts \in Int /\ totals.max_end_ts <= clock_ts
    BY <1>1, TimedHolders DEF Timed, Totalled
  <1>3. Seconds = MinSubmit..(totals.max_end_ts - 1)
    BY SecondsAre
  <1>4. Seconds \in SUBSET (MinSubmit..(clock_ts - 1))
    BY <1>2, <1>3
  <1>5. \A ts : Draw(ts) = Watts(Live(running \cup completed, ts))
    BY SecondsAre
  <1> QED
    BY <1>1, <1>4, <1>5 DEF Metered

(* Whatever is written at the end is true of the schedule: the figures are *)
(* those of the Python formulas, and the power metrics of the sim-runner   *)
(* (PowerProfile of rust/sim-runner/src/main.rs) are what a meter read     *)
(* second by second would give, for every trace, capacity and power cap.   *)
THEOREM ReportsWhatAMeterReads == RustSpec => []ReportIsMetered
  <1>1. MeterInv => ReportIsMetered
    <2> SUFFICES ASSUME MeterInv, pc = "reported" PROVE ReportIsMetered
      BY DEF ReportIsMetered
    <2>1. running = {}
      BY DEF MeterInv, Reported
    <2> QED
      BY <2>1, ParityHolds, EnergyIs, ExposureIs, PeakIs DEF ReportIsMetered
  <1> QED
    BY <1>1, MeterInit, MeterStep, PTL DEF RustSpec
=============================================================================
