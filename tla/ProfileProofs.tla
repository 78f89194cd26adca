--------------------------- MODULE ProfileProofs ---------------------------
(***************************************************************************)
(* Proofs about the availability profile, for every capacity, every set of *)
(* running jobs and any number of planned jobs: the profile is the free    *)
(* count at every time, no reservation at a window that was found takes    *)
(* more than is free, and that window is the earliest there is.            *)
(***************************************************************************)
EXTENDS ProfileTimeline, SharedLemmas

-----------------------------------------------------------------------------
(* The invariant.                                                          *)

(* By then all running and planned jobs are over.                          *)
LastEnd(n) == MaxEnd + n * MaxRuntime

ProfileInv ==
  /\ ProfileOK(prof) /\ prof.base_ts = Clock
  /\ planned \in 0..MaxPlanned
  /\ timeline \in [Times -> 0..Capacity]
  /\ \A t \in Times : FreeAt(prof, t) = timeline[t]
  /\ \A u \in DOMAIN prof.events : u <= LastEnd(planned)
  /\ \A t \in Times : t >= LastEnd(planned) => timeline[t] = Capacity

(* Times of the plans so far and of one more are within the horizon.       *)
LEMMA LastEndBound ==
  ASSUME NEW n \in 0..MaxPlanned
  PROVE  /\ LastEnd(n) \in Times /\ Clock <= LastEnd(n)
         /\ LastEnd(n + 1) = LastEnd(n) + MaxRuntime /\ LastEnd(n + 1) \in Times
  <1>1. /\ n \in Nat /\ n + 1 \in Nat /\ MaxEnd \in Nat \ {0} /\ MaxRuntime \in Nat \ {0} /\ MaxPlanned \in Nat
        /\ n + 1 <= MaxPlanned + 1 /\ MaxEnd + (MaxPlanned + 1) * MaxRuntime <= Horizon
    BY ProfileAssumption
  <1>2. \A a, b, c \in Nat : a <= b => a * c <= b * c /\ a * c \in Nat
    OBVIOUS
  <1>3. n * MaxRuntime \in Nat /\ (n + 1) * MaxRuntime <= (MaxPlanned + 1) * MaxRuntime
    BY <1>1, <1>2
  <1>4. (n + 1) * MaxRuntime = n * MaxRuntime + MaxRuntime
    BY <1>1
  <1>5. PICK x \in Nat : x = n * MaxRuntime
    BY <1>3
  <1>6. PICK y \in Nat : y = (MaxPlanned + 1) * MaxRuntime
    BY <1>1, <1>2
  <1>7. LastEnd(n) = MaxEnd + x /\ LastEnd(n + 1) = MaxEnd + x + MaxRuntime
    BY <1>1, <1>4, <1>5 DEF LastEnd
  <1>8. x + MaxRuntime <= y /\ MaxEnd + y <= Horizon
    BY <1>1, <1>3, <1>4, <1>5, <1>6
  <1>9. Horizon \in Int
    BY ProfileAssumption
  <1> QED
    BY <1>1, <1>7, <1>8, <1>9 DEF Times, Clock

(* The sets of running jobs a behaviour starts from.                       *)
LEMMA RunningFacts ==
  ASSUME NEW S \in RunningSets
  PROVE  /\ CpusCounted(S)
         /\ \A rj \in S : rj.end_ts \in 0..MaxEnd
         /\ AllocatedCpus(S) \in Nat /\ AllocatedCpus(S) <= Capacity
  <1>1. PICK ids \in SUBSET RunningIds : S \in RunningOf(ids)
    BY DEF RunningSets
  <1>2. PICK ends \in [ids -> 0..MaxEnd], cpus \in [ids -> 1..Capacity] :
          S = {[job_id |-> i, end_ts |-> ends[i], allocated_cpus |-> cpus[i]] : i \in ids}
    BY <1>1 DEF RunningOf
  <1>3. \A rj \in S : rj.end_ts \in 0..MaxEnd /\ rj.allocated_cpus \in Nat
    BY <1>2, ProfileAssumption
  <1>4. IsFiniteSet(S)
    <2> DEFINE f == [i \in ids |-> [job_id |-> i, end_ts |-> ends[i], allocated_cpus |-> cpus[i]]]
    <2>1. f \in Surjection(ids, S)
      BY <1>2 DEF Surjection
    <2>2. IsFiniteSet(ids)
      BY ProfileAssumption, FS_Subset
    <2> QED
      BY <2>1, <2>2, FS_Surjection
  <1>5. AllocatedCpus(S) \in Nat
    BY <1>3, <1>4, AllocatedFinite DEF CpusCounted
  <1> QED
    BY <1>3, <1>4, <1>5 DEF RunningSets, CpusCounted

(* A profile built from a snapshot is the free count.                      *)
LEMMA SnapshotIs ==
  ASSUME NEW S \in RunningSets
  PROVE  LET p == FromSnapshot(Clock, Capacity - AllocatedCpus(S), S)
         IN  /\ ProfileOK(p) /\ p.base_ts = Clock
             /\ \A u \in DOMAIN p.events : u <= MaxEnd
             /\ \A t \in Int :
                  FreeAt(p, t) = Capacity - AllocatedCpus({rj \in S : t < Clock \/ rj.end_ts > t})
  <1> DEFINE free == Capacity - AllocatedCpus(S)
             p == FromSnapshot(Clock, free, S)
  <1>1. /\ CpusCounted(S) /\ Clock \in Int /\ Clock = 1
        /\ \A rj \in S : rj.end_ts \in 0..MaxEnd
        /\ AllocatedCpus(S) \in Nat /\ Capacity \in Nat /\ MaxEnd \in Nat \ {0} /\ free \in Int
    BY RunningFacts, ProfileAssumption DEF Clock
  <1>2. \A t : /\ ReleasedBy(S, t) \in Nat
               /\ ReleasedBy(S, t) + AllocatedCpus(S \ {rj \in S : rj.end_ts <= t}) = AllocatedCpus(S)
               /\ AllocatedCpus(S \ {rj \in S : rj.end_ts <= t}) \in Nat
    BY <1>1, AllocatedSplit DEF ReleasedBy
  <1>3. /\ ProfileOK(p) /\ p.base_ts = Clock /\ p.initial_free = free
        /\ DOMAIN p.events = {Clock} \cup {LaterOf(rj.end_ts, Clock) : rj \in S}
        /\ \A t \in Int : Clock <= t => FreeAt(p, t) = free + ReleasedBy(S, t)
    <2>1. \A rj \in S : rj.end_ts \in Int
      BY <1>1
    <2> HIDE DEF free
    <2> QED
      BY <1>1, <2>1, SnapshotFree
  <1> HIDE DEF p
  <1>4. \A u \in DOMAIN p.events : u <= MaxEnd
    BY <1>1, <1>3 DEF LaterOf
  <1>5. ASSUME NEW t \in Int
        PROVE  FreeAt(p, t) = Capacity - AllocatedCpus({rj \in S : t < Clock \/ rj.end_ts > t})
    <2>1. CASE t < Clock
      <3>1. {rj \in S : t < Clock \/ rj.end_ts > t} = S
        BY <2>1
      <3> QED
        BY <1>3, <2>1, <3>1, FreeAtNumber
    <2>2. CASE Clock <= t
      <3>1. {rj \in S : t < Clock \/ rj.end_ts > t} = S \ {rj \in S : rj.end_ts <= t}
        BY <1>1, <2>2
      <3>2. PICK a \in Nat : a = ReleasedBy(S, t)
        BY <1>2
      <3>3. PICK b \in Nat : b = AllocatedCpus(S \ {rj \in S : rj.end_ts <= t})
        BY <1>2
      <3>4. a + b = AllocatedCpus(S) /\ FreeAt(p, t) = Capacity - AllocatedCpus(S) + a
        BY <1>2, <1>3, <2>2, <3>2, <3>3
      <3>5. FreeAt(p, t) = Capacity - b
        BY <1>1, <3>4
      <3> QED
        BY <3>1, <3>3, <3>5
    <2> QED
      BY <1>1, <2>1, <2>2
  <1> QED
    BY <1>3, <1>4, <1>5 DEF p

(* A behaviour starts in the invariant.                                    *)
LEMMA ProfileInitInv == Init => ProfileInv
  <1> SUFFICES ASSUME Init PROVE ProfileInv
    OBVIOUS
  <1>1. PICK S \in RunningSets :
          /\ prof = FromSnapshot(Clock, Capacity - AllocatedCpus(S), S)
          /\ timeline = [t \in Times |-> Capacity - AllocatedCpus({rj \in S : t < Clock \/ rj.end_ts > t})]
          /\ planned = 0
    BY DEF Init
  <1>2. /\ ProfileOK(prof) /\ prof.base_ts = Clock
        /\ \A u \in DOMAIN prof.events : u <= MaxEnd
        /\ \A t \in Int : FreeAt(prof, t) = Capacity - AllocatedCpus({rj \in S : t < Clock \/ rj.end_ts > t})
    BY <1>1, SnapshotIs
  <1>3. /\ CpusCounted(S) /\ \A rj \in S : rj.end_ts \in 0..MaxEnd
        /\ AllocatedCpus(S) \in Nat /\ AllocatedCpus(S) <= Capacity
    BY RunningFacts
  <1>4. Capacity \in Nat /\ MaxEnd \in Nat \ {0} /\ MaxPlanned \in Nat /\ MaxRuntime \in Nat
    BY ProfileAssumption
  <1>5. ASSUME NEW T \in SUBSET S
        PROVE  Capacity - AllocatedCpus(T) \in 0..Capacity
    <2>1. /\ AllocatedCpus(T) + AllocatedCpus(S \ T) = AllocatedCpus(S)
          /\ AllocatedCpus(T) \in Nat /\ AllocatedCpus(S \ T) \in Nat
      BY <1>3, AllocatedSplit
    <2> QED
      BY <1>3, <1>4, <2>1
  <1>6. timeline \in [Times -> 0..Capacity]
    <2>1. \A t \in Times : {rj \in S : t < Clock \/ rj.end_ts > t} \in SUBSET S
      OBVIOUS
    <2> QED
      BY <1>1, <1>5, <2>1
  <1>7. \A t \in Times : FreeAt(prof, t) = timeline[t]
    BY <1>1, <1>2 DEF Times
  <1>8. LastEnd(0) = MaxEnd
    BY <1>4 DEF LastEnd
  <1>9. ASSUME NEW t \in Times, t >= MaxEnd
        PROVE  timeline[t] = Capacity
    <2>1. {rj \in S : t < Clock \/ rj.end_ts > t} = {}
      BY <1>3, <1>4, <1>9 DEF Times, Clock
    <2>2. AllocatedUnits({}) = {}
      BY DEF AllocatedUnits
    <2>3. AllocatedCpus({}) = 0
      BY <2>2, FS_EmptySet DEF AllocatedCpus
    <2> QED
      BY <1>1, <1>4, <2>1, <2>3
  <1> QED
    BY <1>1, <1>2, <1>4, <1>6, <1>7, <1>8, <1>9 DEF ProfileInv

(* The window found for a job, at any time of a behaviour.                 *)
LEMMA WindowFound ==
  ASSUME ProfileInv, NEW req \in 1..Capacity, NEW runtime \in 1..MaxRuntime
  PROVE  LET start == FindEarliestWindow(prof, req, runtime, Clock)
         IN  /\ start \in Clock..LastEnd(planned)
             /\ FreeThroughout(prof, start, runtime, req)
             /\ \A t \in Clock..(start - 1) : ~ FreeThroughout(prof, t, runtime, req)
  <1>1. /\ LastEnd(planned) \in Times /\ Clock <= LastEnd(planned)
    BY LastEndBound DEF ProfileInv
  <1>2. FreeAt(prof, LastEnd(planned)) = Capacity
    BY <1>1 DEF ProfileInv, Times
  <1>3. /\ LastEnd(planned) \in Int /\ Clock \in Int /\ prof.base_ts <= Clock /\ req \in Nat /\ req <= Capacity
        /\ runtime \in Nat \ {0} /\ Capacity \in Nat /\ ProfileOK(prof)
        /\ \A u \in DOMAIN prof.events : u <= LastEnd(planned)
    BY <1>1, ProfileAssumption DEF ProfileInv, Times, Clock
  <1>4. FreeAt(prof, LastEnd(planned)) >= req
    BY <1>2, <1>3
  <1> QED
    BY <1>1, <1>3, <1>4, EarliestIs

(* Planning a job keeps the invariant.                                     *)
LEMMA PlanStep ==
  ASSUME ProfileInv, NEW req \in 1..Capacity, NEW runtime \in 1..MaxRuntime, PlanJob(req, runtime)
  PROVE  ProfileInv'
  <1> DEFINE start == FindEarliestWindow(prof, req, runtime, Clock)
             last == LastEnd(planned)
  <1>1. start \in Clock..last /\ FreeThroughout(prof, start, runtime, req)
    BY WindowFound
  <1>2. /\ planned < MaxPlanned /\ prof' = Reserve(prof, start, runtime, req)
        /\ timeline' = [t \in Times |->
             IF start <= t /\ t < start + runtime THEN timeline[t] - req ELSE timeline[t]]
        /\ planned' = planned + 1
    BY DEF PlanJob
  <1> HIDE DEF start
  <1>3. planned \in 0..MaxPlanned /\ planned' \in 0..MaxPlanned
    BY <1>2, ProfileAssumption DEF ProfileInv
  <1>4. last \in Times /\ Clock <= last /\ LastEnd(planned') = last + MaxRuntime /\ LastEnd(planned') \in Times
    BY <1>2, <1>3, LastEndBound
  <1> HIDE DEF last
  <1>5. /\ req \in Nat \ {0} /\ req <= Capacity /\ runtime \in Nat \ {0} /\ runtime <= MaxRuntime
        /\ Capacity \in Nat /\ MaxRuntime \in Nat /\ Horizon \in Nat
        /\ last \in Nat /\ start \in Int /\ Clock <= start /\ start <= last /\ Clock \in Nat
    BY <1>1, <1>4, ProfileAssumption DEF Times, Clock
  <1>6. /\ ProfileOK(prof') /\ prof'.base_ts = Clock
        /\ DOMAIN prof'.events = DOMAIN prof.events \cup {start, start + runtime}
        /\ \A t \in Int : FreeAt(prof', t) = LeftBy(FreeAt(prof, t), t, start, start + runtime, req)
    <2>1. ProfileOK(prof) /\ prof.base_ts = Clock
      BY DEF ProfileInv
    <2> QED
      BY <1>2, <1>5, <2>1, ReserveTakes
  <1>7. \A t \in Times : /\ timeline[t] \in 0..Capacity /\ FreeAt(prof, t) = timeline[t]
                         /\ timeline'[t] = LeftBy(timeline[t], t, start, start + runtime, req)
    BY <1>2 DEF ProfileInv, LeftBy
  <1>8. \A t \in Times : FreeAt(prof', t) = timeline'[t]
    BY <1>6, <1>7 DEF Times
  <1>9. timeline' \in [Times -> 0..Capacity]
    <2>1. ASSUME NEW t \in Times
          PROVE  LeftBy(timeline[t], t, start, start + runtime, req) \in 0..Capacity
      <3>1. CASE start <= t /\ t < start + runtime
        <4>1. t \in start..(start + runtime - 1)
          BY <1>5, <3>1 DEF Times
        <4>2. timeline[t] >= req
          BY <1>1, <1>7, <4>1 DEF FreeThroughout
        <4> QED
          BY <1>5, <1>7, <3>1, <4>2 DEF LeftBy
      <3>2. CASE ~ (start <= t /\ t < start + runtime)
        BY <1>7, <3>2 DEF LeftBy
      <3> QED
        BY <3>1, <3>2
    <2> QED
      BY <1>2, <1>7, <2>1
  <1>10. \A u \in DOMAIN prof'.events : u <= LastEnd(planned')
    <2>1. \A u \in DOMAIN prof.events : u \in Int /\ u <= last
      BY DEF ProfileInv, ProfileOK, last
    <2> QED
      BY <1>4, <1>5, <1>6, <2>1
  <1>11. ASSUME NEW t \in Times, t >= LastEnd(planned')
         PROVE  timeline'[t] = Capacity
    <2>1. t \in Nat /\ t >= last /\ start + runtime <= t
      BY <1>4, <1>5, <1>11 DEF Times
    <2>2. timeline[t] = Capacity
      BY <2>1 DEF ProfileInv, last
    <2> QED
      BY <1>5, <1>7, <2>1, <2>2 DEF LeftBy
  <1> QED
    BY <1>3, <1>6, <1>8, <1>9, <1>10, <1>11 DEF ProfileInv, Clock, Times, LastEnd

(* Every step keeps the invariant.                                         *)
LEMMA ProfileStep == ProfileInv /\ [Next]_vars => ProfileInv'
  <1> SUFFICES ASSUME ProfileInv, [Next]_vars PROVE ProfileInv'
    OBVIOUS
  <1>1. CASE Next
    BY <1>1, PlanStep DEF Next
  <1>2. CASE UNCHANGED vars
    BY <1>2 DEF vars, ProfileInv, ProfileOK, FreeAt, LastEnd
  <1> QED
    BY <1>1, <1>2

(* free_at agrees with the free count at every time, through any sequence  *)
(* of reservations, none of which takes more than is free.                 *)
THEOREM ProfileAlwaysTimeline == Spec => []ProfileIsTimeline
  <1>1. ProfileInv => ProfileIsTimeline
    BY DEF ProfileInv, ProfileIsTimeline
  <1> QED
    BY <1>1, ProfileInitInv, ProfileStep, PTL DEF Spec

(* find_earliest_window, which tries event times only, finds the earliest  *)
(* window there is.                                                        *)
THEOREM WindowsAreEarliest == Spec => []EarliestWindow
  <1>1. ASSUME ProfileInv, NEW req \in 1..Capacity, NEW runtime \in 1..MaxRuntime
        PROVE  LET start == FindEarliestWindow(prof, req, runtime, Clock)
               IN  /\ start \in Times
                   /\ start + runtime - 1 <= Horizon => FitsThroughout(req, runtime, start)
                   /\ \A t \in Clock..(start - 1) : ~ FitsThroughout(req, runtime, t)
    <2> DEFINE start == FindEarliestWindow(prof, req, runtime, Clock)
               last == LastEnd(planned)
    <2>1. /\ start \in Clock..last /\ FreeThroughout(prof, start, runtime, req)
          /\ \A t \in Clock..(start - 1) : ~ FreeThroughout(prof, t, runtime, req)
      BY <1>1, WindowFound
    <2>2. planned \in 0..MaxPlanned /\ \A t \in Times : FreeAt(prof, t) = timeline[t]
      BY <1>1 DEF ProfileInv
    <2>3. last \in Times /\ last + MaxRuntime \in Times
      BY <2>2, LastEndBound
    <2> HIDE DEF start, last
    <2>4. /\ last \in Nat /\ Horizon \in Nat /\ MaxRuntime \in Nat /\ last + MaxRuntime <= Horizon
          /\ start \in Nat /\ Clock <= start /\ start <= last /\ Clock \in Nat
          /\ runtime \in Nat /\ runtime <= MaxRuntime /\ req \in Nat
      BY <2>1, <2>3, ProfileAssumption DEF Times, Clock
    <2>5. ASSUME NEW t \in Nat, t + runtime - 1 <= Horizon
          PROVE  FitsThroughout(req, runtime, t) <=> FreeThroughout(prof, t, runtime, req)
      <3>1. \A s \in t..(t + runtime - 1) : s \in Times
        BY <2>4, <2>5 DEF Times
      <3> QED
        BY <2>2, <3>1 DEF FitsThroughout, FreeThroughout
    <2>6. \A t \in Clock..(start - 1) : ~ FitsThroughout(req, runtime, t)
      <3> SUFFICES ASSUME NEW t \in Clock..(start - 1) PROVE ~ FitsThroughout(req, runtime, t)
        OBVIOUS
      <3>1. t \in Nat /\ t + runtime - 1 <= Horizon
        BY <2>4
      <3>2. ~ FreeThroughout(prof, t, runtime, req)
        BY <2>1
      <3> QED
        BY <2>5, <3>1, <3>2
    <2>7. start \in Times
      BY <2>4 DEF Times
    <2>8. start + runtime - 1 <= Horizon => FitsThroughout(req, runtime, start)
      BY <2>1, <2>4, <2>5
    <2> QED
      BY <2>6, <2>7, <2>8 DEF start
  <1>2. ProfileInv => EarliestWindow
    BY <1>1 DEF EarliestWindow
  <1> QED
    BY <1>2, ProfileInitInv, ProfileStep, PTL DEF Spec
=============================================================================
