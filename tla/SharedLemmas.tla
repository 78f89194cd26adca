---------------------------- MODULE SharedLemmas ----------------------------
(***************************************************************************)
(* Lemmas that the proofs of several components rest on: about sets of     *)
(* numbers, the operators of the availability profile, and sums over finite*)
(* sets as ScheduleMetrics counts them.                                    *)
(***************************************************************************)
EXTENDS AvailabilityProfile, ScheduleMetrics, FiniteSetTheorems, WellFoundedInduction, TLAPS

(* A set of naturals that is not empty has a least element.                *)
LEMMA LeastNatural ==
  ASSUME NEW S \in SUBSET Nat, S # {}
  PROVE  \E m \in S : \A n \in S : m <= n
  <1> DEFINE R == OpToRel(<, Nat)
  <1>1. IsWellFoundedOn(R, Nat)
    BY NatLessThanWellFounded
  <1>2. PICK m \in S : \A n \in S : ~ (<<n, m>> \in R)
    BY <1>1, WFMin
  <1>3. \A n \in S : ~ (n < m)
    BY <1>2 DEF OpToRel
  <1> QED
    BY <1>3

(* A finite set of integers that is not empty has a greatest element, which *)
(* Max gives.                                                              *)
LEMMA MaxOfFinite ==
  ASSUME NEW S \in SUBSET Int, IsFiniteSet(S), S # {}
  PROVE  Max(S) \in S /\ \A n \in S : n <= Max(S)
  <1> DEFINE Has(T) == \E m \in T : \A n \in T : n <= m
             Bad == {k \in Nat : \E T \in SUBSET S : T # {} /\ Cardinality(T) = k /\ ~ Has(T)}
  <1>1. Bad = {}
    <2> SUFFICES ASSUME Bad # {} PROVE FALSE
      OBVIOUS
    <2>1. PICK k \in Bad : \A j \in Bad : k <= j
      <3> Bad \in SUBSET Nat
        OBVIOUS
      <3> HIDE DEF Bad
      <3> QED
        BY LeastNatural
    <2>2. PICK T \in SUBSET S : T # {} /\ Cardinality(T) = k /\ ~ Has(T)
      BY <2>1
    <2>3. PICK x \in T : TRUE
      BY <2>2
    <2> DEFINE U == T \ {x}
    <2>4. IsFiniteSet(U) /\ Cardinality(U) = k - 1 /\ k - 1 \in Nat
      <3>1. IsFiniteSet(T)
        BY FS_Subset
      <3>2. IsFiniteSet(U) /\ Cardinality(U) = Cardinality(T) - 1
        BY <2>3, <3>1, FS_RemoveElement
      <3>3. Cardinality(U) \in Nat
        BY <3>2, FS_CardinalityType
      <3> QED
        BY <2>2, <3>2, <3>3
    <2>5. U # {}
      BY <2>2, <2>3
    <2>6. k - 1 \notin Bad
      BY <2>1, <2>4
    <2>7. Has(U)
      BY <2>4, <2>5, <2>6
    <2>8. PICK m \in U : \A n \in U : n <= m
      BY <2>7
    <2>9. m \in Int /\ x \in Int /\ T \subseteq Int
      BY <2>3, <2>8
    <2>10. IF x <= m THEN \A n \in T : n <= m ELSE \A n \in T : n <= x
      BY <2>8, <2>9
    <2> QED
      BY <2>2, <2>3, <2>8, <2>10
  <1>2. Cardinality(S) \in Nat
    BY FS_CardinalityType
  <1>3. Has(S)
    BY <1>1, <1>2
  <1> QED
    BY <1>3 DEF Max

(* A finite set of integers that is not empty has a least element, which   *)
(* Min gives.                                                              *)
LEMMA MinOfFinite ==
  ASSUME NEW S \in SUBSET Int, IsFiniteSet(S), S # {}
  PROVE  Min(S) \in S /\ \A n \in S : Min(S) <= n
  <1> DEFINE T == {0 - n : n \in S}
  <1>1. T \in SUBSET Int /\ T # {}
    <2>1. \A n \in S : 0 - n \in Int /\ 0 - n \in T
      OBVIOUS
    <2>2. \A m \in T : \E n \in S : m = 0 - n
      OBVIOUS
    <2> HIDE DEF T
    <2> QED
      BY <2>1, <2>2
  <1>2. IsFiniteSet(T)
    <2> DEFINE f == [n \in S |-> 0 - n]
    <2>1. f \in Surjection(S, T)
      BY DEF Surjection
    <2> QED
      BY <2>1, FS_Surjection
  <1>3. PICK m \in T : \A n \in T : n <= m
    <2> HIDE DEF T
    <2> QED
      BY <1>1, <1>2, MaxOfFinite
  <1>4. PICK k \in S : m = 0 - k
    BY <1>3
  <1>5. \A n \in S : k <= n
    <2> SUFFICES ASSUME NEW n \in S PROVE k <= n
      OBVIOUS
    <2>1. 0 - n <= m
      BY <1>3
    <2> QED
      BY <2>1, <1>4
  <1>6. \E x \in S : \A y \in S : x <= y
    BY <1>5
  <1> QED
    BY <1>6, Zenon DEF Min

(* The larger and the smaller of two integers.                             *)
LEMMA PairMax ==
  ASSUME NEW a \in Int, NEW b \in Int
  PROVE  /\ Max({a, b}) = (IF a >= b THEN a ELSE b) /\ Max({a, b}) \in Int
         /\ Min({a, b}) = (IF a <= b THEN a ELSE b) /\ Min({a, b}) \in Int
  <1>1. IsFiniteSet({a, b}) /\ {a, b} \in SUBSET Int /\ {a, b} # {}
    <2>1. IsFiniteSet({a}) /\ IsFiniteSet({b}) /\ {a} \cup {b} = {a, b}
      BY FS_Singleton
    <2>2. IsFiniteSet({a} \cup {b})
      BY <2>1, FS_Union
    <2> QED
      BY <2>1, <2>2
  <1>2. Max({a, b}) \in {a, b} /\ \A n \in {a, b} : n <= Max({a, b})
    BY <1>1, MaxOfFinite
  <1>3. Min({a, b}) \in {a, b} /\ \A n \in {a, b} : Min({a, b}) <= n
    BY <1>1, MinOfFinite
  <1> QED
    BY <1>2, <1>3

-----------------------------------------------------------------------------
(* CPUs of running jobs.                                                   *)

CpusCounted(S) == IsFiniteSet(S) /\ \A rj \in S : rj.allocated_cpus \in Nat

(* Finitely many jobs have finitely many CPUs.                             *)
LEMMA AllocatedFinite ==
  ASSUME NEW S, CpusCounted(S)
  PROVE  IsFiniteSet(AllocatedUnits(S)) /\ AllocatedCpus(S) \in Nat
  <1> DEFINE of(rj) == {rj} \X (1..rj.allocated_cpus)
             parts == {of(rj) : rj \in S}
             f == [rj \in S |-> of(rj)]
  <1>1. f \in Surjection(S, parts)
    BY DEF Surjection
  <1>2. IsFiniteSet(parts)
    BY <1>1, FS_Surjection DEF CpusCounted
  <1>3. \A T \in parts : IsFiniteSet(T)
    <2> SUFFICES ASSUME NEW rj \in S PROVE IsFiniteSet(of(rj))
      OBVIOUS
    <2>1. IsFiniteSet({rj})
      BY FS_Singleton
    <2>2. rj.allocated_cpus \in Nat
      BY DEF CpusCounted
    <2>3. IsFiniteSet(1..rj.allocated_cpus)
      BY <2>2, FS_Interval
    <2> QED
      BY <2>1, <2>3, FS_Product
  <1>4. IsFiniteSet(AllocatedUnits(S))
    BY <1>2, <1>3, FS_UNION DEF AllocatedUnits
  <1> QED
    BY <1>4, FS_CardinalityType DEF AllocatedCpus

(* The CPUs of some jobs and those of the others are the CPUs of all.      *)
LEMMA AllocatedSplit ==
  ASSUME NEW S, CpusCounted(S), NEW T \in SUBSET S
  PROVE  /\ AllocatedCpus(T) + AllocatedCpus(S \ T) = AllocatedCpus(S)
         /\ AllocatedCpus(T) \in Nat /\ AllocatedCpus(S \ T) \in Nat
  <1>1. IsFiniteSet(AllocatedUnits(S)) /\ AllocatedCpus(S) \in Nat
    BY AllocatedFinite
  <1>2. CpusCounted(T) /\ CpusCounted(S \ T)
    BY FS_Subset DEF CpusCounted
  <1>3. AllocatedCpus(T) \in Nat /\ AllocatedCpus(S \ T) \in Nat
    BY <1>2, AllocatedFinite
  <1>4. AllocatedUnits(S \ T) = AllocatedUnits(S) \ AllocatedUnits(T)
    BY DEF AllocatedUnits
  <1>5. AllocatedUnits(S) \cap AllocatedUnits(T) = AllocatedUnits(T)
    BY DEF AllocatedUnits
  <1>6. \A X, Y : IsFiniteSet(X) => Cardinality(X \ Y) = Cardinality(X) - Cardinality(X \cap Y)
    BY FS_Difference
  <1>7. Cardinality(AllocatedUnits(S) \ AllocatedUnits(T))
          = Cardinality(AllocatedUnits(S)) - Cardinality(AllocatedUnits(T))
    BY <1>1, <1>5, <1>6
  <1>8. AllocatedCpus(S \ T) = AllocatedCpus(S) - AllocatedCpus(T)
    BY <1>4, <1>7 DEF AllocatedCpus
  <1> QED
    BY <1>1, <1>3, <1>8

-----------------------------------------------------------------------------
(* Profiles.                                                               *)

(* The events of a profile are finitely many, the first at its base.       *)
ProfileOK(p) ==
  /\ p = [base_ts |-> p.base_ts, initial_free |-> p.initial_free, events |-> p.events]
  /\ p.base_ts \in Int /\ p.initial_free \in Int
  /\ IsFiniteSet(DOMAIN p.events)
  /\ p.base_ts \in DOMAIN p.events
  /\ \A u \in DOMAIN p.events : u \in Int /\ p.base_ts <= u /\ p.events[u] \in Int

(* Free CPUs are those of the last event.                                  *)
LEMMA FreeAtIs ==
  ASSUME NEW p, ProfileOK(p), NEW t \in Int, p.base_ts <= t
  PROVE  \E u \in DOMAIN p.events :
           /\ u <= t /\ FreeAt(p, t) = p.events[u]
           /\ \A v \in DOMAIN p.events : v <= t => v <= u
  <1> DEFINE past == {u \in DOMAIN p.events : u <= t}
  <1>1. past \in SUBSET Int /\ past # {} /\ IsFiniteSet(past)
    BY FS_Subset DEF ProfileOK
  <1>2. Max(past) \in past /\ \A v \in past : v <= Max(past)
    BY <1>1, MaxOfFinite
  <1>3. FreeAt(p, t) = p.events[Max(past)]
    BY <1>1 DEF FreeAt, ProfileOK
  <1> QED
    BY <1>2, <1>3

(* At an event they are those of the event.                                *)
LEMMA FreeAtEvent ==
  ASSUME NEW p, ProfileOK(p), NEW u \in DOMAIN p.events
  PROVE  FreeAt(p, u) = p.events[u]
  <1>1. u \in Int /\ p.base_ts <= u
    BY DEF ProfileOK
  <1>2. PICK v \in DOMAIN p.events :
          /\ v <= u /\ FreeAt(p, u) = p.events[v] /\ \A w \in DOMAIN p.events : w <= u => w <= v
    BY <1>1, FreeAtIs
  <1>3. v \in Int /\ u <= v
    BY <1>1, <1>2 DEF ProfileOK
  <1> QED
    BY <1>1, <1>2, <1>3

(* Between events they stay.                                               *)
LEMMA FreeAtBetween ==
  ASSUME NEW p, ProfileOK(p), NEW s \in Int, NEW t \in Int, p.base_ts <= s, s <= t,
         \A u \in DOMAIN p.events : ~ (s < u /\ u <= t)
  PROVE  FreeAt(p, t) = FreeAt(p, s)
  <1>1. PICK u \in DOMAIN p.events :
          /\ u <= s /\ FreeAt(p, s) = p.events[u] /\ \A w \in DOMAIN p.events : w <= s => w <= u
    BY FreeAtIs
  <1>2. PICK v \in DOMAIN p.events :
          /\ v <= t /\ FreeAt(p, t) = p.events[v] /\ \A w \in DOMAIN p.events : w <= t => w <= v
    <2>1. p.base_ts <= t
      BY DEF ProfileOK
    <2> QED
      BY <2>1, FreeAtIs
  <1>3. u \in Int /\ v \in Int
    BY DEF ProfileOK
  <1>4. v <= s
    BY <1>2, <1>3
  <1>5. u = v
    BY <1>1, <1>2, <1>3, <1>4
  <1> QED
    BY <1>1, <1>2, <1>5

(* They are a number, before the base the initial one.                     *)
LEMMA FreeAtNumber ==
  ASSUME NEW p, ProfileOK(p), NEW t \in Int
  PROVE  FreeAt(p, t) \in Int /\ (t < p.base_ts => FreeAt(p, t) = p.initial_free)
  <1>1. CASE t < p.base_ts
    BY <1>1 DEF FreeAt, ProfileOK
  <1>2. CASE p.base_ts <= t
    <2>1. PICK u \in DOMAIN p.events : FreeAt(p, t) = p.events[u]
      BY <1>2, FreeAtIs
    <2> QED
      BY <1>2, <2>1 DEF ProfileOK
  <1> QED
    BY <1>1, <1>2 DEF ProfileOK

(* Changing the events leaves the rest.                                    *)
LEMMA Changed ==
  ASSUME NEW p, ProfileOK(p), NEW E
  PROVE  LET q == [p EXCEPT !.events = E]
         IN  /\ q = [base_ts |-> q.base_ts, initial_free |-> q.initial_free, events |-> q.events]
             /\ q.base_ts = p.base_ts /\ q.initial_free = p.initial_free /\ q.events = E
  <1>1. p = [base_ts |-> p.base_ts, initial_free |-> p.initial_free, events |-> p.events]
    BY DEF ProfileOK
  <1>2. [p EXCEPT !.events = E] = [base_ts |-> p.base_ts, initial_free |-> p.initial_free, events |-> E]
    BY <1>1
  <1> QED
    BY <1>2

(* A break-point changes nothing but the events there are.                 *)
LEMMA BreakpointKeeps ==
  ASSUME NEW p, ProfileOK(p), NEW t \in Int, p.base_ts <= t
  PROVE  LET q == EnsureBreakpoint(p, t)
         IN  /\ ProfileOK(q) /\ q.base_ts = p.base_ts /\ q.initial_free = p.initial_free
             /\ DOMAIN q.events = DOMAIN p.events \cup {t}
             /\ \A s \in Int : FreeAt(q, s) = FreeAt(p, s)
  <1> DEFINE E == [u \in DOMAIN p.events \cup {t} |-> FreeAt(p, u)]
             q == EnsureBreakpoint(p, t)
  <1>1. LaterOf(t, p.base_ts) = t
    BY DEF LaterOf, ProfileOK
  <1>2. q = [p EXCEPT !.events = E]
    BY <1>1 DEF EnsureBreakpoint
  <1>3. /\ q = [base_ts |-> q.base_ts, initial_free |-> q.initial_free, events |-> q.events]
        /\ q.base_ts = p.base_ts /\ q.initial_free = p.initial_free /\ q.events = E
    BY <1>2, Changed
  <1> HIDE DEF q
  <1>4. DOMAIN q.events = DOMAIN p.events \cup {t}
    BY <1>3
  <1>5. \A u \in DOMAIN p.events : u \in Int /\ p.base_ts <= u
    BY DEF ProfileOK
  <1>6. \A u \in DOMAIN q.events : u \in Int /\ p.base_ts <= u /\ q.events[u] = FreeAt(p, u)
    BY <1>3, <1>4, <1>5
  <1>7. ProfileOK(q)
    <2>1. IsFiniteSet(DOMAIN q.events)
      <3>1. IsFiniteSet(DOMAIN p.events) /\ IsFiniteSet({t})
        BY FS_Singleton DEF ProfileOK
      <3> QED
        BY <1>4, <3>1, FS_Union
    <2>2. \A u \in DOMAIN q.events : q.events[u] \in Int
      BY <1>6, FreeAtNumber
    <2> QED
      BY <1>3, <1>4, <1>6, <2>1, <2>2 DEF ProfileOK
  <1>8. ASSUME NEW s \in Int
        PROVE  FreeAt(q, s) = FreeAt(p, s)
    <2>1. CASE s < p.base_ts
      BY <1>3, <1>7, <2>1, FreeAtNumber
    <2>2. CASE p.base_ts <= s
      <3>1. PICK u \in DOMAIN q.events :
              /\ u <= s /\ FreeAt(q, s) = q.events[u]
              /\ \A v \in DOMAIN q.events : v <= s => v <= u
        BY <1>3, <1>7, <2>2, FreeAtIs
      <3>2. FreeAt(q, s) = FreeAt(p, u) /\ u \in Int /\ p.base_ts <= u
        BY <1>6, <3>1
      <3>3. \A v \in DOMAIN p.events : ~ (u < v /\ v <= s)
        BY <1>4, <1>5, <3>1, <3>2
      <3>4. FreeAt(p, s) = FreeAt(p, u)
        BY <3>1, <3>2, <3>3, FreeAtBetween
      <3> QED
        BY <3>2, <3>4
    <2> QED
      BY <2>1, <2>2 DEF ProfileOK
  <1> QED
    BY <1>3, <1>4, <1>7, <1>8 DEF q

(* What a reservation leaves at a time.                                    *)
LeftBy(free, t, start, end, req) == IF start <= t /\ t < end THEN free - req ELSE free

(* A reservation takes its CPUs from its start to its end, and only then.  *)
LEMMA ReserveTakes ==
  ASSUME NEW p, ProfileOK(p), NEW start \in Int, p.base_ts <= start,
         NEW duration \in Nat \ {0}, NEW req \in Nat \ {0}
  PROVE  LET q == Reserve(p, start, duration, req)
         IN  /\ ProfileOK(q) /\ q.base_ts = p.base_ts /\ q.initial_free = p.initial_free
             /\ DOMAIN q.events = DOMAIN p.events \cup {start, start + duration}
             /\ \A t \in Int : FreeAt(q, t) = LeftBy(FreeAt(p, t), t, start, start + duration, req)
  <1> DEFINE q == Reserve(p, start, duration, req)
             end == start + duration
             a == EnsureBreakpoint(p, start)
             b == EnsureBreakpoint(a, end)
             E == [t \in DOMAIN b.events |-> LeftBy(b.events[t], t, start, end, req)]
  <1>1. end \in Int /\ start < end /\ p.base_ts <= end
    BY DEF ProfileOK
  <1>2. /\ ProfileOK(a) /\ a.base_ts = p.base_ts /\ a.initial_free = p.initial_free
        /\ DOMAIN a.events = DOMAIN p.events \cup {start}
        /\ \A s \in Int : FreeAt(a, s) = FreeAt(p, s)
    BY BreakpointKeeps
  <1> HIDE DEF end, a
  <1>3. /\ ProfileOK(b) /\ b.base_ts = p.base_ts /\ b.initial_free = p.initial_free
        /\ DOMAIN b.events = DOMAIN p.events \cup {start, end}
        /\ \A s \in Int : FreeAt(b, s) = FreeAt(p, s)
    <2>1. /\ ProfileOK(b) /\ b.base_ts = a.base_ts /\ b.initial_free = a.initial_free
          /\ DOMAIN b.events = DOMAIN a.events \cup {end}
          /\ \A s \in Int : FreeAt(b, s) = FreeAt(a, s)
      BY <1>1, <1>2, BreakpointKeeps
    <2> HIDE DEF b
    <2> QED
      BY <1>2, <2>1
  <1>4. q = [b EXCEPT !.events = E]
    BY DEF Reserve, LeftBy, a, end
  <1> HIDE DEF b
  <1>5. /\ q = [base_ts |-> q.base_ts, initial_free |-> q.initial_free, events |-> q.events]
        /\ q.base_ts = p.base_ts /\ q.initial_free = p.initial_free /\ q.events = E
    BY <1>3, <1>4, Changed
  <1> HIDE DEF q
  <1>6. DOMAIN q.events = DOMAIN b.events
    BY <1>5
  <1>7. \A u \in DOMAIN q.events :
          /\ u \in Int /\ p.base_ts <= u /\ b.events[u] \in Int
          /\ q.events[u] = LeftBy(b.events[u], u, start, end, req)
    BY <1>3, <1>5 DEF ProfileOK
  <1>8. ProfileOK(q)
    <2>1. \A u \in DOMAIN q.events : q.events[u] \in Int
      BY <1>7 DEF LeftBy
    <2> QED
      BY <1>3, <1>5, <1>6, <1>7, <2>1 DEF ProfileOK
  <1>9. ASSUME NEW t \in Int
        PROVE  FreeAt(q, t) = LeftBy(FreeAt(p, t), t, start, end, req)
    <2>1. CASE t < p.base_ts
      <3>1. FreeAt(q, t) = p.initial_free /\ FreeAt(p, t) = p.initial_free
        BY <1>5, <1>8, <2>1, FreeAtNumber
      <3> QED
        BY <2>1, <3>1 DEF LeftBy, ProfileOK
    <2>2. CASE p.base_ts <= t
      <3>1. PICK u \in DOMAIN q.events :
              /\ u <= t /\ FreeAt(q, t) = q.events[u]
              /\ \A v \in DOMAIN q.events : v <= t => v <= u
        BY <1>5, <1>8, <2>2, FreeAtIs
      <3>2. u \in Int /\ p.base_ts <= u /\ FreeAt(q, t) = LeftBy(b.events[u], u, start, end, req)
        BY <1>7, <3>1
      <3>3. FreeAt(b, u) = b.events[u]
        BY <1>3, <1>6, FreeAtEvent
      <3>4. \A v \in DOMAIN b.events : ~ (u < v /\ v <= t)
        BY <1>6, <1>7, <3>1, <3>2
      <3>5. FreeAt(b, t) = FreeAt(b, u)
        BY <1>3, <3>1, <3>2, <3>4, FreeAtBetween
      <3>6. start <= t <=> start <= u
        <4>1. start <= t => start <= u
          BY <1>3, <1>6, <3>1
        <4> QED
          BY <3>1, <3>2, <4>1
      <3>7. t < end <=> u < end
        <4>1. end <= t => end <= u
          BY <1>3, <1>6, <3>1
        <4> QED
          BY <1>1, <3>1, <3>2, <4>1
      <3> QED
        BY <1>3, <3>2, <3>3, <3>5, <3>6, <3>7 DEF LeftBy
    <2> QED
      BY <2>1, <2>2 DEF ProfileOK
  <1> QED
    BY <1>3, <1>5, <1>6, <1>8, <1>9 DEF end, q

-----------------------------------------------------------------------------
(* Windows.                                                                *)

(* CPUs are free through a time of some length.                            *)
FreeThroughout(p, start, runtime, req) == \A t \in start..(start + runtime - 1) : FreeAt(p, t) >= req

(* To look at the events is to look at every moment.                       *)
LEMMA WindowIs ==
  ASSUME NEW p, ProfileOK(p), NEW start \in Int, p.base_ts <= start,
         NEW runtime \in Nat \ {0}, NEW req \in Nat
  PROVE  WindowFits(p, start, start + runtime, req) <=> FreeThroughout(p, start, runtime, req)
  <1>1. ASSUME WindowFits(p, start, start + runtime, req), NEW t \in start..(start + runtime - 1)
        PROVE  FreeAt(p, t) >= req
    <2>1. t \in Int /\ start <= t /\ t < start + runtime /\ p.base_ts <= t
      BY DEF ProfileOK
    <2>2. PICK u \in DOMAIN p.events :
            /\ u <= t /\ FreeAt(p, t) = p.events[u] /\ \A v \in DOMAIN p.events : v <= t => v <= u
      BY <2>1, FreeAtIs
    <2>3. u \in Int
      BY DEF ProfileOK
    <2>4. CASE start < u
      BY <1>1, <2>1, <2>2, <2>3, <2>4 DEF WindowFits
    <2>5. CASE u <= start
      <3>1. \A v \in DOMAIN p.events : ~ (start < v /\ v <= t)
        BY <2>2, <2>3, <2>5 DEF ProfileOK
      <3>2. FreeAt(p, t) = FreeAt(p, start)
        BY <2>1, <3>1, FreeAtBetween
      <3> QED
        BY <1>1, <3>2 DEF WindowFits
    <2> QED
      BY <2>3, <2>4, <2>5
  <1>2. ASSUME FreeThroughout(p, start, runtime, req)
        PROVE  WindowFits(p, start, start + runtime, req)
    <2>1. FreeAt(p, start) >= req
      BY <1>2 DEF FreeThroughout
    <2>2. ASSUME NEW u \in DOMAIN p.events, start < u, u < start + runtime
          PROVE  p.events[u] >= req
      <3>1. u \in start..(start + runtime - 1)
        BY <2>2 DEF ProfileOK
      <3> QED
        BY <1>2, <3>1, FreeAtEvent DEF FreeThroughout
    <2> QED
      BY <2>1, <2>2 DEF WindowFits
  <1> QED
    BY <1>1, <1>2 DEF FreeThroughout

(* Where a window starts, there is one of the same length at the event     *)
(* before, or at the first time asked for.                                 *)
LEMMA WindowBefore ==
  ASSUME NEW p, ProfileOK(p), NEW first \in Int, p.base_ts <= first, NEW t \in Int, first <= t,
         NEW runtime \in Nat \ {0}, NEW req \in Nat, FreeThroughout(p, t, runtime, req)
  PROVE  \E u \in {first} \cup {v \in DOMAIN p.events : v > first} :
           u <= t /\ FreeThroughout(p, u, runtime, req)
  <1>1. PICK v \in DOMAIN p.events :
          /\ v <= t /\ FreeAt(p, t) = p.events[v] /\ \A w \in DOMAIN p.events : w <= t => w <= v
    <2>1. p.base_ts <= t
      BY DEF ProfileOK
    <2> QED
      BY <2>1, FreeAtIs
  <1>2. v \in Int
    BY DEF ProfileOK
  <1>3. PICK u \in Int : u = IF v > first THEN v ELSE first
    BY <1>2
  <1>4. u \in {first} \cup {w \in DOMAIN p.events : w > first} /\ u <= t /\ p.base_ts <= u /\ v <= u
    BY <1>1, <1>2, <1>3 DEF ProfileOK
  <1>5. ASSUME NEW s \in u..(u + runtime - 1)
        PROVE  FreeAt(p, s) >= req
    <2>1. CASE t <= s
      <3>1. s \in t..(t + runtime - 1)
        BY <1>4, <2>1
      <3> QED
        BY <3>1 DEF FreeThroughout
    <2>2. CASE s < t
      <3>1. \A w \in DOMAIN p.events : ~ (s < w /\ w <= t)
        BY <1>1, <1>2, <1>4 DEF ProfileOK
      <3>2. p.base_ts <= s
        BY <1>4 DEF ProfileOK
      <3>3. FreeAt(p, t) = FreeAt(p, s)
        BY <2>2, <3>1, <3>2, FreeAtBetween
      <3>4. FreeAt(p, t) >= req
        BY DEF FreeThroughout
      <3> QED
        BY <3>3, <3>4
    <2> QED
      BY <2>1, <2>2
  <1> QED
    BY <1>4, <1>5 DEF FreeThroughout

(* If the last event leaves enough free, a window is found, no later than  *)
(* that event, and none is earlier.                                        *)
LEMMA EarliestIs ==
  ASSUME NEW p, ProfileOK(p), NEW first \in Int, p.base_ts <= first,
         NEW runtime \in Nat \ {0}, NEW req \in Nat,
         NEW last \in Int, first <= last, \A u \in DOMAIN p.events : u <= last, FreeAt(p, last) >= req
  PROVE  LET start == FindEarliestWindow(p, req, runtime, first)
         IN  /\ start \in first..last
             /\ FreeThroughout(p, start, runtime, req)
             /\ \A t \in first..(start - 1) : ~ FreeThroughout(p, t, runtime, req)
  <1> DEFINE candidates == {first} \cup {t \in DOMAIN p.events : t > first}
             fitting == {t \in candidates : WindowFits(p, t, t + runtime, req)}
             start == FindEarliestWindow(p, req, runtime, first)
  <1>1. candidates \in SUBSET Int /\ IsFiniteSet(candidates) /\ \A t \in candidates : first <= t
    <2>1. IsFiniteSet({first}) /\ IsFiniteSet({t \in DOMAIN p.events : t > first})
      BY FS_Singleton, FS_Subset DEF ProfileOK
    <2>2. IsFiniteSet(candidates)
      BY <2>1, FS_Union
    <2> QED
      BY <2>2 DEF ProfileOK
  <1>2. fitting = {t \in candidates : FreeThroughout(p, t, runtime, req)}
    <2> SUFFICES ASSUME NEW t \in candidates
                 PROVE  WindowFits(p, t, t + runtime, req) <=> FreeThroughout(p, t, runtime, req)
      OBVIOUS
    <2>1. t \in Int /\ p.base_ts <= t
      BY <1>1 DEF ProfileOK
    <2> QED
      BY <2>1, WindowIs
  <1>3. FreeThroughout(p, last, runtime, req)
    <2> SUFFICES ASSUME NEW s \in last..(last + runtime - 1) PROVE FreeAt(p, s) >= req
      BY DEF FreeThroughout
    <2>1. s \in Int /\ last <= s /\ p.base_ts <= last
      BY DEF ProfileOK
    <2>2. \A u \in DOMAIN p.events : ~ (last < u /\ u <= s)
      BY DEF ProfileOK
    <2>3. FreeAt(p, s) = FreeAt(p, last)
      BY <2>1, <2>2, FreeAtBetween
    <2> QED
      BY <2>3
  <1>4. start = IF fitting = {} THEN NEVER_TS ELSE Min(fitting)
    <2>1. LaterOf(first, p.base_ts) = first
      BY DEF LaterOf, ProfileOK
    <2> QED
      BY <2>1 DEF FindEarliestWindow
  <1> HIDE DEF start, candidates
  <1>5. ASSUME NEW t \in Int, first <= t, FreeThroughout(p, t, runtime, req)
        PROVE  \E u \in fitting : u <= t
    BY <1>2, <1>5, WindowBefore DEF candidates
  <1>6. fitting # {} /\ fitting \in SUBSET Int /\ IsFiniteSet(fitting)
    BY <1>1, <1>3, <1>5, FS_Subset
  <1>7. start \in fitting /\ \A u \in fitting : start <= u
    BY <1>4, <1>6, MinOfFinite
  <1>8. start \in Int /\ first <= start /\ FreeThroughout(p, start, runtime, req)
    BY <1>1, <1>2, <1>7
  <1>9. \A t \in Int : first <= t /\ FreeThroughout(p, t, runtime, req) => start <= t
    <2> SUFFICES ASSUME NEW t \in Int, first <= t, FreeThroughout(p, t, runtime, req)
                 PROVE  start <= t
      OBVIOUS
    <2>1. PICK u \in fitting : u <= t
      BY <1>5
    <2> HIDE DEF fitting
    <2> QED
      BY <1>6, <1>7, <1>8, <2>1
  <1> HIDE DEF fitting
  <1>10. \A t \in first..(start - 1) : ~ FreeThroughout(p, t, runtime, req)
    BY <1>8, <1>9
  <1>11. start \in first..last
    BY <1>3, <1>8, <1>9
  <1> QED
    BY <1>8, <1>10, <1>11 DEF start

(* The profile of a snapshot tells what is free now and what is released.  *)
LEMMA SnapshotFree ==
  ASSUME NEW S, CpusCounted(S), \A rj \in S : rj.end_ts \in Int,
         NEW clock \in Int, NEW free \in Int
  PROVE  LET p == FromSnapshot(clock, free, S)
         IN  /\ ProfileOK(p) /\ p.base_ts = clock /\ p.initial_free = free
             /\ DOMAIN p.events = {clock} \cup {LaterOf(rj.end_ts, clock) : rj \in S}
             /\ \A t \in Int : clock <= t => FreeAt(p, t) = free + ReleasedBy(S, t)
  <1> DEFINE p == FromSnapshot(clock, free, S)
             times == {clock} \cup {LaterOf(rj.end_ts, clock) : rj \in S}
  <1>2. \A t : ReleasedBy(S, t) \in Nat
    BY AllocatedSplit DEF ReleasedBy
  <1>3. p = [base_ts |-> clock, initial_free |-> free, events |-> [t \in times |-> free + ReleasedBy(S, t)]]
    BY DEF FromSnapshot
  <1> HIDE DEF p
  <1>4. /\ p.base_ts = clock /\ p.initial_free = free /\ DOMAIN p.events = times
        /\ \A t \in times : p.events[t] = free + ReleasedBy(S, t)
    BY <1>3
  <1>5. \A u \in times : u \in Int /\ clock <= u
    BY DEF LaterOf
  <1>6. ProfileOK(p)
    <2>1. IsFiniteSet(times)
      <3> DEFINE ends == {LaterOf(rj.end_ts, clock) : rj \in S}
                 f == [rj \in S |-> LaterOf(rj.end_ts, clock)]
      <3>1. f \in Surjection(S, ends)
        BY DEF Surjection
      <3>2. IsFiniteSet(ends) /\ IsFiniteSet({clock})
        BY <3>1, FS_Surjection, FS_Singleton DEF CpusCounted
      <3> QED
        BY <3>2, FS_Union
    <2>2. \A u \in times : p.events[u] \in Int
      <3> HIDE DEF times
      <3> SUFFICES ASSUME NEW u \in times PROVE p.events[u] \in Int
        OBVIOUS
      <3>1. ReleasedBy(S, u) \in Nat /\ p.events[u] = free + ReleasedBy(S, u)
        BY <1>2, <1>4
      <3> QED
        BY <3>1
    <2>3. p = [base_ts |-> p.base_ts, initial_free |-> p.initial_free, events |-> p.events]
      BY <1>3
    <2>4. clock \in times
      OBVIOUS
    <2> HIDE DEF times
    <2> QED
      BY <1>4, <1>5, <2>1, <2>2, <2>3, <2>4 DEF ProfileOK
  <1>7. ASSUME NEW t \in Int, clock <= t
        PROVE  FreeAt(p, t) = free + ReleasedBy(S, t)
    <2>1. PICK u \in times :
            /\ u <= t /\ FreeAt(p, t) = p.events[u] /\ \A v \in times : v <= t => v <= u
      BY <1>4, <1>6, <1>7, FreeAtIs
    <2>2. u \in Int /\ clock <= u
      BY <1>5
    <2>3. \A rj \in S : rj.end_ts <= u <=> rj.end_ts <= t
      <3> SUFFICES ASSUME NEW rj \in S, rj.end_ts <= t PROVE rj.end_ts <= u
        BY <2>1, <2>2
      <3>1. LaterOf(rj.end_ts, clock) \in times /\ LaterOf(rj.end_ts, clock) <= t
        BY <1>7 DEF LaterOf
      <3>2. LaterOf(rj.end_ts, clock) <= u
        BY <2>1, <3>1
      <3> QED
        BY <2>2, <3>2 DEF LaterOf
    <2>4. {rj \in S : rj.end_ts <= u} = {rj \in S : rj.end_ts <= t}
      BY <2>3
    <2> QED
      BY <1>4, <2>1, <2>4 DEF ReleasedBy
  <1> HIDE DEF times
  <1> QED
    BY <1>4, <1>6, <1>7 DEF p, times

-----------------------------------------------------------------------------
(* Sums over finite sets.                                                  *)

(* The image of a finite set is finite.                                    *)
LEMMA ImageIsFinite ==
  ASSUME NEW f, IsFiniteSet(DOMAIN f)
  PROVE  IsFiniteSet({f[x] : x \in DOMAIN f})
  <1> DEFINE image == {f[x] : x \in DOMAIN f}
             g == [x \in DOMAIN f |-> f[x]]
  <1>1. g \in Surjection(DOMAIN f, image)
    BY DEF Surjection
  <1> HIDE DEF g, image
  <1>2. IsFiniteSet(image)
    BY <1>1, FS_Surjection
  <1> QED
    BY <1>2 DEF image

(* The sum over finitely many is a natural; the sum over some of them and  *)
(* that over the others make up the whole.                                 *)
LEMMA TotalSplit ==
  ASSUME NEW size, NEW S, IsFiniteSet(S), \A i \in S : size[i] \in Nat, NEW T \in SUBSET S
  PROVE  /\ TotalOf(size, S) \in Nat /\ TotalOf(size, T) \in Nat /\ TotalOf(size, S \ T) \in Nat
         /\ TotalOf(size, T) + TotalOf(size, S \ T) = TotalOf(size, S)
  <1> DEFINE of(i) == {i} \X (1..size[i])
             units(U) == UNION {of(i) : i \in U}
  <1>1. ASSUME NEW U \in SUBSET S PROVE IsFiniteSet(units(U))
    <2> DEFINE parts == {of(i) : i \in U}
               f == [i \in U |-> of(i)]
    <2>1. IsFiniteSet(U)
      BY FS_Subset
    <2>2. f \in Surjection(U, parts)
      BY DEF Surjection
    <2>3. IsFiniteSet(parts)
      <3> HIDE DEF f, parts
      <3> QED
        BY <2>1, <2>2, FS_Surjection
    <2>4. \A P \in parts : IsFiniteSet(P)
      <3> SUFFICES ASSUME NEW i \in U PROVE IsFiniteSet(of(i))
        OBVIOUS
      <3>1. IsFiniteSet({i})
        BY FS_Singleton
      <3>2. size[i] \in Nat
        OBVIOUS
      <3>3. IsFiniteSet(1..size[i])
        BY <3>2, FS_Interval
      <3> QED
        BY <3>1, <3>3, FS_Product
    <2> HIDE DEF of
    <2> QED
      BY <2>3, <2>4, FS_UNION
  <1>2. units(T) \cup units(S \ T) = units(S)
    <2> HIDE DEF of
    <2> QED
      OBVIOUS
  <1>3. units(T) \cap units(S \ T) = {}
    OBVIOUS
  <1>4. IsFiniteSet(units(S)) /\ IsFiniteSet(units(T)) /\ IsFiniteSet(units(S \ T))
    BY <1>1
  <1>5. /\ TotalOf(size, S) = Cardinality(units(S)) /\ TotalOf(size, T) = Cardinality(units(T))
        /\ TotalOf(size, S \ T) = Cardinality(units(S \ T))
    BY DEF TotalOf
  <1> HIDE DEF units
  <1>6. Cardinality(units(S)) \in Nat /\ Cardinality(units(T)) \in Nat /\ Cardinality(units(S \ T)) \in Nat
    BY <1>4, FS_CardinalityType
  <1>7. Cardinality(units(T) \cap units(S \ T)) = 0
    BY <1>3, FS_EmptySet
  <1>8. Cardinality(units(T) \cup units(S \ T))
          = Cardinality(units(T)) + Cardinality(units(S \ T)) - Cardinality(units(T) \cap units(S \ T))
    BY <1>4, FS_Union
  <1>9. Cardinality(units(S)) = Cardinality(units(T)) + Cardinality(units(S \ T)) - 0
    BY <1>2, <1>7, <1>8
  <1>10. Cardinality(units(T)) + Cardinality(units(S \ T)) = Cardinality(units(S))
    BY <1>6, <1>9
  <1> QED
    BY <1>5, <1>6, <1>10

(* A part sums to no more than the whole.                                  *)
LEMMA TotalPart ==
  ASSUME NEW size, NEW S, IsFiniteSet(S), \A i \in S : size[i] \in Nat, NEW T \in SUBSET S
  PROVE  TotalOf(size, T) \in Nat /\ TotalOf(size, T) <= TotalOf(size, S)
  <1>1. /\ TotalOf(size, S) \in Nat /\ TotalOf(size, T) \in Nat /\ TotalOf(size, S \ T) \in Nat
        /\ TotalOf(size, T) + TotalOf(size, S \ T) = TotalOf(size, S)
    BY TotalSplit
  <1> QED
    BY <1>1

(* Nothing sums to nothing.                                                *)
LEMMA TotalNone == \A size : TotalOf(size, {}) = 0
  <1> TAKE size
  <1> DEFINE units == UNION {{i} \X (1..size[i]) : i \in {}}
  <1>1. units = {}
    OBVIOUS
  <1>2. TotalOf(size, {}) = Cardinality(units)
    BY DEF TotalOf
  <1> HIDE DEF units
  <1> QED
    BY <1>1, <1>2, FS_EmptySet

(* A sum is the same over the same sizes elsewhere.                        *)
LEMMA TotalMoved ==
  ASSUME NEW size, NEW S, NEW other, NEW T, IsFiniteSet(S), \A i \in S : size[i] \in Nat,
         NEW f \in Bijection(S, T), \A i \in S : size[i] = other[f[i]]
  PROVE  TotalOf(size, S) = TotalOf(other, T)
  <1> DEFINE units == UNION {{i} \X (1..size[i]) : i \in S}
             moved == UNION {{i} \X (1..other[i]) : i \in T}
             g == [u \in units |-> <<f[u[1]], u[2]>>]
  <1>1. \A u \in units : u[1] \in S /\ u[2] \in 1..size[u[1]] /\ u = <<u[1], u[2]>>
    OBVIOUS
  <1>2. \A i \in S : \A k \in 1..size[i] : <<i, k>> \in units
    OBVIOUS
  <1>3. \A v \in moved : v[1] \in T /\ v[2] \in 1..other[v[1]] /\ v = <<v[1], v[2]>>
    OBVIOUS
  <1>4. \A i \in T : \A k \in 1..other[i] : <<i, k>> \in moved
    OBVIOUS
  <1>5. /\ \A i \in S : f[i] \in T
        /\ \A i, j \in S : f[i] = f[j] => i = j
        /\ \A j \in T : \E i \in S : f[i] = j
    BY DEF Bijection, Injection, IsInjective, Surjection
  <1>6. IsFiniteSet(units)
    <2> DEFINE part == [i \in S |-> {i} \X (1..size[i])]
               parts == {part[i] : i \in DOMAIN part}
    <2>1. \A i \in S : IsFiniteSet(part[i])
      <3> SUFFICES ASSUME NEW i \in S PROVE IsFiniteSet({i} \X (1..size[i]))
        OBVIOUS
      <3>1. size[i] \in Nat
        OBVIOUS
      <3>2. IsFiniteSet(1..size[i])
        BY <3>1, FS_Interval
      <3>3. IsFiniteSet({i})
        BY FS_Singleton
      <3> QED
        BY <3>2, <3>3, FS_Product
    <2>2. DOMAIN part = S /\ UNION parts = units
      OBVIOUS
    <2> HIDE DEF part, units
    <2>3. IsFiniteSet(parts)
      BY <2>2, ImageIsFinite
    <2>4. \A P \in parts : IsFiniteSet(P)
      BY <2>1, <2>2
    <2> HIDE DEF parts
    <2>5. IsFiniteSet(UNION parts)
      BY <2>3, <2>4, FS_UNION
    <2> QED
      BY <2>2, <2>5
  <1> HIDE DEF units, moved
  <1>7. \A u \in units : g[u] \in moved /\ g[u][1] = f[u[1]] /\ g[u][2] = u[2]
    <2> TAKE u \in units
    <2>1. u[1] \in S /\ u[2] \in 1..other[f[u[1]]] /\ f[u[1]] \in T
      BY <1>1, <1>5
    <2>2. <<f[u[1]], u[2]>> \in moved
      BY <1>4, <2>1
    <2> QED
      BY <2>2
  <1>8. \A u, v \in units : g[u] = g[v] => u = v
    BY <1>1, <1>5, <1>7
  <1>9. \A v \in moved : \E u \in units : g[u] = v
    <2> TAKE v \in moved
    <2>1. PICK i \in S : f[i] = v[1]
      BY <1>3, <1>5
    <2>2. v[2] \in 1..size[i] /\ v = <<f[i], v[2]>>
      BY <1>3, <2>1
    <2>3. <<i, v[2]>> \in units
      BY <1>2, <2>2
    <2> QED
      BY <2>2, <2>3
  <1>10. g \in Bijection(units, moved)
    <2>1. g \in [units -> moved]
      BY <1>7
    <2> HIDE DEF g
    <2> QED
      BY <1>8, <1>9, <2>1 DEF Bijection, Injection, IsInjective, Surjection
  <1>11. ExistsBijection(units, moved)
    <2> HIDE DEF g
    <2> QED
      BY <1>10 DEF ExistsBijection
  <1>12. Cardinality(units) = Cardinality(moved)
    BY <1>6, <1>11, FS_Bijection
  <1> QED
    BY <1>12 DEF TotalOf, units, moved

(* The sum over one.                                                       *)
LEMMA TotalSingle ==
  ASSUME NEW size, NEW x, size[x] \in Nat
  PROVE  TotalOf(size, {x}) = size[x]
  <1>1. PICK c \in Nat : c = size[x]
    OBVIOUS
  <1>2. UNION {{i} \X (1..size[i]) : i \in {x}} = {x} \X (1..c)
    BY <1>1
  <1>3. IsFiniteSet({x}) /\ Cardinality({x}) = 1
    BY FS_Singleton
  <1>4. IsFiniteSet(1..c) /\ Cardinality(1..c) = c
    BY FS_Interval
  <1>5. Cardinality({x} \X (1..c)) = Cardinality({x}) * Cardinality(1..c)
    BY <1>3, <1>4, FS_Product
  <1>6. Cardinality({x} \X (1..c)) = c
    BY <1>3, <1>4, <1>5
  <1> QED
    BY <1>1, <1>2, <1>6 DEF TotalOf

(* A sum of sums, the second of them taken k times.                        *)
Linear(S, a, k, b, c) ==
  (\A i \in S : a[i] \in Nat /\ b[i] \in Nat /\ c[i] = a[i] + k * b[i])
    => TotalOf(c, S) = TotalOf(a, S) + k * TotalOf(b, S)

LEMMA TotalLinear ==
  ASSUME NEW S, IsFiniteSet(S), NEW k \in Nat, NEW a, NEW b, NEW c
  PROVE  Linear(S, a, k, b, c)
  <1> DEFINE Bad == {n \in Nat : \E T \in SUBSET S : Cardinality(T) = n /\ ~ Linear(T, a, k, b, c)}
  <1>1. Bad = {}
    <2> SUFFICES ASSUME Bad # {} PROVE FALSE
      OBVIOUS
    <2>1. PICK n \in Bad : \A m \in Bad : n <= m
      <3>1. Bad \in SUBSET Nat
        OBVIOUS
      <3> HIDE DEF Bad
      <3> QED
        BY <3>1, LeastNatural
    <2>2. PICK T \in SUBSET S : Cardinality(T) = n /\ ~ Linear(T, a, k, b, c)
      BY <2>1
    <2>3. IsFiniteSet(T) /\ n \in Nat
      BY <2>1, FS_Subset
    <2>4. \A i \in T : a[i] \in Nat /\ b[i] \in Nat /\ c[i] = a[i] + k * b[i]
      BY <2>2 DEF Linear
    <2>5. \A i \in T : k * b[i] \in Nat /\ c[i] \in Nat
      <3> SUFFICES ASSUME NEW i \in T PROVE k * b[i] \in Nat /\ c[i] \in Nat
        OBVIOUS
      <3>1. a[i] \in Nat /\ b[i] \in Nat /\ c[i] = a[i] + k * b[i]
        BY <2>4
      <3>2. k * b[i] \in Nat
        BY <3>1
      <3> QED
        BY <3>1, <3>2
    <2>6. CASE T = {}
      <3>1. TotalOf(c, T) = 0 /\ TotalOf(a, T) = 0 /\ TotalOf(b, T) = 0
        BY <2>6, TotalNone
      <3> QED
        BY <2>2, <3>1 DEF Linear
    <2>7. CASE T # {}
      <3>1. PICK x \in T : TRUE
        BY <2>7
      <3> DEFINE U == T \ {x}
      <3>2. U \in SUBSET T /\ T \ U = {x}
        BY <3>1
      <3>3. Cardinality(U) \in Nat /\ Cardinality(U) < n
        <4>1. /\ Cardinality(T \ {x}) = Cardinality(T) - 1 
          BY <2>3, <3>1, FS_RemoveElement
        <4>2. Cardinality(U) \in Nat
          BY <2>3, FS_RemoveElement, FS_CardinalityType
        <4> QED
          BY <2>2, <2>3, <4>1, <4>2
      <3>4. Linear(U, a, k, b, c)
        <4>1. Cardinality(U) \notin Bad
          BY <2>1, <2>3, <3>3
        <4> QED
          BY <3>3, <4>1
      <3> HIDE DEF Bad, U
      <3>5. TotalOf(c, U) = TotalOf(a, U) + k * TotalOf(b, U)
        BY <2>4, <3>2, <3>4 DEF Linear
      <3>6. /\ TotalOf(c, U) \in Nat /\ TotalOf(c, U) + TotalOf(c, {x}) = TotalOf(c, T)
            /\ TotalOf(a, U) \in Nat /\ TotalOf(a, U) + TotalOf(a, {x}) = TotalOf(a, T)
            /\ TotalOf(b, U) \in Nat /\ TotalOf(b, U) + TotalOf(b, {x}) = TotalOf(b, T)
        <4>1. \A i \in T : a[i] \in Nat /\ b[i] \in Nat
          BY <2>4
        <4>2. TotalOf(c, U) \in Nat /\ TotalOf(c, U) + TotalOf(c, T \ U) = TotalOf(c, T)
          BY <2>3, <2>5, <3>2, TotalSplit
        <4>3. TotalOf(a, U) \in Nat /\ TotalOf(a, U) + TotalOf(a, T \ U) = TotalOf(a, T)
          BY <2>3, <4>1, <3>2, TotalSplit
        <4>4. TotalOf(b, U) \in Nat /\ TotalOf(b, U) + TotalOf(b, T \ U) = TotalOf(b, T)
          BY <2>3, <4>1, <3>2, TotalSplit
        <4> QED
          BY <3>2, <4>2, <4>3, <4>4
      <3>7. TotalOf(c, {x}) = c[x] /\ TotalOf(a, {x}) = a[x] /\ TotalOf(b, {x}) = b[x]
        BY <2>4, <2>5, <3>1, TotalSingle
      <3>8. a[x] \in Nat /\ b[x] \in Nat /\ c[x] = a[x] + k * b[x]
        BY <2>4, <3>1
      <3>9. \A p, q \in Nat : k * (p + q) = k * p + k * q /\ k * p \in Nat /\ k * q \in Nat
        OBVIOUS
      <3>10. k * (TotalOf(b, U) + b[x]) = k * TotalOf(b, U) + k * b[x] /\ k * TotalOf(b, U) \in Nat /\ k * b[x] \in Nat
        BY <3>6, <3>8, <3>9
      <3>11. TotalOf(b, T) = TotalOf(b, U) + b[x]
        BY <3>6, <3>7
      <3>12. k * TotalOf(b, T) = k * TotalOf(b, U) + k * b[x]
        BY <3>10, <3>11
      <3>13. TotalOf(c, T) = TotalOf(a, T) + k * TotalOf(b, T)
        BY <3>5, <3>6, <3>7, <3>8, <3>10, <3>12
      <3> QED
        BY <2>2, <3>13 DEF Linear
    <2> QED
      BY <2>6, <2>7
  <1>2. S \in SUBSET S /\ Cardinality(S) \in Nat
    BY FS_CardinalityType
  <1> QED
    BY <1>1, <1>2

(* A sum of as many ones as there are.                                     *)
LEMMA TotalOnes ==
  ASSUME NEW S, IsFiniteSet(S), NEW b, \A i \in S : b[i] = 1
  PROVE  TotalOf(b, S) = Cardinality(S)
  <1> DEFINE units == UNION {{i} \X (1..b[i]) : i \in S}
             g == [i \in S |-> <<i, 1>>]
  <1>1. 1..1 = {1}
    OBVIOUS
  <1>2. units = {<<i, 1>> : i \in S}
    BY <1>1
  <1>3. g \in Bijection(S, units)
    <2>1. g \in [S -> units]
      BY <1>2
    <2>2. \A i \in S : g[i] = <<i, 1>>
      OBVIOUS
    <2>3. \A i, j \in S : g[i] = g[j] => i = j
      BY <2>2
    <2>4. \A u \in units : \E i \in S : g[i] = u
      BY <1>2, <2>2
    <2> HIDE DEF g, units
    <2> QED
      BY <2>1, <2>3, <2>4 DEF Bijection, Injection, IsInjective, Surjection
  <1> HIDE DEF g, units
  <1>4. Cardinality(units) = Cardinality(S)
    BY <1>3, FS_Bijection DEF ExistsBijection
  <1> QED
    BY <1>4 DEF TotalOf, units

(* A sum of zeros.                                                         *)
LEMMA TotalZeros ==
  ASSUME NEW S, NEW b, \A i \in S : b[i] = 0
  PROVE  TotalOf(b, S) = 0
  <1>1. 1..0 = {}
    OBVIOUS
  <1>2. \A i \in S : {i} \X (1..b[i]) = {}
    BY <1>1
  <1>3. UNION {{i} \X (1..b[i]) : i \in S} = {}
    BY <1>2
  <1> QED
    BY <1>3, FS_EmptySet DEF TotalOf

(* A sum depends on the sizes of its members only.                         *)
LEMMA TotalSame ==
  ASSUME NEW S, NEW a, NEW b, \A i \in S : a[i] = b[i]
  PROVE  TotalOf(a, S) = TotalOf(b, S)
  <1>1. UNION {{i} \X (1..a[i]) : i \in S} = UNION {{i} \X (1..b[i]) : i \in S}
    OBVIOUS
  <1> QED
    BY <1>1 DEF TotalOf

-----------------------------------------------------------------------------
(* Sorted sequences.                                                       *)

(* A key for each of n places.                                             *)
SortKeys(key, n) == DOMAIN key = 1..n /\ \A i \in 1..n : key[i][1] \in Int /\ key[i][2] \in Int

(* Places in the order in which a sort by these keys leaves them.          *)
Ordering(order, key, n) ==
  /\ order \in Bijection(1..n, 1..n)
  /\ \A p, q \in 1..n : p < q => KeyBefore(key, order[p], order[q])

Permuted(order, items, key, n) ==
  Ordering(order, key, n) /\ Sorted(items, key) = [p \in 1..n |-> items[order[p]]]

(* SortKeys and places together are a total order.                             *)
LEMMA KeysOrder ==
  ASSUME NEW n \in Nat, NEW key, SortKeys(key, n), NEW i \in 1..n, NEW j \in 1..n, NEW k \in 1..n
  PROVE  /\ ~ KeyBefore(key, i, i)
         /\ i # j => KeyBefore(key, i, j) \/ KeyBefore(key, j, i)
         /\ KeyBefore(key, i, j) /\ KeyBefore(key, j, k) => KeyBefore(key, i, k)
  <1>1. /\ i \in Int /\ j \in Int /\ k \in Int
        /\ key[i][1] \in Int /\ key[i][2] \in Int /\ key[j][1] \in Int /\ key[j][2] \in Int
        /\ key[k][1] \in Int /\ key[k][2] \in Int
    BY DEF SortKeys
  <1> QED
    BY <1>1 DEF KeyBefore

(* A sort permutes a sequence, and leaves it in the order of the keys.     *)
LEMMA SortedIs ==
  ASSUME NEW n \in Nat, NEW items, DOMAIN items = 1..n, NEW key, SortKeys(key, n)
  PROVE  \E order : Permuted(order, items, key, n)
  <1> DEFINE less(i) == {j \in 1..n : KeyBefore(key, j, i)}
             place == [i \in 1..n |-> PlaceOf(key, i)]
             order == [p \in 1..n |-> CHOOSE i \in 1..n : PlaceOf(key, i) = p]
  <1>1. IsFiniteSet(1..n) /\ Cardinality(1..n) = n
    BY FS_Interval
  <1>2. \A i \in 1..n : /\ PlaceOf(key, i) = 1 + Cardinality(less(i))
                        /\ less(i) \in SUBSET (1..n) /\ i \notin less(i)
                        /\ IsFiniteSet(less(i)) /\ Cardinality(less(i)) \in Nat
    <2> TAKE i \in 1..n
    <2>1. less(i) \in SUBSET (1..n) /\ i \notin less(i)
      BY KeysOrder
    <2>2. IsFiniteSet(less(i)) /\ Cardinality(less(i)) \in Nat
      BY <1>1, <2>1, FS_Subset, FS_CardinalityType
    <2> QED
      BY <2>1, <2>2 DEF PlaceOf, SortKeys
  <1>3. ASSUME NEW i \in 1..n, NEW k \in 1..n, KeyBefore(key, i, k)
        PROVE  PlaceOf(key, i) < PlaceOf(key, k)
    <2>1. less(i) \in SUBSET less(k)
      BY <1>3, KeysOrder
    <2>2. i \in less(k) /\ i \notin less(i)
      BY <1>2, <1>3
    <2>3. Cardinality(less(i)) <= Cardinality(less(k)) /\ Cardinality(less(k)) # Cardinality(less(i))
      <3> HIDE DEF less
      <3> QED
        BY <1>2, <2>1, <2>2, FS_Subset
    <2> HIDE DEF less
    <2> QED
      BY <1>2, <2>3
  <1>4. \A i \in 1..n : PlaceOf(key, i) \in 1..n
    <2> TAKE i \in 1..n
    <2>1. Cardinality(less(i)) <= n /\ Cardinality(less(i)) # n
      <3>1. less(i) \in SUBSET (1..n) /\ less(i) # 1..n
        BY <1>2
      <3> HIDE DEF less
      <3> QED
        BY <1>1, <3>1, FS_Subset
    <2> HIDE DEF less
    <2> QED
      BY <1>2, <2>1
  <1>5. \A i, k \in 1..n : PlaceOf(key, i) = PlaceOf(key, k) => i = k
    <2> SUFFICES ASSUME NEW i \in 1..n, NEW k \in 1..n, i # k PROVE PlaceOf(key, i) # PlaceOf(key, k)
      OBVIOUS
    <2>1. KeyBefore(key, i, k) \/ KeyBefore(key, k, i)
      BY KeysOrder
    <2>2. PlaceOf(key, i) < PlaceOf(key, k) \/ PlaceOf(key, k) < PlaceOf(key, i)
      BY <1>3, <2>1
    <2> QED
      BY <1>4, <2>2
  <1>6. place \in Injection(1..n, 1..n)
    BY <1>4, <1>5 DEF Injection, IsInjective
  <1>7. place \in Surjection(1..n, 1..n)
    <2> HIDE DEF place
    <2> QED
      BY <1>1, <1>6, FS_Injection
  <1>8. \A p \in 1..n : \E i \in 1..n : PlaceOf(key, i) = p
    BY <1>7 DEF Surjection
  <1>9. \A p \in 1..n : order[p] \in 1..n /\ PlaceOf(key, order[p]) = p
    BY <1>8
  <1>10. order \in Bijection(1..n, 1..n)
    <2>1. order \in [1..n -> 1..n] /\ \A p, q \in 1..n : order[p] = order[q] => p = q
      BY <1>9
    <2>2. \A i \in 1..n : \E p \in 1..n : order[p] = i
      BY <1>4, <1>5, <1>9
    <2> HIDE DEF order
    <2> QED
      BY <2>1, <2>2 DEF Bijection, Injection, IsInjective, Surjection
  <1>11. ASSUME NEW p \in 1..n, NEW q \in 1..n, p < q PROVE KeyBefore(key, order[p], order[q])
    <2>1. order[p] \in 1..n /\ order[q] \in 1..n /\ PlaceOf(key, order[p]) = p /\ PlaceOf(key, order[q]) = q
      BY <1>9
    <2> HIDE DEF order
    <2>2. ~ KeyBefore(key, order[q], order[p])
      <3>1. ASSUME KeyBefore(key, order[q], order[p]) PROVE FALSE
        BY <1>3, <1>11, <2>1, <3>1
      <3> QED
        BY <3>1
    <2>3. order[p] # order[q]
      BY <1>11, <2>1
    <2> QED
      BY <2>1, <2>2, <2>3, KeysOrder
  <1>12. Sorted(items, key) = [p \in 1..n |-> items[order[p]]]
    BY DEF Sorted
  <1> HIDE DEF order
  <1> QED
    BY <1>10, <1>11, <1>12 DEF Ordering, Permuted

(* A set put in a sequence is all of it there.                             *)
LEMMA SequenceOfSet ==
  ASSUME NEW S, IsFiniteSet(S)
  PROVE  /\ SetToSeq(S) \in [1..Cardinality(S) -> S] /\ Cardinality(S) \in Nat
         /\ IsInjective(SetToSeq(S))
         /\ \A x \in S : \E i \in 1..Cardinality(S) : SetToSeq(S)[i] = x
  <1> DEFINE seq == SetToSeq(S)
             n == Cardinality(S)
  <1>1. n \in Nat /\ ExistsBijection(1..n, S)
    BY FS_CardinalityType
  <1>2. \E f \in [1..n -> S] : IsInjective(f)
    BY <1>1 DEF ExistsBijection, Bijection, Injection
  <1>3. seq \in [1..n -> S] /\ IsInjective(seq)
    BY <1>2 DEF SetToSeq
  <1> HIDE DEF seq
  <1>4. seq \in Injection(1..n, S)
    BY <1>3 DEF Injection
  <1>5. IsFiniteSet(1..n) /\ Cardinality(1..n) = n
    <2>1. Cardinality(1..n) = IF 1 > n THEN 0 ELSE n - 1 + 1
      BY <1>1, FS_Interval
    <2>2. n \in Int /\ 1 \in Int
      BY <1>1
    <2>3. IsFiniteSet(1..n)
      BY <2>2, FS_Interval
    <2> HIDE DEF n
    <2> QED
      BY <1>1, <2>1, <2>3
  <1>6. seq \in Surjection(1..n, S)
    BY <1>4, <1>5, FS_Injection
  <1>7. \A x \in S : \E i \in 1..n : seq[i] = x
    BY <1>6 DEF Surjection
  <1> QED
    BY <1>1, <1>3, <1>7 DEF seq
=============================================================================
