------------------------ MODULE AvailabilityProfile ------------------------
(***************************************************************************)
(* simulate/availability_profile.py: the timeline of free CPUs on which    *)
(* conservative backfill reserves a window for every queued job.           *)
(*                                                                         *)
(* The sorted list of (time, free_after) pairs is a function from the      *)
(* times of the events to the CPUs free from then until the next event.    *)
(***************************************************************************)
EXTENDS Integers, FiniteSetsExt

NEVER_TS == 2^30    \* 10**18 in the code: after every time of a run

LaterOf(a, b) == IF a > b THEN a ELSE b

(* CPUs of running jobs, a set of records, counted one by one.             *)
AllocatedUnits(jobsRunning) == UNION {{rj} \X (1..rj.allocated_cpus) : rj \in jobsRunning}
AllocatedCpus(jobsRunning) == Cardinality(AllocatedUnits(jobsRunning))

(* CPUs that running jobs release by time t.                               *)
ReleasedBy(jobsRunning, t) == AllocatedCpus({rj \in jobsRunning : rj.end_ts <= t})

FromSnapshot(clock_ts, free_cpus, jobsRunning) ==
  LET times == {clock_ts} \cup {LaterOf(rj.end_ts, clock_ts) : rj \in jobsRunning}
  IN  [base_ts |-> clock_ts,
       initial_free |-> free_cpus,
       events |-> [t \in times |-> free_cpus + ReleasedBy(jobsRunning, t)]]

FreeAt(prof, t) ==
  LET past == {u \in DOMAIN prof.events : u <= t}
  IN  IF t < prof.base_ts \/ past = {} THEN prof.initial_free
      ELSE prof.events[Max(past)]

EnsureBreakpoint(prof, at) ==
  LET t == LaterOf(at, prof.base_ts)
  IN  [prof EXCEPT !.events = [u \in DOMAIN @ \cup {t} |-> FreeAt(prof, u)]]

(* req CPUs are free at start and after every event before end.            *)
WindowFits(prof, start, end, req) ==
  /\ FreeAt(prof, start) >= req
  /\ \A u \in DOMAIN prof.events : start < u /\ u < end => prof.events[u] >= req

Bug_LatestEventFirst(prof, req, runtime, after) ==
  LET fitting == {t \in DOMAIN prof.events : t >= after /\ WindowFits(prof, t, t + runtime, req)}
  IN  IF fitting = {} THEN NEVER_TS ELSE Max(fitting)

(* Windows start at after or at a later event.                             *)
FindEarliestWindow(prof, req, runtime, after) ==
  LET first      == LaterOf(after, prof.base_ts)
      candidates == {first} \cup {t \in DOMAIN prof.events : t > first}
      fitting    == {t \in candidates : WindowFits(prof, t, t + runtime, req)}
  IN  IF runtime <= 0 THEN first
      ELSE IF fitting = {} THEN NEVER_TS ELSE Min(fitting)

Bug_NoEndBreakpoint(prof, start, duration, req) ==
  LET split == EnsureBreakpoint(prof, start)
  IN  [split EXCEPT !.events = [t \in DOMAIN @ |->
         IF start <= t /\ t < start + duration THEN @[t] - req ELSE @[t]]]

Reserve(prof, start, duration, req) ==
  LET end   == start + duration
      split == EnsureBreakpoint(EnsureBreakpoint(prof, start), end)
  IN  IF req <= 0 \/ duration <= 0 THEN prof
      ELSE [split EXCEPT !.events = [t \in DOMAIN @ |->
              IF start <= t /\ t < end THEN @[t] - req ELSE @[t]]]
=============================================================================
