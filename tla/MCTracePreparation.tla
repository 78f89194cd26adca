------------------------- MODULE MCTracePreparation -------------------------
(***************************************************************************)
(* Raw traces of up to three rows, and logs of up to three lines, for      *)
(* TracePreparation.                                                       *)
(***************************************************************************)
EXTENDS TracePreparation

MCRow(id, ts, cpus, actual, requested, prediction) ==
  [job_id |-> id, submit_ts |-> ts, requested_cpus |-> cpus, runtime_actual_sec |-> actual,
   runtime_requested_sec |-> requested, prediction |-> prediction, user_id |-> <<"number", 1>>]

MCPredictions == {Missing} \cup [p10 : {0, 2}, p50 : {1, 4}, p90 : {1, 3, 6}]

MCRows ==
  {MCRow(id, ts, cpus, 1, Missing, Missing) : id \in {1, 2, Missing}, ts \in 0..1, cpus \in {0, 2}}
  \cup {MCRow(3, 1, 1, actual, requested, prediction) :
          actual \in {-1, 0, 2}, requested \in {Missing, 0, 3}, prediction \in MCPredictions}

MCFew == {MCRow(id, ts, cpus, 1, 2, Missing) : id \in 1..2, ts \in 0..1, cpus \in {0, 2}}
         \cup {MCRow(2, 0, 1, Missing, Missing, Missing)}

(* A history of two users, for the policies that learn from it.            *)
MCPast(id, ts, actual, user) == [MCRow(id, ts, 1, actual, 4, Missing) EXCEPT !.user_id = <<"number", user>>]

MCHistories ==
  {<<MCPast(1, 0, a, 1), MCPast(2, b, c, u), MCPast(3, d, 1, 1), MCPast(4, 4, 1, v)>> :
     a \in {1, 3}, b \in 0..1, c \in {0, 2}, d \in {2, 4}, u \in 1..2, v \in 1..2}

MCRawTraces ==
  {<<row>> : row \in MCRows} \cup (MCRows \X MCFew) \cup (MCFew \X MCFew \X MCFew) \cup MCHistories

MCGuardKs == {[num |-> 0, den |-> 1], [num |-> 1, den |-> 2], [num |-> 1, den |-> 1]}

(* A job that waits and runs over a minute, one that runs over a day and   *)
(* starts as the first does, and one submitted at that time.               *)
MCJob(id, user, submit, start, ran) ==
  [id |-> id, user |-> user, submit |-> submit, start |-> start, ran |-> ran, cpus |-> 2, limit_min |-> 1500]

MCLogJobs == {MCJob(1, 1, 1, 5, 61), MCJob(2, 2, 2, 5, 90061), MCJob(3, 1, 5, 70, 0)}

MCGiven == {Figures, {"start", "ran"}, {"start", "end", "cpus"}, {"end", "ran"}}

(* A cluster in UTC whose jobs are still exiting, one an hour ahead of it  *)
(* whose jobs change after their end, and times of an unknown form.        *)
MCDisplay(form, zone, changed, state) == [form |-> form, zone |-> zone, changed |-> changed, state |-> state]
MCDisplays == {MCDisplay("asctime", 0, 0, "E"), MCDisplay("iso", 3600, 60, "F"), MCDisplay("other", 0, 0, "F")}

(* Every set of figures for plain records; one job for the other kinds.    *)
MCLogLines ==
  [kind : {"job"}, job : MCLogJobs, given : MCGiven]
    \cup [kind : {"array", "requeued", "unsubmitted"}, job : {MCJob(2, 2, 2, 5, 90061)}, given : {Figures}]
=============================================================================
