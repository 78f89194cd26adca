--------------------------- MODULE MCEnvironments ---------------------------
(***************************************************************************)
(* Both reinforcement learning environments on small traces: a behaviour   *)
(* is an episode of the first, or a policy search in the second; the state *)
(* of the other stays as it was.                                           *)
(***************************************************************************)
EXTENDS RLSchedulerEnv, SchedulingEnv

EnvOff ==
  /\ all_jobs = <<>> /\ agent = "legal" /\ env_pc = "off" /\ jobs = <<>> /\ clock_ts = 0
  /\ free_cpus = 0 /\ submit_idx = 0 /\ queued = {} /\ running = {} /\ completed = {}
  /\ advanced = {} /\ steps = 0 /\ reward = [slowdowns |-> 0, penalties |-> 0]

SearchOff == search_pc = "off" /\ sim = NewEpisode(<<>>, NoAction) /\ results = <<>> /\ best = 0

Init == (EnvInit /\ SearchOff) \/ (SearchInit /\ EnvOff)

Next == \/ EnvNext /\ UNCHANGED searchVars
        \/ SearchNext /\ UNCHANGED envVars

(* The agent and the search go on as long as there is something to do.     *)
Spec == Init /\ [][Next]_<<envVars, searchVars>> /\ WF_<<envVars, searchVars>>(Next)

MCAction(num, den, boost) == [threshold |-> [num |-> num, den |-> den], boost |-> boost]
MCActions == {MCAction(0, 1, 0), MCAction(1, 2, 0), MCAction(1, 1, 2)}

MCJob(id, ts, runtime, cpus) ==
  [job_id |-> id, submit_ts |-> ts, runtime_actual_sec |-> runtime, requested_cpus |-> cpus]

MCTracesOf(n, times, runtimes, cpus) ==
  {[i \in 1..n |-> MCJob(i, ts[i], rt[i], cpu[i])] :
     ts \in times, rt \in [1..n -> runtimes], cpu \in [1..n -> cpus]}

MCSearchTraces == MCTracesOf(3, {<<1, 1, 2>>}, {1, 3}, {1, 2})
                  \cup MCTracesOf(4, {<<0, 0, 0, 1>>}, {2}, {1, 2})
                  \cup MCTracesOf(2, {<<0, 1>>}, {0, 2}, {2, 3})

(* Ids shared by two rows; rows of no CPU; a job too large; a trace longer *)
(* than a window, and a queue longer than what is shown of it.             *)
MCAllJobs == MCTracesOf(3, {<<2, 0, 0>>}, {0, 3}, {0, 2})
             \cup MCTracesOf(4, {<<0, 0, 0, 1>>}, {1}, {1, 2})
             \cup MCTracesOf(3, {<<1, 1, 1>>}, {1, 2}, {1, 3})
             \cup MCTracesOf(2, {<<0, 0>>, <<0, 1>>}, {0, 2}, {1, 2})
             \cup {[t EXCEPT ![2].job_id = 1] : t \in MCTracesOf(2, {<<0, 1>>}, {1, 2}, {1, 2})}

(* An episode of the agent that heeds the mask ends, and so does a search, *)
(* when every job fits the machine and the agent sees the whole queue.     *)
EpisodesEnd ==
  /\ env_pc = "advance" /\ Visible /\ DistinctIds /\ agent = "legal" ~> env_pc \in {"off", "terminated"}
  /\ (search_pc = "trial" /\ \A i \in DOMAIN sim.trace : Cpus(sim, i) <= SearchCapacity)
       ~> search_pc \in {"off", "chosen"}
=============================================================================
