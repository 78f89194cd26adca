----------------------------- MODULE MCPipeline -----------------------------
(***************************************************************************)
(* A suite of two traces, which hold a trace that passes, one whose gate   *)
(* fails, one whose candidate does not improve and one with a job larger   *)
(* than the machine; seven candidates around the limits; benchmarks of two *)
(* profiles at rates around the largest drops; external runs of up to      *)
(* three jobs, one without figures and one wider than the machine; what-if *)
(* analyses of two rows.                                                   *)
(***************************************************************************)
EXTENDS Pipeline

MCSuite == <<"ctc", "sdsc">>

Figure(wait, p95, throughput, makespan) ==
  [mean_wait_sec |-> wait, p95_wait_sec |-> p95, throughput |-> throughput, makespan_sec |-> makespan]
Near == Figure(100, 300, 10, 1000)

Fig(simulated, copies, kl, slowdown, queue, pearson) ==
  [observed |-> Near, simulated |-> simulated, copies |-> copies, wait_kl |-> kl,
   observed_slowdown |-> <<100, 120, 300>>, simulated_slowdown |-> slowdown,
   observed_queue |-> <<[ts |-> 0, len |-> 1], [ts |-> 70, len |-> 0]>>, simulated_queue |-> queue,
   end |-> 150, pearson |-> pearson]
SameQueue == <<[ts |-> 0, len |-> 1], [ts |-> 110, len |-> 0]>>
EmptyQueue == <<[ts |-> 0, len |-> 0], [ts |-> 70, len |-> 0]>>
Close == Fig(Figure(115, 345, 10, 1200), 10, 20, <<100, 120, 300>>, SameQueue, 0)
FewRows == Fig(Near, 9, 99, <<900>>, SameQueue, 0)
Far == Fig(Figure(116, 346, 10, 1000), 10, 0, <<100, 120, 300>>, SameQueue, 0)
Shifted == Fig(Near, 10, 0, <<100, 120, 900>>, SameQueue, 0)
Flat == Fig(Near, 9, 0, <<900>>, EmptyQueue, 100)

Both(fifo, easy) == [FIFO_STRICT |-> fifo, EASY_BACKFILL_BASELINE |-> easy]

Measure(p95, util, fair, jain, starved) ==
  [p95_bsld |-> p95, utilization_cpu |-> util, fairness_dev |-> fair, jain |-> jain, starved_rate |-> starved]
MCBaseline == Measure(300, 60, 20, 80, 0)
MCCandidates ==
  {Measure(200, 60, 20, 80, 2), Measure(200, 70, 25, 77, 0), Measure(100, 60, 26, 80, 0),
   Measure(100, 60, 20, 76, 0), Measure(150, 60, 20, 80, 3), Measure(300, 90, 20, 80, 0), Measure(290, 60, 25, 80, 0)}
MCProfiles ==
  {[tail_ratio |-> 5001, queue_len_mean |-> 100, top_user_share |-> 60],
   [tail_ratio |-> 5000, queue_len_mean |-> 199, top_user_share |-> 60],
   [tail_ratio |-> 0, queue_len_mean |-> 200, top_user_share |-> 51]}

Replay(fits, figures, ml) == [fits |-> fits, figures |-> figures, easy |-> MCBaseline, ml |-> ml]
Better == Measure(200, 60, 20, 80, 2)
MCReplays ==
  [passes |-> Replay(TRUE, Both(Close, FewRows), Better),
   far |-> Replay(TRUE, Both(Close, Far), Better),
   same |-> Replay(TRUE, Both(FewRows, Close), MCBaseline),
   large |-> Replay(FALSE, Both(Flat, Shifted), Better)]

MCFigures ==
  [tail |-> [p50 |-> 10, p99 |-> 501, waits |-> TRUE, mean_wait |-> 5],
   quiet |-> [p50 |-> 0, p99 |-> 501, waits |-> TRUE, mean_wait |-> 9]]

MCBatsimRow(id, submit, requested, allocated, actual, wall) ==
  [job_id |-> id, submit |-> submit, requested_cpus |-> requested, allocated_cpus |-> allocated,
   runtime_actual |-> actual, runtime_requested |-> wall, user_id |-> id % 2]
MCBatsimTraces ==
  {<<MCBatsimRow(2, 1, 2, 2, 3, 4), MCBatsimRow(1, 1, NoNumber, 1, 3, NoNumber), MCBatsimRow(3, 0, 1, 0, 2, 1)>>,
   <<MCBatsimRow(4, NoNumber, 0, NoNumber, 0, NoNumber), MCBatsimRow(5, 2, 4, 2, 1, 8)>>,
   <<MCBatsimRow(6, 3, NoNumber, NoNumber, NoNumber, 3)>>}

MCWhatIfRow == [start_ts : {0, 1, NoValue}, end_ts : {1, 2}, requested_cpus : {NoValue, 2, 3}]
MCWhatIfTraces == {<<a, b>> : a, b \in MCWhatIfRow}
=============================================================================
