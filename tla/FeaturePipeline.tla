--------------------------- MODULE FeaturePipeline ---------------------------
(***************************************************************************)
(* features/pipeline.py: the features of each job of a canonical trace, and *)
(* the chronological splits; with the training frame and the split of      *)
(* models/runtime_quantile.py.                                             *)
(*                                                                         *)
(* The statistics over a user's earlier jobs (median, variance, mean of    *)
(* over-requests) are the rows they are computed from.                     *)
(***************************************************************************)
EXTENDS TraceInput

HasTimes(row) == Missing \notin {row.job_id, row.submit_ts, row.start_ts, row.end_ts,
                                 row.runtime_actual_sec, row.requested_cpus}

CoerceFrame(raw) ==
  LET kept == SelectSeq(raw, HasTimes)
  IN  SortSeq([i \in DOMAIN kept |->
                 [kept[i] EXCEPT !.runtime_actual_sec = AtLeast(0, @), !.requested_cpus = AtLeast(1, @)]],
              RowBefore)

(* A user that is not a number is -1, together with every other such user. *)
UserKey(row) == IF row.user_id = Missing \/ row.user_id[1] = "name" THEN -1 ELSE row.user_id[2]

Bug_QueueStartsFirst(a, b) ==
  \/ a.ts < b.ts
  \/ a.ts = b.ts /\ a.type > b.type
  \/ a.ts = b.ts /\ a.type = b.type /\ a.row < b.row

(* np.lexsort: submissions (0) before starts (1) of the same time.         *)
QueueEventBefore(a, b) ==
  \/ a.ts < b.ts
  \/ a.ts = b.ts /\ a.type < b.type
  \/ a.ts = b.ts /\ a.type = b.type /\ a.row < b.row

QueueEvents(df) ==
  SortSeq([i \in 1..Len(df) |-> [ts |-> df[i].submit_ts, type |-> 0, row |-> i]]
            \o [i \in 1..Len(df) |-> [ts |-> df[i].start_ts, type |-> 1, row |-> i]],
          QueueEventBefore)

(* Jobs and CPUs in the queue that each row finds.                         *)
QueueAtSubmit(df) ==
  FoldLeft(LAMBDA acc, event :
             LET cpus == df[event.row].requested_cpus
             IN  IF event.type = 0
                 THEN [jobs |-> acc.jobs + 1,
                       cpus |-> acc.cpus + cpus,
                       found |-> [acc.found EXCEPT ![event.row] = [jobs |-> acc.jobs, cpus |-> acc.cpus]]]
                 ELSE [acc EXCEPT !.jobs = AtLeast(0, @ - 1), !.cpus = AtLeast(0, @ - cpus)],
           [jobs |-> 0, cpus |-> 0, found |-> [i \in DOMAIN df |-> [jobs |-> 0, cpus |-> 0]]],
           QueueEvents(df)).found

JobSizeClass(cpus) == CASE cpus <= 4 -> 0 [] cpus <= 16 -> 1 [] cpus <= 64 -> 2 [] OTHER -> 3

(* shift(1).expanding(): the rows of the same user before this one.        *)
Earlier(df, i) == {j \in 1..(i - 1) : UserKey(df[j]) = UserKey(df[i])}

(* Without an earlier row of the user, the statistic is that of all rows.  *)
Lookback(df, i) == IF Earlier(df, i) = {} THEN DOMAIN df ELSE Earlier(df, i)

SinceSubmit(df, i, before) ==
  IF before = {} THEN 0 ELSE AtLeast(0, df[i].submit_ts - df[Max(before)].submit_ts)

BuildFeatures(df) ==
  LET queue == QueueAtSubmit(df)
  IN  [i \in DOMAIN df |->
         [queue_congestion_at_submit_jobs |-> queue[i].jobs,
          queue_congestion_at_submit_cpu |-> queue[i].cpus,
          job_size_class |-> JobSizeClass(df[i].requested_cpus),
          time_since_prev_submit_sec |-> SinceSubmit(df, i, {j \in 1..(i - 1) : j = i - 1}),
          user_job_count_lookback |-> Cardinality(Earlier(df, i)),
          user_submit_gap_sec_lookback |-> SinceSubmit(df, i, Earlier(df, i)),
          user_runtime_lookback |-> Lookback(df, i)]]

-----------------------------------------------------------------------------
(* Splits: a segment is the rows low .. high - 1, counted from 0.          *)

Least(x, y) == IF x < y THEN x ELSE y

(* n * 0.7 and n * 0.15 are products of floats.  Of the lengths up to 300,  *)
(* those are listed at which a product falls below the half that it should *)
(* be, and is rounded down.                                                *)
BelowHalf == {45, 85, 165}

BaseTrain(n) ==
  LET train == AtLeast(1, Rounded(70 * n, 100) - IF n \in BelowHalf THEN 1 ELSE 0)
      val == AtLeast(1, Rounded(15 * n, 100))
  IN  IF train + val >= n THEN [train |-> AtLeast(1, n - 2), val |-> 1]
      ELSE [train |-> train, val |-> val]

(* Fold idx of anchored expanding windows.                                 *)
Fold(n, n_folds, idx) ==
  LET base == BaseTrain(n)
      size == AtLeast(1, AtLeast(1, n - base.train - base.val) \div n_folds)
      train_end == base.train + idx * size
      val_end == Least(n - 1, train_end + base.val)
  IN  [train_end |-> train_end, val_end |-> val_end, test_start |-> val_end,
       test_end |-> IF idx = n_folds - 1 THEN n ELSE Least(n, val_end + size)]

SingleFallback(n) ==
  [train_end |-> AtLeast(1, n - 2), val_end |-> n - 1, test_start |-> n - 1, test_end |-> n]

(* The loop leaves at the first fold that would train on the last row.     *)
BuildChronologicalSplits(n, n_folds) ==
  LET folds == SelectSeq([k \in 1..n_folds |-> Fold(n, n_folds, k - 1)],
                         LAMBDA fold : fold.train_end < n - 1 /\ fold.test_end > fold.test_start)
  IN  IF folds = <<>> THEN <<SingleFallback(n)>> ELSE folds

(* _time_split: an empty validation or test part is a copy of the part     *)
(* before it.                                                              *)
TimeSplit(n) ==
  LET train_end == IF n < 30 THEN AtLeast(1, (80 * n) \div 100) ELSE (70 * n) \div 100
      valid_end == Least(n, IF n < 30 THEN AtLeast(train_end + 1, (90 * n) \div 100) ELSE (85 * n) \div 100)
      train == 0..(train_end - 1)
      valid == IF train_end < valid_end THEN train_end..(valid_end - 1) ELSE train
  IN  [train |-> train, valid |-> valid,
       test |-> IF valid_end < n THEN valid_end..(n - 1) ELSE valid]

(* _prepare_training_frame: submission order again, ties by size.          *)
TrainingFrame(raw) ==
  LET kept == SelectSeq(raw, LAMBDA row : Missing \notin {row.submit_ts, row.runtime_actual_sec, row.requested_cpus})
  IN  SortSeq([i \in DOMAIN kept |->
                 [kept[i] EXCEPT !.runtime_actual_sec = AtLeast(1, @), !.requested_cpus = AtLeast(1, @),
                                 !.runtime_requested_sec = IF @ = Missing \/ @ <= 0 THEN Missing ELSE @]],
              LAMBDA a, b : \/ a.submit_ts < b.submit_ts
                            \/ a.submit_ts = b.submit_ts /\ a.requested_cpus < b.requested_cpus)
=============================================================================
