-------------------------- MODULE TracePreparation --------------------------
(***************************************************************************)
(* What becomes of a trace before it is replayed or learnt from.  Its rows *)
(* are given (RawTraces: out of order, with missing and invalid values,    *)
(* with and without predictions) or come from an ingested log; then they   *)
(* are prepared for the loop, or features are built from them.             *)
(***************************************************************************)
EXTENDS Ingestion, FeaturePipeline

CONSTANTS
  RawTraces,
  Policies,
  GuardKs,       \* guard factors: records [num, den] of values from 0 to 1
  MaxSplitRows,  \* rows of a frame that is split (bounds the run)
  MaxFolds       \* n_folds (bounds the run)

D == INSTANCE Dispatchers WITH MaxQueueSize <- 1

VARIABLES
  raw,        \* the rows in the canonical dataset
  policy, k,  \* what the trace is prepared for
  prepared,
  frame,      \* the coerced rows that features are built from
  features,
  split       \* rows, folds asked for, and the folds made of them

trace_vars == <<raw, policy, k, prepared, frame, features, split>>
vars == <<ingest_vars, trace_vars>>

NoSplit == [n |-> 0, n_folds |-> 0, folds |-> <<>>]

DirectInit ==
  /\ phase = "direct"
  /\ format = "none"
  /\ log = <<>> /\ header_seen = FALSE /\ rows = <<>> /\ sync = NoSync
  /\ stats = [c \in Counters |-> 0]
  /\ raw \in RawTraces

Init ==
  /\ \/ DirectInit
     \/ IngestInit /\ raw = <<>>
  /\ policy = "none" /\ k = [num |-> 0, den |-> 1]
  /\ prepared = <<>> /\ frame = <<>> /\ features = <<>> /\ split = NoSplit

Ingest == IngestNext /\ UNCHANGED trace_vars

Untouched == prepared = <<>> /\ features = <<>> /\ split = NoSplit

(* The dataset is read again; without a model there are no predictions.    *)
Dataset ==
  IF phase = "ingested" THEN [i \in DOMAIN rows |-> rows[i] @@ [prediction |-> Missing]] ELSE raw

(* The first lines of run_simulation_from_trace.                           *)
Prepare ==
  /\ Untouched /\ phase \in {"direct", "ingested"}
  /\ \E trace \in {CoerceTrace(Dataset)}, p \in Policies, factor \in GuardKs :
       /\ trace # <<>>
       /\ p \notin MlPolicies => factor.num = 0
       /\ policy' = p /\ k' = factor
       /\ prepared' = AttachEstimates(trace, p, factor)
  /\ raw' = Dataset
  /\ UNCHANGED <<ingest_vars, frame, features, split>>

(* build_feature_dataset up to the splits.                                 *)
BuildFeatureRows ==
  /\ Untouched /\ phase = "ingested"
  /\ frame' = CoerceFrame(rows)
  /\ frame' # <<>>
  /\ features' = BuildFeatures(frame')
  /\ UNCHANGED <<ingest_vars, raw, policy, k, prepared, split>>

(* The splits depend on the number of rows alone.                          *)
BuildSplits ==
  /\ Untouched /\ phase = "reading" /\ log = <<>> /\ format = "swf"
  /\ \E n \in 3..MaxSplitRows, n_folds \in 1..MaxFolds :
       split' = [n |-> n, n_folds |-> n_folds, folds |-> BuildChronologicalSplits(n, n_folds)]
  /\ phase' = "split"
  /\ UNCHANGED <<format, log, header_seen, stats, rows, sync, raw, policy, k, prepared, frame, features>>

Next == Ingest \/ Prepare \/ BuildFeatureRows \/ BuildSplits

Spec == Init /\ [][Next]_vars

-----------------------------------------------------------------------------

(* Strict uncertainty mode never lets a job past the head that the guard   *)
(* would have held back, and the guard never one that the median would     *)
(* have, even when the quantiles of a prediction cross.                    *)
StricterGateIsTighter == policy = "ML_BACKFILL_P50" =>
  \A i \in DOMAIN prepared :
    /\ D!MlGate(prepared[i], TRUE) >= D!MlGate(prepared[i], FALSE)
    /\ D!MlGate(prepared[i], FALSE) >= prepared[i].runtime_estimate_sec

(* What the loop relies on: the rows are in order, every row that can be   *)
(* read is there as often as it was given, none holds fewer than one CPU   *)
(* or runs, or is planned, for a negative time, and the gates of the       *)
(* backfill policy are ordered.                                            *)
PreparedForLoop == prepared # <<>> =>
  /\ StricterGateIsTighter
  /\ \A i, j \in DOMAIN prepared : i < j => ~ RowBefore(prepared[j], prepared[i])
  /\ \A id, ts \in {prepared[i].job_id : i \in DOMAIN prepared}
                     \cup {prepared[i].submit_ts : i \in DOMAIN prepared} :
       Cardinality({i \in DOMAIN prepared : prepared[i].job_id = id /\ prepared[i].submit_ts = ts})
         = Cardinality({i \in DOMAIN raw : IsComplete(raw[i]) /\ raw[i].job_id = id /\ raw[i].submit_ts = ts})
  /\ \A i \in DOMAIN prepared :
       /\ prepared[i].requested_cpus >= 1
       /\ prepared[i].runtime_actual_sec >= 0
       /\ prepared[i].runtime_estimate_sec >= 0

(* The Tsafrir estimate and the fairshare score of a job are computed from *)
(* the jobs of its user that were over when it was submitted, and no       *)
(* other: the last two runtimes, respectively the usage decayed since.     *)
HistoryIsCausal ==
  /\ policy = "EASY_BACKFILL_TSAFRIR" => \E trace \in {CoerceTrace(raw)} :
       \A i \in DOMAIN prepared : \E past \in {LastTwo(trace, i)} :
         LET asked == Fallback(trace[i]).seconds
         IN  prepared[i].runtime_estimate_sec
               = PredictOne(UserEstimate(trace[i], asked), past).estimate
  /\ policy = "FAIRSHARE_BACKFILL" => \E trace \in {CoerceTrace(raw)} :
       \A i \in DOMAIN prepared : prepared[i].priority_score = 0 - UsageOver(trace, i)

(* The queue a job is said to have found is what the log's times tell: the *)
(* jobs before it in submission order that had not started by then.        *)
QueueSeen(i) == {j \in 1..(i - 1) : frame[j].start_ts >= frame[i].submit_ts}

FeaturesMatch == \A i \in DOMAIN features :
  /\ features[i].queue_congestion_at_submit_jobs = Cardinality(QueueSeen(i))
  /\ features[i].queue_congestion_at_submit_cpu =
       MapThenSumSet(LAMBDA j : frame[j].requested_cpus, QueueSeen(i))
  /\ Cardinality({j \in DOMAIN TrainingFrame(rows) : TrainingFrame(rows)[j].submit_ts <= frame[i].submit_ts})
       >= i

(* A fold trains, validates and tests on rows in that order, none of them  *)
(* in two parts; later folds train on more; and between them the folds     *)
(* test every row from the first that is tested to the last row.  So does  *)
(* the split of the runtime models, except of six rows or fewer.           *)
FoldsSound == split # NoSplit =>
  LET folds == split.folds
      n == split.n
  IN  /\ \A f \in DOMAIN folds :
           /\ 0 < folds[f].train_end /\ folds[f].train_end < folds[f].val_end
           /\ folds[f].val_end <= folds[f].test_start
           /\ folds[f].test_start < folds[f].test_end /\ folds[f].test_end <= n
      /\ \A f \in 1..(Len(folds) - 1) :
           /\ folds[f].train_end < folds[f + 1].train_end
           /\ folds[f + 1].test_start <= folds[f].test_end
      /\ \E f \in DOMAIN folds : folds[f].test_end = n
      /\ LET parts == TimeSplit(n)
         IN  n > 6 => /\ Max(parts.train) < Min(parts.valid)
                      /\ Max(parts.valid) < Min(parts.test)
                      /\ parts.train \cup parts.valid \cup parts.test = 0..(n - 1)

(* What models learn from is what the log tells, and is split soundly.     *)
TrainingDataSound == FeaturesMatch /\ FoldsSound

(* The features of a user's past are computed causally: only from jobs     *)
(* that were over when the job was submitted.                              *)
LookbackCausal == \A i \in DOMAIN features :
  \A j \in Earlier(frame, i) \cap features[i].user_runtime_lookback :
    frame[j].end_ts <= frame[i].submit_ts
=============================================================================
