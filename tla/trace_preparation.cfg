SPECIFICATION Spec
CONSTANTS
  Missing = Missing
  RawTraces <- MCRawTraces
  Policies = {"EASY_BACKFILL_BASELINE", "ML_BACKFILL_P50", "ML_BACKFILL_P10",
    "EASY_BACKFILL_TSAFRIR", "FAIRSHARE_BACKFILL"}
  GuardKs <- MCGuardKs
  LogLines <- MCLogLines
  MaxRows = 2
  MaxLines = 3
  Displays <- MCDisplays
  MaxSplitRows = 60
  MaxFolds = 5
CHECK_DEADLOCK FALSE
INVARIANTS
  PreparedForLoop
  HistoryIsCausal
  RowsFaithful
  TrainingDataSound
