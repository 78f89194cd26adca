SPECIFICATION Spec
CONSTANTS
  Rows <- MCRows
  Loops = {1, 2}
  MaxFailures = 1
  MaxCrashes = 1
  MaxMemory = 2
  Warning <- MCWarning
  Critical <- MCCritical
  MaxObserved = 4
INVARIANTS RowsCommittedOnce FeedbackFaithful
PROPERTY NewRowsIngested
CHECK_DEADLOCK FALSE
