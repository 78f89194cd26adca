SPECIFICATION RustSpec
CONSTANTS
  Capacity <- MCCapacity
  RecordLists <- MCRecordLists
  PowerCaps = {3, NoCap}
  NoCap = NoCap
  NEVER = NEVER
  StrictModes = {TRUE}
  BsldFloorSec = 2
INVARIANTS
  ResourcesAccounted
  ShadowKept
  StrandedNeverRuns
  ReportIsMetered
