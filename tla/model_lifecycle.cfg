SYMMETRY Symmetry
SPECIFICATION Spec
CHECK_DEADLOCK FALSE
CONSTANTS
  m1 = m1
  m2 = m2
  Models <- MCModels
  ModelIds <- MCModels
  Quantiles <- MCQuantiles
  ScanOrder <- MCScanOrder
  Installations <- MCInstallations
  Reported <- MCReported
  Procs = {p1, p2}
  NoProc = NoProc
  Threads = {t1}
  Gone = Gone
  Half = Half
  NoModel = NoModel
  MaxOps = 3
  MaxTrainings = 2
  MaxAttempts = 2
  MaxCleanups = 1
  MaxWork = 4
INVARIANTS
  OneProduction
  WritesStand
  ServedIsWhole
  CleanupSpares
