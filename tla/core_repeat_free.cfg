SPECIFICATION Spec
CONSTANTS
  Capacity = 2
  Traces <- MCTraces3
  DecisionLists <- MCRepeatFree
  StrictModes = {FALSE}
  MaxSubmit = 1
  MaxCpus = 3
  Runtimes = {0, 2}
  MaxId = 3
INVARIANTS
  NoJobLost
  QueueSeriesMatches
PROPERTIES
  LifecycleSpec
