SPECIFICATION FairSpec
CONSTANTS
  Capacity = 2
  Traces <- MCAnyTraces
  DecisionLists <- MCPairs
  StrictModes = {TRUE, FALSE}
  MaxSubmit = 1
  MaxCpus = 3
  Runtimes = {0, 2}
  MaxId = 3
INVARIANTS
  LoopInvariant
  CpuConservation
PROPERTIES
  Terminates
