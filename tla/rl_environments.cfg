SPECIFICATION Spec
CONSTANTS
  EnvCapacity = 2
  AllJobs <- MCAllJobs
  MaxJobs = 3
  MaxSteps = 7
  MaxQueueSize = 2
  RewardFloorSec = 2
  Agents = {"legal", "any"}
  SearchCapacity = 2
  SearchTraces <- MCSearchTraces
  Actions <- MCActions
  DecisionInterval = 2
  NTrials = 2
  WaitFloorSec = 2
CHECK_DEADLOCK FALSE
INVARIANTS
  DecisionHasAction
  TrialsComparable
  BackfillByThreshold
PROPERTIES
  EpisodesEnd
