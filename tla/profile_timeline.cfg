SPECIFICATION Spec
CONSTANTS
  Capacity = 3
  RunningIds = {1, 2}
  MaxEnd = 4
  MaxRuntime = 3
  MaxPlanned = 3
  Horizon = 16
CHECK_DEADLOCK FALSE
INVARIANTS
  ProfileIsTimeline
  EarliestWindow
