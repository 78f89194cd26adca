SPECIFICATION FairPolicySpec
CONSTANTS
  Capacity = 3
  Traces <- MCTraces
  DecisionLists <- MCDecisionLists
  StrictModes = {TRUE}
  GuardK <- MCGuardK
  Missing = Missing
  MaxQueueSize = 2
  RawTraces <- MCRuleTraces
  Policies = {"FIFO_STRICT", "EASY_BACKFILL_BASELINE", "SJF_BACKFILL", "LJF_BACKFILL",
    "CONSERVATIVE_BACKFILL_BASELINE", "ML_BACKFILL_P50", "UARP_BACKFILL", "RL_TRAINED",
    "EASY_BACKFILL_TSAFRIR", "FAIRSHARE_BACKFILL"}
INVARIANTS
  HeadWaitsForCpus
  ContractParity
  HolPromiseKept
  CbfBoundKept
PROPERTIES
  CompletesAll
