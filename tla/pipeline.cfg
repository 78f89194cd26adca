SPECIFICATION Spec
CONSTANTS
  SuiteTraces <- MCSuite
  Replays <- MCReplays
  MaxSuites = 2
  MaxFailures = 2
  BenchProfiles = {"tail", "quiet"}
  Figures <- MCFigures
  HistoryWindow = 2
  Rates = {100, 92, 91, 84}
  MaxRuns = 4
  Candidates <- MCCandidates
  Baseline <- MCBaseline
  Profiles <- MCProfiles
  MaxCandidates = 3
  WhatIfTraces <- MCWhatIfTraces
  BatsimTraces <- MCBatsimTraces
  AskedCapacities = {0, 2, 3}
  MaxDelay = 3
CHECK_DEADLOCK FALSE
INVARIANTS
  SuiteVerdictSound
  DossierMatchesSummary
  RecommendationSound
  NoPassByRetry
  NormalizedFaithful
