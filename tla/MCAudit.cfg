SPECIFICATION Spec
CONSTANTS
  Kind = "consistency"
  NTables = 2
  Counts <- EdgeCounts
  MaxChange = 1
  NRepos = 1
  SamplePct = 100
INVARIANTS TypeOK OKMeansTolerated AlarmHasReason RemainingIsExact
CHECK_DEADLOCK FALSE
