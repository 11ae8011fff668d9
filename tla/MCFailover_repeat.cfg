SPECIFICATION Spec
CONSTANTS
  NumSecondaries = 1
  NumURLs = 1
  Quorum = 1
  FailoverEnabled = TRUE
  AutoFailover = TRUE
  ReadOnlySecondary = FALSE
  MaxFaults = 0
  MaxStarts = 1
INVARIANTS PromotedServes
