SPECIFICATION FairSpec
CONSTANTS
  NumSecondaries = 1
  NumURLs = 1
  Quorum = 1
  FailoverEnabled = TRUE
  AutoFailover = TRUE
  ReadOnlySecondary = TRUE
  MaxFaults = 1
  MaxStarts = 1
INVARIANTS TypeOK DeclaredDownIsEarned StandbysStayReadOnly
PROPERTIES PromotionJustified CompletedPromotion CompletedSwap OutageIsAnswered
