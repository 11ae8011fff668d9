SPECIFICATION FairSpec
CONSTANTS
  MaxProjects = 3
  Hashed = {1}
  Routeless = {3}
  Limits = {0, 2}
  MaxPush = 1
INVARIANTS TypeOK OKMeansFetched
PROPERTIES ImplementsPool ImplementsCall SweepEnds
CHECK_DEADLOCK FALSE
