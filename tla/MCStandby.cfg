SPECIFICATION FairSpec
CONSTANTS
  Name <- MCName
  Tool = "gitlab-geo-sync"
  SlotConfigs <- MCSlotConfigs
  MaxChange = 1
INVARIANTS TypeOK QuietReportIsExact AllPassedIsReady
PROPERTIES CompletedSetup ImplementsCall StatusCleansUp
CHECK_DEADLOCK FALSE
