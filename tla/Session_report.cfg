SPECIFICATION FairSpec
CONSTANTS
  RunList <- AllTests
  N = 2
  StageService <- TwoServices
INVARIANTS SessionTypeOK RollupsAgree RedRowMeansRedTest GreenIsExplained OrphanIsReported
  UnstartedIsNeverGreen OneCause SkippedIsExplained NothingInSecret
  LightIsExplained AccusationsAgree GraphIsExplained
PROPERTIES ReportIsSaved
CHECK_DEADLOCK FALSE
