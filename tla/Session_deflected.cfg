SPECIFICATION Spec
CONSTANTS
  RunList <- OnlyUi
  N = 2
  StageService <- TwoServices
INVARIANT WalksStartedPipelines
CHECK_DEADLOCK FALSE
