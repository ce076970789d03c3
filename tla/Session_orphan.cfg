SPECIFICATION Spec
CONSTANTS
  RunList <- OnlyBulk
  N = 2
  StageService <- TwoServices
INVARIANT SourceBlobIsRemoved
CHECK_DEADLOCK FALSE
