SPECIFICATION Spec
CONSTANTS
  RunList <- OnlyPresigned
  N = 2
  StageService <- TwoServices
INVARIANT UploadFailureIsSurfaced
CHECK_DEADLOCK FALSE
