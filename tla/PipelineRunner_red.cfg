SPECIFICATION SpecRunner
CONSTANTS
  d1 = d1
  d2 = d2
  Docs = {d1}
  Partitions = {p1}
  NoDoc = NoDoc
  Types <- MCTypes
  Actions <- MCActions
  Emittable <- ThreeStageEvents
  Keys <- ThreeStageKeys
  Stages <- ThreeStages
  Timeouts = {0}
  DefaultTimeout = 1
  PollCap = 1
  LogBound = 4
  ReplayBound = 0
  StageBudget = 1
  TestBudget = 1
INVARIANT FailedTestHasFailRow
CHECK_DEADLOCK FALSE
