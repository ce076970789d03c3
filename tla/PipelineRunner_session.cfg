SPECIFICATION SpecRunner
CONSTANTS
  d1 = d1
  d2 = d2
  Docs = {d1, d2}
  Partitions = {p1}
  NoDoc = NoDoc
  Types <- MCTypes
  Actions <- MCActions
  Emittable <- TwoDocEvents
  Keys <- ThreeStageKeys
  Stages <- TwoStages
  Timeouts = {0}
  DefaultTimeout = 1
  PollCap = 1
  LogBound = 3
  ReplayBound = 0
  StageBudget = 2
  TestBudget = 1
INVARIANTS PassIsEarned
PROPERTIES FailedNeverPasses VerdictIsFinal ImplementsWalk
CHECK_DEADLOCK FALSE
