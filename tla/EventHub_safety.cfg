SPECIFICATION Spec
CONSTANTS
  d1 = d1
  d2 = d2
  Docs = {d1, d2}
  Partitions = {p1}
  NoDoc = NoDoc
  Types <- MCTypes
  Actions <- MCActions
  Emittable <- TwoDocEvents
  Keys <- TypeKeys
  Timeouts = {2}
  DefaultTimeout = 1
  PollCap = 1
  LogBound = 3
  ReplayBound = 1
INVARIANTS TypeOK NoLostWakeup DeliveredIsCaptured BufferFollowsLogs ReturnsEarliestMatch RedeliveryIsReported
PROPERTIES TimeoutMeansSilence
CHECK_DEADLOCK FALSE
