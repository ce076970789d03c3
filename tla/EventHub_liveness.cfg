SPECIFICATION FairSpec
CONSTANTS
  d1 = d1
  d2 = d2
  Docs = {d1}
  Partitions = {p1, p2}
  NoDoc = NoDoc
  Types <- MCTypes
  Actions <- MCActions
  Emittable <- OneDocEvents
  Keys <- AllKeys
  Timeouts = {0, 2}
  DefaultTimeout = 1
  PollCap = 1
  LogBound = 1
  ReplayBound = 1
PROPERTIES WaitEnds EventuallyCaptured ImplementsFeed
CHECK_DEADLOCK FALSE
