SPECIFICATION FairSpec
CONSTANTS
  p1 = p1  p2 = p2  x = x  n = n  o = o
  Docs = {p1, p2, x, n, o}
  Files <- TwoFiles
  Old <- TwoOld
  E2e = {p1, o}
  Wanted = x
  MaxClients = 2
  CleanupPage = 2
  MaxPages = 2
  PageSize = 1
  ReaderMaxPages = 4
INVARIANTS TenantTypeOK
PROPERTIES LeftoversAreExplained MissIsExplained LastLookCounts UnseenPassIsExplained AllEnd
CHECK_DEADLOCK FALSE
