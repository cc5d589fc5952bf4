SPECIFICATION FairSpec
CONSTANTS
  t1 = t1
  t2 = t2
  o1 = o1
  o2 = o2
  Ws = ws
  None = none
  Threads <- MCThreads
  Orders <- MCOrders
  Ioc <- MCIoc
  MaxCancels = 2
  MaxStatus = 1
  MaxSessions = 3
INVARIANTS
  ResponseMatched
  PlacementTruthful
  NoNullOrder
PROPERTIES
  PlacementReportedFirst
  PlacementReported
  CallsReturn
CHECK_DEADLOCK FALSE
