SPECIFICATION Spec
CONSTANTS
  t1 = t1
  t2 = t2
  o1 = o1
  o2 = o2
  Ws = ws
  None = none
  Threads <- MCOneThread
  Orders <- MCOrders
  Ioc <- MCIoc
  MaxCancels = 1
  MaxStatus = 1
  MaxSessions = 1
INVARIANTS
  StatusOnlyAsks
CHECK_DEADLOCK FALSE
