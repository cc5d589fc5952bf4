SPECIFICATION FairWriteSpec
CONSTANTS
  t1 = t1
  t2 = t2
  Service = service
  Threads <- MCThreads
  MaxWrites = 2
  MaxSockets = 2
INVARIANTS
  FlagMatchesBuffer
PROPERTIES
  ImplementsOutbox
  WaitingIsSent
CHECK_DEADLOCK FALSE
