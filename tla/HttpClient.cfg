SPECIFICATION FairSpec
CONSTANTS
  r1 = r1
  r2 = r2
  Requests <- MCRequests
  Kinds <- MCKinds
INVARIANTS
  AnsweredOnce
  FaultsExplained
PROPERTIES
  ImplementsDesk
  SentIsAnswered
  AnsweredIsDeleted
CHECK_DEADLOCK FALSE
