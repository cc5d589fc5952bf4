SPECIFICATION FairSpec
CONSTANTS
  MaxStarts = 3
  MaxStops = 2
  MaxSent = 3
INVARIANTS
  TruthfulStart
  FaultsExplained
  TimestampsMatch
PROPERTIES
  StartReturns
CHECK_DEADLOCK FALSE
