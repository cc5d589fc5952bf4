SPECIFICATION FairSpec
CONSTANTS
  MaxStarts = 2
  MaxStops = 1
  MaxSent = 0
PROPERTIES
  StopFreesStart
CHECK_DEADLOCK FALSE
