SPECIFICATION Spec
CONSTANTS
  c1 = c1
  c2 = c2
  h1 = h1
  h2 = h2
  NULL = NULL
  Connections <- MCConnections
  Handles <- MCHandles
  MaxSockets = 2
INVARIANTS
  CountMatches
  HandlesLive
  Served
  
  PendingIsSeen
SYMMETRY MCSymmetry
CHECK_DEADLOCK FALSE
