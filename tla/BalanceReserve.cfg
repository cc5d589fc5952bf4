SPECIFICATION FairSpec
CONSTANTS
  c1 = c1
  c2 = c2
  Clients <- MCClients
  MaxAmount = 3
  Totals <- MCTotals
INVARIANTS
  ReserveAccounted
  NeverOverReserved
  GrantedHalf
PROPERTIES
  ImplementsLedger
  LockFree
