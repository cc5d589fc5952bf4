SPECIFICATION Spec
CONSTANTS
  x1 = x1
  x2 = x2
  i1 = i1
  i2 = i2
  s1 = s1
  s2 = s2
  NULL = null
  Exchanges <- MCExchanges
  Instruments <- MCInstruments
  Prices <- MCPrices
  Strategies <- MCStrategies
  Traded <- MCTraded
  Size = 2
  MaxUpdates = 3
  MaxConfigs = 2
  MaxGrants = 2
SYMMETRY MCSymmetry
INVARIANTS
  BookMatchesFeed
  WithinListed
  HoldersCovered
CHECK_DEADLOCK FALSE
