SPECIFICATION NumberSpec
CONSTANTS
  Literals <- MCLiterals
  DefaultAccuracy = 2
  TenPowers <- MCTenPowers
  MaxPower = 4
  LongMax = 16383
  Garbage = {0, 7}
  One = 51200
  Ulps <- MCUlps
  Mantissa = 256
  MaxOps = 3
INVARIANTS
  ArithmeticExact
  ViewsAgree
CHECK_DEADLOCK FALSE
