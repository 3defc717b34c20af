SPECIFICATION Spec
CONSTANTS
  P = 7
  A = 1
  B = 4
  BaseX = 4
  BaseY = 3
  Order = 5
  Cofactor = 2
  Limit = 10
INVARIANTS KeyIsMultiple
