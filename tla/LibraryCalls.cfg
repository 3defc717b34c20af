SPECIFICATION Spec
CONSTANTS
  SmallPrimes <- MCSmallPrimes
  PrimeBits <- MCPrimeBits
  RoundedUp = {64, 256}
  Numbers <- MCNumbers
  Moduli <- MCModuli
  Orders <- MCOrders
  SigOrders = {13, 255, 257}
  IntegerValues <- MCIntegers
  Bodies <- MCBodies
  Oids <- MCOids
  MaxAlter = 1
  AlterTo <- MCAlterTo
  AlterFirst = 9
INVARIANTS NumbersExact DrawsUniform WireStrict
