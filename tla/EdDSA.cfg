SPECIFICATION Spec
CONSTANTS
  P = 13
  A = 12
  D = 6
  BaseX = 3
  BaseY = 9
  Order = 5
  MaxY = 15
  Bits = 4
  LowBits = 2
  MaxK = 11
INVARIANTS TypeOK GroupLaw VerifiesExactly SignatureAccepted KeyMatchesBytes
