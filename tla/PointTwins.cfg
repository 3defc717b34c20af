SPECIFICATION ProgramSpec
CONSTANTS
  P = 7
  A = 3
  B = 5
  CurveCofactor = 1
  BaseX = 1
  BaseY = 3
  Order = 7
  Inputs <- MCInputs
  Registers = {r1, r2}
  Scalars = {0, 1, 2}
  Twins = TRUE
SYMMETRY Symmetry
INVARIANTS Represents
