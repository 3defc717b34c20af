SPECIFICATION Spec
CONSTANTS
  Order = 7
  Choices = {{}, {1}, {1, 2}}
  Multipliers = {0, 1, 2, 3, 6, 7, 8, 11, 13, 14, 23, 29, 45}
INVARIANTS TypeOK SumIsCorrect NonAdjacent TableSuffices
PROPERTIES Terminates
