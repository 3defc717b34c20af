SPECIFICATION Spec
CONSTANTS
  c1 = c1
  c2 = c2
  G = g
  Q = q
  Threads = {t1, t2}
  Objects = {g, q, c1, c2}
  QValue = 4
  QScaled = FALSE
  Order = 5
  QOrders = {0, 5}
  TableLen = 6
  Scalars = {1, 7}
  Kinds = {"mul", "mul_add", "to_affine", "xy", "eq", "precompute"}
SYMMETRY Symmetry
INVARIANTS TypeOK ScaledWhereAssumed GeneratorIsFast AnswersCorrect PrecomputedWhenQuiet
PROPERTIES WritesAreIdempotent
