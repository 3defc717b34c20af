SPECIFICATION Spec
CONSTANTS
  c1 = c1
  c2 = c2
  G = g
  Q = q
  Threads = {t1, t2}
  Objects = {g, q, c1}
  QValue = 3
  QScaled = FALSE
  Order = 5
  QOrders = {0, 5}
  TableLen = 6
  Scalars = {0, 8}
  Kinds = {"mul", "mul_add", "precompute", "precompute_lazy", "pickle", "interrupt"}
INVARIANTS TablesComplete
PROPERTIES RefinesImmutable
