SPECIFICATION Spec
CONSTANTS
  i1 = i1  i2 = i2  p = p  c = c  d = d  n = n  e = e
  Ids = {i1, i2}
  Targets = {p, c, d, n, e}
  Opener <- MCOpener
  Initial = {p, c}
  Adoptable = {p, c, d, e}
  None = None
SYMMETRY AnyId
INVARIANTS Consistent ExclusiveOwnership NoForeignClose
CHECK_DEADLOCK FALSE
