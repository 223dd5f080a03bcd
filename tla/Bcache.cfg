SPECIFICATION Spec
CONSTANTS
  Procs = {p1, p2}
  Blocks = {k1, k2, k3, k4}
  Vals = {v1, v2}
  NBUF = 3
  None = None
SYMMETRY Symmetry
INVARIANTS CacheRight
PROPERTIES LeastRecent
CHECK_DEADLOCK FALSE
