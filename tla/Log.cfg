SPECIFICATION MCSpec
CONSTANTS
  Procs = {p1, p2, p3}
  Blocks = {1, 2, 3, 4, 5}
  Few = {1, 2}
  Vals = {v1, v2}
  MAXOPBLOCKS = 3
  LOGSIZE = 6
  NLOG = 6
  OPBLOCKS = 2
  NoBuf = NoBuf
  Torn = Torn
INVARIANTS Consistent NoPanic
PROPERTIES AtomicCommit Drains
