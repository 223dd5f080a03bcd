SPECIFICATION Spec
CONSTANTS
  Harts = {h1, h2}
  Procs = {p1, p2, p3}
  NUM = 8
  WRAP = 16
  None = None
SYMMETRY Symmetry
INVARIANTS DiskSafe Masks NobodyStuck
PROPERTIES Transferred
