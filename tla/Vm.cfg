SPECIFICATION Spec
CONSTANTS
  Procs = {p1, p2}
  NPAGES = 19
  LEVELS = 2
  PGSIZE = 2
  MAXPG = 4
  Deltas = {1, 3}
  Segments = {1, 3}
  None = None
INVARIANTS MemoryRight
PROPERTIES FailedChangesNothing
CHECK_DEADLOCK FALSE
