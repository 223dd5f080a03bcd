SPECIFICATION FairSpec
CONSTANTS
  Procs = {p1, p2}
  Bytes = {0, 1}
  PIPESIZE = 2
  WRAP = 4
  Sizes = {3}
  None = None
INVARIANTS PipeSafe
PROPERTIES Fifo Returns
CHECK_DEADLOCK FALSE
