SPECIFICATION Spec
CONSTANTS
  Harts = {h1, h2}
  NPROC = 3
  Policies = {"ROUND_ROBIN", "FCFS", "PRIORITY"}
  Priorities = {1, 10}
  None = None
SYMMETRY Symmetry
INVARIANTS Switching Locking NoLostWakeup
PROPERTIES RightChoice
