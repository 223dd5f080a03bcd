SPECIFICATION FairSpec
CONSTANTS
  NPROC = 4
  MaxPid = 4
  Calls = {"fork", "exit", "wait", "kill", "getppid", "other"}
  KillPids = {3}
  Statuses = {0}
  None = None
INVARIANTS Kinship NoStuckWait
PROPERTIES FamilyTree Reaped
CHECK_DEADLOCK FALSE
