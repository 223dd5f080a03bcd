SPECIFICATION Spec
CONSTANTS
  Procs = {p1, p2}
  Inums = {f1, f2}
  NBLOCKS = 4
  BSIZE = 2
  NDIRECT = 1
  MAXCHUNK = 3
  Lens = {4}
  MAXCALLS = 3
  None = None
INVARIANTS BlocksOwned FilesRight CoreOnDisk
SYMMETRY Symmetry
