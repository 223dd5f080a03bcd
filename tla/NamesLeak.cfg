SPECIFICATION MCSpec
CONSTANTS
  Procs = {p1, p2}
  Inums = {1, 2, 3}
  Files = {f1}
  NOFILE = 2
  PERBLOCK = 3
  Elems = {"m", "n"}
  Calls <- AllCalls
  Groups = {"leak"}
  None = None
INVARIANT IputFrees
