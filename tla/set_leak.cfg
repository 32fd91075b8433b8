SPECIFICATION Spec
CHECK_DEADLOCK FALSE
CONSTANTS
  t1 = t1
  t2 = t2
  Task = {t1, t2}
  a1 = a1
  a2 = a2
  a3 = a3
  Addr = {a1, a2, a3}
  n1 = n1
  n2 = n2
  n3 = n3
  Node = {n1, n2, n3}
  NULL = NULL
  NoTask = NoTask
  MaxRef = 3
  MaxHeads = 2
  Bitmaps <- ExactBitmaps
  Env = {"RemovesOwn", "BootOrder", "QuietRmmod", "ForksSucceed", "MemoryAvailable", "OneReference"}
SYMMETRY Symmetry
PROPERTY SetReleasesOld
