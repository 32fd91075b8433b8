SPECIFICATION ReadersSpec
CHECK_DEADLOCK FALSE
CONSTANTS
  t1 = t1
  t2 = t2
  Task = {t1, t2}
  a1 = a1
  a2 = a2
  Addr = {a1, a2}
  n1 = n1
  n2 = n2
  Node = {n1, n2}
  NULL = NULL
  NoTask = NoTask
  MaxRef = 1
  MaxHeads = 1
  Bitmaps <- V968Bitmaps
  Env = {"RemovesOwn", "BootOrder", "QuietRmmod", "FreesFirst", "ForksSucceed", "MemoryAvailable", "OneReference"}
  MAX_BUFFER_SIZE = 1024
  BUF_LEN = 256
SYMMETRY Symmetry
INVARIANT CursorListed
