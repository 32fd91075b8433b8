SPECIFICATION Spec
CHECK_DEADLOCK FALSE
CONSTANTS
  t1 = t1
  t2 = t2
  t3 = t3
  Task = {t1, t2, t3}
  a1 = a1
  a2 = a2
  a3 = a3
  a4 = a4
  Addr = {a1, a2, a3, a4}
  n1 = n1
  n2 = n2
  n3 = n3
  n4 = n4
  Node = {n1, n2, n3, n4}
  NULL = NULL
  NoTask = NoTask
  MaxRef = 6
  MaxHeads = 2
  Bitmaps <- ExactBitmaps
  Env = {"RemovesOwn", "BootOrder", "QuietRmmod", "FreesFirst",
         "ForksSucceed", "MemoryAvailable", "OneReference"}
SYMMETRY Symmetry
INVARIANTS
  RefcountExact
  UnpinnedWhenUnused
  OneVectorPerBitmap
  VectorHasItsOverrides
