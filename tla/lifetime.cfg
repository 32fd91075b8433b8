SPECIFICATION Spec
CHECK_DEADLOCK FALSE
CONSTANTS
  t1 = t1
  t2 = t2
  t3 = t3
  Task = {t1, t2, t3}
  a1 = a1
  a2 = a2
  a3 = a3
  Addr = {a1, a2, a3}
  n1 = n1
  n2 = n2
  n3 = n3
  Node = {n1, n2, n3}
  NULL = NULL
  NoTask = NoTask
  MaxRef = 2
  MaxHeads = 2
  Bitmaps <- LifetimeBitmaps
  Env = {"RemovesOwn", "BootOrder", "QuietRmmod"}
SYMMETRY Symmetry
INVARIANTS
  TypeOK
  NoDanglingVector
  HeldModulesLoaded
  RefcountCoversUsers
  ModulePinned
  HidesOnlyEmpty
  LifetimeInv
PROPERTIES
  HeldListUnchanged
  LendsLists
