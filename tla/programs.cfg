SPECIFICATION ProgramsSpec
CONSTANTS
  t1 = t1
  t2 = t2
  t3 = t3
  Task = {t1, t2, t3}
  a1 = a1
  a2 = a2
  a3 = a3
  a4 = a4
  Addr = {a1, a2, a3, a4}
  n1 = n1
  n2 = n2
  n3 = n3
  n4 = n4
  Node = {n1, n2, n3, n4}
  NULL = NULL
  NoTask = NoTask
  MaxRef = 3
  MaxHeads = 2
  Bitmaps <- NoBitmaps
  Env = {"BootOrder", "QuietRmmod", "MemoryAvailable"}
  Programs = {"test_ioctl_55", "test_ioctl_9", "test_ioctl_1017", "test_vector1", "test_vector2", "user_clone", "user_ioctl2", "user_ioctl3"}
SYMMETRY Symmetry
INVARIANTS
  ProgramsTypeOK
  KeepsToProtocol
  NoDanglingVector
PROPERTY RemovesAssigned
