SPECIFICATION FairReadersSpec
CHECK_DEADLOCK FALSE
CONSTANTS
  t1 = t1
  t2 = t2
  Task = {t1, t2}
  a1 = a1
  a2 = a2
  Addr = {a1, a2}
  n1 = n1
  n2 = n2
  n3 = n3
  Node = {n1, n2, n3}
  NULL = NULL
  NoTask = NoTask
  MaxRef = 2
  MaxHeads = 1
  Bitmaps <- CreatedBitmaps
  Env = {"RemovesOwn", "QuietRmmod"}
  MAX_BUFFER_SIZE = 35
  BUF_LEN = 33
INVARIANT ShowInv
INVARIANT WalkInv
INVARIANT ShowAllComplete
INVARIANT AnswerIsSubjects
PROPERTY ShowFinishes
