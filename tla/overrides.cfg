SPECIFICATION Spec
CHECK_DEADLOCK FALSE
CONSTANTS
  t1 = t1
  t2 = t2
  Thread = {t1, t2}
  p1 = p1
  p2 = p2
  Process = {p1, p2}
  c = c
  txt = txt
  File = {c, txt}
  NoFile = NoFile
  CFile = {c}
  b1 = b1
  b2 = b2
  literal = literal
  Buffer = {b1, b2, literal}
  ReadOnly = {literal}
  Fd = {2, 3}
  Assignable <- LoggerAndGuard
  Env = {"OwnBuffers", "OwnFiles", "StableFds", "LongData", "WholeBuffers",
         "WritesSucceed"}
SYMMETRY Symmetry
INVARIANTS
  TypeOK
  LoggedChanges
  OnlyCFilesLogged
  DataFromCaller
  BufferKept
