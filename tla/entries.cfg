SPECIFICATION FairSpec
CONSTANTS
  t1 = t1
  t2 = t2
  t3 = t3
  Task = {t1, t2, t3}
  NoTask = NoTask
  Env = {"LateUsers", "IdleRmmod"}
INVARIANTS
  TypeOK
  OneRequestAtATime
  RefsBalanced
  LeaksKnown
  CodeStays
PROPERTIES
  ServesOneAtATime
  RequestsHandled
