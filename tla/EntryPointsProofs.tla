--------------------------- MODULE EntryPointsProofs ---------------------------
(***************************************************************************)
(* Proofs about EntryPoints.  When the device is used only between insmod   *)
(* and rmmod (Orderly), mutexlock excludes, the module's references are     *)
(* balanced, what leaks is known and no code goes while it is executed,     *)
(* whatever allocation fails and wherever a request crashes, for any number *)
(* of tasks.                                                                *)
(***************************************************************************)
EXTENDS EntryPoints, FiniteSetTheorems, TLAPS

Orderly == {"LateUsers", "IdleRmmod"} \subseteq Env

(* The tasks whose request holds a reference on ioctl_module. *)
Pinning == {t \in Task : pc[t] \in {"work", "fault"}}

(* The types; no more than one request has a reference.                      *)
Typed ==
  /\ mod \in [Module -> {"absent", "loading", "live", "going"}]
  /\ registered \in BOOLEAN
  /\ initialised \in BOOLEAN
  /\ mutexlock \in Task \cup {NoTask}
  /\ mref \in 0 .. 1
  /\ sysptr \in BOOLEAN
  /\ file \subseteq Task
  /\ pc \in [Task -> PC]
  /\ request \in [Task -> Request \cup {"none"}]
  /\ memory \in [Task -> SUBSET (OwnMemory \cup Strings)]

(* The device is open, and code of the modules executed, only while they are *)
(* in and initialised; a request that crashed with a reference keeps         *)
(* ioctl_module in.                                                          *)
InUse ==
  /\ mod["ioctl_module"] = "absent" => ~ registered
  /\ mod["ioctl_module"] = "live" => initialised
  /\ file # {} => mod["ioctl_module"] = "live"
  /\ \A t \in Task : pc[t] \in InIoctl => t \in file
  /\ \A t \in Task : pc[t] = "fault" => mod["ioctl_module"] = "live"
  /\ sysptr => mod["sys_clone2"] \in {"live", "going"}
  /\ \A t \in Task : pc[t] \in {"tested", "clone"} =>
       sysptr /\ mod["sys_clone2"] = "live"

(* Who is behind mutex_lock has the mutex, and keeps it when it crashes      *)
(* there; who has it is there, or crashed.                                   *)
Exclusive ==
  /\ OneRequestAtATime
  /\ \A t \in Task : pc[t] = "fault" => mutexlock = t
  /\ mutexlock # NoTask =>
       \/ mutexlock \in file /\ pc[mutexlock] \in Locked
       \/ pc[mutexlock] \in Crashed

Balanced == mref = IF Pinning = {} THEN 0 ELSE 1

(* What a request has allocated, at the places where it is known. *)
Tidy ==
  \A t \in Task :
    /\ pc[t] \in {"user", "tested", "clone", "enter", "locked"} => memory[t] = {}
    /\ pc[t] \in {"get", "work"} => memory[t] \subseteq {"buf", "vector_name"}
    /\ pc[t] = "free" =>
         \/ memory[t] \subseteq OwnMemory
         \/ memory[t] \ OwnMemory = Strings /\ request[t] = "create"
    /\ pc[t] \in {"unlock", "leave"} =>
         \/ memory[t] = {}
         \/ memory[t] = {"buf"} /\ request[t] \in ByName
         \/ memory[t] = Strings /\ request[t] = "create"

EntryInv == Typed /\ InUse /\ Exclusive /\ Balanced /\ CodeStays /\ Tidy

-------------------------------------------------------------------------------
(* Behind mutex_lock nobody else's request has a reference. *)
LEMMA NobodyElsePins ==
  ASSUME EntryInv, NEW t \in Task, pc[t] \in Locked \ {"work"}
  PROVE  Pinning = {} /\ mref = 0
<1>1. mutexlock = t
  BY DEF EntryInv, Exclusive, OneRequestAtATime, Crashed
<1>2. \A u \in Task : pc[u] \in {"work", "fault"} => mutexlock = u
  BY DEF EntryInv, Exclusive, OneRequestAtATime, Crashed, Locked
<1> QED
  BY <1>1, <1>2 DEF Pinning, EntryInv, Balanced, Locked

(* Every step keeps the types. *)
LEMMA StepTyped ==
  ASSUME Orderly, EntryInv, [Next]_vars
  PROVE  Typed'
<1>1. ASSUME NEW t \in Task, Open(t)
      PROVE  Typed'
  BY <1>1 DEF Open, EntryInv, Typed, Goes, At, modVars
<1>2. ASSUME NEW t \in Task, Close(t)
      PROVE  Typed'
  BY <1>2 DEF Close, EntryInv, Typed, Goes, At, modVars
<1>3. ASSUME NEW t \in Task, NEW r \in Request, Ioctl(t, r)
      PROVE  Typed'
  BY <1>3
     DEF Ioctl, Crashes, EntryInv, Typed, PC, InIoctl, Crashed, Goes, At,
         modVars
<1>4. ASSUME NEW t \in Task, Lock(t)
      PROVE  Typed'
  BY <1>4
     DEF Lock, Crashes, EntryInv, Typed, PC, InIoctl, Crashed, Goes, At, modVars
<1>5. ASSUME NEW t \in Task, Allocate(t)
      PROVE  Typed'
  BY <1>5
     DEF Allocate, OwnMemory, Strings, Allocations, EntryInv, Typed, PC,
         InIoctl, Crashed, Goes, At, modVars
<1>6. ASSUME NEW t \in Task, GetModule(t)
      PROVE  Typed'
  <2>1. mref = 0
    BY <1>6, NobodyElsePins DEF GetModule, At, Locked
  <2> QED
    BY <1>6, <2>1
       DEF GetModule, EntryInv, Typed, PC, InIoctl, Crashed, Goes, At, modVars
<1>7. ASSUME NEW t \in Task, Work(t)
      PROVE  Typed'
  BY <1>7
     DEF Work, OwnMemory, Strings, Allocations, EntryInv, Typed, PC, InIoctl,
         Crashed, Goes, At, modVars
<1>8. ASSUME NEW t \in Task, Free(t)
      PROVE  Typed'
  BY <1>8
     DEF Free, OwnMemory, Strings, Allocations, EntryInv, Typed, PC, InIoctl,
         Crashed, Goes, At, modVars
<1>9. ASSUME NEW t \in Task, Unlock(t)
      PROVE  Typed'
  BY <1>9 DEF Unlock, EntryInv, Typed, PC, InIoctl, Crashed, Goes, At, modVars
<1>10. ASSUME NEW t \in Task, Leave(t)
       PROVE  Typed'
  BY <1>10 DEF Leave, EntryInv, Typed, PC, InIoctl, Crashed, Goes, At, modVars
<1>11. ASSUME NEW t \in Task, TestHook(t)
       PROVE  Typed'
  BY <1>11
     DEF TestHook, EntryInv, Typed, PC, InIoctl, Crashed, Goes, At, modVars
<1>12. ASSUME NEW t \in Task, CallHook(t)
       PROVE  Typed'
  BY <1>12
     DEF CallHook, Crashes, EntryInv, Typed, PC, InIoctl, Crashed, Goes, At,
         modVars
<1>13. ASSUME NEW t \in Task, CloneReturns(t)
       PROVE  Typed'
  BY <1>13
     DEF CloneReturns, EntryInv, Typed, PC, InIoctl, Crashed, Goes, At, modVars
<1>14. CASE InitRegister
  BY <1>14 DEF InitRegister, EntryInv, Typed, Module, taskVars
<1>15. CASE InitMutex
  BY <1>15 DEF InitMutex, EntryInv, Typed, Module, taskVars
<1>16. CASE InitHook
  BY <1>16 DEF InitHook, EntryInv, Typed, Module, taskVars
<1>17. ASSUME NEW m \in Module, RmmodBegin(m)
       PROVE  Typed'
  BY <1>17 DEF RmmodBegin, EntryInv, Typed, Module, taskVars
<1>18. ASSUME NEW m \in Module, ModuleExit(m)
       PROVE  Typed'
  BY <1>18 DEF ModuleExit, EntryInv, Typed, Module, taskVars
<1>19. ASSUME NEW m \in Module, ModuleGone(m)
       PROVE  Typed'
  BY <1>19 DEF ModuleGone, EntryInv, Typed, PC, Module
<1>20. CASE UNCHANGED vars
  BY <1>20 DEF vars, EntryInv, Typed
<1>21. ASSUME NEW t \in Task, NameFaults(t)
       PROVE  Typed'
  BY <1>21
     DEF NameFaults, OwnMemory, Strings, Allocations, Crashes, EntryInv, Typed,
         PC, InIoctl, Crashed, Goes, At, modVars
<1>22. ASSUME NEW t \in Task, WorkFaults(t)
       PROVE  Typed'
  BY <1>22
     DEF WorkFaults, OwnMemory, Strings, Allocations, Crashes, EntryInv, Typed,
         PC, InIoctl, Crashed, Goes, At, modVars
<1> QED
  BY <1>1, <1>2, <1>3, <1>4, <1>5, <1>6, <1>7, <1>8, <1>9, <1>10, <1>11,
     <1>12, <1>13, <1>14, <1>15, <1>16, <1>17, <1>18, <1>19, <1>20,
     <1>21, <1>22
     DEF Next, LoaderStep, TaskStep, IoctlStep

(* Every step of an orderly system leaves the modules in while they are used. *)
LEMMA StepInUse ==
  ASSUME Orderly, EntryInv, [Next]_vars
  PROVE  InUse'
<1>1. ASSUME NEW t \in Task, Open(t)
      PROVE  InUse'
  BY <1>1
     DEF Open, EntryInv, Typed, InUse, Orderly, Assuming, Module, Goes, At,
         modVars
<1>2. ASSUME NEW t \in Task, Close(t)
      PROVE  InUse'
  BY <1>2 DEF Close, EntryInv, Typed, InUse, InIoctl, Goes, At, modVars
<1>3. ASSUME NEW t \in Task, NEW r \in Request, Ioctl(t, r)
      PROVE  InUse'
  BY <1>3 DEF Ioctl, Crashes, EntryInv, Typed, InUse, InIoctl, Goes, At, modVars
<1>4. ASSUME NEW t \in Task, Lock(t)
      PROVE  InUse'
  BY <1>4 DEF Lock, Crashes, EntryInv, Typed, InUse, InIoctl, Goes, At, modVars
<1>5. ASSUME NEW t \in Task, Allocate(t)
      PROVE  InUse'
  BY <1>5 DEF Allocate, EntryInv, Typed, InUse, InIoctl, Goes, At, modVars
<1>6. ASSUME NEW t \in Task, GetModule(t)
      PROVE  InUse'
  BY <1>6 DEF GetModule, EntryInv, Typed, InUse, InIoctl, Goes, At, modVars
<1>7. ASSUME NEW t \in Task, Work(t)
      PROVE  InUse'
  BY <1>7 DEF Work, EntryInv, Typed, InUse, InIoctl, Goes, At, modVars
<1>8. ASSUME NEW t \in Task, Free(t)
      PROVE  InUse'
  BY <1>8 DEF Free, EntryInv, Typed, InUse, InIoctl, Goes, At, modVars
<1>9. ASSUME NEW t \in Task, Unlock(t)
      PROVE  InUse'
  BY <1>9 DEF Unlock, EntryInv, Typed, InUse, InIoctl, Goes, At, modVars
<1>10. ASSUME NEW t \in Task, Leave(t)
       PROVE  InUse'
  BY <1>10 DEF Leave, EntryInv, Typed, InUse, InIoctl, Goes, At, modVars
<1>11. ASSUME NEW t \in Task, TestHook(t)
       PROVE  InUse'
  BY <1>11
     DEF TestHook, EntryInv, Typed, InUse, InIoctl, Orderly, Assuming, Goes,
         At, modVars
<1>12. ASSUME NEW t \in Task, CallHook(t)
       PROVE  InUse'
  BY <1>12
     DEF CallHook, Crashes, EntryInv, Typed, InUse, InIoctl, Goes, At, modVars
<1>13. ASSUME NEW t \in Task, CloneReturns(t)
       PROVE  InUse'
  BY <1>13
     DEF CloneReturns, EntryInv, Typed, InUse, InIoctl, Goes, At, modVars
<1>14. CASE InitRegister
  BY <1>14 DEF InitRegister, EntryInv, Typed, InUse, Module, taskVars
<1>15. CASE InitMutex
  BY <1>15 DEF InitMutex, EntryInv, Typed, InUse, Module, taskVars
<1>16. CASE InitHook
  BY <1>16 DEF InitHook, EntryInv, Typed, InUse, Module, taskVars
<1>17. ASSUME NEW m \in Module, RmmodBegin(m)
       PROVE  InUse'
  <2>1. m = "ioctl_module" => Pinning = {}
    BY <1>17 DEF RmmodBegin, EntryInv, Balanced
  <2> QED
    BY <1>17, <2>1
       DEF RmmodBegin, EntryInv, Typed, InUse, Pinning, Orderly, Assuming,
           Idle, Module, taskVars
<1>18. ASSUME NEW m \in Module, ModuleExit(m)
       PROVE  InUse'
  BY <1>18 DEF ModuleExit, EntryInv, Typed, InUse, Module, taskVars
<1>19. ASSUME NEW m \in Module, ModuleGone(m)
       PROVE  InUse'
  BY <1>19 DEF ModuleGone, EntryInv, Typed, InUse, Module, InModule, InIoctl
<1>20. CASE UNCHANGED vars
  BY <1>20 DEF vars, EntryInv, Typed, InUse
<1>21. ASSUME NEW t \in Task, NameFaults(t)
       PROVE  InUse'
  BY <1>21
     DEF NameFaults, Crashes, EntryInv, Typed, InUse, InIoctl, Goes, At, modVars
<1>22. ASSUME NEW t \in Task, WorkFaults(t)
       PROVE  InUse'
  BY <1>22
     DEF WorkFaults, Crashes, EntryInv, Typed, InUse, InIoctl, Goes, At, modVars
<1> QED
  BY <1>1, <1>2, <1>3, <1>4, <1>5, <1>6, <1>7, <1>8, <1>9, <1>10, <1>11,
     <1>12, <1>13, <1>14, <1>15, <1>16, <1>17, <1>18, <1>19, <1>20,
     <1>21, <1>22
     DEF Next, LoaderStep, TaskStep, IoctlStep

(* Every step keeps the mutex exclusive. *)
LEMMA StepExclusive ==
  ASSUME Orderly, EntryInv, [Next]_vars
  PROVE  Exclusive'
<1>1. ASSUME NEW t \in Task, Open(t)
      PROVE  Exclusive'
  BY <1>1
     DEF Open, EntryInv, Typed, InUse, Exclusive, OneRequestAtATime, Crashed,
         Locked,
         InIoctl, Goes, At, modVars
<1>2. ASSUME NEW t \in Task, Close(t)
      PROVE  Exclusive'
  BY <1>2
     DEF Close, EntryInv, Typed, InUse, Exclusive, OneRequestAtATime, Crashed,
         Locked,
         InIoctl, Goes, At, modVars
<1>3. ASSUME NEW t \in Task, NEW r \in Request, Ioctl(t, r)
      PROVE  Exclusive'
  BY <1>3
     DEF Ioctl, Crashes, EntryInv, Typed, InUse, Exclusive, OneRequestAtATime,
         Crashed, Locked,
         InIoctl, Goes, At, modVars
<1>4. ASSUME NEW t \in Task, Lock(t)
      PROVE  Exclusive'
  BY <1>4, NoTaskAssumption
     DEF Lock, Crashes, EntryInv, Typed, InUse, Exclusive, OneRequestAtATime,
         Crashed, Locked,
         InIoctl, Goes, At, modVars
<1>5. ASSUME NEW t \in Task, Allocate(t)
      PROVE  Exclusive'
  BY <1>5
     DEF Allocate, EntryInv, Typed, InUse, Exclusive, OneRequestAtATime,
         Crashed,
         Locked, InIoctl, Goes, At, modVars
<1>6. ASSUME NEW t \in Task, GetModule(t)
      PROVE  Exclusive'
  BY <1>6
     DEF GetModule, EntryInv, Typed, InUse, Exclusive, OneRequestAtATime,
         Crashed,
         Locked, InIoctl, Goes, At, modVars
<1>7. ASSUME NEW t \in Task, Work(t)
      PROVE  Exclusive'
  BY <1>7
     DEF Work, EntryInv, Typed, InUse, Exclusive, OneRequestAtATime, Crashed,
         Locked,
         InIoctl, Goes, At, modVars
<1>8. ASSUME NEW t \in Task, Free(t)
      PROVE  Exclusive'
  BY <1>8
     DEF Free, EntryInv, Typed, InUse, Exclusive, OneRequestAtATime, Crashed,
         Locked,
         InIoctl, Goes, At, modVars
<1>9. ASSUME NEW t \in Task, Unlock(t)
      PROVE  Exclusive'
  BY <1>9
     DEF Unlock, EntryInv, Typed, InUse, Exclusive, OneRequestAtATime, Crashed,
         Locked, InIoctl, Goes, At, modVars
<1>10. ASSUME NEW t \in Task, Leave(t)
       PROVE  Exclusive'
  BY <1>10
     DEF Leave, EntryInv, Typed, InUse, Exclusive, OneRequestAtATime, Crashed,
         Locked,
         InIoctl, Goes, At, modVars
<1>11. ASSUME NEW t \in Task, TestHook(t)
       PROVE  Exclusive'
  BY <1>11
     DEF TestHook, EntryInv, Typed, InUse, Exclusive, OneRequestAtATime,
         Crashed,
         Locked, InIoctl, Goes, At, modVars
<1>12. ASSUME NEW t \in Task, CallHook(t)
       PROVE  Exclusive'
  BY <1>12
     DEF CallHook, Crashes, EntryInv, Typed, InUse, Exclusive,
         OneRequestAtATime, Crashed,
         Locked, InIoctl, Goes, At, modVars
<1>13. ASSUME NEW t \in Task, CloneReturns(t)
       PROVE  Exclusive'
  BY <1>13
     DEF CloneReturns, EntryInv, Typed, InUse, Exclusive, OneRequestAtATime,
         Crashed,
         Locked, InIoctl, Goes, At, modVars
<1>14. CASE InitRegister
  BY <1>14
     DEF InitRegister, EntryInv, Typed, InUse, Exclusive, OneRequestAtATime,
         Crashed,
         Module, taskVars
<1>15. CASE InitMutex
  BY <1>15
     DEF InitMutex, EntryInv, Typed, InUse, Exclusive, OneRequestAtATime,
         Crashed,
         Locked, InIoctl, taskVars
<1>16. CASE InitHook
  BY <1>16
     DEF InitHook, EntryInv, Typed, InUse, Exclusive, OneRequestAtATime,
         Crashed,
         taskVars
<1>17. ASSUME NEW m \in Module, RmmodBegin(m)
       PROVE  Exclusive'
  BY <1>17
     DEF RmmodBegin, EntryInv, Typed, InUse, Exclusive, OneRequestAtATime,
         Crashed,
         taskVars
<1>18. ASSUME NEW m \in Module, ModuleExit(m)
       PROVE  Exclusive'
  BY <1>18
     DEF ModuleExit, EntryInv, Typed, InUse, Exclusive, OneRequestAtATime,
         Crashed,
         taskVars
<1>19. ASSUME NEW m \in Module, ModuleGone(m)
       PROVE  Exclusive'
  BY <1>19
     DEF ModuleGone, EntryInv, Typed, InUse, Exclusive, OneRequestAtATime,
         Crashed,
         Locked, InModule, InIoctl, Module
<1>20. CASE UNCHANGED vars
  BY <1>20
     DEF vars, EntryInv, Typed, InUse, Exclusive, OneRequestAtATime, Crashed
<1>21. ASSUME NEW t \in Task, NameFaults(t)
       PROVE  Exclusive'
  BY <1>21
     DEF NameFaults, Crashes, EntryInv, Typed, InUse, Exclusive,
         OneRequestAtATime, Crashed,
         Locked, InIoctl, Goes, At, modVars
<1>22. ASSUME NEW t \in Task, WorkFaults(t)
       PROVE  Exclusive'
  BY <1>22
     DEF WorkFaults, Crashes, EntryInv, Typed, InUse, Exclusive,
         OneRequestAtATime, Crashed, Locked,
         InIoctl, Goes, At, modVars
<1> QED
  BY <1>1, <1>2, <1>3, <1>4, <1>5, <1>6, <1>7, <1>8, <1>9, <1>10, <1>11,
     <1>12, <1>13, <1>14, <1>15, <1>16, <1>17, <1>18, <1>19, <1>20,
     <1>21, <1>22
     DEF Next, LoaderStep, TaskStep, IoctlStep

(* Every step keeps the module's references balanced. *)
LEMMA StepBalanced ==
  ASSUME Orderly, EntryInv, [Next]_vars
  PROVE  Balanced'
<1>1. ASSUME NEW t \in Task, Open(t)
      PROVE  Balanced'
  BY <1>1
     DEF Open, EntryInv, Typed, InUse, Exclusive, OneRequestAtATime, Crashed,
         Balanced, Pinning, Locked, InIoctl, Goes, At, modVars
<1>2. ASSUME NEW t \in Task, Close(t)
      PROVE  Balanced'
  BY <1>2
     DEF Close, EntryInv, Typed, InUse, Exclusive, OneRequestAtATime, Crashed,
         Balanced, Pinning, Locked, InIoctl, Goes, At, modVars
<1>3. ASSUME NEW t \in Task, NEW r \in Request, Ioctl(t, r)
      PROVE  Balanced'
  BY <1>3
     DEF Ioctl, Crashes, EntryInv, Typed, InUse, Exclusive, OneRequestAtATime,
         Crashed,
         Balanced, Pinning, Locked, InIoctl, Goes, At, modVars
<1>4. ASSUME NEW t \in Task, Lock(t)
      PROVE  Balanced'
  BY <1>4, NoTaskAssumption
     DEF Lock, Crashes, EntryInv, Typed, InUse, Exclusive, OneRequestAtATime,
         Crashed,
         Balanced, Pinning, Locked, InIoctl, Goes, At, modVars
<1>5. ASSUME NEW t \in Task, Allocate(t)
      PROVE  Balanced'
  BY <1>5
     DEF Allocate, EntryInv, Typed, InUse, Exclusive, OneRequestAtATime,
         Crashed,
         Balanced, Pinning, Locked, InIoctl, Goes, At, modVars
<1>6. ASSUME NEW t \in Task, GetModule(t)
      PROVE  Balanced'
  BY <1>6
     DEF GetModule, EntryInv, Typed, InUse, Exclusive, OneRequestAtATime,
         Crashed,
         Balanced, Pinning, Locked, InIoctl, Goes, At, modVars
<1>7. ASSUME NEW t \in Task, Work(t)
      PROVE  Balanced'
  BY <1>7
     DEF Work, EntryInv, Typed, InUse, Exclusive, OneRequestAtATime, Crashed,
         Balanced, Pinning, Locked, InIoctl, Goes, At, modVars
<1>8. ASSUME NEW t \in Task, Free(t)
      PROVE  Balanced'
  BY <1>8
     DEF Free, EntryInv, Typed, InUse, Exclusive, OneRequestAtATime, Crashed,
         Balanced, Pinning, Locked, InIoctl, Goes, At, modVars
<1>9. ASSUME NEW t \in Task, Unlock(t)
      PROVE  Balanced'
  BY <1>9, NoTaskAssumption
     DEF Unlock, EntryInv, Typed, InUse, Exclusive, OneRequestAtATime, Crashed,
         Balanced, Pinning, Locked, InIoctl, Goes, At, modVars
<1>10. ASSUME NEW t \in Task, Leave(t)
       PROVE  Balanced'
  BY <1>10
     DEF Leave, EntryInv, Typed, InUse, Exclusive, OneRequestAtATime, Crashed,
         Balanced, Pinning, Locked, InIoctl, Goes, At, modVars
<1>11. ASSUME NEW t \in Task, TestHook(t)
       PROVE  Balanced'
  BY <1>11
     DEF TestHook, EntryInv, Typed, InUse, Exclusive, OneRequestAtATime,
         Crashed,
         Balanced, Pinning, Locked, InIoctl, Goes, At, modVars
<1>12. ASSUME NEW t \in Task, CallHook(t)
       PROVE  Balanced'
  BY <1>12
     DEF CallHook, Crashes, EntryInv, Typed, InUse, Exclusive,
         OneRequestAtATime, Crashed,
         Balanced, Pinning, Locked, InIoctl, Goes, At, modVars
<1>13. ASSUME NEW t \in Task, CloneReturns(t)
       PROVE  Balanced'
  BY <1>13
     DEF CloneReturns, EntryInv, Typed, InUse, Exclusive, OneRequestAtATime,
         Crashed,
         Balanced, Pinning, Locked, InIoctl, Goes, At, modVars
<1>14. CASE InitRegister
  BY <1>14
     DEF InitRegister, EntryInv, Typed, InUse, Exclusive, OneRequestAtATime,
         Crashed,
         Balanced, Pinning, Module, taskVars
<1>15. CASE InitMutex
  BY <1>15
     DEF InitMutex, EntryInv, Typed, InUse, Exclusive, OneRequestAtATime,
         Crashed,
         Balanced, Pinning, Locked, taskVars
<1>16. CASE InitHook
  BY <1>16
     DEF InitHook, EntryInv, Typed, InUse, Exclusive, OneRequestAtATime,
         Crashed,
         Balanced, Pinning, taskVars
<1>17. ASSUME NEW m \in Module, RmmodBegin(m)
       PROVE  Balanced'
  BY <1>17
     DEF RmmodBegin, EntryInv, Typed, InUse, Exclusive, OneRequestAtATime,
         Crashed,
         Balanced, Pinning, taskVars
<1>18. ASSUME NEW m \in Module, ModuleExit(m)
       PROVE  Balanced'
  BY <1>18
     DEF ModuleExit, EntryInv, Typed, InUse, Exclusive, OneRequestAtATime,
         Crashed,
         Balanced, Pinning, taskVars
<1>19. ASSUME NEW m \in Module, ModuleGone(m)
       PROVE  Balanced'
  BY <1>19
     DEF ModuleGone, EntryInv, Typed, InUse, Exclusive, OneRequestAtATime,
         Crashed,
         Balanced, Pinning, Locked, InModule, InIoctl, Module
<1>20. CASE UNCHANGED vars
  BY <1>20
     DEF vars, EntryInv, Typed, InUse, Exclusive, OneRequestAtATime, Crashed,
         Balanced, Pinning
<1>21. ASSUME NEW t \in Task, NameFaults(t)
       PROVE  Balanced'
  BY <1>21
     DEF NameFaults, Crashes, EntryInv, Typed, InUse, Exclusive,
         OneRequestAtATime, Crashed,
         Balanced, Pinning, Locked, InIoctl, Goes, At, modVars
<1>22. ASSUME NEW t \in Task, WorkFaults(t)
       PROVE  Balanced'
  BY <1>22
     DEF WorkFaults, Crashes, EntryInv, Typed, InUse, Exclusive,
         OneRequestAtATime, Crashed,
         Balanced, Pinning, Locked, InIoctl, Goes, At, modVars
<1> QED
  BY <1>1, <1>2, <1>3, <1>4, <1>5, <1>6, <1>7, <1>8, <1>9, <1>10, <1>11,
     <1>12, <1>13, <1>14, <1>15, <1>16, <1>17, <1>18, <1>19, <1>20,
     <1>21, <1>22
     DEF Next, LoaderStep, TaskStep, IoctlStep

(* A step crashes a task only where its request does not test an allocation. *)
LEMMA StepCrashes ==
  ASSUME Orderly, EntryInv, [Next]_vars
  PROVE  CodeStays'
<1>1. ASSUME NEW t \in Task, Open(t)
      PROVE  CodeStays'
  BY <1>1
     DEF Open, EntryInv, Typed, InUse, Exclusive, OneRequestAtATime, Crashed,
         CodeStays, Locked, InIoctl, Goes, At, modVars
<1>2. ASSUME NEW t \in Task, Close(t)
      PROVE  CodeStays'
  BY <1>2
     DEF Close, EntryInv, Typed, InUse, Exclusive, OneRequestAtATime, Crashed,
         CodeStays, Locked, InIoctl, Goes, At, modVars
<1>3. ASSUME NEW t \in Task, NEW r \in Request, Ioctl(t, r)
      PROVE  CodeStays'
  BY <1>3
     DEF Ioctl, Crashes, EntryInv, Typed, InUse, Exclusive, OneRequestAtATime,
         Crashed,
         CodeStays, Locked, InIoctl, Goes, At, modVars
<1>4. ASSUME NEW t \in Task, Lock(t)
      PROVE  CodeStays'
  BY <1>4, NoTaskAssumption
     DEF Lock, Crashes, EntryInv, Typed, InUse, Exclusive, OneRequestAtATime,
         Crashed,
         CodeStays, Locked, InIoctl, Goes, At, modVars
<1>5. ASSUME NEW t \in Task, Allocate(t)
      PROVE  CodeStays'
  BY <1>5
     DEF Allocate, EntryInv, Typed, InUse, Exclusive, OneRequestAtATime,
         Crashed,
         CodeStays, Locked, InIoctl, Goes, At, modVars
<1>6. ASSUME NEW t \in Task, GetModule(t)
      PROVE  CodeStays'
  BY <1>6
     DEF GetModule, EntryInv, Typed, InUse, Exclusive, OneRequestAtATime,
         Crashed,
         CodeStays, Locked, InIoctl, Goes, At, modVars
<1>7. ASSUME NEW t \in Task, Work(t)
      PROVE  CodeStays'
  BY <1>7
     DEF Work, EntryInv, Typed, InUse, Exclusive, OneRequestAtATime, Crashed,
         CodeStays, Locked, InIoctl, Goes, At, modVars
<1>8. ASSUME NEW t \in Task, Free(t)
      PROVE  CodeStays'
  BY <1>8
     DEF Free, EntryInv, Typed, InUse, Exclusive, OneRequestAtATime, Crashed,
         CodeStays, Locked, InIoctl, Goes, At, modVars
<1>9. ASSUME NEW t \in Task, Unlock(t)
      PROVE  CodeStays'
  BY <1>9
     DEF Unlock, EntryInv, Typed, InUse, Exclusive, OneRequestAtATime, Crashed,
         CodeStays, Locked, InIoctl, Goes, At, modVars
<1>10. ASSUME NEW t \in Task, Leave(t)
       PROVE  CodeStays'
  BY <1>10
     DEF Leave, EntryInv, Typed, InUse, Exclusive, OneRequestAtATime, Crashed,
         CodeStays, Locked, InIoctl, Goes, At, modVars
<1>11. ASSUME NEW t \in Task, TestHook(t)
       PROVE  CodeStays'
  BY <1>11
     DEF TestHook, EntryInv, Typed, InUse, Exclusive, OneRequestAtATime,
         Crashed,
         CodeStays, Locked, InIoctl, Goes, At, modVars
<1>12. ASSUME NEW t \in Task, CallHook(t)
       PROVE  CodeStays'
  BY <1>12
     DEF CallHook, Crashes, EntryInv, Typed, InUse, Exclusive,
         OneRequestAtATime, Crashed,
         CodeStays, Locked, InIoctl, Goes, At, modVars
<1>13. ASSUME NEW t \in Task, CloneReturns(t)
       PROVE  CodeStays'
  BY <1>13
     DEF CloneReturns, EntryInv, Typed, InUse, Exclusive, OneRequestAtATime,
         Crashed,
         CodeStays, Locked, InIoctl, Goes, At, modVars
<1>14. CASE InitRegister
  BY <1>14
     DEF InitRegister, EntryInv, Typed, InUse, Exclusive, OneRequestAtATime,
         Crashed,
         CodeStays, Module, taskVars
<1>15. CASE InitMutex
  BY <1>15
     DEF InitMutex, EntryInv, Typed, InUse, Exclusive, OneRequestAtATime,
         Crashed,
         CodeStays, Locked, InIoctl, taskVars
<1>16. CASE InitHook
  BY <1>16
     DEF InitHook, EntryInv, Typed, InUse, Exclusive, OneRequestAtATime,
         Crashed,
         CodeStays, taskVars
<1>17. ASSUME NEW m \in Module, RmmodBegin(m)
       PROVE  CodeStays'
  BY <1>17
     DEF RmmodBegin, EntryInv, Typed, InUse, Exclusive, OneRequestAtATime,
         Crashed,
         CodeStays, taskVars
<1>18. ASSUME NEW m \in Module, ModuleExit(m)
       PROVE  CodeStays'
  BY <1>18
     DEF ModuleExit, EntryInv, Typed, InUse, Exclusive, OneRequestAtATime,
         Crashed,
         CodeStays, taskVars
<1>19. ASSUME NEW m \in Module, ModuleGone(m)
       PROVE  CodeStays'
  BY <1>19
     DEF ModuleGone, EntryInv, Typed, InUse, Exclusive, OneRequestAtATime,
         Crashed,
         CodeStays, Locked, InModule, InIoctl, Module
<1>20. CASE UNCHANGED vars
  BY <1>20
     DEF vars, EntryInv, Typed, InUse, Exclusive, OneRequestAtATime, Crashed,
         CodeStays
<1>21. ASSUME NEW t \in Task, NameFaults(t)
       PROVE  CodeStays'
  BY <1>21
     DEF NameFaults, Crashes, EntryInv, Typed, InUse, Exclusive,
         OneRequestAtATime, Crashed,
         CodeStays, Locked, InIoctl, Goes, At, modVars
<1>22. ASSUME NEW t \in Task, WorkFaults(t)
       PROVE  CodeStays'
  BY <1>22
     DEF WorkFaults, Crashes, EntryInv, Typed, InUse, Exclusive,
         OneRequestAtATime, Crashed,
         CodeStays, Locked, InIoctl, Goes, At, modVars
<1> QED
  BY <1>1, <1>2, <1>3, <1>4, <1>5, <1>6, <1>7, <1>8, <1>9, <1>10, <1>11,
     <1>12, <1>13, <1>14, <1>15, <1>16, <1>17, <1>18, <1>19, <1>20,
     <1>21, <1>22
     DEF Next, LoaderStep, TaskStep, IoctlStep

(* Every step knows what the request has allocated. *)
LEMMA StepTidy ==
  ASSUME Orderly, EntryInv, [Next]_vars
  PROVE  Tidy'
<1>1. ASSUME NEW t \in Task, Open(t)
      PROVE  Tidy'
  BY <1>1 DEF Open, EntryInv, Typed, Tidy, Goes, At, modVars
<1>2. ASSUME NEW t \in Task, Close(t)
      PROVE  Tidy'
  BY <1>2 DEF Close, EntryInv, Typed, Tidy, Goes, At, modVars
<1>3. ASSUME NEW t \in Task, NEW r \in Request, Ioctl(t, r)
      PROVE  Tidy'
  BY <1>3 DEF Ioctl, Crashes, EntryInv, Typed, Tidy, Goes, At, modVars
<1>4. ASSUME NEW t \in Task, Lock(t)
      PROVE  Tidy'
  BY <1>4 DEF Lock, Crashes, EntryInv, Typed, Tidy, Goes, At, modVars
<1>5. ASSUME NEW t \in Task, Allocate(t)
      PROVE  Tidy'
  BY <1>5
     DEF Allocate, OwnMemory, Strings, Allocations, EntryInv, Typed, Tidy, PC,
         InIoctl, Crashed, Goes, At, modVars
<1>6. ASSUME NEW t \in Task, GetModule(t)
      PROVE  Tidy'
  BY <1>6 DEF GetModule, EntryInv, Typed, Tidy, Goes, At, modVars
<1>7. ASSUME NEW t \in Task, Work(t)
      PROVE  Tidy'
  BY <1>7
     DEF Work, OwnMemory, Strings, Allocations, EntryInv, Typed, Tidy, PC,
         InIoctl, Crashed, Goes, At, modVars
<1>8. ASSUME NEW t \in Task, Free(t)
      PROVE  Tidy'
  BY <1>8
     DEF Free, OwnMemory, Strings, Allocations, EntryInv, Typed, Tidy, PC,
         InIoctl, Crashed, Goes, At, modVars
<1>9. ASSUME NEW t \in Task, Unlock(t)
      PROVE  Tidy'
  BY <1>9 DEF Unlock, EntryInv, Typed, Tidy, Goes, At, modVars
<1>10. ASSUME NEW t \in Task, Leave(t)
       PROVE  Tidy'
  BY <1>10 DEF Leave, EntryInv, Typed, Tidy, Goes, At, modVars
<1>11. ASSUME NEW t \in Task, TestHook(t)
       PROVE  Tidy'
  BY <1>11 DEF TestHook, EntryInv, Typed, Tidy, Goes, At, modVars
<1>12. ASSUME NEW t \in Task, CallHook(t)
       PROVE  Tidy'
  BY <1>12 DEF CallHook, Crashes, EntryInv, Typed, Tidy, Goes, At, modVars
<1>13. ASSUME NEW t \in Task, CloneReturns(t)
       PROVE  Tidy'
  BY <1>13 DEF CloneReturns, EntryInv, Typed, Tidy, Goes, At, modVars
<1>14. CASE InitRegister
  BY <1>14 DEF InitRegister, EntryInv, Typed, Tidy, taskVars
<1>15. CASE InitMutex
  BY <1>15 DEF InitMutex, EntryInv, Typed, Tidy, taskVars
<1>16. CASE InitHook
  BY <1>16 DEF InitHook, EntryInv, Typed, Tidy, taskVars
<1>17. ASSUME NEW m \in Module, RmmodBegin(m)
       PROVE  Tidy'
  BY <1>17 DEF RmmodBegin, EntryInv, Typed, Tidy, taskVars
<1>18. ASSUME NEW m \in Module, ModuleExit(m)
       PROVE  Tidy'
  BY <1>18 DEF ModuleExit, EntryInv, Typed, Tidy, taskVars
<1>19. ASSUME NEW m \in Module, ModuleGone(m)
       PROVE  Tidy'
  BY <1>19 DEF ModuleGone, EntryInv, Typed, Tidy, InModule
<1>20. CASE UNCHANGED vars
  BY <1>20 DEF vars, EntryInv, Typed, Tidy
<1>21. ASSUME NEW t \in Task, NameFaults(t)
       PROVE  Tidy'
  BY <1>21
     DEF NameFaults, OwnMemory, Strings, Allocations, Crashes, EntryInv, Typed,
         Tidy, PC, InIoctl, Crashed, Goes, At, modVars
<1>22. ASSUME NEW t \in Task, WorkFaults(t)
       PROVE  Tidy'
  BY <1>22
     DEF WorkFaults, OwnMemory, Strings, Allocations, Crashes, EntryInv, Typed,
         Tidy, PC, InIoctl, Crashed, Goes, At, modVars
<1> QED
  BY <1>1, <1>2, <1>3, <1>4, <1>5, <1>6, <1>7, <1>8, <1>9, <1>10, <1>11,
     <1>12, <1>13, <1>14, <1>15, <1>16, <1>17, <1>18, <1>19, <1>20,
     <1>21, <1>22
     DEF Next, LoaderStep, TaskStep, IoctlStep

-------------------------------------------------------------------------------
LEMMA EntryInvariant == Orderly /\ Spec => []EntryInv
<1>1. Init => EntryInv
  <2> SUFFICES ASSUME Init
               PROVE  EntryInv
    OBVIOUS
  <2>1. Typed
    <3>1. /\ mod \in [Module -> {"absent", "loading", "live", "going"}]
          /\ pc \in [Task -> PC]
      BY DEF Init, PC
    <3>2. /\ request \in [Task -> Request \cup {"none"}]
          /\ memory \in [Task -> SUBSET (OwnMemory \cup Strings)]
      BY DEF Init
    <3>3. registered \in BOOLEAN /\ initialised \in BOOLEAN /\ sysptr \in BOOLEAN
      BY DEF Init
    <3>4. mutexlock \in Task \cup {NoTask} /\ mref \in 0 .. 1 /\ file \subseteq Task
      BY DEF Init
    <3> QED
      BY <3>1, <3>2, <3>3, <3>4 DEF Typed
  <2>2. InUse
    BY DEF Init, InUse, Module, InIoctl
  <2>3. Exclusive
    BY DEF Init, Exclusive, OneRequestAtATime, Crashed, Locked
  <2>4. Balanced
    BY DEF Init, Balanced, Pinning
  <2>5. CodeStays /\ Tidy
    BY DEF Init, CodeStays, Tidy
  <2> QED
    BY <2>1, <2>2, <2>3, <2>4, <2>5 DEF EntryInv
<1>2. Orderly /\ EntryInv /\ [Next]_vars => EntryInv'
  <2> SUFFICES ASSUME Orderly, EntryInv, [Next]_vars
               PROVE  EntryInv'
    OBVIOUS
  <2> QED
    BY StepTyped, StepInUse, StepExclusive, StepBalanced, StepCrashes, StepTidy
       DEF EntryInv
<1>3. SUFFICES ASSUME Orderly
               PROVE  Spec => []EntryInv
  OBVIOUS
<1> QED
  BY <1>1, <1>2, <1>3, PTL DEF Spec

(* The number of tasks whose request holds a reference. *)
LEMMA PinningCount ==
  ASSUME EntryInv
  PROVE  mref = Cardinality(Pinning) /\ mref \in 0 .. Cardinality(Task)
<1>1. CASE Pinning = {}
  BY <1>1, FiniteAssumption, FS_EmptySet, FS_CardinalityType
     DEF EntryInv, Balanced
<1>2. CASE Pinning # {}
  <2>1. Pinning = {mutexlock} /\ mutexlock \in Task
    BY <1>2 DEF Pinning, EntryInv, Exclusive, OneRequestAtATime, Crashed, Locked
  <2>2. Cardinality(Pinning) = 1
    BY <2>1, FS_Singleton
  <2>3. Cardinality(Pinning) <= Cardinality(Task) /\ Cardinality(Task) \in Nat
    BY FiniteAssumption, FS_Subset, FS_CardinalityType DEF Pinning
  <2> QED
    BY <1>2, <2>2, <2>3 DEF EntryInv, Balanced
<1> QED
  BY <1>1, <1>2

(* Types, the bound on the module's reference count among them: there is     *)
(* never more than one task between try_module_get and module_put.           *)
THEOREM EntryTypes == Orderly /\ Spec => []TypeOK
<1>1. EntryInv => TypeOK
  BY PinningCount DEF EntryInv, Typed, TypeOK
<1> QED
  BY <1>1, EntryInvariant, PTL

(* mutexlock excludes: custom_ioctl between mutex_lock and mutex_unlock is   *)
(* executed by one task at a time, also after a request has crashed there.   *)
THEOREM MutexExcludes == Orderly /\ Spec => []OneRequestAtATime
<1>1. EntryInv => OneRequestAtATime
  BY DEF EntryInv, Exclusive
<1> QED
  BY <1>1, EntryInvariant, PTL

(* Every path of custom_ioctl gives back the reference it took on its        *)
(* module, and takes no more than it gives back; a request that crashes      *)
(* keeps the one it has.                                                     *)
THEOREM ReferencesBalanced == Orderly /\ Spec => []RefsBalanced
<1>1. EntryInv => RefsBalanced
  BY PinningCount DEF RefsBalanced, Pinning
<1> QED
  BY <1>1, EntryInvariant, PTL

(* The code of ioctl_module and sys_clone2 is never freed under a task, the  *)
(* hook never called when it is reset, and mutexlock never used before       *)
(* mutex_init.                                                               *)
THEOREM CodeIsThere == Orderly /\ Spec => []CodeStays
<1>1. EntryInv => CodeStays
  BY DEF EntryInv
<1> QED
  BY <1>1, EntryInvariant, PTL

(* custom_ioctl frees all that it has allocated; but buf, when it leaves by  *)
(* out for want of vector_name, and the strings of add_vector_from_bitmap.   *)
THEOREM LeaksAreKnown == Orderly /\ Spec => []LeaksKnown
<1>1. EntryInv => LeaksKnown
  BY DEF EntryInv, Tidy, LeaksKnown
<1> QED
  BY <1>1, EntryInvariant, PTL

-------------------------------------------------------------------------------
(* The device serves one request at a time. *)

LEMMA NoneServed ==
  ASSUME EntryInv, mutexlock = NoTask
  PROVE  Serving = {}
BY NoTaskAssumption DEF Serving, EntryInv, Exclusive, OneRequestAtATime, Crashed

LEMMA OnlyHolderServed ==
  ASSUME EntryInv, NEW t \in Task, pc[t] \in Locked \cup {"fault"}
  PROVE  Serving = {t} /\ mutexlock = t
BY DEF Serving, EntryInv, Exclusive, OneRequestAtATime, Crashed

(* A step of a task other than mutex_lock, mutex_unlock and a crash between  *)
(* mutex_lock and try_module_get.                                            *)
LEMMA OtherTaskSteps ==
  ASSUME Orderly, EntryInv, NEW t \in Task, TaskStep(t), ~ Lock(t), ~ Unlock(t),
         ~ NameFaults(t)
  PROVE  UNCHANGED <<mod, Serving>>
<1> DEFINE Same == UNCHANGED mod /\ Serving' = Serving
<1> USE DEF modVars
<1>1. ASSUME UNCHANGED mod,
             NEW where \in PC, pc' = [pc EXCEPT ![t] = where],
             pc[t] \notin Locked \cup {"fault"}, where \notin Locked \cup {"fault"}
      PROVE  Same
  BY <1>1 DEF Serving, EntryInv, Typed
<1>2. ASSUME UNCHANGED mod,
             NEW where \in PC, pc' = [pc EXCEPT ![t] = where],
             pc[t] \in Locked, where \in Locked \cup {"fault"}
      PROVE  Same
  <2>1. Serving = {t} /\ mutexlock = t
    BY <1>2, OnlyHolderServed
  <2> QED
    BY <1>2, <2>1 DEF Serving, EntryInv, Typed
<1>3. CASE Open(t) \/ Close(t)
  BY <1>3 DEF Open, Close, Serving
<1>4. ASSUME NEW r \in Request, Ioctl(t, r)
      PROVE  Same
  <2>1. mod["ioctl_module"] # "absent" /\ pc[t] = "user"
    BY <1>4 DEF Ioctl, At, EntryInv, InUse
  <2> QED
    BY <1>1, <1>4, <2>1 DEF Ioctl, Goes, PC, InIoctl, Locked
<1>5. CASE Allocate(t) \/ GetModule(t) \/ Work(t) \/ WorkFaults(t) \/ Free(t)
  <2>1. pc[t] \in Locked
    BY <1>5 DEF Allocate, GetModule, Work, WorkFaults, Free, At, Locked
  <2>2. UNCHANGED mod
    BY <1>5 DEF Allocate, GetModule, Work, WorkFaults, Free
  <2>3. \E where \in Locked \cup {"fault"} : pc' = [pc EXCEPT ![t] = where]
    BY <1>5
       DEF Allocate, GetModule, Work, WorkFaults, Free, Crashes, Goes, Locked
  <2> QED
    BY <1>2, <2>1, <2>2, <2>3 DEF PC, InIoctl, Locked, Crashed
<1>6. CASE Leave(t)
  BY <1>1, <1>6 DEF Leave, Goes, At, PC, InIoctl, Locked
<1>7. CASE TestHook(t) \/ CallHook(t) \/ CloneReturns(t)
  <2>1. CallHook(t) => sysptr
    BY DEF CallHook, At, EntryInv, InUse
  <2> QED
    BY <1>1, <1>7, <2>1
       DEF TestHook, CallHook, CloneReturns, Goes, At, PC, InIoctl, Locked
<1> QED
  BY <1>3, <1>4, <1>5, <1>6, <1>7 DEF TaskStep, IoctlStep

LEMMA TaskServes ==
  ASSUME Orderly, EntryInv, NEW t \in Task, TaskStep(t)
  PROVE  [Service!Next]_Service!vars
<1>1. CASE Lock(t)
  <2>1. mod["ioctl_module"] = "live" /\ initialised
    BY <1>1 DEF Lock, At, InIoctl, EntryInv, InUse
  <2>2. mutexlock = NoTask /\ UNCHANGED mod /\ pc' = [pc EXCEPT ![t] = "locked"]
    BY <1>1, <2>1 DEF Lock, Goes, modVars
  <2>3. Serving = {}
    BY <2>2, NoneServed
  <2>4. Serving' = {t}
    BY <1>1, <2>1, <2>2, <2>3 DEF Lock, Serving, Locked, EntryInv, Typed
  <2>5. Service!Serve(t)
    BY <2>1, <2>2, <2>3, <2>4 DEF Service!Serve, Device
  <2> QED
    BY <2>5 DEF Service!Next
<1>2. CASE Unlock(t)
  <2>1. Serving = {t} /\ mutexlock = t
    BY <1>2, OnlyHolderServed DEF Unlock, At, Locked
  <2>2. Serving' = {}
    BY <1>2, <2>1, NoTaskAssumption
       DEF Unlock, Goes, Serving, Locked, EntryInv, Typed
  <2>3. Service!Finish(t)
    BY <1>2, <2>1, <2>2 DEF Unlock, modVars, Device, Service!Finish
  <2> QED
    BY <2>3 DEF Service!Next
<1>3. CASE NameFaults(t)
  <2>1. Serving = {t}
    BY <1>3, OnlyHolderServed DEF NameFaults, At, Locked
  <2>2. Serving' = {}
    BY <1>3, <2>1
       DEF NameFaults, Crashes, Goes, Serving, Locked, EntryInv, Typed
  <2>3. Service!Finish(t)
    BY <1>3, <2>1, <2>2 DEF NameFaults, modVars, Device, Service!Finish
  <2> QED
    BY <2>3 DEF Service!Next
<1>4. CASE ~ Lock(t) /\ ~ Unlock(t) /\ ~ NameFaults(t)
  BY <1>4, OtherTaskSteps DEF Device, Service!vars
<1> QED
  BY <1>1, <1>2, <1>3, <1>4

(* insmod and rmmod.  No task is in custom_ioctl then. *)
LEMMA LoaderServes ==
  ASSUME Orderly, EntryInv, LoaderStep
  PROVE  [Service!Next]_Service!vars
<1> USE DEF Module, taskVars
<1>1. mod \in [Module -> {"absent", "loading", "live", "going"}]
  BY DEF EntryInv, Typed
<1>2. UNCHANGED pc
  <2>1. CASE InitMutex
    BY <2>1 DEF InitMutex
  <2>2. ASSUME NEW m \in Module, ModuleGone(m)
        PROVE  UNCHANGED pc
    <3>1. \A t \in Task : ~ InModule(t, m)
      BY <2>2 DEF ModuleGone, InModule, EntryInv, InUse
    <3> QED
      BY <2>2, <3>1 DEF ModuleGone, EntryInv, Typed
  <2> QED
    BY <2>1, <2>2 DEF LoaderStep, InitRegister, InitHook, RmmodBegin, ModuleExit
<1>3. Serving' = Serving
  BY <1>2 DEF Serving
<1>4. CASE Device' = Device
  BY <1>3, <1>4 DEF Service!vars
<1>5. CASE InitRegister
  BY <1>1, <1>4, <1>5 DEF InitRegister, Device
<1>6. CASE InitMutex
  <2>1. Service!Insert
    BY <1>1, <1>3, <1>6 DEF InitMutex, Device, Service!Insert
  <2> QED
    BY <2>1 DEF Service!Next
<1>7. CASE RmmodBegin("ioctl_module")
  <2>1. Serving = {}
    <3>1. \A t \in Task : pc[t] \notin InIoctl
      BY <1>7 DEF RmmodBegin, Orderly, Assuming, Idle, EntryInv, InUse
    <3>2. Pinning = {}
      BY <1>7 DEF RmmodBegin, EntryInv, Balanced
    <3> QED
      BY <3>1, <3>2 DEF Serving, Pinning, Locked, InIoctl
  <2>2. Service!RemovalBegins
    BY <1>1, <1>3, <1>7, <2>1 DEF RmmodBegin, Device, Service!RemovalBegins
  <2> QED
    BY <2>2 DEF Service!Next
<1>8. CASE ModuleGone("ioctl_module")
  <2>1. Service!RemovalEnds
    BY <1>1, <1>3, <1>8 DEF ModuleGone, Device, Service!RemovalEnds
  <2> QED
    BY <2>1 DEF Service!Next
<1>9. CASE InitHook \/ RmmodBegin("sys_clone2") \/ ModuleGone("sys_clone2")
  BY <1>1, <1>4, <1>9 DEF InitHook, RmmodBegin, ModuleGone, Device
<1>10. ASSUME NEW m \in Module, ModuleExit(m)
       PROVE  [Service!Next]_Service!vars
  BY <1>4, <1>10 DEF ModuleExit, Device
<1> QED
  BY <1>5, <1>6, <1>7, <1>8, <1>9, <1>10 DEF LoaderStep

(* custom_ioctl, init_ioctl_module, exit_ioctl_module and the loader's test  *)
(* of the module's references give the requests what VectorSystem's guards   *)
(* presume: they are served one at a time, and only while the module is in.  *)
THEOREM DeviceServesOneAtATime == Orderly /\ Spec => ServesOneAtATime
<1>1. Init => Service!Init
  BY DEF Init, Serving, Device, Module, Locked, Service!Init
<1>2. Orderly /\ EntryInv /\ [Next]_vars => [Service!Next]_Service!vars
  <2>1. CASE UNCHANGED vars
    BY <2>1 DEF vars, Serving, Device, Service!vars
  <2> QED
    BY <2>1, TaskServes, LoaderServes DEF Next
<1>3. SUFFICES ASSUME Orderly
               PROVE  Spec => ServesOneAtATime
  OBVIOUS
<1> QED
  BY <1>1, <1>2, <1>3, EntryInvariant, PTL
     DEF Spec, ServesOneAtATime, Service!Spec

===============================================================================
