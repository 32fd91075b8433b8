-------------------------- MODULE VectorProgramsProofs --------------------------
(***************************************************************************)
(* The repository's programs are users as VectorSystem assumes them, and   *)
(* what is proved of those holds while the programs run.                   *)
(***************************************************************************)
EXTENDS VectorPrograms, SequenceTheorems, TLAPS

-------------------------------------------------------------------------------
(* What a program has still to do. *)

StepOfProgram == [does: {"set", "remove", "create", "clone"}, vector: Bitmap,
                  stops: BOOLEAN]

(* The first of the requests left is the i-th of the program, and the rest   *)
(* begins with the next one.                                                 *)
LEMMA RestOfScript ==
  ASSUME NEW S, NEW x \in Seq(S), NEW s \in RestsOf(x), s # <<>>
  PROVE  /\ Tail(s) \in RestsOf(x)
         /\ \E i \in 1 .. Len(x) :
              /\ Head(s) = x[i]
              /\ i = Len(x) => Tail(s) = <<>>
              /\ Tail(s) # <<>> => i + 1 \in 1 .. Len(x) /\ Head(Tail(s)) = x[i + 1]
<1>1. PICK i \in 1 .. Len(x) + 1 : s = SubSeq(x, i, Len(x))
  BY DEF RestsOf
<1>2. Len(x) \in Nat
  BY LenProperties
<1>3. i \in 1 .. Len(x)
  BY <1>1, <1>2, SubSeqEmpty
<1>4. Head(s) = x[i] /\ Tail(s) = SubSeq(x, i + 1, Len(x))
  BY <1>1, <1>2, <1>3, HeadTailOfSubSeq
<1>5. Tail(s) \in RestsOf(x)
  <2>1. i + 1 \in 1 .. Len(x) + 1
    BY <1>2, <1>3
  <2> QED
    BY <1>4, <2>1 DEF RestsOf
<1>6. i = Len(x) => Tail(s) = <<>>
  BY <1>2, <1>4, SubSeqEmpty
<1>7. ASSUME Tail(s) # <<>>
      PROVE  i + 1 \in 1 .. Len(x) /\ Head(Tail(s)) = x[i + 1]
  <2>1. i + 1 \in 1 .. Len(x)
    BY <1>2, <1>3, <1>6, <1>7
  <2> QED
    BY <1>2, <1>4, <2>1, HeadTailOfSubSeq
<1> QED
  BY <1>3, <1>4, <1>5, <1>6, <1>7

LEMMA WholeScript ==
  ASSUME NEW S, NEW x \in Seq(S)
  PROVE  x \in RestsOf(x)
<1>1. Len(x) \in Nat /\ \A j \in 1 .. Len(x) : x[j] \in S
  BY LenProperties, ElementOfSeq
<1> DEFINE u == SubSeq(x, 1, Len(x))
<1>2. u \in Seq(S) /\ Len(u) = Len(x) /\ \A k \in 1 .. Len(u) : u[k] = x[k]
  BY <1>1, SubSeqProperties
<1> HIDE DEF u
<1>3. u = x
  BY <1>2, SeqEqual
<1>4. 1 \in 1 .. Len(x) + 1
  BY <1>1
<1> QED
  BY <1>3, <1>4 DEF RestsOf, u

(* A program's SET is followed by a REMOVE of the same vector, by a clone or *)
(* by nothing, REMOVE by a CREATE, and the programs stop when a SET or       *)
(* REMOVE fails.                                                             *)
Follows(x, y) ==
  \/ x.does = "set" /\ y.does = "remove" /\ y.vector = x.vector
  \/ x.does = "set" /\ y.does = "clone"
  \/ x.does = "remove" /\ y.does = "create"

LEMMA ScriptSteps ==
  ASSUME NEW p \in DOMAIN Script
  PROVE  /\ Script[p] \in Seq(StepOfProgram) /\ Script[p] # <<>>
         /\ Head(Script[p]).does \in {"set", "create"}
         /\ \A i \in 1 .. Len(Script[p]) :
              /\ Script[p][i].vector \in ProgramBitmaps
              /\ Script[p][i].does \in {"set", "remove"} => Script[p][i].stops
         /\ \A i \in 1 .. Len(Script[p]) :
              i + 1 \in 1 .. Len(Script[p]) => Follows(Script[p][i], Script[p][i + 1])
<1>1. ProgramBitmaps \subseteq Bitmap
  BY DEF ProgramBitmaps, Vector55, Vector968, V9, V1017, V23, V51, Bitmap, Flavour
<1> DEFINE Good(x) == /\ x \in Seq(StepOfProgram) /\ x # <<>>
                      /\ Head(x).does \in {"set", "create"}
                      /\ \A i \in 1 .. Len(x) :
                           /\ x[i].vector \in ProgramBitmaps
                           /\ x[i].does \in {"set", "remove"} => x[i].stops
                      /\ \A i \in 1 .. Len(x) :
                           i + 1 \in 1 .. Len(x) => Follows(x[i], x[i + 1])
<1>2. ASSUME NEW b \in ProgramBitmaps
      PROVE  Good(TestIoctl(b))
  <2>1. V1017 \in ProgramBitmaps
    BY DEF ProgramBitmaps
  <2> DEFINE x == Step("set", b, TRUE)
             y == Step("remove", b, TRUE)
             z == Step("create", V1017, TRUE)
  <2>2. x \in StepOfProgram /\ y \in StepOfProgram /\ z \in StepOfProgram
    BY <1>1, <2>1 DEF Step, StepOfProgram
  <2>3. /\ x.does = "set" /\ x.vector = b /\ x.stops = TRUE
        /\ y.does = "remove" /\ y.vector = b /\ y.stops = TRUE
        /\ z.does = "create" /\ z.vector = V1017
    BY DEF Step
  <2>4. TestIoctl(b) = <<x, y, z>>
    BY DEF TestIoctl
  <2> HIDE DEF x, y, z
  <2>5. Good(<<x, y, z>>)
    BY <2>1, <2>2, <2>3 DEF Follows
  <2> QED
    BY <2>4, <2>5
<1>3. ASSUME NEW b \in ProgramBitmaps
      PROVE  Good(TestVector(b))
  <2> DEFINE x == Step("set", b, TRUE)
  <2>1. x \in StepOfProgram /\ x.does = "set" /\ x.vector = b /\ x.stops = TRUE
    BY <1>1 DEF Step, StepOfProgram
  <2>2. TestVector(b) = <<x>>
    BY DEF TestVector
  <2> HIDE DEF x
  <2>3. Good(<<x>>)
    BY <2>1
  <2> QED
    BY <2>2, <2>3
<1>4. ASSUME NEW b \in ProgramBitmaps
      PROVE  Good(UserIoctl(b))
  <2> DEFINE x == Step("create", b, FALSE)
  <2>1. x \in StepOfProgram /\ x.does = "create" /\ x.vector = b
    BY <1>1 DEF Step, StepOfProgram
  <2>2. UserIoctl(b) = <<x>>
    BY DEF UserIoctl
  <2> HIDE DEF x
  <2>3. Good(<<x>>)
    BY <2>1
  <2> QED
    BY <2>2, <2>3
<1>5. Good(UserClone)
  <2> DEFINE x == Step("set", Vector968, TRUE)
             y == Step("clone", V23, TRUE)
  <2>0. Vector968 \in ProgramBitmaps /\ V23 \in ProgramBitmaps
    BY DEF ProgramBitmaps
  <2>1. x \in StepOfProgram /\ y \in StepOfProgram
    BY <1>1, <2>0 DEF Step, StepOfProgram
  <2>2. /\ x.does = "set" /\ x.vector = Vector968 /\ x.stops = TRUE
        /\ y.does = "clone" /\ y.vector = V23
    BY DEF Step
  <2>3. UserClone = <<x, y>>
    BY DEF UserClone
  <2> HIDE DEF x, y
  <2>4. Good(<<x, y>>)
    BY <2>0, <2>1, <2>2 DEF Follows
  <2> QED
    BY <2>3, <2>4
<1>6. {Vector55, Vector968, V9, V1017, V51} \subseteq ProgramBitmaps
  BY DEF ProgramBitmaps
<1> HIDE DEF Good
<1>7. Good(Script[p])
  BY <1>2, <1>3, <1>4, <1>5, <1>6 DEF Script
<1> QED
  BY <1>7 DEF Good

LEMMA LeftToDo ==
  ASSUME NEW s \in Todos, s # <<>>
  PROVE  /\ Tail(s) \in Todos
         /\ Head(s).vector \in ProgramBitmaps
         /\ Head(s).does \in {"set", "remove"} => Head(s).stops
         /\ Tail(s) # <<>> => Follows(Head(s), Head(Tail(s)))
<1>1. PICK p \in Programs : s \in RestsOf(Script[p])
  BY DEF Todos
<1>2. p \in DOMAIN Script
  BY ProgramsAssumption
<1>3. Script[p] \in Seq(StepOfProgram)
  BY <1>2, ScriptSteps
<1>4. Tail(s) \in Todos
  <2>1. Tail(s) \in RestsOf(Script[p])
    BY <1>1, <1>3, RestOfScript
  <2> QED
    BY <2>1 DEF Todos
<1>5. PICK i \in 1 .. Len(Script[p]) :
        /\ Head(s) = Script[p][i]
        /\ Tail(s) # <<>> => /\ i + 1 \in 1 .. Len(Script[p])
                             /\ Head(Tail(s)) = Script[p][i + 1]
  BY <1>1, <1>3, RestOfScript
<1> QED
  BY <1>2, <1>4, <1>5, ScriptSteps

LEMMA Starts ==
  ASSUME NEW p \in Programs
  PROVE  /\ Script[p] \in Todos /\ Script[p] # <<>>
         /\ Head(Script[p]).does \in {"set", "create"}
<1>1. p \in DOMAIN Script
  BY ProgramsAssumption
<1> QED
  BY <1>1, ScriptSteps, WholeScript DEF Todos

-------------------------------------------------------------------------------
(* The system as careful users see it: VectorSystem with the bitmaps the     *)
(* programs pass, under the assumptions the programs are to meet.            *)
C == INSTANCE VectorExactProofs
  WITH Env <- Env \cup {"RemovesOwn", "FreesFirst"}, Bitmaps <- ProgramBitmaps

(* What administrators have to keep to; it is not the programs' to keep.     *)
LoadedCarefully == {"BootOrder", "QuietRmmod"} \subseteq Env

LEMMA CarefulSystem ==
  /\ NULL \notin Addr
  /\ MaxRef \in Nat \ {0}
  /\ Env \cup {"RemovesOwn", "FreesFirst"} \subseteq C!Assumptions
  /\ NoTask \notin Task
  /\ ProgramBitmaps \subseteq C!Bitmap
  /\ MaxHeads \in Nat
  /\ C!IsFiniteSet(Task) /\ C!IsFiniteSet(Node) /\ C!IsFiniteSet(Addr)
<1>1. ProgramBitmaps \subseteq C!Bitmap
  BY DEF ProgramBitmaps, Vector55, Vector968, V9, V1017, V23, V51, C!Bitmap, C!Flavour
<1>2. Env \cup {"RemovesOwn", "FreesFirst"} \subseteq C!Assumptions
  BY EnvAssumption DEF Assumptions, C!Assumptions
<1>3. C!IsFiniteSet(Task) /\ C!IsFiniteSet(Node) /\ C!IsFiniteSet(Addr)
  BY FiniteAssumption DEF IsFiniteSet, C!IsFiniteSet
<1> QED
  BY <1>1, <1>2, <1>3, NULLAssumption, MaxRefAssumption, NoTaskAssumption,
     MaxHeadsAssumption

LEMMA CarefulStep ==
  ASSUME C!LifetimeInv, LoadedCarefully, [C!Next]_vars
  PROVE  C!LifetimeInv'
<1>1. C!Careful
  BY DEF C!Careful, LoadedCarefully
<1>2. [C!Next]_C!vars
  BY DEF C!vars, vars, registryVars, listVars, taskVars, C!registryVars, C!listVars,
     C!taskVars
<1> QED
  BY <1>1, <1>2, CarefulSystem, C!StepKeepsLifetime

-------------------------------------------------------------------------------
(* The actions of the two systems are the same, but for what they assume.    *)
LEMMA SameRegistry ==
  /\ Cursor = C!Cursor
  /\ \A i : /\ AddrAt(i) = C!AddrAt(i) /\ At(i) = C!At(i)
            /\ TakeRef(i) <=> C!TakeRef(i)
            /\ DropRef(i) <=> C!DropRef(i)
  /\ \A i, S : StopsAt(i, S) <=> C!StopsAt(i, S)
  /\ \A x : /\ ByName(x) = C!ByName(x) /\ ByAddr(x) = C!ByAddr(x)
            /\ ByBitmap(x) = C!ByBitmap(x)
            /\ VectorName(x) = C!VectorName(x) /\ ShowText(x) = C!ShowText(x)
            /\ validate_bitmap(x) <=> C!validate_bitmap(x)
            /\ VectorFromBitmap(x) = C!VectorFromBitmap(x)
  /\ FreeNode = C!FreeNode /\ FreeAddr = C!FreeAddr /\ Pointer = C!Pointer
  /\ \A n, b, a, m, c : AddVector(n, b, a, m, c) <=> C!AddVector(n, b, a, m, c)
  /\ \A a : unregister_syscall(a) <=> C!unregister_syscall(a)
<1>1. Cursor = C!Cursor
  BY DEF Cursor, C!Cursor
<1>2. \A i : AddrAt(i) = C!AddrAt(i) /\ At(i) = C!At(i)
  BY DEF AddrAt, C!AddrAt, At, C!At
<1>3. \A i : TakeRef(i) <=> C!TakeRef(i)
  BY <1>2 DEF TakeRef, C!TakeRef, try_module_get, C!try_module_get
<1>4. \A i : DropRef(i) <=> C!DropRef(i)
  BY <1>2 DEF DropRef, C!DropRef, module_put, C!module_put
<1>5. \A i, S : StopsAt(i, S) <=> C!StopsAt(i, S)
  BY DEF StopsAt, C!StopsAt
<1>6. \A x : /\ VectorName(x) = C!VectorName(x) /\ ByAddr(x) = C!ByAddr(x)
             /\ ByBitmap(x) = C!ByBitmap(x)
  BY DEF VectorName, C!VectorName, ByAddr, C!ByAddr, ByBitmap, C!ByBitmap
<1>7. \A x : ByName(x) = C!ByName(x)
  BY <1>6 DEF ByName, C!ByName
<1>8. \A x : /\ ShowText(x) = C!ShowText(x)
             /\ validate_bitmap(x) <=> C!validate_bitmap(x)
             /\ VectorFromBitmap(x) = C!VectorFromBitmap(x)
  BY <1>6 DEF ShowText, C!ShowText, validate_bitmap, C!validate_bitmap,
     VectorFromBitmap, C!VectorFromBitmap, Branches, C!Branches, Flavour, C!Flavour
<1>9. FreeNode = C!FreeNode /\ FreeAddr = C!FreeAddr /\ Pointer = C!Pointer
  BY DEF FreeNode, C!FreeNode, FreeAddr, C!FreeAddr, Pointer, C!Pointer, Listed,
     C!Listed, NoVector, C!NoVector
<1>10. \A n, b, a, m, c : AddVector(n, b, a, m, c) <=> C!AddVector(n, b, a, m, c)
  BY <1>9 DEF AddVector, C!AddVector
<1>11. \A a : unregister_syscall(a) <=> C!unregister_syscall(a)
  BY <1>1, <1>2, <1>5, <1>6 DEF unregister_syscall, C!unregister_syscall,
     NoVector, C!NoVector, RemoveAt, C!RemoveAt
<1> QED
  BY <1>1, <1>2, <1>3, <1>4, <1>5, <1>6, <1>7, <1>8, <1>9, <1>10, <1>11

LEMMA SameAssumptions ==
  /\ OutOfMemory <=> C!OutOfMemory
  /\ \A p : MayFail(p) <=> C!MayFail(p)
  /\ RoomToFork <=> C!RoomToFork
  /\ MayLookUp <=> C!MayLookUp
  /\ Assuming("BootOrder", mstate["dynamic_vector"] = "absent")
       <=> C!Assuming("BootOrder", mstate["dynamic_vector"] = "absent")
<1>1. OutOfMemory <=> C!OutOfMemory
  BY DEF OutOfMemory, C!OutOfMemory
<1>2. \A p : MayFail(p) <=> C!MayFail(p)
  BY <1>1 DEF MayFail, C!MayFail
<1>3. "ForksSucceed" \in Env <=> "ForksSucceed" \in Env \cup {"RemovesOwn", "FreesFirst"}
  OBVIOUS
<1>4. RoomToFork <=> C!RoomToFork
  BY <1>3 DEF RoomToFork, C!RoomToFork, Cloning, C!Cloning, Assuming, C!Assuming,
     Cardinality, C!Cardinality, IsFiniteSet, C!IsFiniteSet
<1>5. MayLookUp <=> C!MayLookUp
  BY DEF MayLookUp, C!MayLookUp, Assuming, C!Assuming, Module, C!Module,
     VectorModule, C!VectorModule, StaticModule, C!StaticModule
<1> QED
  BY <1>1, <1>2, <1>4, <1>5 DEF Assuming, C!Assuming

LEMMA SameRequests ==
  ASSUME NEW t \in Task, info[t] = NULL, NEW b
  PROVE  /\ SetLookup(t, b) => C!SetLookup(t, b)
         /\ CreateLookup(t, b) => C!CreateLookup(t, b)
<1> USE SameRegistry, SameAssumptions
<1>1. SetLookup(t, b) => C!SetLookup(t, b)
  BY DEF SetLookup, C!SetLookup, IoctlReady, C!IoctlReady, get_vector_address,
     C!get_vector_address, Enter, C!Enter, taskVars, C!taskVars, listVars, C!listVars,
     C!Assuming
<1>2. CreateLookup(t, b) => C!CreateLookup(t, b)
  BY DEF CreateLookup, C!CreateLookup, IoctlReady, C!IoctlReady,
     check_any_current_vector, C!check_any_current_vector, Enter, C!Enter,
     listVars, C!listVars, C!Assuming
<1> QED
  BY <1>1, <1>2

LEMMA SameRemove ==
  ASSUME NEW t \in Task, NEW b \in OwnName(t), RemoveVector(t, b)
  PROVE  C!RemoveVector(t, b)
<1>1. b \in C!OwnName(t)
  BY SameRegistry DEF OwnName, C!OwnName
<1> QED
  BY <1>1, SameRegistry DEF RemoveVector, C!RemoveVector, IoctlReady, C!IoctlReady,
     reduce_ref_count, C!reduce_ref_count, listVars, C!listVars, C!Assuming

LEMMA SameCompletion ==
  ASSUME NEW t \in Task
  PROVE  /\ SetAssign(t) => C!SetAssign(t)
         /\ CreateExisting(t) => C!CreateExisting(t)
         /\ CreateNoMemory(t) => C!CreateNoMemory(t)
         /\ CreateBuild(t) => C!CreateBuild(t)
<1> USE SameRegistry, SameAssumptions DEF Return, C!Return, Enter, C!Enter,
        listVars, C!listVars, registryVars, C!registryVars
<1>1. SetAssign(t) => C!SetAssign(t)
  <2>1. if_assigned_reduce(t) => C!if_assigned_reduce(t)
    <3>1. \A i, n : reduce_ref_count(i, n) => C!reduce_ref_count(i, n)
      BY DEF reduce_ref_count, C!reduce_ref_count
    <3>2. \A i, a : show_my_vector(i, a) = C!show_my_vector(i, a)
      BY DEF show_my_vector, C!show_my_vector
    <3> QED
      BY <3>1, <3>2 DEF if_assigned_reduce, C!if_assigned_reduce
  <2> QED
    BY <2>1 DEF SetAssign, C!SetAssign
<1>2. CreateExisting(t) => C!CreateExisting(t)
  BY DEF CreateExisting, C!CreateExisting
<1>3. CreateNoMemory(t) => C!CreateNoMemory(t)
  BY DEF CreateNoMemory, C!CreateNoMemory
<1>4. CreateBuild(t) => C!CreateBuild(t)
  <2>1. \A b, a : BuildList(b, a) => C!BuildList(b, a)
    BY DEF BuildList, C!BuildList
  <2>2. \A n, b, a, m : register_dynamic_syscall(n, b, a, m)
                          => C!register_dynamic_syscall(n, b, a, m)
    BY DEF register_dynamic_syscall, C!register_dynamic_syscall
  <2>3. \A m : try_module_get(m) => C!try_module_get(m)
    BY DEF try_module_get, C!try_module_get
  <2>4. RegisterFails => C!RegisterFails
    BY DEF RegisterFails, C!RegisterFails
  <2> QED
    BY <2>1, <2>2, <2>3, <2>4 DEF CreateBuild, C!CreateBuild
<1> QED
  BY <1>1, <1>2, <1>3, <1>4

LEMMA SameProcess ==
  ASSUME NEW t \in Task
  PROVE  /\ \A b : CloneById(t, b) => C!CloneById(t, b)
         /\ \A child \in Task : /\ CloneForks(t, child) => C!CloneForks(t, child)
                                /\ Fork(t, child) => C!Fork(t, child)
         /\ KernelCounts(t) => C!KernelCounts(t)
         /\ CloneFails(t) => C!CloneFails(t)
         /\ Exit(t) => C!Exit(t)
         /\ FaultCrashes(t) => C!FaultCrashes(t)
<1> USE SameRegistry, SameAssumptions DEF Enter, C!Enter, listVars, C!listVars,
        registryVars, C!registryVars
<1>1. \A b : CloneById(t, b) => C!CloneById(t, b)
  BY DEF CloneById, C!CloneById, get_vector_address_from_id,
     C!get_vector_address_from_id
<1>2. \A child \in Task : CloneForks(t, child) => C!CloneForks(t, child)
  BY DEF CloneForks, C!CloneForks, Cloning, C!Cloning
<1>3. \A child \in Task : Fork(t, child) => C!Fork(t, child)
  BY DEF Fork, C!Fork
<1>4. KernelCounts(t) => C!KernelCounts(t)
  BY DEF KernelCounts, C!KernelCounts, increment_ref_count_from_address,
     C!increment_ref_count_from_address
<1>5. CloneFails(t) => C!CloneFails(t)
  BY DEF CloneFails, C!CloneFails, Cloning, C!Cloning
<1>6. \A end : EndsTask(t, end) => C!EndsTask(t, end)
  BY DEF EndsTask, C!EndsTask, reduce_ref_count_from_address,
     C!reduce_ref_count_from_address, Alive, C!Alive, Ended, C!Ended, Crashed, C!Crashed
<1>7. Exit(t) => C!Exit(t)
  BY <1>6 DEF Exit, C!Exit
<1>8. FaultCrashes(t) => C!FaultCrashes(t)
  BY <1>6 DEF FaultCrashes, C!FaultCrashes, CrashesAt, C!CrashesAt, IoctlReady,
     C!IoctlReady
<1> QED
  BY <1>1, <1>2, <1>3, <1>4, <1>5, <1>7, <1>8

LEMMA SameLoader == Loader => C!Loader
<1> USE SameRegistry, SameAssumptions DEF listVars, C!listVars, taskVars, C!taskVars,
        Module, C!Module, VectorModule, C!VectorModule, StaticModule, C!StaticModule
<1>1. \A m : CanInsmod(m) => C!CanInsmod(m)
  BY DEF CanInsmod, C!CanInsmod, Requires, C!Requires
<1>2. \A m : InsmodStatic(m) => C!InsmodStatic(m)
  <2>1. \A m : StaticVector(m) = C!StaticVector(m) /\ StaticBitmap(m) = C!StaticBitmap(m)
    BY DEF StaticVector, C!StaticVector, StaticBitmap, C!StaticBitmap, Vector55,
       C!Vector55, Vector968, C!Vector968
  <2>2. \A n, b, a, m : register_syscall(n, b, a, m) => C!register_syscall(n, b, a, m)
    BY DEF register_syscall, C!register_syscall
  <2> QED
    BY <1>1, <2>1, <2>2 DEF InsmodStatic, C!InsmodStatic, RegisterFails,
       C!RegisterFails
<1>3. \A m : Insmod(m) => C!Insmod(m)
  BY <1>1 DEF Insmod, C!Insmod
<1>4. \A m : RmmodBegin(m) => C!RmmodBegin(m)
  BY DEF RmmodBegin, C!RmmodBegin, Requires, C!Requires
<1>5. \A m : CleanupHead(m) => C!CleanupHead(m)
  BY DEF CleanupHead, C!CleanupHead
<1>6. \A m : RmmodEnd(m) => C!RmmodEnd(m)
  BY DEF RmmodEnd, C!RmmodEnd
<1> QED
  BY <1>2, <1>3, <1>4, <1>5, <1>6 DEF Loader, C!Loader

-------------------------------------------------------------------------------
(* Every step of a program is one a careful user may make. *)

(* What a task does next when it is inside the kernel.                      *)
SecondStep(t) ==
  \/ SetAssign(t) \/ CreateExisting(t) \/ CreateNoMemory(t) \/ CreateBuild(t)
  \/ KernelCounts(t) \/ CloneFails(t) \/ \E child \in Task : CloneForks(t, child)

LEMMA CompletesIsSecond ==
  ASSUME NEW t \in Task, Completes(t)
  PROVE  SecondStep(t)
<1>1. \/ SecondStep(t)
      \/ \E b \in Bitmaps : SetLookup(t, b) \/ RemoveVector(t, b) \/ CreateLookup(t, b)
                             \/ CloneById(t, b)
      \/ NameCrashes(t) \/ FaultCrashes(t)
      \/ CloneInherit(t) \/ ForkInherit(t) \/ Exit(t)
      \/ \E child \in Task : Fork(t, child)
  BY DEF Completes, Request, Process, SecondStep
<1> QED
  BY <1>1 DEF Completes, SetLookup, RemoveVector, CreateLookup, IoctlReady, CloneById,
     NameCrashes, FaultCrashes, CrashesAt, CloneInherit, ForkInherit, Exit, EndsTask,
     Fork

LEMMA StepIsCareful ==
  ASSUME ProgramsTypeOK, KeepsToProtocol, [ProgramsNext]_<<vars, programVars>>
  PROVE  [C!Next]_vars
<1>1. ASSUME NEW t \in Task, todo[t] # <<>>
      PROVE  Wants(t) \in ProgramBitmaps
  BY <1>1, LeftToDo DEF ProgramsTypeOK, Wants
<1>2. ASSUME NEW t \in Task, Sets(t) \/ Creates(t)
      PROVE  C!Next
  <2>1. info[t] = NULL /\ Wants(t) \in ProgramBitmaps
    BY <1>1, <1>2 DEF Sets, Creates, IsNext, KeepsToProtocol
  <2>2. C!SetLookup(t, Wants(t)) \/ C!CreateLookup(t, Wants(t))
    BY <1>2, <2>1, SameRequests DEF Sets, Creates
  <2> QED
    BY <2>1, <2>2 DEF C!Next, C!Request
<1>3. ASSUME NEW t \in Task, Removes(t)
      PROVE  C!Next
  <2>1. Wants(t) \in OwnName(t) /\ Wants(t) \in ProgramBitmaps
    BY <1>1, <1>3 DEF Removes, IsNext, KeepsToProtocol
  <2>2. C!RemoveVector(t, Wants(t))
    BY <1>3, <2>1, SameRemove DEF Removes
  <2> QED
    BY <2>1, <2>2 DEF C!Next, C!Request
<1>4. ASSUME NEW t \in Task, Clones(t)
      PROVE  C!Next
  <2>1. Wants(t) \in ProgramBitmaps /\ C!CloneById(t, Wants(t))
    BY <1>1, <1>4, SameProcess DEF Clones, IsNext
  <2> QED
    BY <2>1 DEF C!Next, C!Process
<1>5. ASSUME NEW t \in Task, Completes(t)
      PROVE  C!Next
  <2>1. SecondStep(t)
    BY <1>5, CompletesIsSecond
  <2>2. \/ C!SetAssign(t) \/ C!CreateExisting(t) \/ C!CreateNoMemory(t)
        \/ C!CreateBuild(t) \/ C!KernelCounts(t) \/ C!CloneFails(t)
        \/ \E child \in Task : C!CloneForks(t, child)
    BY <2>1, SameCompletion, SameProcess DEF SecondStep
  <2> QED
    BY <2>2 DEF C!Next, C!Request, C!Process
<1>6. ASSUME NEW t \in Task, Ends(t)
      PROVE  C!Next
  BY <1>6, SameProcess DEF Ends, C!Next, C!Process, C!Request
<1>7. ASSUME NEW p \in Programs, NEW child \in Task, Start(p, child)
      PROVE  C!Next
  <2>1. shell \in Task /\ C!Fork(shell, child)
    BY <1>7, SameProcess DEF Start, ProgramsTypeOK
  <2> QED
    BY <2>1 DEF C!Next, C!Process
<1>8. Loader => C!Next
  BY SameLoader DEF C!Next
<1>9. UNCHANGED <<vars, programVars>> => UNCHANGED vars
  OBVIOUS
<1> QED
  BY <1>2, <1>3, <1>4, <1>5, <1>6, <1>7, <1>8, <1>9 DEF ProgramsNext, ProgramStep

LEMMA CarefulTypes ==
  ASSUME C!LifetimeInv
  PROVE  /\ RegistryTypeOK
         /\ pc \in [Task -> PC] /\ info \in [Task -> Pointer] /\ va \in [Task -> Pointer]
<1>1. C!TypeOK /\ C!RegistryTypeOK
  BY DEF C!LifetimeInv, C!TypeOK
<1>2. RegistryTypeOK
  BY <1>1 DEF RegistryTypeOK, C!RegistryTypeOK, Vector, C!Vector, Pointer, C!Pointer,
     Bitmap, C!Bitmap, Flavour, C!Flavour, Module, C!Module, VectorModule,
     C!VectorModule, StaticModule, C!StaticModule
<1> QED
  BY <1>1, <1>2 DEF C!TypeOK, PC, C!PC, Cloning, C!Cloning, Ended, C!Ended, Crashed,
     C!Crashed, Pointer, C!Pointer

LEMMA NamedStays ==
  ASSUME C!LifetimeInv, [C!Next]_vars, NEW a, NEW b, IsNamed(a, b),
         NEW t \in Task, info[t] = a \/ va[t] = a
  PROVE  IsNamed(a, b)'
<1>1. PICK n \in Listed : a # NULL /\ node[n].addr = a /\ node[n].bitmap = b
  BY DEF IsNamed
<1>2. a \in Addr
  BY <1>1, CarefulTypes DEF Pointer
<1>3. n \in C!Backed
  BY <1>1 DEF C!Backed, C!Listed, Listed
<1>4. C!Held(a)
  BY DEF C!Held, C!Assigned, C!Carried
<1>5. [C!Next]_C!vars
  BY DEF C!vars, vars, registryVars, listVars, taskVars, C!registryVars, C!listVars,
     C!taskVars
<1>6. n \in C!Backed' /\ node'[n].addr = a /\ node'[n].bitmap = node[n].bitmap
  BY <1>1, <1>2, <1>3, <1>4, <1>5, CarefulSystem, C!HeldVectorStays
<1>7. n \in Listed'
  BY <1>6 DEF C!Backed, C!Listed, Listed
<1> QED
  BY <1>1, <1>6, <1>7 DEF IsNamed

-------------------------------------------------------------------------------
(* What a step does to the tasks and to their programs. *)

(* A task's step ends no other task and moves only those it brings to life. *)
PcMoves(t) ==
  /\ pc' \in [Task -> PC]
  /\ \A x \in Task \ {t} : pc[x] # "dead" => pc'[x] = pc[x]
  /\ pc'[t] \in Ended => Ends(t)

LEMMA StepMovesPc ==
  ASSUME pc \in [Task -> PC], NEW t \in Task, ProgramStep(t)
  PROVE  PcMoves(t)
<1> USE DEF PC, Cloning, Ended, Crashed
<1>1. CASE Sets(t)
  <2>1. pc[t] = "user" /\ (pc' = pc \/ pc' = [pc EXCEPT ![t] = "set"])
    BY <1>1 DEF Sets, IsNext, SetLookup, taskVars, Enter
  <2> QED
    BY <2>1 DEF PcMoves
<1>2. CASE Removes(t)
  <2>1. pc[t] = "user" /\ pc' = pc
    BY <1>2 DEF Removes, IsNext, RemoveVector
  <2> QED
    BY <2>1 DEF PcMoves
<1>3. CASE Creates(t)
  <2>1. pc' = [pc EXCEPT ![t] = "create"]
    BY <1>3 DEF Creates, CreateLookup, Enter
  <2> QED
    BY <2>1 DEF PcMoves
<1>4. CASE Clones(t)
  <2>1. pc' = [pc EXCEPT ![t] = "clone"]
    BY <1>4 DEF Clones, CloneById, Enter
  <2> QED
    BY <2>1 DEF PcMoves
<1>5. CASE Completes(t)
  <2>1. \/ pc' \in {[pc EXCEPT ![t] = "user"], [pc EXCEPT ![t] = "clone"]}
        \/ \E child \in Task : /\ pc[child] = "dead"
                               /\ pc' = [pc EXCEPT ![t] = "user", ![child] = "user"]
    BY <1>5, CompletesIsSecond DEF SecondStep, SetAssign, CreateExisting,
       CreateNoMemory, CreateBuild, Return, Enter, KernelCounts, CloneFails, CloneForks
  <2> QED
    BY <2>1 DEF PcMoves
<1>6. CASE Ends(t)
  <2>1. pc' \in {[pc EXCEPT ![t] = "dead"], [pc EXCEPT ![t] = "fault"]}
    BY <1>6 DEF Ends, Exit, FaultCrashes, CrashesAt, EndsTask
  <2> QED
    BY <1>6, <2>1 DEF PcMoves
<1> QED
  BY <1>1, <1>2, <1>3, <1>4, <1>5, <1>6 DEF ProgramStep

(* Its own program alone moves on, by one request or to its end.            *)
TodoMoves(t) ==
  /\ \A x \in Task \ {t} : todo'[x] = todo[x]
  /\ todo'[t] \in {todo[t], <<>>} \/ (todo[t] # <<>> /\ todo'[t] = Tail(todo[t]))
  /\ todo'[t] # todo[t] => Ends(t) \/ Sets(t) \/ Removes(t) \/ Creates(t) \/ Clones(t)

LEMMA StepMovesTodo ==
  ASSUME ProgramsTypeOK, NEW t \in Task, ProgramStep(t)
  PROVE  TodoMoves(t) /\ todo' \in [Task -> Todos]
<1>1. todo \in [Task -> Todos] /\ <<>> \in Todos
  BY DEF ProgramsTypeOK, Todos
<1>2. ASSUME NEW s \in Todos, todo' = [todo EXCEPT ![t] = s],
             s \in {todo[t], <<>>} \/ (todo[t] # <<>> /\ s = Tail(todo[t])),
             Ends(t) \/ Sets(t) \/ Removes(t) \/ Creates(t) \/ Clones(t)
      PROVE  TodoMoves(t) /\ todo' \in [Task -> Todos]
  BY <1>1, <1>2 DEF TodoMoves
<1>3. CASE Sets(t) \/ Removes(t) \/ Creates(t) \/ Clones(t)
  <2>1. todo[t] # <<>>
    BY <1>3 DEF Sets, Removes, Creates, Clones, IsNext
  <2>2. Tail(todo[t]) \in Todos
    BY <1>1, <2>1, LeftToDo
  <2>3. \/ todo' = [todo EXCEPT ![t] = <<>>]
        \/ todo' = [todo EXCEPT ![t] = Tail(todo[t])]
    BY <1>3 DEF Sets, Removes, Creates, Clones, Proceeds, Runs
  <2> QED
    BY <1>1, <1>2, <1>3, <2>1, <2>2, <2>3
<1>4. CASE Completes(t)
  BY <1>1, <1>4 DEF Completes, TodoMoves
<1>5. CASE Ends(t)
  BY <1>1, <1>2, <1>5 DEF Ends, Runs
<1> QED
  BY <1>3, <1>4, <1>5 DEF ProgramStep

(* A program started in a new task leaves the other tasks as they are.      *)
LEMMA StartMoves ==
  ASSUME ProgramsTypeOK, pc \in [Task -> PC],
         NEW p \in Programs, NEW child \in Task, Start(p, child)
  PROVE  /\ pc[child] = "dead" /\ child # shell
         /\ pc' = [pc EXCEPT ![child] = "user"]
         /\ todo' = [todo EXCEPT ![child] = Script[p]]
         /\ todo' \in [Task -> Todos]
         /\ UNCHANGED <<vec_list, node, info, va>>
BY Starts DEF Start, Fork, Runs, ProgramsTypeOK, registryVars

LEMMA StepKeepsPrograms ==
  ASSUME ProgramsTypeOK, pc \in [Task -> PC], [ProgramsNext]_<<vars, programVars>>
  PROVE  (ProgramsTypeOK /\ pc \in [Task -> PC])'
<1>1. CASE UNCHANGED <<pc, todo, shell>>
  BY <1>1 DEF ProgramsTypeOK, Alive
<1>2. ASSUME NEW p \in Programs, NEW child \in Task, Start(p, child), UNCHANGED shell
      PROVE  (ProgramsTypeOK /\ pc \in [Task -> PC])'
  BY <1>2, StartMoves DEF ProgramsTypeOK, PC, Alive, Ended, Crashed
<1>3. ASSUME NEW t \in Task, ProgramStep(t), UNCHANGED shell
      PROVE  (ProgramsTypeOK /\ pc \in [Task -> PC])'
  <2>1. PcMoves(t) /\ TodoMoves(t) /\ todo' \in [Task -> Todos]
    BY <1>3, StepMovesPc, StepMovesTodo
  <2>2. /\ shell \in Task /\ "dead" \in Ended
        /\ \A x \in Task : x = shell \/ pc[x] \in Ended => todo[x] = <<>>
    BY DEF ProgramsTypeOK, Alive, Ended
  <2>3. ASSUME NEW x \in Task, x = shell \/ pc'[x] \in Ended
        PROVE  todo'[x] = <<>>
    <3>1. CASE x # t
      <4>1. todo'[x] = todo[x]
        BY <2>1, <3>1 DEF TodoMoves
      <4>2. x = shell \/ pc[x] \in Ended
        BY <2>1, <2>2, <2>3, <3>1 DEF PcMoves
      <4> QED
        BY <2>2, <4>1, <4>2
    <3>2. CASE x = t /\ pc'[x] \in Ended
      <4>1. Ends(t)
        BY <2>1, <3>2 DEF PcMoves
      <4>2. todo' = [todo EXCEPT ![t] = <<>>]
        BY <4>1 DEF Ends, Runs
      <4> QED
        BY <3>2, <4>2 DEF ProgramsTypeOK
    <3>3. CASE x = t /\ x = shell
      <4>1. todo[t] = <<>>
        BY <2>2, <3>3
      <4> QED
        BY <2>1, <3>3, <4>1 DEF TodoMoves
    <3> QED
      BY <2>3, <3>1, <3>2, <3>3
  <2> QED
    BY <1>3, <2>1, <2>2, <2>3 DEF PcMoves, ProgramsTypeOK, Alive
<1>4. Loader => UNCHANGED pc
  BY DEF Loader, InsmodStatic, Insmod, RmmodBegin, CleanupHead, RmmodEnd, taskVars
<1> QED
  BY <1>1, <1>2, <1>3, <1>4 DEF ProgramsNext, vars, taskVars, programVars

-------------------------------------------------------------------------------
(* Why the programs keep to the protocol. *)

(* The invariant: a program is prepared for its next request.               *)
ProgramsInv ==
  /\ ProgramsTypeOK
  /\ C!LifetimeInv
  /\ C!CarriesInside
  /\ WillKeep

(* The node SHOW_MINE finds a task's vector in is the only one with its     *)
(* list, so the name a program's SET found it by is the task's own name.    *)
LEMMA NamedIsOwn ==
  ASSUME C!LifetimeInv, NEW t \in Task, NEW b, IsNamed(info[t], b)
  PROVE  b \in OwnName(t)
<1>1. /\ RegistryTypeOK
      /\ \A i \in DOMAIN vec_list : vec_list[i] \in Node /\ i \in 1 .. Len(vec_list)
      /\ \A i \in 1 .. Len(vec_list) : i \in DOMAIN vec_list
      /\ Len(vec_list) \in Nat
  BY CarefulTypes, LenProperties, ElementOfSeq DEF RegistryTypeOK
<1>2. PICK n \in Listed :
        info[t] # NULL /\ node[n].addr = info[t] /\ node[n].bitmap = b
  BY DEF IsNamed
<1>3. PICK i \in DOMAIN vec_list : n = vec_list[i]
  BY DEF Listed
<1>4. ASSUME NEW j \in 1 .. (i - 1), vec_list[j] \in ByAddr(info[t])
      PROVE  FALSE
  <2>1. j \in DOMAIN vec_list /\ i # j
    BY <1>1, <1>3, <1>4
  <2>2. n \in C!Backed /\ vec_list[j] \in C!Backed /\ node[vec_list[j]].addr = info[t]
    BY <1>2, <1>4, <2>1 DEF C!Backed, C!Listed, Listed, ByAddr
  <2>3. C!OneNodePerList /\ C!ListedOnce
    BY DEF C!LifetimeInv, C!RegistryInv, C!VectorsInv
  <2>4. vec_list[j] = n
    BY <1>2, <2>2, <2>3 DEF C!OneNodePerList
  <2> QED
    BY <1>3, <2>1, <2>3, <2>4 DEF C!ListedOnce
<1>5. StopsAt(i, ByAddr(info[t]))
  BY <1>1, <1>2, <1>3, <1>4 DEF StopsAt, ByAddr
<1> QED
  BY <1>2, <1>3, <1>5 DEF OwnName, At

LEMMA PreparedKeeps ==
  ASSUME ProgramsInv
  PROVE  KeepsToProtocol
<1> SUFFICES ASSUME NEW t \in Task, pc[t] = "user", todo[t] # <<>>
             PROVE  /\ Head(todo[t]).does = "remove" => Wants(t) \in OwnName(t)
                    /\ Head(todo[t]).does \in {"set", "create"} => info[t] = NULL
  BY DEF KeepsToProtocol, IsNext
<1>1. Prepared(t)
  BY DEF ProgramsInv, WillKeep
<1>2. Head(todo[t]).does = "remove" => IsNamed(info[t], Wants(t))
  BY <1>1 DEF Prepared
<1> QED
  BY <1>1, <1>2, NamedIsOwn DEF Prepared, ProgramsInv

(* What a task is prepared for does not go away while others take steps.    *)
LEMMA StaysPrepared ==
  ASSUME C!LifetimeInv, [C!Next]_vars, NEW t \in Task, todo[t] # <<>>, Prepared(t),
         todo'[t] = todo[t], pc'[t] = pc[t], info'[t] = info[t], va'[t] = va[t]
  PROVE  Prepared(t)'
<1>1. Wants(t)' = Wants(t)
  BY DEF Wants
<1>2. ASSUME IsNamed(info[t], Wants(t))
      PROVE  IsNamed(info[t], Wants(t))'
  BY <1>1, <1>2, NamedStays DEF IsNamed
<1>3. ASSUME IsNamed(va[t], Wants(t))
      PROVE  IsNamed(va[t], Wants(t))'
  BY <1>1, <1>3, NamedStays DEF IsNamed
<1> QED
  BY <1>2, <1>3 DEF Prepared

(* A step of one task leaves what the others have and carry.                *)
LEMMA OthersKeepPointers ==
  ASSUME ProgramsInv, NEW t \in Task, ProgramStep(t),
         NEW x \in Task \ {t}, pc[x] # "dead"
  PROVE  info'[x] = info[x] /\ va'[x] = va[x]
<1>1. info \in [Task -> Pointer] /\ va \in [Task -> Pointer]
  BY CarefulTypes DEF ProgramsInv
<1>2. CASE Sets(t) \/ Removes(t) \/ Creates(t) \/ Clones(t)
  <2>1. /\ info' = info \/ info' = [info EXCEPT ![t] = NULL]
        /\ va' = va \/ \E a : va' = [va EXCEPT ![t] = a]
    BY <1>2 DEF Sets, Removes, Creates, Clones, SetLookup, RemoveVector, CreateLookup,
       CloneById, Enter, taskVars
  <2> QED
    BY <1>1, <2>1
<1>3. CASE Completes(t)
  <2>1. /\ \/ info' = info
           \/ \E a : info' = [info EXCEPT ![t] = a]
           \/ \E child \in Task : /\ pc[child] = "dead"
                                  /\ info' = [info EXCEPT ![child] = va[t]]
        /\ \E a : va' = [va EXCEPT ![t] = a]
    BY <1>3, CompletesIsSecond DEF SecondStep, SetAssign, CreateExisting,
       CreateNoMemory, CreateBuild, Return, Enter, KernelCounts, CloneFails, CloneForks
  <2> QED
    BY <1>1, <2>1
<1>4. CASE Ends(t)
  <2>1. info' = [info EXCEPT ![t] = NULL] /\ va' = va
    BY <1>4 DEF Ends, Exit, FaultCrashes, CrashesAt, EndsTask
  <2> QED
    BY <1>1, <2>1
<1> QED
  BY <1>2, <1>3, <1>4 DEF ProgramStep

(* SET finds the vector it names, or the program stops.                     *)
LEMMA SetsPrepares ==
  ASSUME ProgramsInv, NEW t \in Task, Sets(t), todo'[t] # <<>>
  PROVE  Prepared(t)'
<1>0. /\ C!LifetimeInv /\ ProgramsTypeOK /\ todo \in [Task -> Todos]
      /\ pc \in [Task -> PC] /\ va \in [Task -> Pointer] /\ RegistryTypeOK
  BY CarefulTypes DEF ProgramsInv, ProgramsTypeOK
<1>1. todo[t] # <<>> /\ Head(todo[t]).does = "set" /\ pc[t] = "user"
  BY DEF Sets, IsNext
<1>2. /\ Head(todo[t]).stops
      /\ Tail(todo[t]) # <<>> => Follows(Head(todo[t]), Head(Tail(todo[t])))
  BY <1>0, <1>1, LeftToDo
<1>3. pc'[t] # "user" /\ todo'[t] = Tail(todo[t])
  BY <1>0, <1>2 DEF Sets, Proceeds, Runs
<1>4. PICK i \in Cursor :
        /\ StopsAt(i, ByName(VectorName(Wants(t)))) /\ TakeRef(i)
        /\ AddrAt(i) # NULL
        /\ pc' = [pc EXCEPT ![t] = "set"] /\ va' = [va EXCEPT ![t] = AddrAt(i)]
        /\ UNCHANGED vec_list
  BY <1>1, <1>3 DEF Sets, SetLookup, get_vector_address, Enter, taskVars
<1>5. i # 0 /\ i \in DOMAIN vec_list /\ vec_list[i] \in Node
  BY <1>0, <1>4, LenProperties, ElementOfSeq DEF AddrAt, Cursor, RegistryTypeOK
<1> DEFINE n == vec_list[i]
<1>6. n \in Listed /\ n \in Node /\ node[n].addr = AddrAt(i)
  BY <1>4, <1>5 DEF Listed, AddrAt, At
<1>7. node[n].bitmap = Wants(t)
  <2>1. VectorName(node[n].bitmap) = VectorName(Wants(t))
    BY <1>4, <1>5 DEF StopsAt, ByName
  <2> QED
    BY <2>1 DEF VectorName
<1>8. n' = n /\ n \in Listed'
  BY <1>4, <1>6 DEF Listed
<1>9. node'[n].addr = node[n].addr /\ node'[n].bitmap = node[n].bitmap
  <2>1. node' = [node EXCEPT ![n].refcount = @ + 1]
    BY <1>4, <1>5 DEF TakeRef
  <2>2. node[n] \in Vector /\ node \in [Node -> Vector]
    BY <1>0, <1>6 DEF RegistryTypeOK
  <2> QED
    BY <1>6, <2>1, <2>2 DEF Vector
<1>10. pc'[t] = "set" /\ va'[t] = AddrAt(i)
  BY <1>0, <1>4
<1> HIDE DEF n
<1>11. IsNamed(va[t], Wants(t))' <=>
         \E k \in Listed' : /\ va'[t] # NULL /\ node'[k].addr = va'[t]
                            /\ node'[k].bitmap = Wants(t)'
  BY DEF IsNamed
<1>12. CASE Head(todo'[t]).does = "remove"
  <2>1. Wants(t)' = Wants(t)
    BY <1>1, <1>2, <1>3, <1>12 DEF Wants, Follows
  <2>2. IsNamed(va[t], Wants(t))'
    BY <1>4, <1>6, <1>7, <1>8, <1>9, <1>10, <1>11, <2>1
  <2> QED
    BY <1>10, <1>12, <2>2 DEF Prepared
<1>13. Head(todo'[t]).does \in {"remove", "clone"}
  BY <1>1, <1>2, <1>3 DEF Follows
<1> QED
  BY <1>12, <1>13 DEF Prepared

(* REMOVE gives up the program's own vector; SET assigns the one it found.  *)
LEMMA RemoveIsOwn ==
  ASSUME ProgramsInv, LoadedCarefully, NEW t \in Task, Removes(t)
  PROVE  /\ info[t] # NULL /\ info' = [info EXCEPT ![t] = NULL]
         /\ UNCHANGED <<vec_list, pc>>
         /\ \E i \in Cursor : i # 0 /\ AddrAt(i) = info[t] /\ DropRef(i)
<1>1. Wants(t) \in OwnName(t) /\ RemoveVector(t, Wants(t)) /\ todo[t] # <<>>
  BY PreparedKeeps DEF Removes, IsNext, KeepsToProtocol
<1>2. Wants(t) \in ProgramBitmaps
  BY <1>1, LeftToDo DEF ProgramsInv, ProgramsTypeOK, Wants
<1>3. C!RemoveVector(t, Wants(t))
  BY <1>1, SameRemove
<1>4. /\ C!TypeOK /\ C!LoaderInv /\ C!RegistryInv /\ C!CountInv /\ C!Careful
  BY DEF ProgramsInv, C!LifetimeInv, C!Careful, LoadedCarefully
<1>5. /\ info[t] # NULL /\ info' = [info EXCEPT ![t] = NULL]
      /\ \E i \in C!Cursor : i # 0 /\ C!AddrAt(i) = info[t] /\ C!DropRef(i)
  BY <1>2, <1>3, <1>4, CarefulSystem, C!RemoveDropsOwn
<1> QED
  BY <1>1, <1>5, SameRegistry DEF RemoveVector

LEMMA TakesRequests ==
  ASSUME ProgramsInv, LoadedCarefully, [C!Next]_vars, NEW t \in Task, ProgramStep(t),
         todo'[t] # <<>>
  PROVE  Prepared(t)'
<1>0. /\ ProgramsTypeOK /\ todo \in [Task -> Todos] /\ C!LifetimeInv
      /\ pc \in [Task -> PC] /\ info \in [Task -> Pointer] /\ va \in [Task -> Pointer]
  BY CarefulTypes DEF ProgramsInv, ProgramsTypeOK
<1>1. CASE Removes(t)
  <2>1. /\ todo[t] # <<>> /\ Head(todo[t]).does = "remove" /\ pc[t] = "user"
        /\ todo'[t] = Tail(todo[t])
    BY <1>0, <1>1 DEF Removes, IsNext, Proceeds, Runs
  <2>2. Head(todo'[t]).does = "create"
    BY <1>0, <2>1, LeftToDo DEF Follows
  <2>3. info'[t] = NULL /\ pc'[t] = "user"
    BY <1>0, <1>1, <2>1, RemoveIsOwn
  <2> QED
    BY <2>2, <2>3 DEF Prepared
<1>2. ASSUME Creates(t) \/ Clones(t)
      PROVE  FALSE
  <2>1. /\ todo[t] # <<>> /\ Head(todo[t]).does \in {"create", "clone"}
        /\ todo'[t] = Tail(todo[t])
    BY <1>0, <1>2 DEF Creates, Clones, IsNext, Proceeds, Runs
  <2> QED
    BY <1>0, <2>1, LeftToDo DEF Follows
<1>3. CASE Completes(t)
  <2>1. todo'[t] = todo[t] /\ todo[t] # <<>> /\ pc[t] # "user"
    BY <1>3 DEF Completes
  <2>2. Prepared(t)
    BY <2>1 DEF ProgramsInv, WillKeep
  <2>3. CASE Head(todo[t]).does = "remove"
    <3>1. pc[t] = "set" /\ IsNamed(va[t], Wants(t))
      BY <2>1, <2>2, <2>3 DEF Prepared
    <3>2. SetAssign(t)
      BY <1>3, <3>1, CompletesIsSecond DEF SecondStep, CreateExisting, CreateNoMemory,
         CreateBuild, KernelCounts, CloneFails, CloneForks, Cloning
    <3>3. pc'[t] = "user" /\ info'[t] = va[t]
      BY <1>0, <3>2 DEF SetAssign, Return, Enter
    <3>4. Wants(t)' = Wants(t)
      BY <2>1 DEF Wants
    <3>5. IsNamed(info[t], Wants(t))'
      BY <1>0, <3>1, <3>3, <3>4, NamedStays DEF IsNamed
    <3> QED
      BY <2>1, <2>3, <3>3, <3>5 DEF Prepared
  <2>4. CASE Head(todo[t]).does \notin {"set", "create", "remove"}
    BY <2>1, <2>4 DEF Prepared
  <2>5. Head(todo[t]).does \notin {"set", "create"}
    BY <2>1, <2>2 DEF Prepared
  <2> QED
    BY <2>3, <2>4, <2>5
<1>4. ASSUME Ends(t)
      PROVE  FALSE
  BY <1>0, <1>4 DEF Ends, Runs
<1> QED
  BY <1>1, <1>2, <1>3, <1>4, SetsPrepares DEF ProgramStep

LEMMA StepPrepares ==
  ASSUME ProgramsInv, LoadedCarefully, [ProgramsNext]_<<vars, programVars>>,
         [C!Next]_vars
  PROVE  WillKeep'
<1>0. /\ ProgramsTypeOK /\ C!LifetimeInv /\ C!CarriesInside
      /\ pc \in [Task -> PC] /\ info \in [Task -> Pointer] /\ todo \in [Task -> Todos]
      /\ \A t \in Task : pc[t] = "dead" => todo[t] = <<>>
  BY CarefulTypes DEF ProgramsInv, ProgramsTypeOK, Alive, Ended
<1>1. ASSUME NEW t \in Task, todo'[t] # <<>>,
             todo'[t] = todo[t], pc'[t] = pc[t], info'[t] = info[t], va'[t] = va[t]
      PROVE  Prepared(t)'
  BY <1>0, <1>1, StaysPrepared DEF ProgramsInv, WillKeep
<1>2. CASE UNCHANGED <<todo, pc, info, va>>
  BY <1>1, <1>2 DEF WillKeep
<1>3. ASSUME NEW t \in Task, ProgramStep(t)
      PROVE  WillKeep'
  <2>1. ASSUME NEW x \in Task \ {t}, todo'[x] # <<>>
        PROVE  Prepared(x)'
    <3>1. todo'[x] = todo[x]
      BY <1>0, <1>3, StepMovesTodo DEF TodoMoves
    <3>2. pc[x] # "dead"
      BY <1>0, <2>1, <3>1
    <3>3. pc'[x] = pc[x] /\ info'[x] = info[x] /\ va'[x] = va[x]
      BY <1>0, <1>3, <3>2, StepMovesPc, OthersKeepPointers DEF PcMoves
    <3> QED
      BY <1>1, <2>1, <3>1, <3>3
  <2> QED
    BY <1>3, <2>1, TakesRequests DEF WillKeep
<1>4. ASSUME NEW p \in Programs, NEW child \in Task, Start(p, child)
      PROVE  WillKeep'
  <2>1. /\ pc[child] = "dead" /\ pc' = [pc EXCEPT ![child] = "user"]
        /\ todo' = [todo EXCEPT ![child] = Script[p]]
        /\ UNCHANGED <<info, va>>
    BY <1>0, <1>4, StartMoves
  <2>2. Prepared(child)'
    <3>1. info'[child] = NULL /\ pc'[child] = "user" /\ todo'[child] = Script[p]
      BY <1>0, <2>1 DEF C!CarriesInside, C!Ended
    <3> QED
      BY <3>1, Starts DEF Prepared
  <2>3. ASSUME NEW x \in Task \ {child}, todo'[x] # <<>>
        PROVE  Prepared(x)'
    BY <1>0, <1>1, <2>1, <2>3
  <2> QED
    BY <2>2, <2>3 DEF WillKeep
<1>5. Loader => UNCHANGED <<pc, info, va>>
  BY DEF Loader, InsmodStatic, Insmod, RmmodBegin, CleanupHead, RmmodEnd, taskVars
<1> QED
  BY <1>2, <1>3, <1>4, <1>5 DEF ProgramsNext, vars, taskVars, programVars

-------------------------------------------------------------------------------
(* A reference is dropped by the program whose vector it counts. *)

LEMMA TakeRefAdds ==
  ASSUME RegistryTypeOK, NEW i \in Cursor, TakeRef(i), NEW n \in Listed
  PROVE  ~ node'[n].refcount < node[n].refcount
<1>1. \A j \in DOMAIN vec_list : vec_list[j] \in Node
  BY ElementOfSeq, LenProperties DEF RegistryTypeOK
<1>2. n \in Node /\ node[n].refcount \in Int
  BY <1>1 DEF Listed, RegistryTypeOK, Vector
<1>3. CASE i = 0
  BY <1>2, <1>3 DEF TakeRef
<1>4. CASE i # 0
  <2>1. vec_list[i] \in Node
    BY <1>1, <1>4, LenProperties DEF Cursor, RegistryTypeOK
  <2>2. node' = [node EXCEPT ![vec_list[i]].refcount = node[vec_list[i]].refcount + 1]
    BY <1>4 DEF TakeRef
  <2>3. \A k \in Node : node[k] \in Vector /\ node[k].refcount \in Int
    BY DEF RegistryTypeOK, Vector
  <2>4. node'[n].refcount = IF n = vec_list[i] THEN node[n].refcount + 1
                            ELSE node[n].refcount
    BY <1>2, <2>1, <2>2, <2>3 DEF RegistryTypeOK, Vector
  <2> QED
    BY <1>2, <2>4
<1> QED
  BY <1>3, <1>4

LEMMA DropRefTakes ==
  ASSUME RegistryTypeOK, NEW i \in Cursor, DropRef(i), NEW n \in Listed,
         node'[n].refcount < node[n].refcount
  PROVE  i # 0 /\ n = vec_list[i]
<1>1. n \in Node /\ node[n].refcount \in Int
  BY ElementOfSeq, LenProperties DEF Listed, RegistryTypeOK, Vector
<1>2. i # 0
  BY <1>1 DEF DropRef
<1>3. vec_list[i] # n => node'[n] = node[n]
  BY <1>1, <1>2 DEF DropRef, RegistryTypeOK
<1> QED
  BY <1>1, <1>2, <1>3

LEMMA StepRemovesAssigned ==
  ASSUME ProgramsInv, LoadedCarefully, [ProgramsNext]_<<vars, programVars>>,
         NEW t \in Task, NEW n \in Listed,
         todo'[t] # todo[t], node'[n].refcount < node[n].refcount
  PROVE  info[t] # NULL /\ node[n].addr = info[t]
<1>0. ProgramsTypeOK /\ RegistryTypeOK /\ pc \in [Task -> PC]
  BY CarefulTypes DEF ProgramsInv
<1>1. \A i \in Cursor : ~ TakeRef(i)
  BY <1>0, TakeRefAdds
<1>2. \A k \in Listed : k \in Node /\ node[k].refcount \in Int
  BY <1>0, ElementOfSeq, LenProperties DEF Listed, RegistryTypeOK, Vector
<1>3. node' # node
  BY <1>2
<1>4. PICK u \in Task : ProgramStep(u)
  <2>1. ~ \E p \in Programs, child \in Task : Start(p, child)
    BY <1>0, <1>3, StartMoves
  <2>2. todo' # todo
    OBVIOUS
  <2> QED
    BY <2>1, <2>2 DEF ProgramsNext, vars, programVars
<1>5. t = u /\ (Ends(t) \/ Sets(t) \/ Removes(t) \/ Creates(t) \/ Clones(t))
  BY <1>0, <1>4, StepMovesTodo DEF TodoMoves
<1>6. ~ Sets(t) /\ ~ Creates(t) /\ ~ Clones(t)
  BY <1>1 DEF Sets, SetLookup, get_vector_address, Creates, CreateLookup,
     check_any_current_vector, Clones, CloneById, get_vector_address_from_id
<1>7. CASE Removes(t)
  <2>1. PICK i \in Cursor : i # 0 /\ AddrAt(i) = info[t] /\ DropRef(i)
    BY <1>7, RemoveIsOwn
  <2>2. n = vec_list[i]
    BY <1>0, <2>1, DropRefTakes
  <2> QED
    BY <1>7, <2>1, <2>2, RemoveIsOwn DEF AddrAt, At
<1>8. CASE Ends(t)
  <2>1. PICK i \in Cursor : StopsAt(i, ByAddr(info[t])) /\ DropRef(i) /\ info[t] # NULL
    BY <1>3, <1>8 DEF Ends, Exit, FaultCrashes, CrashesAt, EndsTask,
       reduce_ref_count_from_address
  <2>2. i # 0 /\ n = vec_list[i]
    BY <1>0, <2>1, DropRefTakes
  <2> QED
    BY <2>1, <2>2 DEF StopsAt, ByAddr
<1> QED
  BY <1>5, <1>6, <1>7, <1>8

-------------------------------------------------------------------------------
(* The theorems. *)

(* Whatever users start and administrators do: what is left of a program is *)
(* a tail of its script, and neither the shell nor a task that has ended    *)
(* has a program to run.                                                    *)
THEOREM ProgramsTyped == ProgramsSpec => []ProgramsTypeOK
<1>1. ProgramsInit => ProgramsTypeOK /\ pc \in [Task -> PC]
  BY DEF ProgramsInit, Init, ProgramsTypeOK, Todos, PC, Alive, Ended, Crashed
<1>2. /\ ProgramsTypeOK /\ pc \in [Task -> PC]
      /\ [ProgramsNext]_<<vars, programVars>>
      => (ProgramsTypeOK /\ pc \in [Task -> PC])'
  BY StepKeepsPrograms
<1> QED
  BY <1>1, <1>2, PTL DEF ProgramsSpec

LEMMA ProgramsStart == ProgramsInit => ProgramsInv /\ C!Init
<1> SUFFICES ASSUME ProgramsInit
             PROVE  ProgramsInv /\ C!Init
  OBVIOUS
<1>1. C!Init
  BY DEF ProgramsInit, Init, C!Init, RegistryInit, C!RegistryInit, Module, C!Module,
     VectorModule, C!VectorModule, StaticModule, C!StaticModule, NoVector, C!NoVector
<1>2. C!LifetimeInv /\ C!CarriesInside
  BY <1>1, CarefulSystem, C!InitLifetime, C!InitCarries
<1>3. ProgramsTypeOK /\ WillKeep
  BY DEF ProgramsInit, Init, ProgramsTypeOK, Todos, WillKeep, Alive, Ended, Crashed
<1> QED
  BY <1>1, <1>2, <1>3 DEF ProgramsInv

LEMMA ProgramsStep ==
  ASSUME ProgramsInv, LoadedCarefully, [ProgramsNext]_<<vars, programVars>>
  PROVE  ProgramsInv' /\ [C!Next]_C!vars
<1>1. ProgramsTypeOK /\ C!LifetimeInv /\ C!CarriesInside /\ pc \in [Task -> PC]
  BY CarefulTypes DEF ProgramsInv
<1>2. [C!Next]_vars
  BY <1>1, PreparedKeeps, StepIsCareful
<1>3. [C!Next]_C!vars
  BY <1>2 DEF C!vars, vars, registryVars, listVars, taskVars, C!registryVars,
     C!listVars, C!taskVars
<1>4. C!LifetimeInv'
  BY <1>1, <1>2, CarefulStep
<1>5. C!CarriesInside'
  <2>1. C!TypeOK
    BY <1>1 DEF C!LifetimeInv
  <2> QED
    BY <1>1, <1>3, <2>1, CarefulSystem, C!StepCarries
<1>6. ProgramsTypeOK'
  BY <1>1, StepKeepsPrograms
<1>7. WillKeep'
  BY <1>2, StepPrepares
<1> QED
  BY <1>3, <1>4, <1>5, <1>6, <1>7 DEF ProgramsInv

LEMMA ProgramsInvariant ==
  ASSUME LoadedCarefully
  PROVE  ProgramsSpec => []ProgramsInv
<1>1. ProgramsInv /\ [ProgramsNext]_<<vars, programVars>> => ProgramsInv'
  BY ProgramsStep
<1> QED
  BY <1>1, ProgramsStart, PTL DEF ProgramsSpec

(* Given LoadedCarefully, every program of the repository, run any number   *)
(* of times at once, passes REMOVE the name of its own vector and makes SET *)
(* and CREATE only when it has none.                                        *)
THEOREM ProgramsKeepToProtocol ==
  ASSUME LoadedCarefully
  PROVE  ProgramsSpec => []KeepsToProtocol
BY ProgramsInvariant, PreparedKeeps, PTL

(* Given LoadedCarefully, the programs are users as RemovesOwn and          *)
(* FreesFirst describe them: what they and the kernel do together is what   *)
(* VectorSystem allows under these assumptions.                             *)
THEOREM ProgramsAreCareful ==
  ASSUME LoadedCarefully
  PROVE  ProgramsSpec => C!Spec
<1>1. ProgramsInv /\ [ProgramsNext]_<<vars, programVars>> => [C!Next]_C!vars
  BY ProgramsStep
<1> QED
  BY <1>1, ProgramsStart, ProgramsInvariant, PTL DEF ProgramsSpec, C!Spec

(* Given LoadedCarefully, no program dispatches its system calls through a  *)
(* list that rmmod has freed.                                               *)
THEOREM ProgramsDoNotDangle ==
  ASSUME LoadedCarefully
  PROVE  ProgramsSpec => []NoDanglingVector
<1>1. ProgramsInv => NoDanglingVector
  BY DEF ProgramsInv, C!LifetimeInv, C!CountInv, C!HeldModulesLoaded, C!RegistryInv,
     C!VectorsInv, C!ListsAllocated, NoDanglingVector, Held, Assigned, Carried,
     C!Held, C!Assigned, C!Carried
<1> QED
  BY <1>1, ProgramsInvariant, PTL

(* Given LoadedCarefully, a REMOVE, or the end of a program, drops a        *)
(* reference of the program's own vector only.                              *)
THEOREM ProgramsRemoveAssigned ==
  ASSUME LoadedCarefully
  PROVE  ProgramsSpec => RemovesAssigned
<1>1. ProgramsInv /\ [ProgramsNext]_<<vars, programVars>> =>
        [\A t \in Task, n \in Listed :
           todo'[t] # todo[t] /\ node'[n].refcount < node[n].refcount
             => info[t] # NULL /\ node[n].addr = info[t]]_<<vars, programVars>>
  BY StepRemovesAssigned
<1> QED
  BY <1>1, ProgramsInvariant, PTL DEF ProgramsSpec, RemovesAssigned

-------------------------------------------------------------------------------
(* When nothing fails either, the counts are exact. *)
NothingFails ==
  /\ LoadedCarefully
  /\ {"ForksSucceed", "MemoryAvailable", "OneReference"} \subseteq Env
  /\ Cardinality(Addr) >= MaxHeads + 2
  /\ Cardinality(Node) >= MaxHeads + 2

LEMMA SameCounts ==
  /\ \A S : Cardinality(S) = C!Cardinality(S)
  /\ C!Vector = Vector /\ C!VectorModule = VectorModule
  /\ RefcountExact <=> C!RefcountExact
  /\ UnpinnedWhenUnused <=> C!UnpinnedWhenUnused
<1>1. \A S : Cardinality(S) = C!Cardinality(S)
  BY DEF Cardinality, C!Cardinality, IsFiniteSet, C!IsFiniteSet
<1>2. C!VectorModule = VectorModule /\ C!Vector = Vector
  BY DEF VectorModule, C!VectorModule, StaticModule, C!StaticModule, Vector, C!Vector,
     Bitmap, C!Bitmap, Flavour, C!Flavour, Pointer, C!Pointer
<1>3. \A a : Users(a) = C!Users(a)
  BY <1>1 DEF Users, C!Users, Assigned, C!Assigned, Carried, C!Carried
<1>4. RefcountExact <=> C!RefcountExact
  BY <1>3 DEF RefcountExact, C!RefcountExact, Listed, C!Listed
<1>5. UnpinnedWhenUnused <=> C!UnpinnedWhenUnused
  BY <1>2 DEF UnpinnedWhenUnused, C!UnpinnedWhenUnused
<1> QED
  BY <1>1, <1>2, <1>4, <1>5

(* No program creates a vector without a list. *)
LEMMA ProgramsBuildLists ==
  ASSUME NothingFails
  PROVE  C!Undisturbed
<1>1. C!Assumptions \subseteq Env \cup {"RemovesOwn", "FreesFirst"}
  BY DEF C!Assumptions, NothingFails, LoadedCarefully
<1>2. \A b \in ProgramBitmaps : C!VectorFromBitmap(b) # {}
  BY DEF ProgramBitmaps, Vector55, Vector968, V9, V1017, V23, V51, C!VectorFromBitmap,
     C!Branches, C!Flavour
<1> QED
  BY <1>1, <1>2, SameCounts DEF C!Undisturbed, NothingFails

(* If besides no fork and no allocation fails, the programs of the          *)
(* repository, run any number at once and killed at will, leave each        *)
(* refcount at the number of its users: what clone2 takes for a child, the  *)
(* child's exit gives back.                                                 *)
THEOREM ProgramsCountExactly ==
  ASSUME NothingFails
  PROVE  ProgramsSpec => []RefcountExact
<1>1. C!Undisturbed
  BY ProgramsBuildLists
<1>2. C!Spec => []C!RefcountExact
  BY <1>1, CarefulSystem, C!CountsAreExact
<1>3. ProgramsSpec => C!Spec
  BY ProgramsAreCareful DEF NothingFails
<1> QED
  BY <1>2, <1>3, SameCounts, PTL

(* Then the vector modules can be removed when the last program that uses a *)
(* vector has ended.                                                        *)
THEOREM ProgramsUnpinModules ==
  ASSUME NothingFails
  PROVE  ProgramsSpec => []UnpinnedWhenUnused
<1>1. C!Undisturbed
  BY ProgramsBuildLists
<1>2. C!Spec => []C!UnpinnedWhenUnused
  BY <1>1, CarefulSystem, C!UnusedIsUnpinned
<1>3. ProgramsSpec => C!Spec
  BY ProgramsAreCareful DEF NothingFails
<1> QED
  BY <1>2, <1>3, SameCounts, PTL

===============================================================================
