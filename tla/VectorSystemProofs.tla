-------------------------- MODULE VectorSystemProofs --------------------------
(***************************************************************************)
(* Theorems about VectorSystem, for every set of tasks, nodes, addresses   *)
(* and bitmaps.                                                            *)
(***************************************************************************)
EXTENDS VectorSystem, SequenceTheorems, FiniteSetTheorems, TLAPS

(* Removing the node at position i of a list moves the later ones up.       *)
LEMMA RemoveAtProperties ==
  ASSUME NEW S, NEW s \in Seq(S), NEW i \in 1 .. Len(s)
  PROVE  /\ RemoveAt(s, i) \in Seq(S)
         /\ Len(RemoveAt(s, i)) = Len(s) - 1
         /\ \A j \in 1 .. (Len(s) - 1) :
              RemoveAt(s, i)[j] = IF j < i THEN s[j] ELSE s[j + 1]
<1> DEFINE front == SubSeq(s, 1, i - 1)
           back  == SubSeq(s, i + 1, Len(s))
<1>1. /\ front \in Seq(S)
      /\ Len(front) = i - 1
      /\ \A j \in 1 .. (i - 1) : front[j] = s[j]
  BY SubSeqProperties, LenProperties, ElementOfSeq
<1>2. /\ back \in Seq(S)
      /\ Len(back) = Len(s) - i
      /\ \A j \in 1 .. (Len(s) - i) : back[j] = s[j + i]
  BY SubSeqProperties, LenProperties, ElementOfSeq
<1>4. RemoveAt(s, i) = front \o back
  BY DEF RemoveAt
<1>5. Len(s) \in Nat
  BY LenProperties
<1> HIDE DEF front, back
<1>3. /\ front \o back \in Seq(S)
      /\ Len(front \o back) = Len(s) - 1
      /\ \A j \in 1 .. (Len(s) - 1) : (front \o back)[j] =
                      IF j <= i - 1 THEN front[j] ELSE back[j - (i - 1)]
  <2>1. Len(front) + Len(back) = Len(s) - 1
    BY <1>1, <1>2, <1>5
  <2>2. /\ front \o back \in Seq(S)
        /\ Len(front \o back) = Len(front) + Len(back)
        /\ \A j \in 1 .. (Len(front) + Len(back)) : (front \o back)[j] =
               IF j <= Len(front) THEN front[j] ELSE back[j - Len(front)]
    BY <1>1, <1>2, ConcatProperties
  <2> QED
    BY <1>1, <2>1, <2>2
<1>6. ASSUME NEW j \in 1 .. (Len(s) - 1)
      PROVE  (front \o back)[j] = IF j < i THEN s[j] ELSE s[j + 1]
  <2>1. CASE j < i
    BY <1>1, <1>3, <1>5, <2>1
  <2>2. CASE ~ j < i
    <3>1. j - (i - 1) \in 1 .. (Len(s) - i) /\ ~ (j <= i - 1)
      BY <1>5, <2>2
    <3>2. (front \o back)[j] = back[j - (i - 1)]
      BY <1>3, <3>1
    <3>3. back[j - (i - 1)] = s[(j - (i - 1)) + i]
      BY <1>2, <3>1
    <3>4. (j - (i - 1)) + i = j + 1
      BY <1>5
    <3> QED
      BY <2>2, <3>2, <3>3, <3>4
  <2> QED
    BY <2>1, <2>2
<1> QED
  BY <1>3, <1>4, <1>6

(* Adding a node at the head of a list moves the others down.               *)
LEMMA AddHeadProperties ==
  ASSUME NEW S, NEW s \in Seq(S), NEW n \in S
  PROVE  /\ <<n>> \o s \in Seq(S)
         /\ Len(<<n>> \o s) = Len(s) + 1
         /\ (<<n>> \o s)[1] = n
         /\ \A j \in 2 .. (Len(s) + 1) : (<<n>> \o s)[j] = s[j - 1]
<1>1. <<n>> \in Seq(S) /\ Len(<<n>>) = 1 /\ <<n>>[1] = n
  OBVIOUS
<1> QED
  BY <1>1, ConcatProperties, LenProperties
-------------------------------------------------------------------------------
(* Type correctness. *)

(* A traversal stops at a node or at 0. *)
LEMMA CursorType ==
  ASSUME RegistryTypeOK, NEW i \in Cursor
  PROVE  /\ Len(vec_list) \in Nat
         /\ i # 0 => i \in 1 .. Len(vec_list) /\ vec_list[i] \in Node
         /\ i # 0 => At(i) \in Vector
         /\ AddrAt(i) \in Pointer
<1>1. Len(vec_list) \in Nat
  BY LenProperties DEF RegistryTypeOK
<1>2. i # 0 => i \in 1 .. Len(vec_list) /\ vec_list[i] \in Node
  BY <1>1, ElementOfSeq DEF RegistryTypeOK, Cursor
<1>3. i # 0 => At(i) \in Vector
  BY <1>2 DEF RegistryTypeOK, At
<1> QED
  BY <1>1, <1>2, <1>3 DEF AddrAt, Vector, Pointer

(* Changing the refcount of a node leaves it a node. *)
LEMMA RefcountType ==
  ASSUME RegistryTypeOK, NEW n \in Node, NEW c \in Int
  PROVE  [node EXCEPT ![n].refcount = c] \in [Node -> Vector]
<1>1. node[n] \in Vector
  BY DEF RegistryTypeOK
<1>2. [node[n] EXCEPT !.refcount = c] \in Vector
  BY <1>1 DEF Vector
<1> QED
  BY <1>2 DEF RegistryTypeOK

LEMMA TakeRefType ==
  ASSUME RegistryTypeOK, NEW i \in Cursor, TakeRef(i)
  PROVE  node' \in [Node -> Vector] /\ mref' \in [VectorModule -> Int]
<1>1. CASE i = 0
  BY <1>1 DEF TakeRef, RegistryTypeOK
<1>2. CASE i # 0
  <2>1. vec_list[i] \in Node /\ At(i) \in Vector
    BY <1>2, CursorType
  <2>2. node' \in [Node -> Vector]
    <3>1. node' = [node EXCEPT ![vec_list[i]].refcount = At(i).refcount + 1]
      BY <1>2 DEF TakeRef, At
    <3>2. At(i).refcount + 1 \in Int
      BY <2>1 DEF Vector
    <3> QED
      BY <2>1, <3>1, <3>2, RefcountType
  <2>3. mref' \in [VectorModule -> Int]
    BY <1>2, <2>1 DEF TakeRef, RegistryTypeOK, try_module_get
  <2> QED
    BY <2>2, <2>3
<1> QED
  BY <1>1, <1>2

LEMMA DropRefType ==
  ASSUME RegistryTypeOK, NEW i \in Cursor, DropRef(i)
  PROVE  node' \in [Node -> Vector] /\ mref' \in [VectorModule -> Int]
<1>1. CASE i = 0
  BY <1>1 DEF DropRef, RegistryTypeOK
<1>2. CASE i # 0
  <2>1. vec_list[i] \in Node /\ At(i) \in Vector
    BY <1>2, CursorType
  <2>2. node' \in [Node -> Vector]
    <3>1. node' = [node EXCEPT ![vec_list[i]].refcount = At(i).refcount - 1]
      BY <1>2 DEF DropRef, At
    <3>2. At(i).refcount - 1 \in Int
      BY <2>1 DEF Vector
    <3> QED
      BY <2>1, <3>1, <3>2, RefcountType
  <2>3. mref' \in [VectorModule -> Int]
    BY <1>2, <2>1 DEF DropRef, RegistryTypeOK, module_put
  <2> QED
    BY <2>2, <2>3
<1> QED
  BY <1>1, <1>2

LEMMA AddVectorType ==
  ASSUME RegistryTypeOK, NEW n \in Node, NEW b \in Bitmap, NEW a \in Pointer,
         NEW m \in VectorModule, NEW count \in Int, AddVector(n, b, a, m, count)
  PROVE  vec_list' \in Seq(Node) /\ node' \in [Node -> Vector]
<1>1. vec_list' \in Seq(Node)
  BY AddHeadProperties DEF AddVector, RegistryTypeOK
<1>2. node' \in [Node -> Vector]
  BY DEF AddVector, RegistryTypeOK, Vector
<1> QED
  BY <1>1, <1>2

LEMMA UnregisterType ==
  ASSUME RegistryTypeOK, NEW a, unregister_syscall(a)
  PROVE  vec_list' \in Seq(Node) /\ node' \in [Node -> Vector]
<1>1. PICK i \in Cursor :
        IF i = 0 \/ At(i).refcount > 0 THEN UNCHANGED <<vec_list, node>>
        ELSE /\ vec_list' = RemoveAt(vec_list, i)
             /\ node' = [node EXCEPT ![vec_list[i]] = NoVector]
  BY DEF unregister_syscall
<1>2. NoVector \in Vector
  BY DEF NoVector, Vector, Pointer, Bitmap
<1>3. i # 0 => i \in 1 .. Len(vec_list)
  BY CursorType
<1>4. i # 0 => RemoveAt(vec_list, i) \in Seq(Node)
  BY <1>3, RemoveAtProperties DEF RegistryTypeOK
<1> QED
  BY <1>1, <1>2, <1>4 DEF RegistryTypeOK

LEMMA ReturnType ==
  ASSUME TypeOK, NEW t \in Task, Return(t)
  PROVE  /\ pc' \in [Task -> PC]
         /\ va' \in [Task -> Pointer]
         /\ arg' \in [Task -> Bitmap]
         /\ mutexlock' \in Task \cup {NoTask}
BY DEF Return, Enter, TypeOK, PC, Pointer, Bitmap

LEMMA SetLookupType ==
  ASSUME TypeOK, NEW t \in Task, NEW b \in Bitmaps, SetLookup(t, b)
  PROVE  TypeOK'
<1>1. PICK i \in Cursor :
        /\ get_vector_address(i, VectorName(b))
        /\ IF AddrAt(i) = NULL THEN UNCHANGED taskVars
           ELSE /\ Enter(t, "set", AddrAt(i))
                /\ mutexlock' = t
                /\ UNCHANGED <<info, arg>>
  BY DEF SetLookup
<1>2. TakeRef(i)
  BY <1>1 DEF get_vector_address
<1>3. node' \in [Node -> Vector] /\ mref' \in [VectorModule -> Int]
  BY <1>2, TakeRefType DEF TypeOK
<1>4. AddrAt(i) \in Pointer
  BY CursorType DEF TypeOK
<1> QED
  BY <1>1, <1>3, <1>4
     DEF SetLookup, Enter, TypeOK, RegistryTypeOK, PC, taskVars, listVars

LEMMA SetAssignType ==
  ASSUME TypeOK, NEW t \in Task, SetAssign(t)
  PROVE  TypeOK'
<1>1. node' \in [Node -> Vector] /\ mref' \in [VectorModule -> Int]
  <2>1. CASE UNCHANGED <<node, mref>>
    BY <2>1 DEF TypeOK, RegistryTypeOK
  <2>2. CASE \E j \in Cursor : DropRef(j)
    BY <2>2, DropRefType DEF TypeOK
  <2> QED
    BY <2>1, <2>2 DEF SetAssign, if_assigned_reduce, reduce_ref_count
<1>2. info' \in [Task -> Pointer]
  BY DEF SetAssign, TypeOK
<1> QED
  BY <1>1, <1>2, ReturnType DEF SetAssign, TypeOK, RegistryTypeOK, listVars

LEMMA RemoveVectorType ==
  ASSUME TypeOK, NEW t \in Task, NEW b \in Bitmaps, RemoveVector(t, b)
  PROVE  TypeOK'
<1>1. PICK i \in Cursor :
        /\ DropRef(i)
        /\ info' = IF i = 0 \/ At(i).refcount - 1 < 0 THEN info
                   ELSE [info EXCEPT ![t] = NULL]
  BY DEF RemoveVector, reduce_ref_count
<1>2. node' \in [Node -> Vector] /\ mref' \in [VectorModule -> Int]
  BY <1>1, DropRefType DEF TypeOK
<1>3. info' \in [Task -> Pointer]
  BY <1>1 DEF TypeOK, Pointer
<1> QED
  BY <1>2, <1>3 DEF RemoveVector, TypeOK, RegistryTypeOK, listVars

LEMMA CreateLookupType ==
  ASSUME TypeOK, NEW t \in Task, NEW b \in Bitmaps, CreateLookup(t, b)
  PROVE  TypeOK'
<1>1. PICK i \in Cursor :
        /\ check_any_current_vector(i, b)
        /\ Enter(t, "create", AddrAt(i))
  BY DEF CreateLookup
<1>2. node' \in [Node -> Vector] /\ mref' \in [VectorModule -> Int]
  BY <1>1, TakeRefType DEF TypeOK, check_any_current_vector
<1>3. AddrAt(i) \in Pointer
  BY CursorType DEF TypeOK
<1> QED
  BY <1>1, <1>2, <1>3, BitmapsAssumption
     DEF CreateLookup, Enter, TypeOK, RegistryTypeOK, PC, listVars

LEMMA CreateExistingType ==
  ASSUME TypeOK, NEW t \in Task, CreateExisting(t) \/ CreateNoMemory(t)
  PROVE  TypeOK'
<1>1. Return(t) /\ UNCHANGED <<registryVars, listVars>>
  BY DEF CreateExisting, CreateNoMemory
<1>2. info' \in [Task -> Pointer]
  BY DEF CreateExisting, CreateNoMemory, TypeOK
<1> QED
  BY <1>1, <1>2, ReturnType DEF TypeOK, RegistryTypeOK, listVars, registryVars

LEMMA CreateBuildType ==
  ASSUME TypeOK, NEW t \in Task, CreateBuild(t)
  PROVE  TypeOK'
<1>1. PICK a \in Pointer :
        /\ BuildList(arg[t], a)
        /\ try_module_get("dynamic_vector")
        /\ \/ \E n \in Node :
                register_dynamic_syscall(n, arg[t], a, "dynamic_vector")
           \/ MayFail(FreeNode) /\ RegisterFails
        /\ info' = [info EXCEPT ![t] = a]
        /\ heads' = [heads EXCEPT !["dynamic_vector"] = Append(@, a)]
  BY DEF CreateBuild
<1>2. heap' \in [Addr -> SUBSET Flavour]
  BY <1>1 DEF BuildList, TypeOK, VectorFromBitmap, Branches, FreeAddr
<1>3. mref' \in [VectorModule -> Int]
  BY <1>1 DEF try_module_get, TypeOK, RegistryTypeOK, VectorModule
<1>4. vec_list' \in Seq(Node) /\ node' \in [Node -> Vector]
  <2>1. CASE RegisterFails
    BY <2>1 DEF RegisterFails, TypeOK, RegistryTypeOK
  <2>2. CASE \E n \in Node :
               register_dynamic_syscall(n, arg[t], a, "dynamic_vector")
    <3>1. arg[t] \in Bitmap /\ "dynamic_vector" \in VectorModule
      BY DEF TypeOK, VectorModule
    <3> QED
      BY <2>2, <3>1, AddVectorType DEF register_dynamic_syscall, TypeOK
  <2> QED
    BY <1>1, <2>1, <2>2
<1>5. info' \in [Task -> Pointer] /\ heads' \in [VectorModule -> Seq(Pointer)]
  <2>1. heads["dynamic_vector"] \in Seq(Pointer)
    BY DEF TypeOK, VectorModule
  <2>2. Append(heads["dynamic_vector"], a) \in Seq(Pointer)
    BY <2>1
  <2> QED
    BY <1>1, <2>2 DEF TypeOK
<1> QED
  BY <1>2, <1>3, <1>4, <1>5, ReturnType
     DEF CreateBuild, TypeOK, RegistryTypeOK

LEMMA CloneType ==
  ASSUME TypeOK, NEW t \in Task,
         \/ CloneInherit(t) \/ KernelCounts(t) \/ ForkInherit(t)
         \/ \E b \in Bitmaps : CloneById(t, b)
  PROVE  TypeOK'
<1>1. PICK i \in Cursor, a \in Pointer, where \in Cloning :
        TakeRef(i) /\ Enter(t, where, a)
  <2>1. CASE CloneInherit(t) \/ KernelCounts(t) \/ ForkInherit(t)
    BY <2>1 DEF CloneInherit, KernelCounts, ForkInherit, Cloning,
                increment_ref_count_from_address, TypeOK
  <2>2. CASE \E b \in Bitmaps : CloneById(t, b)
    BY <2>2, CursorType
       DEF CloneById, Cloning, get_vector_address_from_id, TypeOK
  <2> QED
    BY <2>1, <2>2
<1>2. node' \in [Node -> Vector] /\ mref' \in [VectorModule -> Int]
  BY <1>1, TakeRefType DEF TypeOK
<1>3. UNCHANGED <<vec_list, mstate, listVars, info, arg, mutexlock>>
  BY DEF CloneInherit, KernelCounts, ForkInherit, CloneById
<1> QED
  BY <1>1, <1>2, <1>3 DEF Enter, TypeOK, RegistryTypeOK, PC, listVars

LEMMA ForkType ==
  ASSUME TypeOK, NEW t \in Task,
         \/ \E child \in Task : CloneForks(t, child) \/ Fork(t, child)
         \/ CloneFails(t)
  PROVE  TypeOK'
BY DEF CloneForks, CloneFails, Fork, Enter, TypeOK, RegistryTypeOK, PC, Pointer,
       registryVars, listVars

(* Exit and a crash end a task in the same way. *)
LEMMA EndsTaskType ==
  ASSUME TypeOK, NEW t \in Task, NEW end \in Ended, EndsTask(t, end),
         mutexlock' \in {mutexlock, t}
  PROVE  TypeOK'
<1>1. node' \in [Node -> Vector] /\ mref' \in [VectorModule -> Int]
  <2>1. CASE UNCHANGED <<node, mref>>
    BY <2>1 DEF TypeOK, RegistryTypeOK
  <2>2. CASE \E i \in Cursor : DropRef(i)
    BY <2>2, DropRefType DEF TypeOK
  <2> QED
    BY <2>1, <2>2 DEF EndsTask, reduce_ref_count_from_address
<1> QED
  BY <1>1 DEF EndsTask, TypeOK, RegistryTypeOK, PC, Pointer, listVars

LEMMA EndIsEndsTask ==
  ASSUME NEW t \in Task, Exit(t) \/ NameCrashes(t) \/ FaultCrashes(t)
  PROVE  \E end \in Ended : EndsTask(t, end) /\ mutexlock' \in {mutexlock, t}
BY DEF Exit, NameCrashes, FaultCrashes, CrashesAt, Ended, Crashed

LEMMA InsmodStaticType ==
  ASSUME TypeOK, NEW m \in StaticModule, InsmodStatic(m)
  PROVE  TypeOK'
<1>1. m \in VectorModule /\ m \in Module
  BY DEF VectorModule, Module
<1>2. PICK a \in FreeAddr :
       /\ heap' = [heap EXCEPT ![a] = StaticVector(m)]
       /\ \/ /\ \E n \in Node : register_syscall(n, StaticBitmap(m), a, m)
             /\ mstate' = [mstate EXCEPT ![m] = "live"]
             /\ heads' = [heads EXCEPT ![m] = <<a>>]
          \/ RegisterFails /\ UNCHANGED <<mstate, heads>>
  BY DEF InsmodStatic
<1>3. a \in Addr /\ a \in Pointer
  BY DEF FreeAddr, Pointer
<1>4. StaticVector(m) \in SUBSET Flavour /\ StaticBitmap(m) \in Bitmap
  BY DEF StaticBitmap, StaticVector, Vector55, Vector968, Flavour, Bitmap
<1>5. heap' \in [Addr -> SUBSET Flavour]
  BY <1>2, <1>4 DEF TypeOK
<1>6. vec_list' \in Seq(Node) /\ node' \in [Node -> Vector]
  <2>1. CASE RegisterFails
    BY <2>1 DEF RegisterFails, TypeOK, RegistryTypeOK
  <2>2. CASE \E n \in Node : register_syscall(n, StaticBitmap(m), a, m)
    BY <2>2, <1>1, <1>3, <1>4, AddVectorType DEF register_syscall, TypeOK
  <2> QED
    BY <1>2, <2>1, <2>2
<1>7. /\ mstate' \in [Module -> {"absent", "live", "going"}]
      /\ heads' \in [VectorModule -> Seq(Pointer)]
  <2>1. <<a>> \in Seq(Pointer)
    BY <1>3
  <2> QED
    BY <1>1, <1>2, <2>1 DEF TypeOK, RegistryTypeOK
<1> QED
  BY <1>5, <1>6, <1>7 DEF InsmodStatic, TypeOK, RegistryTypeOK, taskVars

LEMMA RmmodType ==
  ASSUME TypeOK, NEW m \in Module,
         Insmod(m) \/ RmmodBegin(m) \/ RmmodEnd(m)
  PROVE  TypeOK'
<1>1. /\ mstate' \in [Module -> {"absent", "live", "going"}]
      /\ UNCHANGED <<vec_list, node, listVars, info, pc, va, arg>>
      /\ mutexlock' \in {mutexlock, NoTask}
  BY DEF Insmod, RmmodBegin, RmmodEnd, TypeOK, RegistryTypeOK, taskVars
<1>2. mref' \in [VectorModule -> Int]
  BY DEF Insmod, RmmodBegin, RmmodEnd, TypeOK, RegistryTypeOK
<1> QED
  BY <1>1, <1>2 DEF TypeOK, RegistryTypeOK, listVars

LEMMA CleanupHeadType ==
  ASSUME TypeOK, NEW m \in Module, CleanupHead(m)
  PROVE  TypeOK'
<1>1. m \in VectorModule /\ heads[m] \in Seq(Pointer) /\ heads[m] # <<>>
  BY DEF CleanupHead, TypeOK
<1>2. vec_list' \in Seq(Node) /\ node' \in [Node -> Vector]
  BY UnregisterType DEF CleanupHead, TypeOK
<1>3. heap' \in [Addr -> SUBSET Flavour]
  BY DEF CleanupHead, TypeOK
<1>4. heads' \in [VectorModule -> Seq(Pointer)]
  <2>1. Tail(heads[m]) \in Seq(Pointer)
    BY <1>1, HeadTailProperties
  <2> QED
    BY <2>1 DEF CleanupHead, TypeOK
<1> QED
  BY <1>2, <1>3, <1>4 DEF CleanupHead, TypeOK, RegistryTypeOK, taskVars

LEMMA InitType ==
  ASSUME Init
  PROVE  TypeOK
<1>1. NoVector \in Vector
  BY DEF NoVector, Vector, Pointer, Bitmap
<1>2. pc \in [Task -> PC]
  BY DEF Init, PC, Ended
<1> QED
  BY <1>1, <1>2 DEF Init, RegistryInit, TypeOK, RegistryTypeOK, Pointer, Bitmap

LEMMA StepKeepsType ==
  ASSUME TypeOK, [Next]_vars
  PROVE  TypeOK'
<1>1. ASSUME NEW t \in Task, Request(t)
      PROVE  TypeOK'
  BY <1>1, SetLookupType, RemoveVectorType, CreateLookupType, SetAssignType,
     CreateExistingType, CreateBuildType, EndIsEndsTask, EndsTaskType
     DEF Request
<1>2. ASSUME NEW t \in Task, Process(t)
      PROVE  TypeOK'
  BY <1>2, CloneType, ForkType, EndIsEndsTask, EndsTaskType DEF Process
<1>3. ASSUME Loader
      PROVE  TypeOK'
  BY <1>3, InsmodStaticType, RmmodType, CleanupHeadType DEF Loader
<1>4. CASE UNCHANGED vars
  BY <1>4 DEF vars, registryVars, listVars, taskVars, TypeOK, RegistryTypeOK
<1> QED
  BY <1>1, <1>2, <1>3, <1>4 DEF Next

(* Every reachable state has the types the code's variables have, whatever  *)
(* users and administrators do.                                             *)
THEOREM TypeCorrect == Spec => []TypeOK
<1>1. Init => TypeOK
  BY InitType
<1>2. TypeOK /\ [Next]_vars => TypeOK'
  BY StepKeepsType
<1> QED
  BY <1>1, <1>2, PTL DEF Spec
===============================================================================
