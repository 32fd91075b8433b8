------------------------- MODULE VectorLifetimeProofs -------------------------
(***************************************************************************)
(* The proof that every step keeps LoaderInv and RegistryInv: the first    *)
(* two parts of LifetimeInv.                                               *)
(***************************************************************************)
EXTENDS VectorLifetime, VectorSystemProofs

(* dynamic_vector, on which ioctl_module depends, is in during a request. *)
LEMMA RequestNeedsDynamic ==
  ASSUME LoaderInv, NEW t \in Task, pc[t] \in {"set", "create", "fault"}
  PROVE  mstate["dynamic_vector"] = "live" /\ mstate["vector1"] = "live"
<1>1. {"ioctl_module", "dynamic_vector"} \subseteq Module
  BY DEF Module, VectorModule
<1>2. "dynamic_vector" \in Requires("ioctl_module")
  BY DEF Requires
<1>3. "vector1" \in Requires("dynamic_vector")
  BY DEF Requires
<1>4. mstate["dynamic_vector"] = "live"
  BY <1>1, <1>2 DEF LoaderInv, MutexHeld, Serving, DependenciesIn
<1> QED
  BY <1>1, <1>3, <1>4 DEF LoaderInv, DependenciesIn

LEMMA NoRequestWhenFree ==
  ASSUME LoaderInv, NEW t \in Task, pc[t] \in {"set", "create", "fault"}
  PROVE  mutexlock = t /\ mutexlock # NoTask
BY NoTaskAssumption DEF LoaderInv, MutexHeld, Serving

-------------------------------------------------------------------------------
(* LoaderInv. *)

(* Steps of tasks outside the device leave modules, lists and mutex alone.  *)
LEMMA ProcessFrame ==
  ASSUME TypeOK, NEW t \in Task, Process(t)
  PROVE  UNCHANGED <<mstate, listVars, mutexlock, Serving>>
<1>1. UNCHANGED <<mstate, listVars, mutexlock>>
  BY DEF Process, CloneInherit, KernelCounts, ForkInherit, CloneById, CloneForks,
         Fork, CloneFails, Exit, EndsTask, registryVars
<1>2. \A u \in Task : pc'[u] \in {"set", "create", "fault"}
                           <=> pc[u] \in {"set", "create", "fault"}
  BY DEF Process, CloneInherit, KernelCounts, ForkInherit, CloneById, CloneForks,
         Fork, CloneFails, Exit, EndsTask, Enter, Cloning, TypeOK
<1> QED
  BY <1>1, <1>2 DEF Serving

LEMMA ProcessKeepsLoader ==
  ASSUME TypeOK, LoaderInv, NEW t \in Task, Process(t)
  PROVE  LoaderInv'
BY ProcessFrame
   DEF LoaderInv, DependenciesIn, NoListsWhenAbsent, MutexHeld, listVars

LEMMA RequestKeepsLoader ==
  ASSUME TypeOK, LoaderInv, NEW t \in Task, Request(t)
  PROVE  LoaderInv'
<1>1. UNCHANGED mstate
  BY DEF Request, SetLookup, RemoveVector, CreateLookup, SetAssign,
         CreateExisting, CreateNoMemory, CreateBuild, NameCrashes, FaultCrashes,
         CrashesAt, EndsTask, registryVars
<1>2. NoListsWhenAbsent'
  <2>1. CASE UNCHANGED heads
    BY <1>1, <2>1 DEF LoaderInv, NoListsWhenAbsent
  <2>2. CASE CreateBuild(t)
    <3>1. mstate["dynamic_vector"] = "live"
      BY <2>2, NoRequestWhenFree, RequestNeedsDynamic DEF CreateBuild
    <3>2. \A m \in VectorModule : m # "dynamic_vector" => heads'[m] = heads[m]
      BY <2>2 DEF CreateBuild, TypeOK
    <3> QED
      BY <1>1, <3>1, <3>2 DEF LoaderInv, NoListsWhenAbsent
  <2> QED
    BY <2>1, <2>2
       DEF Request, SetLookup, RemoveVector, CreateLookup, SetAssign,
           CreateExisting, CreateNoMemory, NameCrashes, FaultCrashes,
           CrashesAt, EndsTask, listVars
<1>3. MutexHeld'
  <2>1. CASE /\ IoctlReady(t)
             /\ mutexlock' = t
             /\ \A u \in Task : u # t => pc'[u] = pc[u]
    BY <1>1, <2>1, NoRequestWhenFree DEF MutexHeld, Serving, IoctlReady
  <2>2. CASE /\ pc[t] \in {"set", "create"}
             /\ Return(t)
    <3>1. \A u \in Task : pc'[u] \notin {"set", "create", "fault"}
      BY <2>2, NoRequestWhenFree DEF Return, Enter, TypeOK
    <3> QED
      BY <3>1 DEF MutexHeld, Serving
  <2>3. CASE UNCHANGED <<pc, mutexlock>>
    BY <1>1, <2>3 DEF LoaderInv, MutexHeld, Serving
  <2>4. ASSUME NEW b \in Bitmaps, SetLookup(t, b) \/ CreateLookup(t, b)
        PROVE  MutexHeld'
    BY <2>1, <2>3, <2>4 DEF SetLookup, CreateLookup, Enter, taskVars, TypeOK
  <2>5. ASSUME NEW b \in Bitmaps, RemoveVector(t, b)
        PROVE  MutexHeld'
    BY <2>3, <2>5 DEF RemoveVector
  <2>6. CASE SetAssign(t) \/ CreateExisting(t) \/ CreateNoMemory(t) \/ CreateBuild(t)
    BY <2>2, <2>6 DEF SetAssign, CreateExisting, CreateNoMemory, CreateBuild
  <2>7. CASE NameCrashes(t) \/ FaultCrashes(t)
    BY <2>1, <2>7 DEF NameCrashes, FaultCrashes, CrashesAt, EndsTask, TypeOK
  <2> QED
    BY <2>4, <2>5, <2>6, <2>7 DEF Request
<1> QED
  BY <1>1, <1>2, <1>3 DEF LoaderInv, DependenciesIn

LEMMA LoaderKeepsLoader ==
  ASSUME TypeOK, LoaderInv, Loader
  PROVE  LoaderInv'
<1>1. UNCHANGED <<info, pc, va, arg>> /\ Serving' = Serving
  BY DEF Loader, InsmodStatic, Insmod, RmmodBegin, CleanupHead, RmmodEnd, taskVars,
         Serving
<1>2. UNCHANGED mutexlock \/ Insmod("ioctl_module")
  BY DEF Loader, InsmodStatic, Insmod, RmmodBegin, CleanupHead, RmmodEnd, taskVars
<1>3. Serving # {} => mstate["ioctl_module"] = "live"
  BY DEF LoaderInv, MutexHeld
<1>4. Serving # {} => UNCHANGED mutexlock
  BY <1>2, <1>3 DEF Insmod, CanInsmod
<1>5. CASE UNCHANGED <<mstate, heads>>
  BY <1>1, <1>5, <1>4 DEF LoaderInv, DependenciesIn, NoListsWhenAbsent, MutexHeld
<1>6. ASSUME NEW m \in Module, CanInsmod(m), mstate' = [mstate EXCEPT ![m] = "live"],
             \A k \in VectorModule : k # m => heads'[k] = heads[k]
      PROVE  LoaderInv'
  <2>1. DependenciesIn'
    BY <1>6 DEF LoaderInv, DependenciesIn, CanInsmod, TypeOK, RegistryTypeOK
  <2>2. NoListsWhenAbsent'
    BY <1>6 DEF LoaderInv, NoListsWhenAbsent, TypeOK, RegistryTypeOK, Module
  <2>3. MutexHeld'
    BY <1>1, <1>6, <1>4 DEF LoaderInv, MutexHeld, TypeOK, RegistryTypeOK
  <2> QED
    BY <2>1, <2>2, <2>3 DEF LoaderInv
<1>7. ASSUME NEW m \in Module, RmmodBegin(m)
      PROVE  LoaderInv'
  <2>1. DependenciesIn'
    BY <1>7 DEF LoaderInv, DependenciesIn, RmmodBegin, TypeOK, RegistryTypeOK
  <2>2. NoListsWhenAbsent'
    BY <1>7 DEF LoaderInv, NoListsWhenAbsent, RmmodBegin, listVars, TypeOK,
                RegistryTypeOK, Module
  <2>3. MutexHeld'
    BY <1>1, <1>7, <1>4
       DEF LoaderInv, MutexHeld, Serving, RmmodBegin, TypeOK, RegistryTypeOK
  <2> QED
    BY <2>1, <2>2, <2>3 DEF LoaderInv
<1>8. ASSUME NEW m \in Module, RmmodEnd(m)
      PROVE  LoaderInv'
  <2>1. DependenciesIn'
    BY <1>8 DEF LoaderInv, DependenciesIn, RmmodEnd, TypeOK, RegistryTypeOK
  <2>2. NoListsWhenAbsent'
    BY <1>8 DEF LoaderInv, NoListsWhenAbsent, RmmodEnd, listVars, TypeOK,
                RegistryTypeOK, Module
  <2>3. MutexHeld'
    BY <1>1, <1>8, <1>4 DEF LoaderInv, MutexHeld, RmmodEnd, TypeOK, RegistryTypeOK
  <2> QED
    BY <2>1, <2>2, <2>3 DEF LoaderInv
<1>9. ASSUME NEW m \in Module, CleanupHead(m)
      PROVE  LoaderInv'
  <2>1. NoListsWhenAbsent'
    BY <1>9 DEF LoaderInv, NoListsWhenAbsent, CleanupHead, TypeOK
  <2> QED
    BY <1>1, <1>9, <1>4, <2>1 DEF LoaderInv, DependenciesIn, MutexHeld, CleanupHead
<1>10. ASSUME NEW m \in StaticModule, InsmodStatic(m)
      PROVE  LoaderInv'
  <2>1. m \in Module
    BY DEF Module, VectorModule
  <2>2. CASE UNCHANGED <<mstate, heads>>
    BY <1>5, <2>2
  <2>3. CASE \E a \in Addr : /\ mstate' = [mstate EXCEPT ![m] = "live"]
                             /\ heads' = [heads EXCEPT ![m] = <<a>>]
    BY <1>6, <1>10, <2>1, <2>3 DEF InsmodStatic, TypeOK
  <2> QED
    BY <1>10, <2>2, <2>3 DEF InsmodStatic, FreeAddr
<1>11. ASSUME NEW m \in Module, Insmod(m)
      PROVE  LoaderInv'
  BY <1>6, <1>11 DEF Insmod, listVars
<1> QED
  BY <1>7, <1>8, <1>9, <1>10, <1>11 DEF Loader

LEMMA StepKeepsLoader ==
  ASSUME TypeOK, LoaderInv, [Next]_vars
  PROVE  LoaderInv'
<1>1. CASE UNCHANGED vars
  BY <1>1 DEF vars, registryVars, listVars, taskVars, LoaderInv,
              DependenciesIn, NoListsWhenAbsent, MutexHeld, Serving
<1> QED
  BY <1>1, ProcessKeepsLoader, RequestKeepsLoader, LoaderKeepsLoader DEF Next

(* Whatever users and administrators do: a module is in only with those it  *)
(* depends on, a module that is out has no lists, and a request is under    *)
(* way, or has crashed with a reference on ioctl_module, only while its task *)
(* holds mutexlock.                                                         *)
THEOREM LoaderCorrect == Spec => []LoaderInv
<1>1. Init => LoaderInv
  BY NoTaskAssumption
     DEF Init, RegistryInit, LoaderInv, DependenciesIn, NoListsWhenAbsent,
         MutexHeld, Serving
<1>2. TypeOK /\ LoaderInv /\ [Next]_vars => LoaderInv'
  BY StepKeepsLoader
<1> QED
  BY <1>1, <1>2, TypeCorrect, PTL DEF Spec

-------------------------------------------------------------------------------
(* The device serves one request at a time. *)

LEMMA NoneServedWhenFree ==
  ASSUME LoaderInv, mutexlock = NoTask
  PROVE  Serving = {}
BY NoRequestWhenFree DEF Serving

LEMMA RequestServes ==
  ASSUME TypeOK, LoaderInv, NEW t \in Task, Request(t)
  PROVE  [Service!Next]_Service!vars
<1>1. UNCHANGED mstate
  BY DEF Request, SetLookup, RemoveVector, CreateLookup, SetAssign,
         CreateExisting, CreateNoMemory, CreateBuild, NameCrashes, FaultCrashes,
         CrashesAt, EndsTask, registryVars
<1>2. CASE Serving' = Serving
  BY <1>1, <1>2 DEF Service!vars
<1>3. CASE /\ IoctlReady(t)
           /\ \E where \in {"set", "create", "fault"} : pc' = [pc EXCEPT ![t] = where]
  <2>1. Serving = {} /\ mstate["ioctl_module"] = "live"
    BY <1>3, NoneServedWhenFree DEF IoctlReady
  <2>2. Serving' = {t}
    BY <1>3, <2>1 DEF Serving, TypeOK
  <2>3. Service!Serve(t)
    BY <1>1, <2>1, <2>2 DEF Service!Serve
  <2> QED
    BY <2>3 DEF Service!Next
<1>4. CASE pc[t] \in {"set", "create"} /\ Return(t)
  <2>1. Serving = {t}
    BY <1>4, NoRequestWhenFree DEF Serving
  <2>2. Serving' = {}
    BY <1>4, <2>1 DEF Serving, Return, Enter, TypeOK
  <2>3. Service!Finish(t)
    BY <1>1, <2>1, <2>2 DEF Service!Finish
  <2> QED
    BY <2>3 DEF Service!Next
<1>5. ASSUME NEW b \in Bitmaps, SetLookup(t, b) \/ RemoveVector(t, b) \/ CreateLookup(t, b)
      PROVE  [Service!Next]_Service!vars
  BY <1>2, <1>3, <1>5
     DEF SetLookup, RemoveVector, CreateLookup, Enter, taskVars, Serving
<1>6. CASE SetAssign(t) \/ CreateExisting(t) \/ CreateNoMemory(t) \/ CreateBuild(t)
  BY <1>4, <1>6 DEF SetAssign, CreateExisting, CreateNoMemory, CreateBuild
<1>7. CASE NameCrashes(t)
  <2>1. IoctlReady(t) /\ pc' = [pc EXCEPT ![t] = "strlen"]
    BY <1>7 DEF NameCrashes, CrashesAt, EndsTask
  <2>2. Serving' = Serving
    BY <2>1 DEF Serving, IoctlReady, TypeOK
  <2> QED
    BY <1>2, <2>2
<1>8. CASE FaultCrashes(t)
  BY <1>3, <1>8 DEF FaultCrashes, CrashesAt, EndsTask
<1> QED
  BY <1>5, <1>6, <1>7, <1>8 DEF Request

(* insmod and rmmod of ioctl_module are the device's; the other modules do   *)
(* not concern it.                                                           *)
LEMMA LoaderServes ==
  ASSUME TypeOK, LoaderInv, Loader
  PROVE  [Service!Next]_Service!vars
<1> USE DEF TypeOK, RegistryTypeOK
<1>1. UNCHANGED pc
  BY DEF Loader, InsmodStatic, Insmod, RmmodBegin, CleanupHead, RmmodEnd, taskVars
<1>2. Serving' = Serving
  BY <1>1 DEF Serving
<1>3. CASE mstate'["ioctl_module"] = mstate["ioctl_module"]
  BY <1>2, <1>3 DEF Service!vars
<1>4. CASE Insmod("ioctl_module")
  <2>1. Service!Insert
    BY <1>2, <1>4 DEF Insmod, CanInsmod, Service!Insert, Module
  <2> QED
    BY <2>1 DEF Service!Next
<1>5. CASE RmmodBegin("ioctl_module")
  <2>1. Service!RemovalBegins
    BY <1>2, <1>5 DEF RmmodBegin, Serving, Service!RemovalBegins, Module
  <2> QED
    BY <2>1 DEF Service!Next
<1>6. CASE RmmodEnd("ioctl_module")
  <2>1. Service!RemovalEnds
    BY <1>2, <1>6 DEF RmmodEnd, Service!RemovalEnds, Module
  <2> QED
    BY <2>1 DEF Service!Next
<1>7. ASSUME NEW m \in Module, m # "ioctl_module",
             Insmod(m) \/ RmmodBegin(m) \/ RmmodEnd(m)
      PROVE  mstate'["ioctl_module"] = mstate["ioctl_module"]
  BY <1>7 DEF Insmod, RmmodBegin, RmmodEnd, Module
<1>8. ASSUME NEW m \in StaticModule, InsmodStatic(m)
      PROVE  mstate'["ioctl_module"] = mstate["ioctl_module"]
  BY <1>8 DEF InsmodStatic, StaticModule, VectorModule, Module
<1>9. ASSUME NEW m \in Module, CleanupHead(m)
      PROVE  UNCHANGED mstate
  BY <1>9 DEF CleanupHead
<1> QED
  BY <1>3, <1>4, <1>5, <1>6, <1>7, <1>8, <1>9 DEF Loader

LEMMA StepServes ==
  ASSUME TypeOK, LoaderInv, [Next]_vars
  PROVE  [Service!Next]_Service!vars
<1>1. CASE UNCHANGED vars
  BY <1>1 DEF vars, registryVars, taskVars, Serving, Service!vars
<1>2. ASSUME NEW t \in Task, Process(t)
      PROVE  UNCHANGED Service!vars
  BY <1>2, ProcessFrame DEF Service!vars
<1> QED
  BY <1>1, <1>2, RequestServes, LoaderServes DEF Next

(* Whatever users and administrators do and whatever fails or crashes, the   *)
(* requests wait for one another and rmmod of ioctl_module for them.         *)
THEOREM SystemServesOneAtATime == Spec => ServesOneAtATime
<1>1. Init => Service!Init
  BY DEF Init, RegistryInit, Serving, Module, Service!Init
<1>2. TypeOK /\ LoaderInv /\ [Next]_vars => [Service!Next]_Service!vars
  BY StepServes
<1> QED
  BY <1>1, <1>2, TypeCorrect, LoaderCorrect, PTL
     DEF Spec, ServesOneAtATime, Service!Spec

-------------------------------------------------------------------------------
(* Steps that leave the list of vectors alone. *)

(* Only refcounts may change. *)
SameVectors ==
  /\ UNCHANGED <<vec_list, listVars>>
  /\ \A n \in Node : /\ node'[n].bitmap = node[n].bitmap
                     /\ node'[n].addr = node[n].addr
                     /\ node'[n].module = node[n].module

LEMMA ListedNodes ==
  ASSUME RegistryTypeOK
  PROVE  /\ Listed \subseteq Node
         /\ \A i \in DOMAIN vec_list : vec_list[i] \in Node /\ i \in 1 .. Len(vec_list)
<1>1. \A i \in DOMAIN vec_list : vec_list[i] \in Node /\ i \in 1 .. Len(vec_list)
  BY LenProperties, ElementOfSeq DEF RegistryTypeOK
<1> QED
  BY <1>1 DEF Listed

(* Changing one node's refcount leaves the vectors the same. *)
LEMMA RefcountOnly ==
  ASSUME RegistryTypeOK, NEW n \in Node, NEW c,
         node' = [node EXCEPT ![n].refcount = c],
         UNCHANGED <<vec_list, listVars>>
  PROVE  SameVectors
<1>1. node[n] \in Vector /\ node \in [Node -> Vector]
  BY DEF RegistryTypeOK
<1>2. node'[n] = [node[n] EXCEPT !.refcount = c]
  BY <1>1
<1>3. /\ node'[n].bitmap = node[n].bitmap
      /\ node'[n].addr = node[n].addr
      /\ node'[n].module = node[n].module
  BY <1>1, <1>2 DEF Vector
<1>4. \A k \in Node : k # n => node'[k] = node[k]
  BY <1>1
<1> QED
  BY <1>3, <1>4 DEF SameVectors

LEMMA TakeRefOnly ==
  ASSUME RegistryTypeOK, NEW i \in Cursor, TakeRef(i) \/ DropRef(i),
         UNCHANGED <<vec_list, listVars>>
  PROVE  SameVectors
<1>1. CASE i = 0
  BY <1>1 DEF TakeRef, DropRef, SameVectors
<1>2. CASE i # 0
  <2>1. vec_list[i] \in Node
    BY <1>2, CursorType
  <2>2. \E c : node' = [node EXCEPT ![vec_list[i]].refcount = c]
    BY <1>2 DEF TakeRef, DropRef
  <2> QED
    BY <2>1, <2>2, RefcountOnly
<1> QED
  BY <1>1, <1>2

LEMMA SameVectorsKeepThem ==
  ASSUME RegistryTypeOK, VectorsInv, SameVectors
  PROVE  VectorsInv'
<1> USE DEF VectorsInv, SameVectors, listVars
<1>1. Listed' = Listed /\ Listed \subseteq Node
  BY ListedNodes DEF Listed
<1>2. Backed' = Backed /\ Backed \subseteq Node
  BY <1>1 DEF Backed
<1>3. \A m : ListsOf(m)' = ListsOf(m)
  BY DEF ListsOf
<1>4. ListedOnce' /\ ListsAllocated' /\ ListsDistinct'
  BY <1>3 DEF ListedOnce, ListsAllocated, ListsDistinct
<1>5. NodesHaveLists'
  BY <1>2, <1>3 DEF NodesHaveLists
<1>6. OneNodePerList'
  BY <1>2 DEF OneNodePerList
<1>7. StaticNodes'
  BY <1>2 DEF StaticNodes
<1>8. HidesOnlyEmpty'
  BY ListedNodes DEF HidesOnlyEmpty, At
<1> QED
  BY <1>4, <1>5, <1>6, <1>7, <1>8

-------------------------------------------------------------------------------
(* Steps that build a list and register a vector. *)

(* A list just allocated is on no module's list of lists. *)
LEMMA FreshList ==
  ASSUME ListsAllocated, NEW a \in FreeAddr
  PROVE  \A m \in VectorModule : a \notin ListsOf(m)
BY DEF ListsAllocated, FreeAddr

LEMMA BuiltList ==
  ASSUME TypeOK, ListsAllocated, ListsDistinct,
         NEW a \in Pointer, NEW m \in VectorModule, NEW list \in SUBSET Flavour,
         IF a = NULL THEN heap' = heap
         ELSE a \in FreeAddr /\ list # {} /\ heap' = [heap EXCEPT ![a] = list],
         heads' = [heads EXCEPT ![m] = Append(@, a)]
  PROVE  /\ ListsAllocated'
         /\ ListsDistinct'
         /\ \A k \in VectorModule :
              ListsOf(k)' = IF k = m THEN (ListsOf(m) \cup {a}) \ {NULL} ELSE ListsOf(k)
<1>1. /\ heads[m] \in Seq(Pointer)
      /\ Len(heads[m]) \in Nat
      /\ DOMAIN heads[m] = 1 .. Len(heads[m])
  BY LenProperties DEF TypeOK
<1>2. /\ DOMAIN heads'[m] = 1 .. (Len(heads[m]) + 1)
      /\ heads'[m][Len(heads[m]) + 1] = a
      /\ \A j \in DOMAIN heads[m] : heads'[m][j] = heads[m][j]
  <2>1. heads'[m] = Append(heads[m], a)
    BY DEF TypeOK
  <2> QED
    BY <1>1, <2>1, AppendProperties, LenProperties
<1>3. \A k \in VectorModule \ {m} : heads'[k] = heads[k]
  BY DEF TypeOK
<1>4. \A k \in VectorModule :
        ListsOf(k)' = IF k = m THEN (ListsOf(m) \cup {a}) \ {NULL} ELSE ListsOf(k)
  <2>1. ListsOf(m)' = (ListsOf(m) \cup {a}) \ {NULL}
    BY <1>1, <1>2 DEF ListsOf
  <2>2. \A k \in VectorModule \ {m} : ListsOf(k)' = ListsOf(k)
    BY <1>3 DEF ListsOf
  <2> QED
    BY <2>1, <2>2
<1>5. ListsAllocated'
  <2> SUFFICES ASSUME NEW k \in VectorModule, NEW x \in ListsOf(k)'
               PROVE  heap'[x] # {}
    BY DEF ListsAllocated
  <2>0. x # NULL
    BY DEF ListsOf
  <2>1. CASE x = a
    BY <2>0, <2>1 DEF TypeOK, FreeAddr
  <2>2. CASE x # a
    <3>1. x \in ListsOf(k)
      BY <1>4, <2>2
    <3>2. x \in Addr
      <4>1. heads[k] \in Seq(Pointer)
        BY DEF TypeOK
      <4> QED
        BY <2>0, <3>1, <4>1, ElementOfSeq, LenProperties DEF ListsOf, Pointer
    <3>3. heap'[x] = heap[x]
      BY <2>2, <3>2 DEF TypeOK
    <3> QED
      BY <3>1, <3>3 DEF ListsAllocated
  <2> QED
    BY <2>1, <2>2
<1>6. ListsDistinct'
  <2> SUFFICES ASSUME NEW k1 \in VectorModule, NEW k2 \in VectorModule,
                      NEW i \in DOMAIN heads'[k1], NEW j \in DOMAIN heads'[k2],
                      heads'[k1][i] = heads'[k2][j], heads'[k1][i] # NULL
               PROVE  k1 = k2 /\ i = j
    BY DEF ListsDistinct
  <2>1. \A k \in VectorModule : \A l \in DOMAIN heads'[k] :
          \/ l \in DOMAIN heads[k] /\ heads'[k][l] = heads[k][l]
          \/ k = m /\ l = Len(heads[m]) + 1 /\ heads'[k][l] = a
    BY <1>1, <1>2, <1>3
  <2>2. a # NULL => \A k \in VectorModule : \A l \in DOMAIN heads[k] : heads[k][l] # a
    BY FreshList DEF ListsOf
  <2>3. CASE heads'[k1][i] = a
    BY <2>1, <2>2, <2>3
  <2>4. CASE heads'[k1][i] # a
    BY <2>1, <2>4 DEF ListsDistinct
  <2> QED
    BY <2>3, <2>4
<1> QED
  BY <1>4, <1>5, <1>6

LEMMA AddHeadListed ==
  ASSUME RegistryTypeOK, NEW n \in Node, vec_list' = <<n>> \o vec_list
  PROVE  Listed' = Listed \cup {n}
<1>1. Len(vec_list) \in Nat /\ DOMAIN vec_list = 1 .. Len(vec_list)
  BY LenProperties DEF RegistryTypeOK
<1>2. /\ DOMAIN vec_list' = 1 .. (Len(vec_list) + 1)
      /\ vec_list'[1] = n
      /\ \A j \in 2 .. (Len(vec_list) + 1) : vec_list'[j] = vec_list[j - 1]
  <2>1. vec_list \in Seq(Node)
    BY DEF RegistryTypeOK
  <2>2. /\ vec_list' \in Seq(Node) /\ Len(vec_list') = Len(vec_list) + 1
        /\ vec_list'[1] = n
        /\ \A j \in 2 .. (Len(vec_list) + 1) : vec_list'[j] = vec_list[j - 1]
    BY <2>1, AddHeadProperties
  <2> QED
    BY <2>2, LenProperties
<1>3. \A j \in 1 .. Len(vec_list) : j + 1 \in 2 .. (Len(vec_list) + 1)
                                    /\ vec_list'[j + 1] = vec_list[j]
  BY <1>1, <1>2
<1>4. Listed \cup {n} \subseteq Listed'
  <2>1. n \in Listed'
    BY <1>1, <1>2 DEF Listed
  <2>2. ASSUME NEW j \in DOMAIN vec_list
        PROVE  vec_list[j] \in Listed'
    <3>1. j + 1 \in DOMAIN vec_list' /\ vec_list'[j + 1] = vec_list[j]
      BY <1>1, <1>2, <1>3
    <3> QED
      BY <3>1 DEF Listed
  <2> QED
    BY <2>1, <2>2 DEF Listed
<1>5. Listed' \subseteq Listed \cup {n}
  <2> SUFFICES ASSUME NEW j \in DOMAIN vec_list'
               PROVE  vec_list'[j] \in Listed \cup {n}
    BY DEF Listed
  <2>1. CASE j = 1
    BY <1>2, <2>1
  <2>2. CASE j # 1
    <3>1. j \in 2 .. (Len(vec_list) + 1) /\ j - 1 \in 1 .. Len(vec_list)
      BY <1>1, <1>2, <2>2
    <3> QED
      BY <1>1, <1>2, <3>1 DEF Listed
  <2> QED
    BY <2>1, <2>2
<1> QED
  BY <1>4, <1>5

LEMMA AddedNode ==
  ASSUME RegistryTypeOK, NEW n, NEW b, NEW a, NEW m, NEW c,
         AddVector(n, b, a, m, c)
  PROVE  /\ n \in Node \ Listed
         /\ node'[n].bitmap = b /\ node'[n].addr = a
         /\ node'[n].module = m /\ node'[n].refcount = c
         /\ \A k \in Node \ {n} : node'[k] = node[k]
         /\ DOMAIN vec_list' = 1 .. (Len(vec_list) + 1)
         /\ vec_list'[1] = n
         /\ \A j \in 2 .. (Len(vec_list) + 1) : vec_list'[j] = vec_list[j - 1]
         /\ Listed' = Listed \cup {n}
         /\ Backed' = IF a = NULL THEN Backed ELSE Backed \cup {n}
<1>1. n \in Node \ Listed /\ vec_list' = <<n>> \o vec_list
  BY DEF AddVector, FreeNode
<1>2. node' = [node EXCEPT ![n] = [bitmap |-> b, addr |-> a, refcount |-> c, module |-> m]]
  BY DEF AddVector
<1>3. /\ node'[n].bitmap = b /\ node'[n].addr = a
      /\ node'[n].module = m /\ node'[n].refcount = c
      /\ \A k \in Node \ {n} : node'[k] = node[k]
  BY <1>1, <1>2 DEF RegistryTypeOK
<1>4. Len(vec_list) \in Nat /\ DOMAIN vec_list = 1 .. Len(vec_list)
  BY LenProperties DEF RegistryTypeOK
<1>5. /\ DOMAIN vec_list' = 1 .. (Len(vec_list) + 1)
      /\ vec_list'[1] = n
      /\ \A j \in 2 .. (Len(vec_list) + 1) : vec_list'[j] = vec_list[j - 1]
  BY <1>1, AddHeadProperties, LenProperties DEF RegistryTypeOK
<1>6. Listed' = Listed \cup {n}
  BY <1>1, AddHeadListed
<1>7. Backed' = IF a = NULL THEN Backed ELSE Backed \cup {n}
  <2>1. \A k \in Listed : k # n /\ node'[k] = node[k]
    BY <1>1, <1>3, ListedNodes
  <2> QED
    BY <1>3, <1>6, <2>1 DEF Backed
<1> QED
  BY <1>1, <1>3, <1>5, <1>6, <1>7

(* A new list that is registered under a bitmap no vector has.              *)
LEMMA RegisteredKeeps ==
  ASSUME TypeOK, VectorsInv, ListsAllocated', ListsDistinct',
         NEW n, NEW b, NEW a \in Pointer, NEW m \in VectorModule, NEW c,
         AddVector(n, b, a, m, c),
         a # NULL => a \in FreeAddr,
         \A k \in VectorModule :
           ListsOf(k)' = IF k = m THEN (ListsOf(m) \cup {a}) \ {NULL} ELSE ListsOf(k),
         \A k \in Backed : node[k].bitmap # b,
         m \in StaticModule => b = StaticBitmap(m)
  PROVE  VectorsInv'
<1> USE DEF VectorsInv
<1>0. RegistryTypeOK /\ Listed \subseteq Node
  BY ListedNodes DEF TypeOK
<1>1. /\ n \in Node \ Listed
      /\ node'[n].bitmap = b /\ node'[n].addr = a /\ node'[n].module = m
      /\ \A k \in Node \ {n} : node'[k] = node[k]
      /\ DOMAIN vec_list' = 1 .. (Len(vec_list) + 1)
      /\ vec_list'[1] = n
      /\ \A j \in 2 .. (Len(vec_list) + 1) : vec_list'[j] = vec_list[j - 1]
      /\ Backed' = IF a = NULL THEN Backed ELSE Backed \cup {n}
  BY <1>0, AddedNode
<1>2. \A k \in Backed : k \in Node /\ k # n /\ node'[k] = node[k]
  BY <1>0, <1>1 DEF Backed
<1>3. Len(vec_list) \in Nat /\ DOMAIN vec_list = 1 .. Len(vec_list)
  BY <1>0, LenProperties DEF RegistryTypeOK
<1>4. \A j \in 2 .. (Len(vec_list) + 1) :
        /\ j - 1 \in DOMAIN vec_list
        /\ vec_list[j - 1] \in Listed
        /\ vec_list[j - 1] # n
        /\ node'[vec_list[j - 1]] = node[vec_list[j - 1]]
  BY <1>0, <1>1, <1>3 DEF Listed
<1>5. ListedOnce'
  <2> SUFFICES ASSUME NEW i \in DOMAIN vec_list', NEW j \in DOMAIN vec_list',
                      vec_list'[i] = vec_list'[j]
               PROVE  i = j
    BY DEF ListedOnce
  <2>1. CASE i = 1 \/ j = 1
    BY <1>1, <1>3, <1>4, <2>1
  <2>2. CASE i # 1 /\ j # 1
    <3>1. i \in 2 .. (Len(vec_list) + 1) /\ j \in 2 .. (Len(vec_list) + 1)
      BY <1>1, <1>3, <2>2
    <3>2. i - 1 = j - 1
      BY <1>1, <1>4, <3>1 DEF ListedOnce
    <3> QED
      BY <1>3, <3>1, <3>2
  <2> QED
    BY <2>1, <2>2
<1>6. NodesHaveLists'
  <2>1. ASSUME NEW k \in Backed', NEW x \in VectorModule, x = node'[k].module
        PROVE  node'[k].addr \in ListsOf(x)'
    <3>1. CASE k = n
      BY <1>1, <2>1, <3>1 DEF Backed
    <3>2. CASE k # n
      <4>1. k \in Backed /\ node'[k] = node[k] /\ node[k].addr # NULL
        BY <1>1, <1>2, <2>1, <3>2 DEF Backed
      <4> QED
        BY <2>1, <4>1 DEF NodesHaveLists
    <3> QED
      BY <3>1, <3>2
  <2>2. \A k \in Backed' : node'[k].module \in VectorModule
    BY <1>1, <1>2 DEF NodesHaveLists
  <2> QED
    BY <2>1, <2>2 DEF NodesHaveLists
<1>7. OneNodePerList'
  <2>1. \A k \in Backed : a # NULL => node[k].addr # a
    BY FreshList DEF NodesHaveLists
  <2> QED
    BY <1>1, <1>2, <2>1 DEF OneNodePerList
<1>8. StaticNodes'
  BY <1>1, <1>2 DEF StaticNodes
<1>9. HidesOnlyEmpty'
  <2> SUFFICES ASSUME NEW i \in DOMAIN vec_list', NEW j \in DOMAIN vec_list',
                      i < j, node'[vec_list'[i]].bitmap = node'[vec_list'[j]].bitmap
               PROVE  node'[vec_list'[j]].addr = NULL
    BY DEF HidesOnlyEmpty, At
  <2>1. j \in 2 .. (Len(vec_list) + 1) /\ vec_list'[j] = vec_list[j - 1]
    BY <1>1, <1>3
  <2>2. CASE i = 1
    BY <1>1, <1>4, <2>1, <2>2 DEF Backed
  <2>3. CASE i # 1
    <3>1. i \in 2 .. (Len(vec_list) + 1) /\ vec_list'[i] = vec_list[i - 1]
      BY <1>1, <1>3, <2>3
    <3>2. i - 1 < j - 1
      BY <1>3, <2>1, <3>1
    <3> QED
      BY <1>4, <2>1, <3>1, <3>2 DEF HidesOnlyEmpty, At
  <2> QED
    BY <2>2, <2>3
<1> QED
  BY <1>5, <1>6, <1>7, <1>8, <1>9

(* A list that is not registered, because register_syscall failed.          *)
LEMMA OrphanKeeps ==
  ASSUME TypeOK, VectorsInv, ListsAllocated', ListsDistinct',
         UNCHANGED <<vec_list, node>>,
         \A k \in VectorModule : ListsOf(k) \subseteq ListsOf(k)'
  PROVE  VectorsInv'
<1> USE DEF VectorsInv
<1>1. Listed' = Listed /\ Backed' = Backed
  BY DEF Listed, Backed
<1>2. ListedOnce' /\ HidesOnlyEmpty'
  BY DEF ListedOnce, HidesOnlyEmpty, At
<1>3. NodesHaveLists'
  BY <1>1 DEF NodesHaveLists
<1>4. OneNodePerList' /\ StaticNodes'
  BY <1>1 DEF OneNodePerList, StaticNodes
<1> QED
  BY <1>2, <1>3, <1>4

LEMMA CreateBuildKeeps ==
  ASSUME TypeOK, LoaderInv, RegistryInv, NEW t \in Task, CreateBuild(t)
  PROVE  RegistryInv'
<1> USE DEF RegistryInv
<1>1. "dynamic_vector" \in VectorModule /\ "dynamic_vector" \notin StaticModule
  BY DEF VectorModule, StaticModule
<1>2. PICK a \in Pointer :
        /\ BuildList(arg[t], a)
        /\ \/ \E n \in Node :
                 register_dynamic_syscall(n, arg[t], a, "dynamic_vector")
           \/ RegisterFails
        /\ heads' = [heads EXCEPT !["dynamic_vector"] = Append(@, a)]
  BY DEF CreateBuild
<1>3. PICK list \in SUBSET Flavour :
        IF a = NULL THEN heap' = heap
        ELSE a \in FreeAddr /\ list # {} /\ heap' = [heap EXCEPT ![a] = list]
  BY <1>2, NULLAssumption
     DEF BuildList, VectorFromBitmap, Branches, FreeAddr
<1>4. /\ ListsAllocated' /\ ListsDistinct'
      /\ \A k \in VectorModule :
           ListsOf(k)' = IF k = "dynamic_vector"
                         THEN (ListsOf("dynamic_vector") \cup {a}) \ {NULL}
                         ELSE ListsOf(k)
  BY <1>1, <1>2, <1>3, BuiltList DEF VectorsInv
<1>5. VectorsInv'
  <2>1. CASE RegisterFails
    <3>1. \A k \in VectorModule : ListsOf(k) \subseteq ListsOf(k)'
      BY <1>4 DEF ListsOf
    <3> QED
      BY <1>4, <2>1, <3>1, OrphanKeeps DEF RegisterFails
  <2>2. ASSUME NEW n \in Node, register_dynamic_syscall(n, arg[t], a, "dynamic_vector")
        PROVE  VectorsInv'
    <3>1. \A k \in Backed : node[k].bitmap # arg[t]
      BY DEF CreateBuild, CreateIsNew
    <3> QED
      BY <1>1, <1>3, <1>4, <2>2, <3>1, RegisteredKeeps DEF register_dynamic_syscall
  <2> QED
    BY <1>2, <2>1, <2>2
<1>6. \A u \in Task : pc'[u] # "create"
  <2>1. mutexlock = t
    BY NoRequestWhenFree DEF CreateBuild
  <2> QED
    BY <2>1, NoRequestWhenFree DEF CreateBuild, Return, Enter, TypeOK
<1> QED
  BY <1>5, <1>6 DEF CreateIsNew

LEMMA InsmodStaticKeeps ==
  ASSUME TypeOK, LoaderInv, RegistryInv, Careful,
         NEW m \in StaticModule, InsmodStatic(m)
  PROVE  RegistryInv'
<1> USE DEF RegistryInv
<1>1. /\ m \in VectorModule /\ "dynamic_vector" \in VectorModule
      /\ VectorModule = StaticModule \cup {"dynamic_vector"}
      /\ mstate["dynamic_vector"] = "absent" /\ mstate[m] = "absent"
  BY DEF InsmodStatic, CanInsmod, Assuming, Careful, VectorModule
<1>2. heads["dynamic_vector"] = <<>> /\ heads[m] = <<>>
  BY <1>1 DEF LoaderInv, NoListsWhenAbsent
<1>3. PICK a \in FreeAddr :
       /\ heap' = [heap EXCEPT ![a] = StaticVector(m)]
       /\ \/ /\ \E n \in Node : register_syscall(n, StaticBitmap(m), a, m)
             /\ heads' = [heads EXCEPT ![m] = <<a>>]
          \/ /\ RegisterFails
             /\ UNCHANGED heads
  BY DEF InsmodStatic
<1>4. a \in Addr /\ a # NULL /\ a \in Pointer
  BY NULLAssumption DEF FreeAddr, Pointer
<1>5. StaticVector(m) \in SUBSET Flavour /\ StaticVector(m) # {}
  BY DEF StaticVector, Vector55, Vector968, Flavour
<1>6. VectorsInv'
  <2>1. CASE RegisterFails /\ UNCHANGED heads
    <3>1. \A k \in VectorModule : ListsOf(k)' = ListsOf(k)
      BY <2>1 DEF ListsOf
    <3>2. ListsAllocated'
      BY <1>3, <1>5, <3>1 DEF VectorsInv, ListsAllocated, TypeOK
    <3>3. ListsDistinct'
      BY <2>1 DEF VectorsInv, ListsDistinct
    <3> QED
      BY <2>1, <3>1, <3>2, <3>3, OrphanKeeps DEF RegisterFails
  <2>2. ASSUME NEW n \in Node, register_syscall(n, StaticBitmap(m), a, m),
               heads' = [heads EXCEPT ![m] = <<a>>]
        PROVE  VectorsInv'
    <3>1. heads' = [heads EXCEPT ![m] = Append(@, a)]
      BY <1>1, <1>2, <2>2 DEF TypeOK
    <3>2. /\ ListsAllocated' /\ ListsDistinct'
          /\ \A k \in VectorModule :
               ListsOf(k)' = IF k = m THEN (ListsOf(m) \cup {a}) \ {NULL} ELSE ListsOf(k)
      BY <1>1, <1>3, <1>4, <1>5, <3>1, BuiltList DEF VectorsInv
    <3>3. ASSUME NEW k \in Backed
          PROVE  node[k].bitmap # StaticBitmap(m)
      <4>1. /\ node[k].module \in VectorModule
            /\ node[k].addr \in ListsOf(node[k].module)
        BY DEF VectorsInv, NodesHaveLists
      <4>2. node[k].module # m /\ node[k].module # "dynamic_vector"
        BY <1>2, <4>1 DEF ListsOf
      <4>3. node[k].bitmap = StaticBitmap(node[k].module)
        BY <1>1, <4>1, <4>2 DEF VectorsInv, StaticNodes
      <4>5. Vector55 # Vector968
        BY DEF Vector55, Vector968
      <4> QED
        BY <1>1, <4>1, <4>2, <4>3, <4>5 DEF StaticBitmap, StaticVector, StaticModule
    <3> QED
      BY <1>1, <1>3, <1>4, <2>2, <3>2, <3>3, RegisteredKeeps DEF register_syscall
  <2> QED
    BY <1>3, <2>1, <2>2
<1>7. \A u \in Task : pc'[u] # "create"
  <2>1. \A u \in Task : pc[u] # "create"
    BY <1>1, NoRequestWhenFree, RequestNeedsDynamic
  <2> QED
    BY <2>1 DEF InsmodStatic, taskVars
<1> QED
  BY <1>6, <1>7 DEF CreateIsNew

-------------------------------------------------------------------------------
(* Steps of cleanup_override. *)

LEMMA RemovedNode ==
  ASSUME RegistryTypeOK, ListedOnce, HidesOnlyEmpty, NEW i \in 1 .. Len(vec_list),
         vec_list' = RemoveAt(vec_list, i),
         node' = [node EXCEPT ![vec_list[i]] = NoVector]
  PROVE  /\ Listed' = Listed \ {vec_list[i]}
         /\ \A k \in Listed' : node'[k] = node[k]
         /\ ListedOnce'
         /\ HidesOnlyEmpty'
<1> DEFINE old == [j \in 1 .. Len(vec_list) |-> IF j < i THEN j ELSE j + 1]
<1>1. Len(vec_list) \in Nat /\ DOMAIN vec_list = 1 .. Len(vec_list)
  BY LenProperties DEF RegistryTypeOK
<1>2. DOMAIN vec_list' = 1 .. (Len(vec_list) - 1)
  BY <1>1, RemoveAtProperties, LenProperties DEF RegistryTypeOK
<1>3. \A j \in DOMAIN vec_list' : /\ old[j] \in DOMAIN vec_list
                                  /\ old[j] # i
                                  /\ vec_list'[j] = vec_list[old[j]]
  <2>1. \A j \in 1 .. (Len(vec_list) - 1) :
          vec_list'[j] = IF j < i THEN vec_list[j] ELSE vec_list[j + 1]
    BY RemoveAtProperties DEF RegistryTypeOK
  <2> QED
    BY <1>1, <1>2, <2>1
<1>4. ASSUME NEW j \in DOMAIN vec_list', NEW k \in DOMAIN vec_list'
      PROVE  /\ old[j] = old[k] => j = k
             /\ j < k => old[j] < old[k]
  BY <1>1, <1>2
<1>5. \A j \in DOMAIN vec_list \ {i} : \E k \in DOMAIN vec_list' : old[k] = j
  <2> TAKE j \in DOMAIN vec_list \ {i}
  <2>1. CASE j < i
    BY <1>1, <1>2, <2>1
  <2>2. CASE ~ j < i
    <3>1. j - 1 \in DOMAIN vec_list' /\ old[j - 1] = j
      BY <1>1, <1>2, <2>2
    <3> QED
      BY <3>1
  <2> QED
    BY <2>1, <2>2
<1> HIDE DEF old
<1>6. Listed' = Listed \ {vec_list[i]}
  <2>1. Listed' \subseteq Listed \ {vec_list[i]}
    BY <1>1, <1>3 DEF Listed, ListedOnce
  <2>2. Listed \ {vec_list[i]} \subseteq Listed'
    BY <1>3, <1>5 DEF Listed
  <2> QED
    BY <2>1, <2>2
<1>7. \A k \in Listed' : node'[k] = node[k]
  BY <1>6, ListedNodes DEF RegistryTypeOK
<1>8. ListedOnce'
  <2> SUFFICES ASSUME NEW j \in DOMAIN vec_list', NEW k \in DOMAIN vec_list',
                      vec_list'[j] = vec_list'[k]
               PROVE  j = k
    BY DEF ListedOnce
  <2>1. /\ old[j] \in DOMAIN vec_list /\ vec_list'[j] = vec_list[old[j]]
        /\ old[k] \in DOMAIN vec_list /\ vec_list'[k] = vec_list[old[k]]
    BY <1>3
  <2>2. old[j] = old[k]
    BY <2>1 DEF ListedOnce
  <2> QED
    BY <1>4, <2>2
<1>9. HidesOnlyEmpty'
  <2> SUFFICES ASSUME NEW j \in DOMAIN vec_list', NEW k \in DOMAIN vec_list',
                      j < k, node'[vec_list'[j]].bitmap = node'[vec_list'[k]].bitmap
               PROVE  node'[vec_list'[k]].addr = NULL
    BY DEF HidesOnlyEmpty, At
  <2>1. vec_list'[j] \in Listed' /\ vec_list'[k] \in Listed'
    BY DEF Listed
  <2>2. node'[vec_list'[j]] = node[vec_list'[j]] /\ node'[vec_list'[k]] = node[vec_list'[k]]
    BY <1>7, <2>1
  <2>3. /\ old[j] \in DOMAIN vec_list /\ vec_list'[j] = vec_list[old[j]]
        /\ old[k] \in DOMAIN vec_list /\ vec_list'[k] = vec_list[old[k]]
    BY <1>3
  <2>4. old[j] < old[k]
    BY <1>4
  <2> QED
    BY <2>2, <2>3, <2>4 DEF HidesOnlyEmpty, At
<1> QED
  BY <1>6, <1>7, <1>8, <1>9

(* No vector of a module without references is counted, and none is lost.   *)
LEMMA UnpinnedVectors ==
  ASSUME RegistryTypeOK, RefcountInRange, NEW m, Pins(m) = {}
  PROVE  /\ \A n \in Backed : node[n].module = m => node[n].refcount = 0
         /\ \A a \in ListsOf(m) \cap Addr : \E n \in Backed : node[n].addr = a
<1>1. ASSUME NEW n \in Backed, node[n].module = m, node[n].refcount # 0
      PROVE  FALSE
  <2>1. n \in Node /\ node[n].refcount \in 1 .. MaxRef /\ 1 \in 1 .. MaxRef
    BY <1>1, ListedNodes, MaxRefAssumption DEF Backed, RefcountInRange
  <2>2. <<n, 1>> \in VectorPins(m)
    BY <1>1, <2>1 DEF VectorPins
  <2> QED
    BY <2>2 DEF Pins
<1>2. ASSUME NEW a \in ListsOf(m) \cap Addr, \A n \in Backed : node[n].addr # a
      PROVE  FALSE
  <2>1. <<a, 0>> \in OrphanPins(m)
    BY <1>2 DEF OrphanPins
  <2> QED
    BY <2>1 DEF Pins
<1> QED
  BY <1>1, <1>2

(* What one iteration leaves behind: the list h is gone and so is the       *)
(* vector that had it.                                                      *)
LEMMA CleanupHeadProperties ==
  ASSUME TypeOK, VectorsInv, RefcountInRange, GoingUnpinned,
         NEW m \in VectorModule, CleanupHead(m)
  PROVE  /\ Head(heads[m]) \in Pointer
         /\ Backed' = {n \in Backed : node[n].addr # Head(heads[m])}
         /\ \A n \in Backed' : node'[n] = node[n]
         /\ \A n \in Backed : node[n].addr = Head(heads[m]) => node[n].module = m
         /\ ListedOnce' /\ HidesOnlyEmpty'
         /\ \A k \in VectorModule :
              ListsOf(k)' = ListsOf(k) \ {Head(heads[m])}
         /\ ListsDistinct'
         /\ Head(heads[m]) # NULL => Head(heads[m]) \in ListsOf(m)
<1> DEFINE h == Head(heads[m])
<1> USE DEF VectorsInv
<1>0. RegistryTypeOK /\ Listed \subseteq Node
  BY ListedNodes DEF TypeOK
<1>1. /\ heads[m] \in Seq(Pointer) /\ heads[m] # <<>>
      /\ Len(heads[m]) \in Nat \ {0}
      /\ DOMAIN heads[m] = 1 .. Len(heads[m])
      /\ h = heads[m][1] /\ h \in Pointer
  BY EmptySeq, LenProperties, ElementOfSeq, HeadTailProperties DEF TypeOK, CleanupHead
<1>2. /\ DOMAIN heads'[m] = 1 .. (Len(heads[m]) - 1)
      /\ \A j \in DOMAIN heads'[m] : j + 1 \in DOMAIN heads[m]
                                     /\ heads'[m][j] = heads[m][j + 1]
      /\ \A k \in VectorModule \ {m} : heads'[k] = heads[k]
  BY <1>1, HeadTailProperties, LenProperties DEF TypeOK, CleanupHead
<1>3. h # NULL => h \in ListsOf(m)
  BY <1>1 DEF ListsOf
<1>4. \A n \in Backed : node[n].addr = h => node[n].module = m
  BY <1>3 DEF NodesHaveLists, Backed, ListsOf, ListsDistinct
<1>5. \A k \in VectorModule : ListsOf(k)' = ListsOf(k) \ {h}
  <2>0. ASSUME NEW k \in VectorModule \ {m}, h \in ListsOf(k)
        PROVE  FALSE
    <3>1. PICK j \in DOMAIN heads[k] : heads[k][j] = h /\ h # NULL
      BY <2>0 DEF ListsOf
    <3>2. 1 \in DOMAIN heads[m] /\ heads[m][1] = h
      BY <1>1
    <3> QED
      BY <3>1, <3>2 DEF ListsDistinct
  <2>1. \A k \in VectorModule \ {m} : ListsOf(k)' = ListsOf(k) \ {h}
    BY <1>2, <2>0 DEF ListsOf
  <2>2. ListsOf(m)' \subseteq ListsOf(m) \ {h}
    <3> SUFFICES ASSUME NEW j \in DOMAIN heads'[m], heads'[m][j] # NULL
                 PROVE  heads'[m][j] \in ListsOf(m) \ {h}
      BY DEF ListsOf
    <3>1. /\ j + 1 \in DOMAIN heads[m] /\ j + 1 # 1 /\ 1 \in DOMAIN heads[m]
          /\ heads'[m][j] = heads[m][j + 1]
      BY <1>1, <1>2
    <3> QED
      BY <1>1, <3>1 DEF ListsOf, ListsDistinct
  <2>3. ListsOf(m) \ {h} \subseteq ListsOf(m)'
    <3> SUFFICES ASSUME NEW j \in DOMAIN heads[m], heads[m][j] # NULL, heads[m][j] # h
                 PROVE  heads[m][j] \in ListsOf(m)'
      BY DEF ListsOf
    <3>1. j - 1 \in DOMAIN heads'[m] /\ heads'[m][j - 1] = heads[m][j]
      BY <1>1, <1>2
    <3> QED
      BY <3>1 DEF ListsOf
  <2> QED
    BY <2>1, <2>2, <2>3
<1>6. ListsDistinct'
  <2> DEFINE shift(k) == IF k = m THEN 1 ELSE 0
  <2>1. \A k \in VectorModule : \A j \in DOMAIN heads'[k] :
          /\ j + shift(k) \in DOMAIN heads[k]
          /\ heads'[k][j] = heads[k][j + shift(k)]
    <3>1. \A k \in VectorModule : \A j \in DOMAIN heads[k] : j + 0 = j
      BY LenProperties DEF TypeOK
    <3> QED
      BY <1>2, <3>1
  <2>2. \A k \in VectorModule : \A i, j \in DOMAIN heads'[k] :
          i + shift(k) = j + shift(k) => i = j
    <3>1. \A k \in VectorModule : \A j \in DOMAIN heads'[k] : j \in Nat
      <4>1. \A k \in VectorModule : \A j \in DOMAIN heads[k] : j \in Nat
        BY LenProperties DEF TypeOK
      <4> QED
        BY <1>1, <1>2, <4>1
    <3> QED
      BY <3>1
  <2> HIDE DEF shift
  <2> QED
    BY <2>1, <2>2 DEF ListsDistinct
<1>7. /\ Backed' = {n \in Backed : node[n].addr # h}
      /\ \A n \in Backed' : node'[n] = node[n]
      /\ ListedOnce' /\ HidesOnlyEmpty'
  <2>1. PICK i \in Cursor :
          /\ StopsAt(i, ByAddr(h))
          /\ IF i = 0 \/ At(i).refcount > 0
             THEN UNCHANGED <<vec_list, node>>
             ELSE /\ vec_list' = RemoveAt(vec_list, i)
                  /\ node' = [node EXCEPT ![vec_list[i]] = NoVector]
    BY DEF CleanupHead, unregister_syscall
  <2>2. i # 0 => /\ i \in 1 .. Len(vec_list) /\ vec_list[i] \in Listed
                 /\ node[vec_list[i]].addr = h
    <3>1. i # 0 => i \in 1 .. Len(vec_list) /\ i \in DOMAIN vec_list
      BY <1>0, CursorType, LenProperties DEF RegistryTypeOK
    <3> QED
      BY <2>1, <3>1 DEF StopsAt, ByAddr, Listed
  <2>3. CASE i = 0 \/ At(i).refcount > 0
    <3>1. UNCHANGED <<vec_list, node>>
      BY <2>1, <2>3
    <3>2. Backed' = Backed /\ ListedOnce' /\ HidesOnlyEmpty'
      BY <3>1 DEF Backed, Listed, ListedOnce, HidesOnlyEmpty, At
    <3>3. ASSUME NEW n \in Backed, node[n].addr = h
          PROVE  FALSE
      <4>1. CASE i = 0
        BY <1>0, <2>1, <3>3, <4>1 DEF StopsAt, ByAddr, Backed, Listed
      <4>2. CASE i # 0 /\ At(i).refcount > 0
        <5>1. vec_list[i] \in Backed
          BY <2>2, <3>3, <4>2 DEF Backed
        <5>2. node[vec_list[i]].refcount = 0
          BY <1>0, <1>4, <2>2, <4>2, <5>1, UnpinnedVectors DEF GoingUnpinned, CleanupHead
        <5> QED
          BY <4>2, <5>2 DEF At
      <4> QED
        BY <2>3, <4>1, <4>2
    <3> QED
      BY <3>1, <3>2, <3>3
  <2>4. CASE ~ (i = 0 \/ At(i).refcount > 0)
    <3>1. /\ Listed' = Listed \ {vec_list[i]}
          /\ \A k \in Listed' : node'[k] = node[k]
          /\ ListedOnce' /\ HidesOnlyEmpty'
      BY <1>0, <2>1, <2>2, <2>4, RemovedNode
    <3>2. \A n \in Backed : node[n].addr = h => n = vec_list[i]
      BY <2>2, <2>4 DEF Backed, OneNodePerList
    <3> QED
      BY <2>2, <2>4, <3>1, <3>2 DEF Backed
  <2> QED
    BY <2>3, <2>4
<1> QED
  BY <1>1, <1>3, <1>4, <1>5, <1>6, <1>7

LEMMA CleanupHeadKeeps ==
  ASSUME TypeOK, RegistryInv, RefcountInRange, GoingUnpinned,
         NEW m \in Module, CleanupHead(m)
  PROVE  RegistryInv'
<1> DEFINE h == Head(heads[m])
<1> USE DEF RegistryInv, VectorsInv
<1>1. /\ h \in Pointer
      /\ Backed' = {n \in Backed : node[n].addr # h}
      /\ \A n \in Backed' : node'[n] = node[n]
      /\ ListedOnce' /\ HidesOnlyEmpty'
      /\ \A k \in VectorModule : ListsOf(k)' = ListsOf(k) \ {h}
      /\ ListsDistinct'
  BY CleanupHeadProperties DEF CleanupHead
<1>2. heap' = IF h = NULL THEN heap ELSE [heap EXCEPT ![h] = {}]
  BY DEF CleanupHead
<1> HIDE DEF h
<1>3. ListsAllocated'
  <2>1. \A k \in VectorModule : ListsOf(k) \subseteq Addr
    <3>1. \A k \in VectorModule : heads[k] \in Seq(Pointer)
      BY DEF TypeOK
    <3> QED
      BY <3>1, ElementOfSeq, LenProperties DEF ListsOf, Pointer
  <2> QED
    BY <1>1, <1>2, <2>1 DEF ListsAllocated, TypeOK
<1>4. NodesHaveLists'
  BY <1>1 DEF NodesHaveLists
<1>5. OneNodePerList' /\ StaticNodes'
  BY <1>1 DEF OneNodePerList, StaticNodes
<1>6. CreateIsNew'
  BY <1>1 DEF CreateIsNew, CleanupHead, taskVars
<1> QED
  BY <1>1, <1>3, <1>4, <1>5, <1>6

-------------------------------------------------------------------------------
(* Every step keeps RegistryInv. *)

(* A bitmap check_any_current_vector does not find is no vector's.          *)
LEMMA NotFound ==
  ASSUME RegistryTypeOK, HidesOnlyEmpty, NEW b, NEW i \in Cursor,
         StopsAt(i, ByBitmap(b)), AddrAt(i) = NULL
  PROVE  \A n \in Backed : node[n].bitmap # b
<1> SUFFICES ASSUME NEW j \in DOMAIN vec_list, At(j).bitmap = b, At(j).addr # NULL
             PROVE  FALSE
  BY DEF Backed, Listed, At
<1>1. /\ vec_list[j] \in ByBitmap(b) /\ j \in 1 .. Len(vec_list)
      /\ Len(vec_list) \in Nat
  BY ListedNodes, CursorType DEF ByBitmap, At, RegistryTypeOK
<1>2. CASE i = 0
  BY <1>1, <1>2 DEF StopsAt
<1>3. CASE i # 0
  <2>1. /\ i \in 1 .. Len(vec_list) /\ i \in DOMAIN vec_list
        /\ At(i).bitmap = b /\ At(i).addr = NULL
    BY <1>3, CursorType, LenProperties DEF StopsAt, ByBitmap, At, AddrAt, RegistryTypeOK
  <2>2. CASE j < i
    BY <1>1, <1>3, <2>1, <2>2 DEF StopsAt
  <2>3. CASE i < j
    BY <2>1, <2>3 DEF HidesOnlyEmpty
  <2>4. CASE i = j
    BY <2>1, <2>4
  <2> QED
    BY <1>1, <2>1, <2>2, <2>3, <2>4
<1> QED
  BY <1>2, <1>3

LEMMA QuietKeeps ==
  ASSUME TypeOK, RegistryInv, SameVectors,
         \A u \in Task : pc'[u] = "create" /\ va'[u] = NULL =>
           \/ pc[u] = "create" /\ va[u] = NULL /\ arg'[u] = arg[u]
           \/ \A n \in Backed : node[n].bitmap # arg'[u]
  PROVE  RegistryInv'
<1>1. VectorsInv'
  BY SameVectorsKeepThem DEF RegistryInv, TypeOK
<1>2. /\ Backed' \subseteq Backed
      /\ \A n \in Backed' : node'[n].bitmap = node[n].bitmap
  BY ListedNodes DEF SameVectors, Backed, Listed, TypeOK
<1>3. CreateIsNew'
  <2> SUFFICES ASSUME NEW u \in Task, pc'[u] = "create", va'[u] = NULL,
                      NEW n \in Backed'
               PROVE  node'[n].bitmap # arg'[u]
    BY DEF CreateIsNew
  <2>1. n \in Backed /\ node'[n].bitmap = node[n].bitmap
    BY <1>2
  <2> QED
    BY <2>1 DEF RegistryInv, CreateIsNew
<1> QED
  BY <1>1, <1>3 DEF RegistryInv

(* The end of a task is quiet. *)
LEMMA EndKeepsRegistry ==
  ASSUME TypeOK, RegistryInv, NEW t \in Task, NEW end \in Ended, EndsTask(t, end)
  PROVE  RegistryInv'
<1>1. SameVectors
  <2>1. CASE UNCHANGED <<node, vec_list, listVars>>
    BY <2>1 DEF SameVectors
  <2>2. CASE \E i \in Cursor : DropRef(i)
    BY <2>2, TakeRefOnly DEF EndsTask, TypeOK
  <2> QED
    BY <2>1, <2>2 DEF EndsTask, reduce_ref_count_from_address
<1>2. /\ UNCHANGED <<va, arg>>
      /\ \A u \in Task : pc'[u] = "create" => pc[u] = "create"
  BY DEF EndsTask, Ended, Crashed, TypeOK
<1> QED
  BY <1>1, <1>2, QuietKeeps

LEMMA RequestKeepsRegistry ==
  ASSUME TypeOK, LoaderInv, RegistryInv, NEW t \in Task, Request(t)
  PROVE  RegistryInv'
<1>0. RegistryTypeOK
  BY DEF TypeOK
<1>1. ASSUME NEW b \in Bitmaps, SetLookup(t, b)
      PROVE  RegistryInv'
  <2>1. SameVectors
    BY <1>0, <1>1, TakeRefOnly DEF SetLookup, get_vector_address
  <2>2. UNCHANGED arg /\ \A u \in Task : pc'[u] = "create" => pc[u] = "create" /\ va'[u] = va[u]
    BY <1>1 DEF SetLookup, Enter, taskVars, TypeOK
  <2> QED
    BY <2>1, <2>2, QuietKeeps
<1>2. ASSUME NEW b \in Bitmaps, RemoveVector(t, b)
      PROVE  RegistryInv'
  <2>1. SameVectors
    BY <1>0, <1>2, TakeRefOnly DEF RemoveVector, reduce_ref_count
  <2> QED
    BY <1>2, <2>1, QuietKeeps DEF RemoveVector
<1>3. ASSUME NEW b \in Bitmaps, CreateLookup(t, b)
      PROVE  RegistryInv'
  <2>1. PICK i \in Cursor : /\ StopsAt(i, ByBitmap(b)) /\ TakeRef(i)
                            /\ Enter(t, "create", AddrAt(i))
    BY <1>3 DEF CreateLookup, check_any_current_vector
  <2>2. SameVectors
    BY <1>0, <1>3, <2>1, TakeRefOnly DEF CreateLookup
  <2>3. va'[t] = AddrAt(i) /\ arg'[t] = b
    BY <1>3, <2>1 DEF CreateLookup, Enter, TypeOK
  <2>4. va'[t] = NULL => \A n \in Backed : node[n].bitmap # arg'[t]
    BY <1>0, <2>1, <2>3, NotFound DEF RegistryInv, VectorsInv
  <2>5. \A u \in Task \ {t} : pc'[u] = pc[u] /\ va'[u] = va[u] /\ arg'[u] = arg[u]
    BY <1>3, <2>1 DEF CreateLookup, Enter, TypeOK
  <2> QED
    BY <2>2, <2>4, <2>5, QuietKeeps
<1>4. CASE SetAssign(t) \/ CreateExisting(t) \/ CreateNoMemory(t)
  <2>1. SameVectors
    <3>1. CASE UNCHANGED <<node, vec_list, listVars>>
      BY <3>1 DEF SameVectors
    <3>2. CASE SetAssign(t)
      <4>1. \/ UNCHANGED node
            \/ \E j \in Cursor : DropRef(j)
        BY <3>2 DEF SetAssign, if_assigned_reduce, reduce_ref_count
      <4> QED
        BY <1>0, <3>1, <3>2, <4>1, TakeRefOnly DEF SetAssign
    <3> QED
      BY <1>4, <3>1, <3>2 DEF CreateExisting, CreateNoMemory, registryVars
  <2>2. \A u \in Task : pc'[u] = "create" =>
          pc[u] = "create" /\ va'[u] = va[u] /\ arg'[u] = arg[u]
    BY <1>4 DEF SetAssign, CreateExisting, CreateNoMemory, Return, Enter, TypeOK
  <2> QED
    BY <2>1, <2>2, QuietKeeps
<1>5. CASE CreateBuild(t)
  BY <1>5, CreateBuildKeeps
<1>6. CASE NameCrashes(t) \/ FaultCrashes(t)
  BY <1>6, EndIsEndsTask, EndKeepsRegistry
<1> QED
  BY <1>1, <1>2, <1>3, <1>4, <1>5, <1>6 DEF Request

LEMMA ProcessKeepsRegistry ==
  ASSUME TypeOK, RegistryInv, NEW t \in Task, Process(t)
  PROVE  RegistryInv'
<1>0. RegistryTypeOK
  BY DEF TypeOK
<1> SUFFICES ASSUME ~ Exit(t)
             PROVE  RegistryInv'
  BY EndIsEndsTask, EndKeepsRegistry
<1>1. SameVectors
  <2>1. CASE UNCHANGED <<node, vec_list, listVars>>
    BY <2>1 DEF SameVectors
  <2>2. ASSUME NEW i \in Cursor, TakeRef(i), UNCHANGED <<vec_list, listVars>>
        PROVE  SameVectors
    BY <1>0, <2>2, TakeRefOnly
  <2>3. CASE CloneInherit(t) \/ KernelCounts(t) \/ ForkInherit(t)
    BY <2>2, <2>3
       DEF CloneInherit, KernelCounts, ForkInherit, increment_ref_count_from_address
  <2>4. CASE \E b \in Bitmaps : CloneById(t, b)
    BY <2>2, <2>4 DEF CloneById, get_vector_address_from_id
  <2> QED
    BY <2>1, <2>3, <2>4
       DEF Process, CloneForks, Fork, CloneFails, registryVars
<1>2. UNCHANGED arg
  BY DEF Process, CloneInherit, KernelCounts, ForkInherit, CloneById, CloneForks,
         Fork, CloneFails
<1>3. \A u \in Task : pc'[u] = "create" => pc[u] = "create" /\ va'[u] = va[u]
  BY DEF Process, CloneInherit, KernelCounts, ForkInherit, CloneById, CloneForks,
         Fork, CloneFails, Cloning, Enter, TypeOK
<1> QED
  BY <1>1, <1>2, <1>3, QuietKeeps

LEMMA LoaderKeepsRegistry ==
  ASSUME TypeOK, LoaderInv, RegistryInv, RefcountInRange, GoingUnpinned, Careful,
         Loader
  PROVE  RegistryInv'
<1>1. ASSUME UNCHANGED <<vec_list, node, listVars, pc, va, arg>>
      PROVE  RegistryInv'
  <2>1. SameVectors
    BY <1>1 DEF SameVectors
  <2> QED
    BY <1>1, <2>1, QuietKeeps
<1> QED
  BY <1>1, InsmodStaticKeeps, CleanupHeadKeeps
     DEF Loader, Insmod, RmmodBegin, RmmodEnd, taskVars

LEMMA StepKeepsRegistry ==
  ASSUME TypeOK, LoaderInv, RegistryInv, RefcountInRange, GoingUnpinned, Careful,
         [Next]_vars
  PROVE  RegistryInv'
<1>1. CASE UNCHANGED vars
  <2>1. SameVectors /\ UNCHANGED <<pc, va, arg>>
    BY <1>1 DEF vars, registryVars, taskVars, SameVectors
  <2> QED
    BY <2>1, QuietKeeps
<1> QED
  BY <1>1, RequestKeepsRegistry, ProcessKeepsRegistry, LoaderKeepsRegistry DEF Next
===============================================================================
