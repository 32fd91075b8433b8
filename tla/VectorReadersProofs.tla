-------------------------- MODULE VectorReadersProofs --------------------------
(***************************************************************************)
(* Theorems about VectorReaders: a SHOW is no harm to anybody's vector, and *)
(* what it shows is complete, if it fits, as long as no vector is           *)
(* unregistered meanwhile.                                                  *)
(***************************************************************************)
EXTENDS VectorReaders, VectorCountProofs

(* The walks change nothing of VectorSystem.                                *)
LEMMA StepIsSystemStep ==
  ASSUME [ReadersNext]_readersVars
  PROVE  [Next]_vars
<1>1. CASE SystemStep
  BY <1>1 DEF SystemStep, Next
<1>2. CASE ShowCrashes
  BY <1>2 DEF ShowCrashes, Request, Next
<1>3. CASE UNCHANGED vars
  BY <1>3
<1>4. CASE UNCHANGED readersVars
  BY <1>4 DEF readersVars
<1> QED
  BY <1>1, <1>2, <1>3, <1>4 DEF ReadersNext

(* With SHOW requests under way the system does what VectorSystem says.      *)
THEOREM ReadersImplementSystem == ReadersSpec => Spec
<1>1. ReadersInit => Init
  BY DEF ReadersInit
<1>2. [ReadersNext]_readersVars => [Next]_vars
  BY StepIsSystemStep
<1> QED
  BY <1>1, <1>2, PTL DEF ReadersSpec, Spec

(* Given Careful, nobody's vector goes away while others look at the list.   *)
THEOREM NoneDanglesDuringShow ==
  ASSUME Careful
  PROVE  ReadersSpec => []NoDanglingVector
BY ReadersImplementSystem, NoneDangles, PTL

-------------------------------------------------------------------------------
(* What a step of the system does to the list of vectors. *)

SameNodes == \A n \in Node : /\ node'[n].bitmap = node[n].bitmap
                             /\ node'[n].addr = node[n].addr

Added == \E n \in Node \ Listed :
  /\ vec_list' = <<n>> \o vec_list
  /\ \A k \in Node \ {n} : node'[k] = node[k]
  /\ node'[n].addr \in FreeAddr \cup {NULL}

Removed == \E i \in 1 .. Len(vec_list) : vec_list' = RemoveAt(vec_list, i)

(* Nothing, but for refcounts; or one vector is added, with a new list or    *)
(* none; or one is removed.                                                  *)
LEMMA StepOfList ==
  ASSUME TypeOK, [Next]_vars
  PROVE  (UNCHANGED vec_list /\ SameNodes) \/ Added \/ Removed
<1>1. ASSUME NEW i \in Cursor, TakeRef(i) \/ DropRef(i), UNCHANGED vec_list
      PROVE  SameNodes
  <2>1. CASE i = 0
    BY <1>1, <2>1 DEF TakeRef, DropRef, SameNodes
  <2>2. CASE i # 0
    <3>1. vec_list[i] \in Node
      BY <2>2, CursorType DEF TypeOK
    <3>2. PICK c : node' = [node EXCEPT ![vec_list[i]].refcount = c]
      BY <1>1, <2>2 DEF TakeRef, DropRef
    <3>3. node[vec_list[i]] \in Vector /\ node \in [Node -> Vector]
      BY <3>1 DEF TypeOK, RegistryTypeOK
    <3>4. node'[vec_list[i]] = [node[vec_list[i]] EXCEPT !.refcount = c]
      BY <3>1, <3>2, <3>3
    <3>5. /\ node'[vec_list[i]].bitmap = node[vec_list[i]].bitmap
          /\ node'[vec_list[i]].addr = node[vec_list[i]].addr
      BY <3>3, <3>4 DEF Vector
    <3>6. \A k \in Node : k # vec_list[i] => node'[k] = node[k]
      BY <3>2, <3>3
    <3> QED
      BY <3>5, <3>6 DEF SameNodes
  <2> QED
    BY <2>1, <2>2
<1>2. UNCHANGED node => SameNodes
  BY DEF SameNodes
<1>3. ASSUME NEW n, NEW b, NEW a \in FreeAddr \cup {NULL}, NEW m, NEW c,
             AddVector(n, b, a, m, c)
      PROVE  Added
  <2>1. /\ n \in Node \ Listed /\ \A k \in Node \ {n} : node'[k] = node[k]
        /\ node'[n].addr = a
    BY <1>3, AddedNode DEF TypeOK
  <2> QED
    BY <1>3, <2>1 DEF AddVector, Added
<1>4. ASSUME NEW t \in Task, Request(t)
      PROVE  (UNCHANGED vec_list /\ SameNodes) \/ Added
  <2>1. CASE CreateBuild(t)
    BY <1>2, <1>3, <2>1
       DEF CreateBuild, BuildList, register_dynamic_syscall, RegisterFails
  <2>2. CASE CreateExisting(t) \/ CreateNoMemory(t)
    BY <1>2, <2>2 DEF CreateExisting, CreateNoMemory, registryVars
  <2>3. CASE SetAssign(t)
    BY <1>1, <1>2, <2>3 DEF SetAssign, if_assigned_reduce, reduce_ref_count
  <2>4. ASSUME NEW b \in Bitmaps,
               SetLookup(t, b) \/ RemoveVector(t, b) \/ CreateLookup(t, b)
        PROVE  UNCHANGED vec_list /\ SameNodes
    BY <1>1, <2>4 DEF SetLookup, RemoveVector, CreateLookup, get_vector_address,
       reduce_ref_count, check_any_current_vector
  <2>5. CASE NameCrashes(t) \/ FaultCrashes(t)
    BY <1>1, <1>2, <2>5 DEF NameCrashes, FaultCrashes, CrashesAt, EndsTask,
       reduce_ref_count_from_address
  <2> QED
    BY <1>4, <2>1, <2>2, <2>3, <2>4, <2>5 DEF Request
<1>5. ASSUME NEW t \in Task, Process(t)
      PROVE  UNCHANGED vec_list /\ SameNodes
  BY <1>1, <1>2, <1>5 DEF Process, CloneInherit, KernelCounts, ForkInherit, CloneById,
     CloneForks, Fork, CloneFails, Exit, EndsTask, registryVars,
     increment_ref_count_from_address, get_vector_address_from_id,
     reduce_ref_count_from_address
<1>6. CASE Loader
  <2>1. ASSUME NEW m \in StaticModule, InsmodStatic(m)
        PROVE  (UNCHANGED vec_list /\ SameNodes) \/ Added
    BY <1>2, <1>3, <2>1 DEF InsmodStatic, register_syscall, RegisterFails
  <2>2. ASSUME NEW m \in Module, Insmod(m) \/ RmmodBegin(m) \/ RmmodEnd(m)
        PROVE  UNCHANGED vec_list /\ SameNodes
    BY <1>2, <2>2 DEF Insmod, RmmodBegin, RmmodEnd
  <2>3. ASSUME NEW m \in Module, CleanupHead(m)
        PROVE  (UNCHANGED vec_list /\ SameNodes) \/ Removed
    <3>1. PICK a : unregister_syscall(a)
      BY <2>3 DEF CleanupHead
    <3>2. PICK i \in Cursor : IF i = 0 \/ At(i).refcount > 0
                               THEN UNCHANGED <<vec_list, node>>
                               ELSE vec_list' = RemoveAt(vec_list, i)
      BY <3>1 DEF unregister_syscall
    <3>3. i # 0 => i \in 1 .. Len(vec_list)
      BY CursorType DEF TypeOK
    <3> QED
      BY <1>2, <3>2, <3>3 DEF Removed
  <2> QED
    BY <1>6, <2>1, <2>2, <2>3 DEF Loader
<1>7. CASE UNCHANGED vars
  BY <1>2, <1>7 DEF vars, registryVars
<1> QED
  BY <1>4, <1>5, <1>6, <1>7 DEF Next

(* A node is in the list once, so one that is removed is not in it. *)
LEMMA RemovedOnce ==
  ASSUME RegistryTypeOK, ListedOnce, NEW i \in 1 .. Len(vec_list),
         vec_list' = RemoveAt(vec_list, i)
  PROVE  ListedOnce' /\ vec_list[i] \in Listed \ Listed'
<1> DEFINE old(j) == IF j < i THEN j ELSE j + 1
<1>1. Len(vec_list) \in Nat /\ DOMAIN vec_list = 1 .. Len(vec_list)
  BY LenProperties DEF RegistryTypeOK
<1>2. DOMAIN vec_list' = 1 .. (Len(vec_list) - 1)
  BY <1>1, RemoveAtProperties, LenProperties DEF RegistryTypeOK
<1>3. \A j \in DOMAIN vec_list' : /\ old(j) \in DOMAIN vec_list
                                  /\ old(j) # i
                                  /\ vec_list'[j] = vec_list[old(j)]
  <2>1. \A j \in 1 .. (Len(vec_list) - 1) :
          vec_list'[j] = IF j < i THEN vec_list[j] ELSE vec_list[j + 1]
    BY RemoveAtProperties DEF RegistryTypeOK
  <2> QED
    BY <1>1, <1>2, <2>1
<1>4. \A j, k \in DOMAIN vec_list' : old(j) = old(k) => j = k
  BY <1>1, <1>2
<1> HIDE DEF old
<1>5. ListedOnce'
  BY <1>3, <1>4 DEF ListedOnce
<1>6. vec_list[i] \in Listed \ Listed'
  BY <1>1, <1>3 DEF Listed, ListedOnce
<1> QED
  BY <1>5, <1>6

LEMMA StepKeepsOnce ==
  ASSUME TypeOK, ListedOnce, [Next]_vars
  PROVE  ListedOnce'
<1>1. CASE UNCHANGED vec_list
  BY <1>1 DEF ListedOnce
<1>2. CASE Removed
  BY <1>2, RemovedOnce DEF Removed, TypeOK
<1>3. CASE Added
  <2>1. PICK n \in Node \ Listed : vec_list' = <<n>> \o vec_list
    BY <1>3 DEF Added
  <2>2. /\ Len(vec_list) \in Nat
        /\ DOMAIN vec_list = 1 .. Len(vec_list)
        /\ DOMAIN vec_list' = 1 .. (Len(vec_list) + 1)
        /\ vec_list'[1] = n
        /\ \A j \in 2 .. (Len(vec_list) + 1) : vec_list'[j] = vec_list[j - 1]
    BY <2>1, AddHeadProperties, LenProperties DEF TypeOK, RegistryTypeOK
  <2>3. \A j \in DOMAIN vec_list' : j # 1 =>
          /\ j - 1 \in DOMAIN vec_list
          /\ vec_list'[j] = vec_list[j - 1]
          /\ vec_list'[j] # n
    BY <2>1, <2>2 DEF Listed
  <2> QED
    BY <2>2, <2>3 DEF ListedOnce
<1> QED
  BY <1>1, <1>2, <1>3, StepOfList

(* A vector is in the list once, whatever users and administrators do.       *)
THEOREM ListedOnceAlways == Spec => []ListedOnce
<1>1. Init => ListedOnce
  BY DEF Init, RegistryInit, ListedOnce
<1>2. TypeOK /\ ListedOnce /\ [Next]_vars => ListedOnce'
  BY StepKeepsOnce
<1> QED
  BY <1>1, <1>2, TypeCorrect, PTL DEF Spec

(* The links lead from each node to the next. *)
LEMMA NextOfNode ==
  ASSUME RegistryTypeOK, ListedOnce, NEW i \in 1 .. Len(vec_list)
  PROVE  NextOf(vec_list[i]) = IF i < Len(vec_list) THEN vec_list[i + 1] ELSE HEAD
<1>1. Len(vec_list) \in Nat /\ DOMAIN vec_list = 1 .. Len(vec_list)
  BY LenProperties DEF RegistryTypeOK
<1>2. \A j \in DOMAIN vec_list : vec_list[j] = vec_list[i] => j = i
  BY <1>1 DEF ListedOnce
<1>3. (CHOOSE j \in DOMAIN vec_list : vec_list[j] = vec_list[i]) = i
  BY <1>1, <1>2
<1> QED
  BY <1>1, <1>2, <1>3 DEF NextOf

LEMMA NextOfListed ==
  ASSUME RegistryTypeOK, ListedOnce, NEW n \in Listed
  PROVE  NextOf(n) \in Listed \cup {HEAD}
<1>1. PICK i \in 1 .. Len(vec_list) : vec_list[i] = n
  BY ListedNodes DEF Listed
<1>2. i < Len(vec_list) => vec_list[i + 1] \in Listed
  BY LenProperties DEF Listed, RegistryTypeOK
<1> QED
  BY <1>1, <1>2, NextOfNode

-------------------------------------------------------------------------------
(* What a SHOW holds. *)

LEMMA ShowBeginType ==
  ASSUME TypeOK, ShowInv, ShowBegin
  PROVE  ShowTypeOK'
<1>1. /\ vec_list \in Seq(Node)
      /\ Len(vec_list) \in Nat
      /\ First \in Node \cup {HEAD}
  <2>1. vec_list \in Seq(Node) /\ Len(vec_list) \in Nat
    BY LenProperties DEF TypeOK, RegistryTypeOK
  <2>2. vec_list # <<>> => vec_list[1] \in Node
    BY <2>1, ElementOfSeq, EmptySeq
  <2> QED
    BY <2>1, <2>2 DEF First
<1>2. ASSUME NEW t \in Task, NEW kind \in {"all", "mine", "pid"},
             NEW stage \in {"task", "walk", "copy", "oops"},
             NEW s \in Task \cup {NoTask}, NEW sought \in Pointer,
             NEW at \in Node \cup {HEAD}, Begins(t, kind, stage, s, sought, at)
      PROVE  ShowTypeOK'
  <2>1. <<>> \in Seq(Bitmap)
    BY EmptySeq
  <2> QED
    BY <1>1, <1>2, <2>1 DEF Begins, ShowTypeOK, Show
<1>3. HEAD \in Node \cup {HEAD} /\ NULL \in Pointer
  BY DEF Pointer
<1>4. ASSUME NEW t \in Task, ShowAll(t)
      PROVE  ShowTypeOK'
  BY <1>1, <1>2, <1>3, <1>4 DEF ShowAll
<1>5. ASSUME NEW t \in Task, ShowMine(t)
      PROVE  ShowTypeOK'
  <2>1. info[t] \in Pointer
    BY DEF TypeOK
  <2> QED
    BY <1>1, <1>2, <1>5, <2>1 DEF ShowMine
<1>6. ASSUME NEW t \in Task, NEW s \in Task, VectorForPid(t, s)
      PROVE  ShowTypeOK'
  BY <1>2, <1>3, <1>6 DEF VectorForPid
<1> QED
  BY <1>4, <1>5, <1>6 DEF ShowBegin

(* A walk of a list of distinct nodes. *)
LEMMA ShowStepType ==
  ASSUME TypeOK, ListedOnce, ShowInv, ShowStep
  PROVE  ShowTypeOK'
<1>1. /\ show \in Show
      /\ present \in Seq(Node) /\ quiet \in BOOLEAN
  BY DEF ShowInv, ShowTypeOK, ShowStep, ReadSubject, WalkEnds, VisitAll, VisitMine,
         VisitFreed, MayVisit, Walking, ShowReturns, Reading
<1>2. ASSUME NEW change \in Show, Step(change)
      PROVE  ShowTypeOK'
  BY <1>1, <1>2 DEF Step, ShowTypeOK
<1>3. HEAD \in Node \cup {HEAD} /\ Listed \subseteq Node
  BY ListedNodes DEF TypeOK
<1>4. ASSUME NEW b \in Bitmap, NEW stage \in {"walk", "copy"},
             NEW next \in Node \cup {HEAD}, Shows(b, stage, next)
      PROVE  ShowTypeOK'
  <2>1. Append(show.text, b) \in Seq(Bitmap)
    BY <1>1, AppendProperties DEF Show
  <2>2. [show EXCEPT !.text = Append(@, b), !.stage = stage, !.at = next] \in Show
    BY <1>1, <2>1 DEF Show
  <2> QED
    BY <1>2, <1>4, <2>2 DEF Shows
<1>5. CASE ReadSubject
  <2>1. PICK a \in Pointer : Step([show EXCEPT
          !.stage = IF a = NULL THEN "copy" ELSE "walk", !.sought = a, !.at = First])
    BY <1>5 DEF ReadSubject
  <2>2. First \in Node \cup {HEAD}
    <3>1. vec_list # <<>> => vec_list[1] \in Node
      BY ElementOfSeq, EmptySeq, LenProperties DEF TypeOK, RegistryTypeOK
    <3> QED
      BY <3>1 DEF First
  <2> QED
    BY <1>1, <1>2, <2>1, <2>2 DEF Show
<1>6. CASE WalkEnds
  BY <1>1, <1>2, <1>3, <1>6 DEF WalkEnds, Show
<1>7. \A n \in Listed : node[n].bitmap \in Bitmap /\ NextOf(n) \in Node \cup {HEAD}
  BY <1>3, NextOfListed DEF TypeOK, RegistryTypeOK, Vector
<1>8. CASE VisitAll
  BY <1>4, <1>7, <1>8 DEF VisitAll
<1>9. CASE VisitMine
  <2>1. CASE Shows(node[show.at].bitmap, "copy", HEAD)
    BY <1>3, <1>4, <1>7, <1>9, <2>1 DEF VisitMine
  <2>2. CASE Step([show EXCEPT !.at = NextOf(show.at)])
    BY <1>1, <1>2, <1>7, <1>9, <2>2 DEF VisitMine, Show
  <2> QED
    BY <1>9, <2>1, <2>2 DEF VisitMine
<1>10. CASE VisitFreed
  <2>1. Garbage \in Bitmap
    BY DEF Garbage, Bitmap
  <2>2. CASE Step([show EXCEPT !.stage = "oops"])
    BY <1>1, <1>2, <2>2 DEF Show
  <2>3. ASSUME NEW next \in Node \cup {HEAD},
               Step([show EXCEPT !.at = next])
        PROVE  ShowTypeOK'
    BY <1>1, <1>2, <2>3 DEF Show
  <2> QED
    BY <1>4, <1>10, <2>1, <2>2, <2>3 DEF VisitFreed
<1>11. CASE ShowReturns
  BY <1>11, EmptySeq DEF ShowReturns, Ends, ShowTypeOK
<1> QED
  BY <1>5, <1>6, <1>8, <1>9, <1>10, <1>11 DEF ShowStep

(* It has returned, or its task has crashed.                                 *)
LEMMA EndsType ==
  ASSUME Ends
  PROVE  ShowTypeOK'
BY EmptySeq DEF Ends, ShowTypeOK

LEMMA SystemStepType ==
  ASSUME TypeOK, ShowInv, SystemStep
  PROVE  ShowTypeOK'
<1>1. show' \in Show \cup {NoShow}
  <2>1. CASE Gone
    <3>1. show \in Show
      BY <2>1 DEF Gone, Reading, ShowInv, ShowTypeOK
    <3>2. [show EXCEPT !.subject = NoTask] \in Show
      BY <3>1 DEF Show
    <3> QED
      BY <2>1, <3>2 DEF SystemStep
  <2>2. CASE ~ Gone
    BY <2>2 DEF SystemStep, ShowInv, ShowTypeOK
  <2> QED
    BY <2>1, <2>2
<1>2. quiet' \in BOOLEAN
  BY DEF SystemStep, ShowInv, ShowTypeOK
<1> QED
  BY <1>1, <1>2 DEF SystemStep, ShowInv, ShowTypeOK

(* A SHOW that goes on is the same request.                                  *)
LEMMA SameCaller ==
  ASSUME ShowInv, Reading,
         \/ SystemStep
         \/ ShowStep /\ ~ ShowReturns
  PROVE  /\ Reading'
         /\ show'.by = show.by /\ show'.kind = show.kind
<1>1. show \in Show
  BY DEF ShowInv, ShowTypeOK, Reading
<1>2. \A r : r \in Show => r # NoShow
  BY DEF Show, NoShow
<1>3. ASSUME SystemStep
      PROVE  show' \in Show /\ show'.by = show.by /\ show'.kind = show.kind
  BY <1>1, <1>3 DEF SystemStep, Show
<1>4. ASSUME ShowStep, ~ ShowReturns
      PROVE  /\ DOMAIN show' = DOMAIN show
             /\ show'.by = show.by /\ show'.kind = show.kind
  BY <1>1, <1>4 DEF ShowStep, ReadSubject, WalkEnds, VisitAll, VisitMine,
     VisitFreed, Shows, Step, Show
<1>5. DOMAIN show # DOMAIN NoShow
  BY <1>1 DEF Show, NoShow
<1> QED
  BY <1>2, <1>3, <1>4, <1>5 DEF Reading

LEMMA StepHoldsMutex ==
  ASSUME TypeOK, LoaderInv, ShowInv, [ReadersNext]_readersVars
  PROVE  HoldsMutex'
<1>1. CASE ShowBegin /\ UNCHANGED vars
  <2>1. PICK t \in Task : /\ pc[t] = "user"
                          /\ mstate["ioctl_module"] = "live"
                          /\ mutexlock = NoTask
                          /\ show'.by = t
    BY <1>1 DEF ShowBegin, ShowAll, ShowMine, VectorForPid, Begins, IoctlReady
  <2>2. \A u \in Task : pc[u] \notin {"set", "create"}
    BY <2>1, NoTaskAssumption DEF LoaderInv, MutexHeld, Serving
  <2> QED
    BY <1>1, <2>1, <2>2 DEF HoldsMutex, vars, registryVars, taskVars
<1>2. CASE ShowStep /\ UNCHANGED vars
  <2>1. CASE ShowReturns
    BY <2>1 DEF ShowReturns, Ends, HoldsMutex, Reading
  <2>2. CASE ~ ShowReturns
    <3>1. Reading
      BY <1>2 DEF ShowStep, ReadSubject, WalkEnds, VisitAll, VisitMine, VisitFreed,
         MayVisit, Walking, ShowReturns
    <3> QED
      BY <1>2, <2>2, <3>1, SameCaller
         DEF ShowInv, HoldsMutex, vars, registryVars, taskVars
  <2> QED
    BY <2>1, <2>2
<1>3. CASE SystemStep /\ ~ Reading
  BY <1>3 DEF SystemStep, Gone, HoldsMutex, Reading
<1>4. CASE SystemStep /\ Reading
  <2>1. /\ show'.by = show.by /\ show.by \in Task
        /\ pc[show.by] = "user" /\ mutexlock = NoTask
        /\ mstate["ioctl_module"] = "live"
        /\ \A t \in Task : pc[t] \notin {"set", "create"}
    BY <1>4, SameCaller DEF ShowInv, ShowTypeOK, HoldsMutex, Reading, Show
  <2>2. ASSUME NEW t \in Task, t # show.by, Process(t)
        PROVE  HoldsMutex'
    <3>1. UNCHANGED <<mutexlock, mstate>>
      BY <2>2 DEF Process, CloneInherit, KernelCounts, ForkInherit, CloneById,
         CloneForks, Fork, CloneFails, Exit, EndsTask, registryVars
    <3>2. pc'[show.by] = "user"
      BY <2>1, <2>2 DEF Process, CloneInherit, KernelCounts, ForkInherit, CloneById,
         CloneForks, Fork, CloneFails, Exit, EndsTask, Enter, TypeOK
    <3>3. \A u \in Task : \/ pc'[u] \in {"user", "inherit", "clone", "dead"}
                          \/ pc'[u] = pc[u]
      BY <2>2 DEF Process, CloneInherit, KernelCounts, ForkInherit, CloneById,
         CloneForks, Fork, CloneFails, Exit, EndsTask, Enter, TypeOK
    <3> QED
      BY <2>1, <3>1, <3>2, <3>3 DEF HoldsMutex
  <2>3. ASSUME Loader, mstate'["ioctl_module"] = "live"
        PROVE  HoldsMutex'
    <3>1. UNCHANGED pc /\ mutexlock' \in {NoTask, mutexlock}
      BY <2>3 DEF Loader, InsmodStatic, Insmod, RmmodBegin, CleanupHead, RmmodEnd,
         taskVars
    <3> QED
      BY <2>1, <2>3, <3>1 DEF HoldsMutex
  <2> QED
    BY <1>4, <2>2, <2>3 DEF SystemStep, MutexFree
<1>5. CASE ShowCrashes
  BY <1>5 DEF ShowCrashes, Ends, HoldsMutex, Reading
<1>6. CASE UNCHANGED readersVars
  BY <1>6 DEF readersVars, showVars, vars, registryVars, taskVars, ShowInv,
     HoldsMutex, Reading
<1> QED
  BY <1>1, <1>2, <1>3, <1>4, <1>5, <1>6 DEF ReadersNext

(* While a SHOW is served its caller stays in the kernel, ioctl_module stays *)
(* in, no other request begins, and what the walk keeps is well-formed.      *)
THEOREM ShowExcludesRequests == ReadersSpec => []ShowInv
<1>1. ReadersInit => ShowInv
  BY EmptySeq DEF ReadersInit, ShowInv, ShowTypeOK, HoldsMutex, Reading
<1>2. ASSUME TypeOK, ListedOnce, LoaderInv, ShowInv, [ReadersNext]_readersVars
      PROVE  ShowInv'
  <2>1. ShowTypeOK'
    <3>1. CASE UNCHANGED readersVars
      BY <1>2, <3>1 DEF readersVars, showVars, ShowInv, ShowTypeOK
    <3>2. CASE ShowCrashes
      BY <3>2, EndsType DEF ShowCrashes
    <3> QED
      BY <1>2, <3>1, <3>2, ShowBeginType, ShowStepType, SystemStepType DEF ReadersNext
  <2> QED
    BY <1>2, <2>1, StepHoldsMutex DEF ShowInv
<1> QED
  BY <1>1, <1>2, ReadersImplementSystem, TypeCorrect, ListedOnceAlways,
     LoaderCorrect, PTL DEF ReadersSpec

-------------------------------------------------------------------------------
(* What SHOW_ALL shows. *)

(* Of the vectors that were there when a quiet SHOW began, none is lost.     *)
LEMMA PresentListed ==
  ASSUME TypeOK, ShowInv, PresentKept, Reading, quiet
  PROVE  /\ Len(vec_list) \in Nat /\ Len(present) \in Nat
         /\ DOMAIN vec_list = 1 .. Len(vec_list)
         /\ DOMAIN present = 1 .. Len(present)
         /\ \A i \in DOMAIN present : present[i] \in Listed /\ present[i] \in Node
<1>1. /\ Len(vec_list) \in Nat /\ Len(present) \in Nat
      /\ DOMAIN vec_list = 1 .. Len(vec_list)
      /\ DOMAIN present = 1 .. Len(present)
  BY LenProperties DEF TypeOK, RegistryTypeOK, ShowInv, ShowTypeOK
<1>2. ASSUME NEW i \in DOMAIN present
      PROVE  present[i] \in Listed
  <2>1. Len(vec_list) - Len(present) + i \in DOMAIN vec_list
    BY <1>1 DEF PresentKept
  <2> QED
    BY <2>1 DEF PresentKept, Listed
<1> QED
  BY <1>1, <1>2, ListedNodes DEF TypeOK

LEMMA QuietStep ==
  ASSUME TypeOK, ListedOnce, ShowInv, SystemStep, Reading', quiet'
  PROVE  /\ Reading /\ quiet /\ present' = present
         /\ show'.kind = show.kind /\ show'.stage = show.stage
         /\ show'.text = show.text /\ show'.at = show.at
         /\ (UNCHANGED vec_list /\ SameNodes) \/ Added
<1>1. Reading /\ quiet /\ Listed \subseteq Listed'
  BY DEF SystemStep, Gone, Reading
<1>2. show \in Show
  BY <1>1 DEF ShowInv, ShowTypeOK, Reading
<1>3. /\ show'.kind = show.kind /\ show'.stage = show.stage
      /\ show'.text = show.text /\ show'.at = show.at
  BY <1>2 DEF SystemStep, Show
<1>4. ~ Removed
  BY <1>1, RemovedOnce DEF Removed, TypeOK
<1>5. [Next]_vars
  BY StepIsSystemStep DEF ReadersNext
<1> QED
  BY <1>1, <1>3, <1>4, <1>5, StepOfList DEF SystemStep

LEMMA StepKeepsPresent ==
  ASSUME TypeOK, ListedOnce, ShowInv, PresentKept, [ReadersNext]_readersVars
  PROVE  PresentKept'
<1>1. CASE ShowBegin /\ UNCHANGED vars
  <2>1. present' = vec_list /\ vec_list' = vec_list
    BY <1>1 DEF ShowBegin, ShowAll, ShowMine, VectorForPid, Begins, vars, registryVars
  <2>2. Len(vec_list) \in Nat /\ DOMAIN vec_list = 1 .. Len(vec_list)
    BY LenProperties DEF TypeOK, RegistryTypeOK
  <2> QED
    BY <2>1, <2>2 DEF PresentKept
<1>2. CASE ShowStep /\ UNCHANGED vars
  <2>1. CASE ShowReturns
    BY <2>1 DEF ShowReturns, Ends, PresentKept, Reading
  <2>2. CASE ~ ShowReturns
    <3>1. Reading /\ UNCHANGED <<present, quiet, vec_list>>
      BY <1>2, <2>2 DEF ShowStep, ReadSubject, WalkEnds, VisitAll, VisitMine,
         VisitFreed, MayVisit, Walking, Shows, Step, vars, registryVars
    <3> QED
      BY <3>1 DEF PresentKept
  <2> QED
    BY <2>1, <2>2
<1>3. CASE SystemStep
  <2> SUFFICES ASSUME Reading', quiet'
               PROVE  PresentKept'
    BY DEF PresentKept
  <2>1. Reading /\ quiet /\ present' = present
    BY <1>3, QuietStep
  <2>2. /\ Len(vec_list) \in Nat /\ Len(present) \in Nat
        /\ DOMAIN present = 1 .. Len(present)
    BY <2>1, PresentListed
  <2>3. CASE UNCHANGED vec_list
    BY <2>1, <2>3 DEF PresentKept
  <2>4. CASE Added
    <3>1. PICK n \in Node : vec_list' = <<n>> \o vec_list
      BY <2>4 DEF Added
    <3>2. /\ Len(vec_list') = Len(vec_list) + 1
          /\ \A j \in 2 .. (Len(vec_list) + 1) : vec_list'[j] = vec_list[j - 1]
      BY <3>1, AddHeadProperties DEF TypeOK, RegistryTypeOK
    <3>3. ASSUME NEW i \in DOMAIN present
          PROVE  present[i] = vec_list'[Len(vec_list') - Len(present) + i]
      <4> DEFINE k == Len(vec_list) - Len(present) + i
      <4>1. k + 1 \in 2 .. (Len(vec_list) + 1) /\ (k + 1) - 1 = k
        BY <2>1, <2>2 DEF PresentKept
      <4>2. present[i] = vec_list[k]
        BY <2>1 DEF PresentKept
      <4>3. Len(vec_list') - Len(present) + i = k + 1
        BY <2>2, <3>2
      <4> HIDE DEF k
      <4> QED
        BY <3>2, <4>1, <4>2, <4>3
    <3> QED
      BY <2>1, <2>2, <3>2, <3>3 DEF PresentKept
  <2> QED
    BY <1>3, <2>3, <2>4, QuietStep
<1>4. CASE ShowCrashes
  BY <1>4 DEF ShowCrashes, Ends, PresentKept, Reading
<1>5. CASE UNCHANGED readersVars
  BY <1>5 DEF readersVars, showVars, vars, registryVars, PresentKept, Reading
<1> QED
  BY <1>1, <1>2, <1>3, <1>4, <1>5 DEF ReadersNext

(* One iteration of show_all_vectors shows the next of the vectors that were *)
(* present and moves to the one after it.                                    *)
LEMMA VisitShowsNext ==
  ASSUME TypeOK, ListedOnce, ShowInv, WalkInv, VisitAll, UNCHANGED vars, quiet
  PROVE  ShownSoFar'
<1> DEFINE m == Len(show.text) + 1
<1>1. /\ Reading /\ show \in Show /\ show.kind = "all" /\ show.stage = "walk"
      /\ show.at # HEAD
      /\ UNCHANGED <<present, quiet, vec_list, node>>
  BY DEF VisitAll, MayVisit, Walking, Shows, Step, ShowInv, ShowTypeOK, Reading, vars,
         registryVars
<1>2. /\ Len(vec_list) \in Nat /\ Len(present) \in Nat
      /\ DOMAIN vec_list = 1 .. Len(vec_list)
      /\ DOMAIN present = 1 .. Len(present)
      /\ \A i \in DOMAIN present : present[i] \in Listed /\ present[i] \in Node
  BY <1>1, PresentListed DEF WalkInv
<1>3. /\ show.text \in Seq(Bitmap) /\ Len(show.text) \in Nat
      /\ DOMAIN show.text = 1 .. Len(show.text)
  BY <1>1, LenProperties DEF Show
<1>4. m \in DOMAIN present /\ show.at = present[m]
  BY <1>1, <1>2, <1>3 DEF WalkInv, ShownSoFar
<1>5. node[show.at].bitmap \in Bitmap
  BY <1>2, <1>4 DEF TypeOK, RegistryTypeOK, Vector
<1>6. /\ show'.text = Append(show.text, node[show.at].bitmap)
      /\ show'.at = NextOf(show.at)
      /\ show'.kind = "all" /\ show'.stage = "walk"
  BY <1>1 DEF VisitAll, Shows, Step, Show
<1>7. /\ Len(show'.text) = m
      /\ DOMAIN show'.text = 1 .. m
      /\ \A i \in 1 .. Len(show.text) : show'.text[i] = show.text[i]
      /\ show'.text[m] = node[present[m]].bitmap
  BY <1>3, <1>4, <1>5, <1>6, AppendProperties, LenProperties
<1>8. show'.at = IF m = Len(present) THEN HEAD ELSE present[m + 1]
  <2> DEFINE k == Len(vec_list) - Len(present) + m
  <2>1. k \in 1 .. Len(vec_list) /\ present[m] = vec_list[k]
    <3> HIDE DEF m
    <3>1. /\ Len(present) <= Len(vec_list)
          /\ \A i \in DOMAIN present :
               present[i] = vec_list[Len(vec_list) - Len(present) + i]
      BY <1>1 DEF WalkInv, PresentKept
    <3> QED
      BY <1>2, <1>4, <3>1
  <2>2. k < Len(vec_list) <=> m < Len(present)
    BY <1>2, <1>3
  <2>3. m < Len(present) => present[m + 1] = vec_list[k + 1]
    <3>1. Len(vec_list) - Len(present) + (m + 1) = k + 1
      BY <1>2, <1>3
    <3>2. m < Len(present) => m + 1 \in DOMAIN present
      BY <1>2, <1>3
    <3> QED
      BY <1>1, <3>1, <3>2 DEF WalkInv, PresentKept
  <2>4. m <= Len(present) /\ m \in Nat
    BY <1>2, <1>3, <1>4
  <2> HIDE DEF k, m
  <2>5. NextOf(present[m]) = IF k < Len(vec_list) THEN vec_list[k + 1] ELSE HEAD
    BY <2>1, NextOfNode DEF TypeOK
  <2> QED
    BY <1>2, <1>4, <1>6, <2>2, <2>3, <2>4, <2>5
<1>9. ASSUME NEW i \in DOMAIN show'.text
      PROVE  show'.text[i] = node[present[i]].bitmap
  <2>1. CASE i = m
    BY <1>7, <2>1
  <2>2. CASE i # m
    BY <1>1, <1>3, <1>7, <2>2 DEF WalkInv, ShownSoFar
  <2> QED
    BY <2>1, <2>2
<1>10. m <= Len(present)
  BY <1>2, <1>4
<1> HIDE DEF m
<1> QED
  BY <1>1, <1>6, <1>7, <1>8, <1>9, <1>10 DEF ShownSoFar

LEMMA StepKeepsShown ==
  ASSUME TypeOK, ListedOnce, ShowInv, WalkInv, [ReadersNext]_readersVars
  PROVE  ShownSoFar'
<1>1. CASE ShowBegin /\ UNCHANGED vars
  <2> SUFFICES ASSUME Reading', show'.kind = "all"
               PROVE  ShownSoFar'
    BY DEF ShownSoFar
  <2>1. /\ show'.stage = "walk" /\ show'.at = First /\ show'.text = <<>>
        /\ present' = vec_list
    BY <1>1 DEF ShowBegin, ShowAll, ShowMine, VectorForPid, Begins
  <2>2. /\ Len(vec_list) \in Nat
        /\ First = IF Len(vec_list) = 0 THEN HEAD ELSE vec_list[1]
    BY EmptySeq, LenProperties DEF First, TypeOK, RegistryTypeOK
  <2> QED
    BY <2>1, <2>2 DEF ShownSoFar
<1>2. CASE ShowStep /\ UNCHANGED vars
  <2> SUFFICES ASSUME Reading', quiet', show'.kind = "all"
               PROVE  ShownSoFar'
    BY DEF ShownSoFar
  <2>1. ~ ShowReturns
    BY DEF ShowReturns, Ends, Reading
  <2>2. /\ Reading /\ show \in Show
        /\ UNCHANGED <<present, quiet, vec_list, node>>
    BY <1>2, <2>1 DEF ShowStep, ReadSubject, WalkEnds, VisitAll, VisitMine, VisitFreed,
       MayVisit, Walking, Shows, Step, vars, registryVars, ShowInv, ShowTypeOK, Reading
  <2>3. show.kind = "all"
    BY <1>2, <2>1, <2>2, SameCaller
  <2>4. CASE ReadSubject
    BY <2>2, <2>3, <2>4 DEF ReadSubject, WalkInv, ShownSoFar
  <2>5. CASE WalkEnds
    <3>1. /\ show'.stage \in {"copy", "oops"} /\ show'.text = show.text
          /\ show.stage = "walk"
      BY <2>2, <2>5 DEF WalkEnds, Walking, Step, Show
    <3>2. Full' = Full
      BY <3>1 DEF Full, ret
    <3>3. Len(show.text) = Len(present) \/ show.at # HEAD
      <4>1. /\ Len(present) \in Nat
            /\ DOMAIN present = 1 .. Len(present)
            /\ \A i \in DOMAIN present : present[i] \in Node
        BY <2>2, PresentListed DEF WalkInv
      <4>2. Len(show.text) \in Nat /\ Len(show.text) <= Len(present)
        BY <2>2, <2>3, LenProperties DEF Show, WalkInv, ShownSoFar
      <4> QED
        BY <2>2, <2>3, <3>1, <4>1, <4>2, HeadAssumption DEF WalkInv, ShownSoFar, HEAD
    <3>4. ~ Full => Len(show.text) = Len(present)
      <4>1. show.at = HEAD \/ Full
        BY <2>5 DEF WalkEnds
      <4> QED
        BY <3>3, <4>1
    <3> QED
      BY <2>2, <2>3, <3>1, <3>2, <3>4 DEF WalkInv, ShownSoFar
  <2>6. CASE VisitAll
    BY <1>2, <2>2, <2>6, VisitShowsNext
  <2>7. ~ VisitMine
    BY <2>3 DEF VisitMine
  <2>8. ~ VisitFreed
    <3>1. CASE show.stage = "walk" /\ show.at # HEAD
      <4>1. /\ Len(present) \in Nat
            /\ DOMAIN present = 1 .. Len(present)
            /\ \A i \in DOMAIN present : present[i] \in Listed
        BY <2>2, PresentListed DEF WalkInv
      <4>2. Len(show.text) \in Nat /\ Len(show.text) <= Len(present)
        BY <2>2, <2>3, LenProperties DEF Show, WalkInv, ShownSoFar
      <4>3. show.at \in Listed
        BY <2>2, <2>3, <3>1, <4>1, <4>2 DEF WalkInv, ShownSoFar
      <4> QED
        BY <4>3 DEF VisitFreed
    <3> QED
      BY <3>1 DEF VisitFreed, MayVisit, Walking
  <2> QED
    BY <1>2, <2>1, <2>4, <2>5, <2>6, <2>7, <2>8 DEF ShowStep
<1>3. CASE SystemStep
  <2> SUFFICES ASSUME Reading', quiet', show'.kind = "all"
               PROVE  ShownSoFar'
    BY DEF ShownSoFar
  <2>1. /\ Reading /\ quiet /\ present' = present
        /\ show'.kind = show.kind /\ show'.stage = show.stage
        /\ show'.text = show.text /\ show'.at = show.at
        /\ (UNCHANGED vec_list /\ SameNodes) \/ Added
    BY <1>3, QuietStep
  <2>2. /\ Len(present) \in Nat
        /\ DOMAIN present = 1 .. Len(present)
        /\ \A i \in DOMAIN present : present[i] \in Listed /\ present[i] \in Node
    BY <2>1, PresentListed DEF WalkInv
  <2>3. \A i \in DOMAIN present : node'[present[i]].bitmap = node[present[i]].bitmap
    BY <2>1, <2>2 DEF SameNodes, Added
  <2>4. \A i \in DOMAIN show.text : i \in DOMAIN present
    <3>1. DOMAIN show.text = 1 .. Len(show.text) /\ Len(show.text) \in Nat
      BY <2>1, LenProperties DEF ShowInv, ShowTypeOK, Reading, Show
    <3> QED
      BY <2>1, <2>2, <3>1 DEF WalkInv, ShownSoFar
  <2>5. Full' = Full
    BY <2>1 DEF Full, ret
  <2> QED
    BY <2>1, <2>3, <2>4, <2>5 DEF WalkInv, ShownSoFar
<1>4. CASE ShowCrashes
  BY <1>4 DEF ShowCrashes, Ends, ShownSoFar, Reading
<1>5. CASE UNCHANGED readersVars
  <2>1. UNCHANGED <<show, present, quiet, node>>
    BY <1>5 DEF readersVars, showVars, vars, registryVars
  <2>2. Full' = Full
    BY <2>1 DEF Full, ret
  <2> QED
    BY <2>1, <2>2 DEF WalkInv, ShownSoFar, Reading
<1> QED
  BY <1>1, <1>2, <1>3, <1>4, <1>5 DEF ReadersNext

(* Of what was present when it began, SHOW_ALL has shown what lies before    *)
(* its cursor.                                                               *)
THEOREM WalksShowInOrder == ReadersSpec => []WalkInv
<1>1. ReadersInit => WalkInv
  BY DEF ReadersInit, WalkInv, PresentKept, ShownSoFar, Reading
<1>2. TypeOK /\ ListedOnce /\ ShowInv /\ WalkInv /\ [ReadersNext]_readersVars
        => WalkInv'
  BY StepKeepsPresent, StepKeepsShown DEF WalkInv
<1> QED
  BY <1>1, <1>2, ReadersImplementSystem, TypeCorrect, ListedOnceAlways,
     ShowExcludesRequests, PTL DEF ReadersSpec

(* What SHOW_ALL shows are vectors that were there when it began, in their   *)
(* order and each once, and all of them if they fit into the BUF_LEN bytes   *)
(* custom_ioctl copies to the user, whatever is registered meanwhile, if     *)
(* nothing is unregistered.                                                  *)
THEOREM ShowAllIsComplete == ReadersSpec => []ShowAllComplete
<1>1. ASSUME TypeOK, ShowInv, WalkInv
      PROVE  ShowAllComplete
  <2> SUFFICES ASSUME Reading, quiet, show.kind = "all", show.stage = "copy"
               PROVE  LET all == [i \in DOMAIN present |-> node[present[i]].bitmap] IN
                      /\ IsPrefix(show.text, all)
                      /\ ret \in 0 .. BUF_LEN => show.text = all
    BY DEF ShowAllComplete
  <2> DEFINE all == [i \in DOMAIN present |-> node[present[i]].bitmap]
  <2>1. /\ Len(present) \in Nat
        /\ DOMAIN present = 1 .. Len(present)
        /\ \A i \in DOMAIN present : present[i] \in Node
    BY <1>1, PresentListed DEF WalkInv
  <2>2. all \in Seq(Bitmap) /\ Len(all) = Len(present)
    <3>1. \A i \in 1 .. Len(present) : all[i] \in Bitmap
      BY <1>1, <2>1 DEF TypeOK, RegistryTypeOK, Vector
    <3> QED
      BY <2>1, <3>1
  <2>3. /\ show.text \in Seq(Bitmap) /\ Len(show.text) \in Nat
        /\ DOMAIN show.text = 1 .. Len(show.text)
    BY <1>1, LenProperties DEF ShowInv, ShowTypeOK, Reading, Show
  <2>4. /\ Len(show.text) <= Len(present)
        /\ \A i \in 1 .. Len(show.text) : show.text[i] = all[i]
        /\ ~ Full => Len(show.text) = Len(present)
    BY <1>1, <2>1, <2>3 DEF WalkInv, ShownSoFar
  <2> HIDE DEF all
  <2>5. ret \in 0 .. BUF_LEN => show.text = all
    <3>1. ret \in 0 .. BUF_LEN => ~ Full
      BY BufferAssumption DEF Full
    <3> QED
      BY <2>2, <2>3, <2>4, <3>1, SeqEqual
  <2>6. IsPrefix(show.text, all)
    <3> DEFINE n == Len(show.text)
               s == SubSeq(show.text, 1, n)
               u == SubSeq(all, 1, n)
    <3>1. \A i \in 1 .. n : show.text[i] \in Bitmap /\ all[i] \in Bitmap
      BY <2>2, <2>3, <2>4, ElementOfSeq
    <3>2. s \in Seq(Bitmap) /\ Len(s) = n /\ \A i \in 1 .. n : s[i] = show.text[i]
      BY <2>3, <3>1, SubSeqProperties
    <3>3. u \in Seq(Bitmap) /\ Len(u) = n /\ \A i \in 1 .. n : u[i] = all[i]
      BY <2>3, <3>1, SubSeqProperties
    <3> HIDE DEF s, u
    <3>4. s = u
      BY <2>4, <3>2, <3>3, SeqEqual
    <3> QED
      BY <2>2, <2>4, <3>4 DEF IsPrefix, s, u
  <2> QED
    BY <2>5, <2>6 DEF all
<1> QED
  BY <1>1, ReadersImplementSystem, TypeCorrect, ShowExcludesRequests,
     WalksShowInOrder, PTL

-------------------------------------------------------------------------------
(* What SHOW_MINE and VECTOR_FOR_PID show. *)

LEMMA FirstListed ==
  ASSUME RegistryTypeOK
  PROVE  First \in Listed \cup {HEAD}
<1>1. vec_list # <<>> => 1 \in DOMAIN vec_list
  BY EmptySeq, LenProperties DEF RegistryTypeOK
<1> QED
  BY <1>1 DEF First, Listed

(* A SHOW is told nothing, but that its subject has exited.                  *)
LEMMA SubjectStays ==
  ASSUME TypeOK, ShowInv, SystemStep, Reading', show'.subject # NoTask,
         Alive(show.subject)
  PROVE  /\ Reading /\ show' = show
         /\ info'[show.subject] = info[show.subject]
         /\ Alive(show.subject)'
<1> DEFINE s == show.subject
<1>1. Reading /\ ~ Gone /\ show' = show
  <2>1. Reading
    BY DEF SystemStep, Gone, Reading
  <2>2. show \in Show
    BY <2>1 DEF ShowInv, ShowTypeOK, Reading
  <2>3. ~ Gone
    BY <2>2 DEF SystemStep, Show
  <2> QED
    BY <2>1, <2>3 DEF SystemStep
<1>2. s \in Task /\ Alive(s) /\ pc'[s] \notin Ended
  <2>1. s \in Task
    BY <1>1 DEF ShowInv, ShowTypeOK, Reading, Show
  <2> QED
    BY <1>1, <2>1 DEF Gone
<1> HIDE DEF s
<1>3. ASSUME NEW t \in Task, Process(t)
      PROVE  info'[s] = info[s]
  <2>1. CASE info' = info
    BY <2>1
  <2>2. ASSUME NEW child \in Task, CloneForks(t, child)
        PROVE  info'[s] = info[s]
    <3>1. child # s
      BY <1>2, <2>2 DEF CloneForks, Alive, Ended
    <3> QED
      BY <1>2, <2>2, <3>1 DEF CloneForks, TypeOK
  <2>3. CASE Exit(t)
    <3>1. t # s
      BY <1>2, <2>3 DEF Exit, EndsTask, TypeOK, Ended
    <3> QED
      BY <1>2, <2>3, <3>1 DEF Exit, EndsTask, TypeOK
  <2> QED
    BY <1>3, <2>1, <2>2, <2>3 DEF Process, CloneInherit, KernelCounts, ForkInherit,
       CloneById, Fork, CloneFails
<1>4. Loader => info' = info
  BY DEF Loader, InsmodStatic, Insmod, RmmodBegin, CleanupHead, RmmodEnd, taskVars
<1>5. info'[s] = info[s]
  BY <1>1, <1>3, <1>4 DEF SystemStep, MutexFree
<1> QED
  BY <1>1, <1>2, <1>5 DEF s, Alive

(* A vector that is added while a task has one is not the one it has.        *)
LEMMA AddedIsNotMine ==
  ASSUME LifetimeInv, NEW s \in Task, info[s] # NULL, NEW a \in FreeAddr \cup {NULL}
  PROVE  a # info[s]
<1>1. TypeOK /\ RegistryInv /\ CountInv
  BY DEF LifetimeInv
<1>2. Held(info[s])
  BY DEF Held, Assigned
<1> QED
  BY <1>1, <1>2, FreshUnheld

(* No walk has passed anything when it begins, and has passed all when it    *)
(* is back at vec_list_head.                                                 *)
LEMMA PassedEnds ==
  ASSUME TypeOK
  PROVE  /\ \A i \in DOMAIN vec_list : ~ \A j \in 1 .. i : vec_list[j] # First
         /\ \A i \in DOMAIN vec_list : \A j \in 1 .. i : vec_list[j] # HEAD
<1>1. Len(vec_list) \in Nat /\ DOMAIN vec_list = 1 .. Len(vec_list)
  BY LenProperties DEF TypeOK, RegistryTypeOK
<1>2. ASSUME NEW i \in DOMAIN vec_list
      PROVE  ~ \A j \in 1 .. i : vec_list[j] # First
  <2>1. 1 \in 1 .. i /\ vec_list # <<>>
    BY <1>1, EmptySeq
  <2>2. vec_list[1] = First
    BY <2>1 DEF First
  <2> QED
    BY <2>1, <2>2
<1>3. ASSUME NEW i \in DOMAIN vec_list, NEW j \in 1 .. i
      PROVE  vec_list[j] # HEAD
  <2>1. j \in DOMAIN vec_list
    BY <1>1
  <2>2. vec_list[j] \in Node
    BY <2>1, ListedNodes DEF TypeOK
  <2> QED
    BY <2>2, HeadAssumption DEF HEAD
<1> QED
  BY <1>2, <1>3

LEMMA BeginKeepsSubject ==
  ASSUME TypeOK, ShowInv, ShowBegin, UNCHANGED vars
  PROVE  SubjectInv'
<1>1. /\ UNCHANGED <<vec_list, node, info, pc>>
      /\ First \in Listed \cup {HEAD} /\ Listed' = Listed
  BY FirstListed DEF vars, registryVars, taskVars, TypeOK, Listed
<1>2. ASSUME NEW t \in Task, ShowMine(t)
      PROVE  SubjectInv'
  <2>1. /\ show'.kind = "mine" /\ show'.subject = t /\ show'.sought = info[t]
        /\ show'.at = First /\ show'.text = <<>> /\ Alive(t)
        /\ show'.stage = IF info[t] = NULL THEN "copy" ELSE "walk"
    BY <1>2 DEF ShowMine, Begins, IoctlReady, Alive, Ended, Crashed
  <2>2. SoughtAhead'
    BY <1>1, <2>1, PassedEnds DEF Passed, SoughtAhead
  <2>3. info[t] = NULL => Mine(t)' = {}
    BY <1>1 DEF Mine
  <2> QED
    BY <1>1, <2>1, <2>2, <2>3 DEF SubjectInv, Alive
<1>3. ASSUME NEW t \in Task, NEW s \in Task, VectorForPid(t, s)
      PROVE  SubjectInv'
  <2>1. CASE Begins(t, "pid", "oops", NoTask, NULL, HEAD)
    <3>1. show'.subject = NoTask
      BY <2>1 DEF Begins
    <3> QED
      BY <3>1 DEF SubjectInv
  <2>2. CASE Alive(s) /\ Begins(t, "pid", "task", s, NULL, HEAD)
    <3>1. /\ show'.kind = "pid" /\ show'.subject = s /\ show'.stage = "task"
          /\ show'.text = <<>>
      BY <2>2 DEF Begins
    <3> QED
      BY <1>1, <2>2, <3>1 DEF SubjectInv, Alive
  <2> QED
    BY <1>3, <2>1, <2>2 DEF VectorForPid
<1>4. ASSUME NEW t \in Task, ShowAll(t)
      PROVE  SubjectInv'
  <2>1. show'.subject = NoTask
    BY <1>4 DEF ShowAll, Begins
  <2> QED
    BY <2>1 DEF SubjectInv
<1> QED
  BY <1>2, <1>3, <1>4 DEF ShowBegin

(* One iteration of show_my_vector past another vector.                      *)
LEMMA PassesOther ==
  ASSUME TypeOK, ListedOnce, UNCHANGED <<vec_list, node>>,
         show.at \in Listed, node[show.at].addr # show.sought,
         SoughtAhead,
         show'.at = NextOf(show.at), show'.sought = show.sought
  PROVE  /\ show'.at \in Listed' \cup {HEAD}
         /\ SoughtAhead'
<1>0. RegistryTypeOK /\ Len(vec_list) \in Nat /\ DOMAIN vec_list = 1 .. Len(vec_list)
  BY LenProperties DEF TypeOK, RegistryTypeOK
<1>1. PICK k \in 1 .. Len(vec_list) : vec_list[k] = show.at
  BY <1>0 DEF Listed
<1>2. show'.at = IF k < Len(vec_list) THEN vec_list[k + 1] ELSE HEAD
  BY <1>0, <1>1, NextOfNode
<1>3. show'.at \in Listed' \cup {HEAD}
  BY <1>0, NextOfListed DEF Listed
<1>4. ASSUME NEW i \in Passed'
      PROVE  node[vec_list[i]].addr # show.sought
  <2>1. i \in 1 .. Len(vec_list) /\ \A j \in 1 .. i : vec_list[j] # show'.at
    BY <1>0, <1>4 DEF Passed
  <2>2. i <= k
    BY <1>2, <2>1
  <2>3. CASE i = k
    BY <1>1, <2>3
  <2>4. CASE i # k
    <3>1. \A j \in 1 .. i : vec_list[j] # show.at
      BY <1>0, <1>1, <2>1, <2>2, <2>4 DEF ListedOnce
    <3>2. i \in Passed
      BY <1>0, <2>1, <3>1 DEF Passed
    <3> QED
      BY <3>2 DEF SoughtAhead
  <2> QED
    BY <2>3, <2>4
<1> QED
  BY <1>3, <1>4 DEF SoughtAhead

LEMMA WalkKeepsSubject ==
  ASSUME TypeOK, ListedOnce, ShowInv, SubjectInv, ShowStep, UNCHANGED vars
  PROVE  SubjectInv'
<1> SUFFICES ASSUME Reading', quiet', show'.subject # NoTask
             PROVE  SubjectInv'
  BY DEF SubjectInv
<1>0. DOMAIN vec_list = 1 .. Len(vec_list)
  BY LenProperties DEF TypeOK, RegistryTypeOK
<1>1. ~ ShowReturns
  BY DEF ShowReturns, Ends, Reading
<1>2. /\ Reading /\ show \in Show /\ quiet
      /\ UNCHANGED <<vec_list, node, info, pc>> /\ Listed' = Listed
  <2>1. Reading /\ quiet
    BY <1>1 DEF ShowStep, ReadSubject, WalkEnds, VisitAll, VisitMine, VisitFreed,
       MayVisit, Walking, Shows, Step
  <2>2. UNCHANGED <<vec_list, node, info, pc>>
    BY DEF vars, registryVars, taskVars
  <2> QED
    BY <2>1, <2>2 DEF ShowInv, ShowTypeOK, Reading, Listed
<1> DEFINE s == show.subject
<1>3. s # NoTask /\ show'.subject = s /\ show'.kind = show.kind
  BY <1>1, <1>2 DEF ShowStep, ReadSubject, WalkEnds, VisitAll, VisitMine, VisitFreed,
     Shows, Step, Show
<1>4. Alive(s) /\ Alive(s)' /\ show.kind # "all"
  BY <1>2, <1>3 DEF SubjectInv, Alive
<1>5. Mine(s)' = Mine(s)
  BY <1>2, <1>3 DEF Mine
<1>6. CASE ReadSubject
  <2>1. /\ show.stage = "task" /\ show'.sought = info[s] /\ show'.at = First
        /\ show'.text = show.text
        /\ show'.stage = IF info[s] = NULL THEN "copy" ELSE "walk"
    BY <1>2, <1>3, <1>6 DEF ReadSubject, Step, Show
  <2>2. SoughtAhead'
    BY <1>2, <2>1, PassedEnds DEF Passed, SoughtAhead
  <2>3. show.text = <<>> /\ (info[s] = NULL => Mine(s) = {})
    BY <1>2, <1>3, <2>1 DEF SubjectInv, Mine
  <2>4. First \in Listed \cup {HEAD}
    BY FirstListed DEF TypeOK
  <2> QED
    BY <1>2, <1>3, <1>4, <1>5, <2>1, <2>2, <2>3, <2>4 DEF SubjectInv
<1>7. CASE WalkEnds
  <2>1. /\ show.stage = "walk" /\ show.at = HEAD
        /\ show'.stage = "copy" /\ show'.text = show.text /\ show'.sought = show.sought
    BY <1>2, <1>4, <1>7 DEF WalkEnds, Overruns, Walking, Step, Show
  <2>2. /\ show.text = <<>> /\ show.sought = info[s]
        /\ SoughtAhead
    BY <1>2, <1>3, <2>1 DEF SubjectInv
  <2>3. Passed = DOMAIN vec_list
    BY <2>1, PassedEnds DEF Passed
  <2>4. Mine(s) = {}
    BY <1>0, <2>2, <2>3 DEF Mine, Listed, SoughtAhead
  <2> QED
    BY <1>2, <1>3, <1>4, <1>5, <2>1, <2>2, <2>4 DEF SubjectInv
<1>8. ~ VisitAll
  BY <1>4 DEF VisitAll
<1>9. CASE VisitMine
  <2>1. /\ show.stage = "walk" /\ show.at \in Listed
        /\ show.sought = info[s] /\ show.sought # NULL /\ show.text = <<>>
        /\ SoughtAhead
    BY <1>2, <1>3, <1>9 DEF VisitMine, MayVisit, Walking, SubjectInv
  <2>2. CASE node[show.at].addr = show.sought
    <3>1. /\ show'.stage = "copy" /\ show'.sought = show.sought
          /\ show'.text = Append(<<>>, node[show.at].bitmap)
      BY <1>2, <1>9, <2>1, <2>2 DEF VisitMine, Shows, Step, Show
    <3>2. show'.text = <<node[show.at].bitmap>>
      BY <3>1
    <3>3. show.at \in Mine(s)
      BY <2>1, <2>2 DEF Mine
    <3> QED
      BY <1>2, <1>3, <1>4, <1>5, <2>1, <3>1, <3>2, <3>3 DEF SubjectInv
  <2>3. CASE node[show.at].addr # show.sought
    <3>1. /\ show'.stage = "walk" /\ show'.sought = show.sought
          /\ show'.text = <<>> /\ show'.at = NextOf(show.at)
      BY <1>2, <1>9, <2>1, <2>3 DEF VisitMine, Step, Show
    <3>2. /\ show'.at \in Listed' \cup {HEAD}
          /\ SoughtAhead'
      BY <1>2, <2>1, <2>3, <3>1, PassesOther
    <3> QED
      BY <1>2, <1>3, <1>4, <2>1, <3>1, <3>2 DEF SubjectInv
  <2> QED
    BY <2>2, <2>3
<1>10. ~ VisitFreed
  BY <1>2, <1>3 DEF VisitFreed, MayVisit, Walking, SubjectInv
<1> QED
  BY <1>1, <1>6, <1>7, <1>8, <1>9, <1>10 DEF ShowStep

(* A vector is added at the head of the list, before what a walk has passed. *)
LEMMA AddedIsPassed ==
  ASSUME TypeOK, Added, show' = show, SoughtAhead,
         \A n \in Node \ Listed : vec_list' = <<n>> \o vec_list
                                    => node'[n].addr # show.sought
  PROVE  SoughtAhead'
<1>0. RegistryTypeOK /\ Len(vec_list) \in Nat /\ DOMAIN vec_list = 1 .. Len(vec_list)
  BY LenProperties DEF TypeOK, RegistryTypeOK
<1>1. PICK n \in Node \ Listed : /\ vec_list' = <<n>> \o vec_list
                                 /\ \A k \in Node \ {n} : node'[k] = node[k]
  BY DEF Added
<1>2. /\ DOMAIN vec_list' = 1 .. (Len(vec_list) + 1)
      /\ vec_list'[1] = n
      /\ \A j \in 2 .. (Len(vec_list) + 1) : vec_list'[j] = vec_list[j - 1]
  BY <1>0, <1>1, AddHeadProperties, LenProperties DEF RegistryTypeOK
<1>3. ASSUME NEW i \in Passed'
      PROVE  node'[vec_list'[i]].addr # show.sought
  <2>1. i \in DOMAIN vec_list' /\ \A j \in 1 .. i : vec_list'[j] # show.at
    BY <1>3 DEF Passed
  <2>2. CASE i = 1
    BY <1>1, <1>2, <2>2
  <2>3. CASE i # 1
    <3> DEFINE k == i - 1
    <3>1. k \in 1 .. Len(vec_list) /\ vec_list'[i] = vec_list[k]
      BY <1>0, <1>2, <2>1, <2>3
    <3>2. ASSUME NEW j \in 1 .. k
          PROVE  vec_list[j] # show.at
      <4>1. j + 1 \in 2 .. (Len(vec_list) + 1) /\ j + 1 \in 1 .. i /\ (j + 1) - 1 = j
        BY <1>0, <1>2, <2>1, <3>1
      <4>2. vec_list'[j + 1] = vec_list[j]
        BY <1>2, <4>1
      <4> QED
        BY <2>1, <4>1, <4>2
    <3> HIDE DEF k
    <3>3. k \in Passed
      BY <1>0, <3>1, <3>2 DEF Passed
    <3>4. vec_list[k] \in Node /\ vec_list[k] # n
      BY <1>0, <1>1, <3>1, ListedNodes DEF Listed
    <3> QED
      BY <1>1, <3>1, <3>3, <3>4 DEF SoughtAhead
  <2> QED
    BY <2>2, <2>3
<1> QED
  BY <1>3 DEF SoughtAhead

LEMMA SystemKeepsSubject ==
  ASSUME LifetimeInv, ListedOnce, ShowInv, SubjectInv, SystemStep
  PROVE  SubjectInv'
<1> SUFFICES ASSUME Reading', quiet', show'.subject # NoTask
             PROVE  SubjectInv'
  BY DEF SubjectInv
<1> DEFINE s == show.subject
<1>1. TypeOK
  BY DEF LifetimeInv
<1>2. Reading /\ quiet /\ ((UNCHANGED vec_list /\ SameNodes) \/ Added)
  BY <1>1, QuietStep
<1>3. show \in Show
  BY <1>2 DEF ShowInv, ShowTypeOK, Reading
<1>4. s # NoTask
  BY <1>3 DEF SystemStep, Show
<1>5. Alive(s)
  BY <1>2, <1>4 DEF SubjectInv
<1>6. show' = show /\ s' = s /\ info'[s] = info[s] /\ Alive(s)'
  BY <1>1, <1>5, SubjectStays
<1>7. s \in Task
  BY <1>3, <1>4 DEF Show
<1>8. /\ show.kind # "all"
      /\ show.stage # "task" => show.sought = info[s]
      /\ show.stage \in {"task", "walk"} => show.text = <<>>
      /\ show.stage = "walk" => /\ show.sought # NULL
                                /\ show.at \in Listed \cup {HEAD}
                                /\ SoughtAhead
      /\ show.stage = "copy" =>
           IF Mine(s) = {} THEN show.text = <<>>
           ELSE \E n \in Mine(s) : show.text = <<node[n].bitmap>>
  BY <1>2, <1>4 DEF SubjectInv
<1>9. Listed \subseteq Node
  BY <1>1, ListedNodes DEF TypeOK
<1> HIDE DEF s
<1>10. CASE UNCHANGED vec_list /\ SameNodes
  <2>1. Listed' = Listed
    BY <1>10 DEF Listed
  <2>2. Mine(s)' = {n \in Listed : info[s] # NULL /\ node'[n].addr = info[s]}
    BY <1>6, <2>1 DEF Mine
  <2>3. Mine(s)' = Mine(s)
    BY <1>9, <1>10, <2>2 DEF Mine, SameNodes
  <2>4. show.stage = "walk" => SoughtAhead'
    <3>1. \A i \in Passed : vec_list[i] \in Node
      BY <1>9 DEF Passed, Listed
    <3>2. Passed' = Passed
      BY <1>6, <1>10 DEF Passed
    <3> QED
      BY <1>6, <1>8, <1>10, <3>1, <3>2 DEF SoughtAhead, SameNodes
  <2>5. \A n \in Mine(s) : node'[n].bitmap = node[n].bitmap
    BY <1>9, <1>10 DEF Mine, SameNodes
  <2> QED
    BY <1>6, <1>8, <2>1, <2>3, <2>4, <2>5 DEF SubjectInv, s
<1>11. CASE Added
  <2>1. PICK n \in Node \ Listed : /\ vec_list' = <<n>> \o vec_list
                                   /\ \A k \in Node \ {n} : node'[k] = node[k]
                                   /\ node'[n].addr \in FreeAddr \cup {NULL}
    BY <1>11 DEF Added
  <2>2. Listed' = Listed \cup {n}
    BY <1>1, <2>1, AddHeadListed DEF TypeOK
  <2>3. info[s] # NULL => node'[n].addr # info[s]
    BY <1>7, <2>1, AddedIsNotMine
  <2>4. Mine(s)' = {k \in Listed' : info[s] # NULL /\ node'[k].addr = info[s]}
    BY <1>6 DEF Mine
  <2>5. \A k \in Listed : node'[k] = node[k]
    BY <1>9, <2>1
  <2>6. Mine(s)' = Mine(s)
    BY <2>2, <2>3, <2>4, <2>5 DEF Mine
  <2>7. \A k \in Mine(s) : node'[k].bitmap = node[k].bitmap
    BY <2>5 DEF Mine
  <2>8. show.stage = "walk" => SoughtAhead'
    <3>1. SUFFICES ASSUME show.stage = "walk" PROVE SoughtAhead'
      OBVIOUS
    <3>2. ASSUME NEW k \in Node \ Listed, vec_list' = <<k>> \o vec_list
          PROVE  node'[k].addr # show.sought
      <4>1. k = n
        BY <1>1, <2>1, <3>2, AddHeadProperties DEF TypeOK, RegistryTypeOK
      <4> QED
        BY <1>8, <2>3, <3>1, <4>1
    <3> QED
      BY <1>1, <1>6, <1>8, <1>11, <3>1, <3>2, AddedIsPassed
  <2> QED
    BY <1>6, <1>8, <2>2, <2>6, <2>7, <2>8 DEF SubjectInv, s
<1> QED
  BY <1>2, <1>10, <1>11

LEMMA StepKeepsSubject ==
  ASSUME LifetimeInv, ListedOnce, ShowInv, SubjectInv, [ReadersNext]_readersVars
  PROVE  SubjectInv'
<1>1. TypeOK
  BY DEF LifetimeInv
<1>2. CASE ShowBegin /\ UNCHANGED vars
  BY <1>1, <1>2, BeginKeepsSubject
<1>3. CASE ShowStep /\ UNCHANGED vars
  BY <1>1, <1>3, WalkKeepsSubject
<1>4. CASE SystemStep
  BY <1>4, SystemKeepsSubject
<1>5. CASE ShowCrashes
  BY <1>5 DEF ShowCrashes, Ends, SubjectInv, Reading
<1>6. CASE UNCHANGED readersVars
  <2>1. UNCHANGED <<show, quiet, vec_list, node, info, pc>>
    BY <1>6 DEF readersVars, showVars, vars, registryVars, taskVars
  <2>2. SoughtAhead' = SoughtAhead /\ Listed' = Listed
    BY <2>1 DEF SoughtAhead, Passed, Listed
  <2>3. Mine(show.subject)' = Mine(show.subject)
    BY <2>1, <2>2 DEF Mine
  <2> QED
    BY <2>1, <2>2, <2>3 DEF SubjectInv, Reading, Alive
<1> QED
  BY <1>2, <1>3, <1>4, <1>5, <1>6 DEF ReadersNext

(* A task has at most one vector, given that no two share a list. *)
LEMMA MineIsOne ==
  ASSUME LifetimeInv, NEW s \in Task, NEW n1 \in Mine(s), NEW n2 \in Mine(s)
  PROVE  n1 = n2
<1>1. OneNodePerList
  BY DEF LifetimeInv, RegistryInv, VectorsInv
<1>2. n1 \in Backed /\ n2 \in Backed /\ node[n1].addr = node[n2].addr
  BY DEF Mine, Backed
<1> QED
  BY <1>1, <1>2 DEF OneNodePerList

(* Given Careful, SHOW_MINE and VECTOR_FOR_PID answer with the vector that   *)
(* the task has when the answer is copied out (show_my_vector), whatever is  *)
(* registered and whoever is cloned meanwhile, if no vector is unregistered. *)
THEOREM AnswersAreTheSubjects ==
  ASSUME Careful
  PROVE  ReadersSpec => []AnswerIsSubjects
<1>1. ReadersInit => SubjectInv
  BY DEF ReadersInit, SubjectInv, Reading
<1>2. LifetimeInv /\ ListedOnce /\ ShowInv /\ SubjectInv /\ [ReadersNext]_readersVars
        => SubjectInv'
  BY StepKeepsSubject
<1>3. ASSUME LifetimeInv, SubjectInv, ShowInv
      PROVE  AnswerIsSubjects
  <2> SUFFICES ASSUME Reading, quiet, show.stage = "copy", show.subject # NoTask
               PROVE  show.text = LET mine == Mine(show.subject) IN
                        IF mine = {} THEN <<>>
                        ELSE <<node[CHOOSE n \in mine : TRUE].bitmap>>
    BY DEF AnswerIsSubjects
  <2>1. CASE Mine(show.subject) = {}
    BY <1>3, <2>1 DEF SubjectInv
  <2>2. CASE Mine(show.subject) # {}
    <3>1. PICK n \in Mine(show.subject) : show.text = <<node[n].bitmap>>
      BY <1>3, <2>2 DEF SubjectInv
    <3>2. show.subject \in Task
      BY <1>3 DEF ShowInv, ShowTypeOK, Reading, Show
    <3>3. (CHOOSE k \in Mine(show.subject) : TRUE) \in Mine(show.subject)
      BY <2>2
    <3>4. (CHOOSE k \in Mine(show.subject) : TRUE) = n
      BY <1>3, <3>2, <3>3, MineIsOne
    <3> QED
      BY <2>2, <3>1, <3>4
  <2> QED
    BY <2>1, <2>2
<1> QED
  BY <1>1, <1>2, <1>3, ReadersImplementSystem, LifetimeInvariant, ListedOnceAlways,
     ShowExcludesRequests, PTL DEF ReadersSpec

===============================================================================
