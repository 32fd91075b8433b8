----------------------------- MODULE VectorSystem -----------------------------
(***************************************************************************)
(* Everything that takes, hands on or drops a reference to a vector: the   *)
(* ioctl requests SET, REMOVE and CREATE_FROM_BITMAP, sys_clone2 and fork, *)
(* exit, and insmod and rmmod of the vector modules, over the registry.    *)
(*                                                                         *)
(* A request that looks a vector up and uses the address later is two      *)
(* steps, as list_lock is released between them: va is the address the     *)
(* task carries across.  cleanup_override of dynamic_vector is a step per  *)
(* list head.  MaxHeads bounds list_heads (256 entries in the code).       *)
(***************************************************************************)
EXTENDS VectorRegistry, FiniteSets

CONSTANTS
  Task, NoTask,
  Bitmaps,   \* the bitmaps and names user programs pass
  MaxHeads,
  Env        \* what users and administrators are assumed to do; see below

(* The assumptions the code makes of its environment and does not check:    *)
(*   RemovesOwn   a task passes REMOVE the name SHOW_MINE gives it          *)
(*   BootOrder    vector1 and vector2 go in before dynamic_vector           *)
(*   QuietRmmod   nobody looks a vector up while a module is being removed  *)
(*   FreesFirst   a task sets or creates only when it has no vector         *)
(*   ForksSucceed, MemoryAvailable   fork and kmalloc do not fail           *)
(*   OneReference the kernel's _do_fork takes no reference for a child       *)
(*                sys_clone2 took one for: fork.cpy does, but it is the      *)
(*                kernel's before _do_fork had the argument vector_address   *)
Assumptions == {"RemovesOwn", "BootOrder", "QuietRmmod", "FreesFirst",
                "ForksSucceed", "MemoryAvailable", "OneReference"}

ASSUME EnvAssumption == Env \subseteq Assumptions
ASSUME NoTaskAssumption == NoTask \notin Task
ASSUME BitmapsAssumption == Bitmaps \subseteq Bitmap
ASSUME MaxHeadsAssumption == MaxHeads \in Nat
ASSUME FiniteAssumption ==
  IsFiniteSet(Task) /\ IsFiniteSet(Node) /\ IsFiniteSet(Addr)

VARIABLES
  heap,       \* the override list at each address, {} when it is free
  heads,      \* listHead of vector1 and vector2, list_heads of dynamic_vector
  info,       \* task_struct.syscall_vector_info
  pc,         \* where each task is: in user code, in a request, or at its end
  va,         \* the address a request carries between its two steps
  arg,        \* the bitmap of a CREATE request
  mutexlock   \* ioctl_module's mutex: its holder

taskVars == <<info, pc, va, arg, mutexlock>>
listVars == <<heap, heads>>
vars == <<registryVars, listVars, taskVars>>

Assuming(a, p) == a \in Env => p

(* A sys_clone2 with CLONE_SYSCALLS is in the kernel's _do_fork at inherit.  *)
Cloning == {"inherit", "clone"}

(* A task the kernel has ended after a crash in custom_ioctl: at strlen, or  *)
(* at a fault between try_module_get(THIS_MODULE) and its module_put.        *)
Crashed == {"strlen", "fault"}
Ended == {"dead"} \cup Crashed

PC == {"user", "set", "create"} \cup Cloning \cup Ended

TypeOK ==
  /\ RegistryTypeOK
  /\ heap \in [Addr -> SUBSET Flavour]
  /\ heads \in [VectorModule -> Seq(Pointer)]
  /\ info \in [Task -> Pointer]
  /\ pc \in [Task -> PC]
  /\ va \in [Task -> Pointer]
  /\ arg \in [Task -> Bitmap]
  /\ mutexlock \in Task \cup {NoTask}

(* The kernel has booted; one task runs and no module is in. *)
Init ==
  /\ RegistryInit
  /\ heap = [a \in Addr |-> {}]
  /\ heads = [m \in VectorModule |-> <<>>]
  /\ info = [t \in Task |-> NULL]
  /\ \E first \in Task :
       pc = [t \in Task |-> IF t = first THEN "user" ELSE "dead"]
  /\ va = [t \in Task |-> NULL]
  /\ arg = [t \in Task |-> {}]
  /\ mutexlock = NoTask

Alive(t) == pc[t] \notin Ended

FreeAddr == {a \in Addr : heap[a] = {}}

(* kmalloc may always fail, unless MemoryAvailable; from an empty pool it   *)
(* does.                                                                    *)
OutOfMemory == "MemoryAvailable" \notin Env
MayFail(pool) == OutOfMemory \/ pool = {}

-------------------------------------------------------------------------------
(* Slip: a request does not wait for the one being served. *)
NotExclusive(t) == pc[t] = "user" /\ mstate["ioctl_module"] = "live"

(* ioctl: a request starts by taking mutexlock and ends by releasing it. *)
IoctlReady(t) ==
  /\ pc[t] = "user"
  /\ mstate["ioctl_module"] = "live"
  /\ mutexlock = NoTask

(* A bound: with ForksSucceed every sys_clone2 under way finds a child. *)
RoomToFork ==
  Assuming("ForksSucceed", Cardinality({t \in Task : pc[t] = "dead"})
                             > Cardinality({t \in Task : pc[t] \in Cloning}))

MayLookUp == Assuming("QuietRmmod", \A m \in Module : mstate[m] # "going")

Enter(t, where, a) ==
  /\ pc' = [pc EXCEPT ![t] = where]
  /\ va' = [va EXCEPT ![t] = a]

(* Slip: a path that returns with the mutex locked. *)
ReturnLocked(t) ==
  /\ Enter(t, "user", NULL)
  /\ arg' = [arg EXCEPT ![t] = {}]
  /\ UNCHANGED mutexlock

Return(t) ==
  /\ Enter(t, "user", NULL)
  /\ arg' = [arg EXCEPT ![t] = {}]
  /\ mutexlock' = NoTask

(* The kernel's exit path, the caller reduce_ref_count_from_address is      *)
(* exported for.  One task is init, which does not exit.                    *)
EndsTask(t, end) ==
  /\ pc[t] = "user"
  /\ \E other \in Task \ {t} : Alive(other)
  /\ \/ /\ info[t] # NULL
        /\ \E i \in Cursor : reduce_ref_count_from_address(i, info[t])
     \/ info[t] = NULL /\ UNCHANGED <<node, mref>>
  /\ info' = [info EXCEPT ![t] = NULL]
  /\ pc' = [pc EXCEPT ![t] = end]
  /\ UNCHANGED <<vec_list, mstate, listVars, va, arg>>

Exit(t) == EndsTask(t, "dead") /\ UNCHANGED mutexlock

(* The kernel ends a task that crashes in a request, and nobody releases    *)
(* the mutex it holds.                                                      *)
CrashesAt(t, where) ==
  /\ IoctlReady(t)
  /\ EndsTask(t, where)
  /\ mutexlock' = t

(* IOCTL_SET and IOCTL_REMOVE take strlen of a bad user address. *)
NameCrashes(t) == CrashesAt(t, "strlen")

(* kernel_bitmap or pid_buf is NULL, VECTOR_FOR_PID finds no task for its   *)
(* pid, or a SHOW comes to a node that has been freed.                      *)
FaultCrashes(t) == CrashesAt(t, "fault")

(* IOCTL_SET up to get_vector_address; -EINVAL when that returns 0. *)
SetLookup(t, b) ==
  /\ IoctlReady(t)
  /\ MayLookUp
  /\ Assuming("FreesFirst", info[t] = NULL)
  /\ \E i \in Cursor :
       /\ get_vector_address(i, VectorName(b))
       /\ IF AddrAt(i) = NULL THEN UNCHANGED taskVars
          ELSE /\ Enter(t, "set", AddrAt(i))
               /\ mutexlock' = t
               /\ UNCHANGED <<info, arg>>
  /\ UNCHANGED <<vec_list, mstate, listVars>>

(* Slip: the vector just looked up is given up. *)
ReducesNew(t) == \E i \in Cursor : reduce_ref_count_from_address(i, va[t])

(* if_assigned_reduce gives up the vector the task has: it passes the whole *)
(* text of show_my_vector to reduce_ref_count as the name.                  *)
if_assigned_reduce(t) ==
  \/ /\ info[t] # NULL
     /\ \E i \in Cursor, j \in Cursor :
          /\ StopsAt(i, ByAddr(info[t]))
          /\ reduce_ref_count(j, show_my_vector(i, info[t]))
  \/ /\ info[t] = NULL \/ OutOfMemory
     /\ UNCHANGED <<node, mref>>

(* The rest of IOCTL_SET. *)
SetAssign(t) ==
  /\ pc[t] = "set"
  /\ if_assigned_reduce(t)
  /\ info' = [info EXCEPT ![t] = va[t]]
  /\ Return(t)
  /\ UNCHANGED <<vec_list, mstate, listVars>>

(* The name SHOW_MINE reports to t. *)
OwnName(t) == {At(i).bitmap : i \in {j \in DOMAIN vec_list :
                                info[t] # NULL /\ StopsAt(j, ByAddr(info[t]))}}

(* IOCTL_REMOVE: drops a reference of the vector named, whoever holds it,   *)
(* and clears the caller's own pointer unless the new count is negative.    *)
RemoveVector(t, b) ==
  /\ IoctlReady(t)
  /\ Assuming("RemovesOwn", b \in OwnName(t))
  /\ \E i \in Cursor :
       /\ reduce_ref_count(i, VectorName(b))
       /\ info' = IF i = 0 \/ At(i).refcount - 1 < 0 THEN info
                  ELSE [info EXCEPT ![t] = NULL]
  /\ UNCHANGED <<vec_list, mstate, listVars, pc, va, arg, mutexlock>>

(* IOCTL_CREATE_FROM_BITMAP up to check_any_current_vector. *)
CreateLookup(t, b) ==
  /\ IoctlReady(t)
  /\ MayLookUp
  /\ Assuming("FreesFirst", info[t] = NULL)
  /\ validate_bitmap(b)
  /\ \E i \in Cursor :
       /\ check_any_current_vector(i, b)
       /\ AddrAt(i) = NULL => Len(heads["dynamic_vector"]) < MaxHeads
       /\ Enter(t, "create", AddrAt(i))
  /\ arg' = [arg EXCEPT ![t] = b]
  /\ mutexlock' = t
  /\ UNCHANGED <<vec_list, mstate, listVars, info>>

(* add_vector_from_bitmap, a vector with this bitmap exists: assign it. *)
CreateExisting(t) ==
  /\ pc[t] = "create"
  /\ va[t] # NULL
  /\ info' = [info EXCEPT ![t] = va[t]]
  /\ Return(t)
  /\ UNCHANGED <<registryVars, listVars>>

(* add_vector_from_bitmap, temp or vector_prefix cannot be allocated: the   *)
(* request returns 0 having assigned nothing.                               *)
CreateNoMemory(t) ==
  /\ pc[t] = "create"
  /\ va[t] = NULL
  /\ OutOfMemory
  /\ Return(t)
  /\ UNCHANGED <<registryVars, listVars, info>>

(* The override list add_syscall_to_vector builds: entries it cannot        *)
(* allocate are lost, as -ENOMEM in an unsigned long is never negative.     *)
BuildList(b, a) ==
  \E lost \in SUBSET b :
    LET list == VectorFromBitmap(b \ lost) IN
    /\ lost # {} => MayFail(FreeAddr)
    /\ IF list = {} THEN a = NULL /\ UNCHANGED heap
       ELSE /\ a \in FreeAddr
            /\ heap' = [heap EXCEPT ![a] = list]

(* add_vector_from_bitmap, the vector is built, registered with a count of  *)
(* 1 for the caller and assigned to it, whatever register returned.         *)
CreateBuild(t) ==
  /\ pc[t] = "create"
  /\ va[t] = NULL
  /\ \E a \in Pointer :
       /\ BuildList(arg[t], a)
       /\ try_module_get("dynamic_vector")
       /\ \/ \E n \in Node :
               register_dynamic_syscall(n, arg[t], a, "dynamic_vector")
          \/ MayFail(FreeNode) /\ RegisterFails
       /\ info' = [info EXCEPT ![t] = a]
       /\ heads' = [heads EXCEPT !["dynamic_vector"] = Append(@, a)]
  /\ Return(t)
  /\ UNCHANGED mstate

-------------------------------------------------------------------------------
(* sys_clone2 with CLONE_SYSCALLS: a reference for the child on the         *)
(* parent's vector; -1 when the registry has no such address.               *)
CloneInherit(t) ==
  /\ pc[t] = "user"
  /\ MayLookUp
  /\ RoomToFork
  /\ \E i \in Cursor \ {0} : increment_ref_count_from_address(i, info[t])
  /\ Enter(t, "inherit", info[t])
  /\ UNCHANGED <<vec_list, mstate, listVars, info, arg, mutexlock>>

(* The kernel finds CLONE_SYSCALLS in the flags of sys_clone2 as well and   *)
(* takes a reference of its own for the child.                              *)
KernelCounts(t) ==
  /\ pc[t] = "inherit"
  /\ "OneReference" \notin Env
  /\ MayLookUp
  /\ \E i \in Cursor : increment_ref_count_from_address(i, va[t])
  /\ Enter(t, "clone", va[t])
  /\ UNCHANGED <<vec_list, mstate, listVars, info, arg, mutexlock>>

(* clone with CLONE_SYSCALLS: the kernel takes the reference, and the child *)
(* gets the parent's pointer whether or not the registry has the address.   *)
ForkInherit(t) ==
  /\ pc[t] = "user"
  /\ MayLookUp
  /\ RoomToFork
  /\ \E i \in Cursor : increment_ref_count_from_address(i, info[t])
  /\ Enter(t, "clone", info[t])
  /\ UNCHANGED <<vec_list, mstate, listVars, info, arg, mutexlock>>

(* sys_clone2 with a vector id; an unknown id gives the default vector. *)
CloneById(t, b) ==
  /\ pc[t] = "user"
  /\ MayLookUp
  /\ RoomToFork
  /\ \E i \in Cursor :
       /\ get_vector_address_from_id(i, b)
       /\ Enter(t, "clone", AddrAt(i))
  /\ UNCHANGED <<vec_list, mstate, listVars, info, arg, mutexlock>>

(* _do_fork of the patched kernel gives the child the address sys_clone2    *)
(* passes, or with CLONE_SYSCALLS the parent's pointer, which va[t] is too. *)
CloneForks(t, child) ==
  /\ pc[t] \in Cloning
  /\ pc[child] = "dead"
  /\ pc' = [pc EXCEPT ![t] = "user", ![child] = "user"]
  /\ info' = [info EXCEPT ![child] = va[t]]
  /\ va' = [va EXCEPT ![t] = NULL]
  /\ UNCHANGED <<registryVars, listVars, arg, mutexlock>>

(* _do_fork fails: its error is returned and no reference dropped. *)
CloneFails(t) ==
  /\ pc[t] \in Cloning
  /\ "ForksSucceed" \notin Env
  /\ Enter(t, "user", NULL)
  /\ UNCHANGED <<registryVars, listVars, info, arg, mutexlock>>

(* fork and clone: a child without CLONE_SYSCALLS has the default vector. *)
Fork(t, child) ==
  /\ pc[t] = "user"
  /\ pc[child] = "dead"
  /\ RoomToFork
  /\ pc' = [pc EXCEPT ![child] = "user"]
  /\ UNCHANGED <<registryVars, listVars, info, va, arg, mutexlock>>

-------------------------------------------------------------------------------
(* The module loader (external): a module needs the modules whose symbols   *)
(* it uses, and rmmod fails while it is used by a module or referenced.     *)
Requires(m) == CASE m = "vector1"      -> {}
                 [] m = "ioctl_module" -> {"dynamic_vector"}
                 [] OTHER              -> {"vector1"}

CanInsmod(m) ==
  /\ mstate[m] = "absent"
  /\ \A d \in Requires(m) : mstate[d] = "live"

(* initVector of vector1 and vector2.  A list that cannot be built is freed *)
(* and the module not inserted; one that cannot be registered is lost.      *)
InsmodStatic(m) ==
  /\ CanInsmod(m)
  /\ Assuming("BootOrder", mstate["dynamic_vector"] = "absent")
  /\ \E a \in FreeAddr :
       /\ heap' = [heap EXCEPT ![a] = StaticVector(m)]
       /\ \/ /\ \E n \in Node : register_syscall(n, StaticBitmap(m), a, m)
             /\ mstate' = [mstate EXCEPT ![m] = "live"]
             /\ heads' = [heads EXCEPT ![m] = <<a>>]
          \/ /\ MayFail(FreeNode)
             /\ RegisterFails
             /\ UNCHANGED <<mstate, heads>>
  /\ UNCHANGED <<mref, taskVars>>

(* init_override of dynamic_vector, and init_ioctl_module with its mutex.   *)
Insmod(m) ==
  /\ CanInsmod(m)
  /\ mstate' = [mstate EXCEPT ![m] = "live"]
  /\ mutexlock' = IF m = "ioctl_module" THEN NoTask ELSE mutexlock
  /\ UNCHANGED <<vec_list, node, mref, listVars, info, pc, va, arg>>

(* rmmod: from here on try_module_get fails.  A request pins ioctl_module,  *)
(* and one that has crashed before its module_put for ever.                 *)
RmmodBegin(m) ==
  /\ mstate[m] = "live"
  /\ \A d \in Module : m \in Requires(d) => mstate[d] = "absent"
  /\ IF m = "ioctl_module"
     THEN \A t \in Task : pc[t] \notin {"set", "create", "fault"}
     ELSE mref[m] = 0
  /\ mstate' = [mstate EXCEPT ![m] = "going"]
  /\ UNCHANGED <<vec_list, node, mref, listVars, taskVars>>

(* cleanup_override: each list is unregistered, whether or not the registry *)
(* refuses, and then freed.                                                 *)
CleanupHead(m) ==
  /\ m \in VectorModule
  /\ mstate[m] = "going"
  /\ heads[m] # <<>>
  /\ LET h == Head(heads[m]) IN
       /\ unregister_syscall(h)
       /\ heap' = IF h = NULL THEN heap ELSE [heap EXCEPT ![h] = {}]
  /\ heads' = [heads EXCEPT ![m] = Tail(@)]
  /\ UNCHANGED <<mstate, mref, taskVars>>

(* The end of rmmod: the module's text and data are gone. *)
RmmodEnd(m) ==
  /\ mstate[m] = "going"
  /\ m \in VectorModule => heads[m] = <<>>
  /\ mstate' = [mstate EXCEPT ![m] = "absent"]
  /\ mref' = [x \in VectorModule |-> IF x = m THEN 0 ELSE mref[x]]
  /\ UNCHANGED <<vec_list, node, listVars, taskVars>>

-------------------------------------------------------------------------------
(* The override lists of a module. *)
ListsOf(m) == {heads[m][j] : j \in DOMAIN heads[m]} \ {NULL}

(* Who may still follow a pointer to a's list: a task it is assigned to,    *)
(* and a request that carries it to its second step.                        *)
Assigned(a) == {t \in Task : info[t] = a}
Carried(a)  == {t \in Task : va[t] = a}
Held(a)     == Assigned(a) \cup Carried(a) # {}
Users(a)    == Cardinality(Assigned(a)) + Cardinality(Carried(a))

-------------------------------------------------------------------------------
Request(t) ==
  \/ \E b \in Bitmaps : SetLookup(t, b) \/ RemoveVector(t, b) \/ CreateLookup(t, b)
  \/ SetAssign(t) \/ CreateExisting(t) \/ CreateNoMemory(t) \/ CreateBuild(t)
  \/ NameCrashes(t) \/ FaultCrashes(t)

Process(t) ==
  \/ CloneInherit(t) \/ KernelCounts(t) \/ ForkInherit(t)
  \/ \E b \in Bitmaps : CloneById(t, b)
  \/ \E child \in Task : CloneForks(t, child) \/ Fork(t, child)
  \/ CloneFails(t)
  \/ Exit(t)

Loader ==
  \/ \E m \in StaticModule : InsmodStatic(m)
  \/ \E m \in Module \ StaticModule : Insmod(m)
  \/ \E m \in Module : RmmodBegin(m) \/ CleanupHead(m) \/ RmmodEnd(m)

Next == Loader \/ \E t \in Task : Request(t) \/ Process(t)

Spec == Init /\ [][Next]_vars

(* A task inside a request is scheduled again, and so is the rmmod process: *)
(* neither waits for anyone but for the mutexes, which are free by then.    *)
Fairness ==
  /\ \A t \in Task :
       /\ WF_vars(SetAssign(t) \/ CreateExisting(t) \/ CreateNoMemory(t)
                    \/ CreateBuild(t))
       /\ WF_vars(CloneFails(t) \/ \E child \in Task : CloneForks(t, child))
  /\ \A m \in Module : WF_vars(CleanupHead(m) \/ RmmodEnd(m))

FairSpec == Spec /\ Fairness

-------------------------------------------------------------------------------
(* The list a task dispatches its system calls through, or is about to be   *)
(* given, is allocated: no rmmod frees a vector that is in use.             *)
NoDanglingVector == \A a \in Addr : Held(a) => heap[a] # {}

(* The overrides a held list points to are code of vector1, and the list is *)
(* data of the module that registered it: both modules are still in.        *)
HeldModulesLoaded ==
  \A a \in Addr : Held(a) =>
    /\ mstate["vector1"] = "live"
    /\ \E m \in VectorModule : mstate[m] = "live" /\ a \in ListsOf(m)

(* The refcount of a registered vector counts at least the tasks that use   *)
(* it: unregister_syscall does not take a vector in use off the list.       *)
RefcountCoversUsers ==
  \A n \in Listed : node[n].addr # NULL =>
    node[n].refcount >= Users(node[n].addr)

(* A module is referenced at least as often as its vectors are: rmmod finds *)
(* it busy while any vector it registered has a positive refcount.          *)
Tokens(m) == {p \in Node \X (1 .. MaxRef) :
  p[1] \in Listed /\ node[p[1]].module = m /\ p[2] <= node[p[1]].refcount}
ModulePinned == \A m \in VectorModule : mref[m] >= Cardinality(Tokens(m))

(* A name or bitmap that reaches a vector reaches the newest one with that  *)
(* bitmap; an older one it hides has no list.  So the name SHOW_MINE gives  *)
(* a task and the address in its task_struct lead to the same node.         *)
HidesOnlyEmpty ==
  \A i, j \in DOMAIN vec_list :
    i < j /\ At(i).bitmap = At(j).bitmap => At(j).addr = NULL

(* A list in use is never freed, and never freed and built again between    *)
(* two of its user's system calls.                                          *)
HeldListUnchanged ==
  [][\A a \in Addr : Held(a) => heap'[a] = heap[a]]_vars


(* What the counts mean when nobody misuses them and nothing fails.         *)

(* The refcount of a vector is the number of its users, neither leaked nor  *)
(* dropped twice, whichever of SET, REMOVE, CREATE, clone2 and exit ran.    *)
RefcountExact ==
  \A n \in Listed : node[n].refcount = Users(node[n].addr)

(* Once no task uses a vector, no module is pinned: rmmod of the vector     *)
(* modules is possible again.                                               *)
UnpinnedWhenUnused ==
  (\A t \in Task : info[t] = NULL /\ va[t] = NULL)
    => \A m \in VectorModule : mref[m] = 0

(* register_dynamic_syscall registers a vector "if it doesn't exist based   *)
(* on bitmap value": no two tasks that create at once register twins.       *)
OneVectorPerBitmap ==
  \A i, j \in DOMAIN vec_list : At(i).bitmap = At(j).bitmap => i = j

(* A vector overrides what the bits it is registered under stand for (the   *)
(* table of README): a user who asks by bitmap gets those overrides.        *)
VectorHasItsOverrides ==
  \A n \in Listed : node[n].bitmap =
    IF node[n].addr = NULL THEN {} ELSE heap[node[n].addr]

(* if_assigned_reduce: "check whether current task structure has vector     *)
(* assigned, if assigned, reduce reference count", when SET replaces it.    *)
SetReleasesOld ==
  [][\A t \in Task, n \in Listed :
       pc[t] = "set" /\ pc'[t] # "set" /\ node[n].addr = info[t]
         => node'[n].refcount = node[n].refcount - 1]_vars

(* Every request returns and gives mutexlock back, unless its task crashes  *)
(* in it, and every rmmod ends.                                             *)
RequestsFinish ==
  \A t \in Task : pc[t] \in {"set", "create"} \cup Cloning \/ mutexlock = t
                     ~> \/ pc[t] = "user" /\ mutexlock # t
                        \/ pc[t] \in Crashed
RmmodFinishes == \A m \in Module : mstate[m] = "going" ~> mstate[m] = "absent"
===============================================================================
