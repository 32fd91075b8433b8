------------------------------ MODULE EntryPoints ------------------------------
(***************************************************************************)
(* How user programs get into and out of ioctl_module and sys_clone2, and   *)
(* what insmod and rmmod do meanwhile: custom_ioctl on every path, with     *)
(* mutexlock, the reference it takes on its own module and the memory it    *)
(* allocates, and the hook sysptr.  What the requests do with vectors is    *)
(* VectorSystem's.                                                          *)
(*                                                                          *)
(* The device node exists before the module (README, step 4), and fops has  *)
(* no owner: an open file does not keep the module in.                      *)
(***************************************************************************)
EXTENDS Integers, FiniteSets

CONSTANTS
  Task, NoTask,
  Env   \* what users and administrators are assumed to do:
        \*   LateUsers  nobody opens the device before insmod has ended
        \*   IdleRmmod  rmmod is begun only when no task has the device open
        \*              or is in sys_clone2, and none comes meanwhile

ASSUME FiniteAssumption == IsFiniteSet(Task)
ASSUME EnvAssumption == Env \subseteq {"LateUsers", "IdleRmmod"}
ASSUME NoTaskAssumption == NoTask \notin Task

Assuming(a, p) == a \in Env => p

(* The requests, by what their paths through custom_ioctl have in common.    *)
ByName   == {"set", "remove"}            \* copy the name to vector_name
ByStruct == {"vector_for_pid", "create"} \* copy a struct in
Plain    == {"show"}
Request  == ByName \cup ByStruct \cup Plain \cup {"unknown"}

VARIABLES
  mod,         \* each module: absent, loading, live or going
  registered,  \* the device is in the kernel's table of character devices
  initialised, \* mutexlock has been through mutex_init
  mutexlock,   \* its holder
  mref,        \* the references try_module_get holds on ioctl_module
  sysptr,      \* whether the hook points to sys_clone2
  file,        \* the tasks that have the device open
  pc,          \* where each task is
  request,     \* its request
  memory       \* what its request has allocated and not freed

vars == <<mod, registered, initialised, mutexlock, mref, sysptr, file, pc,
          request, memory>>

Module == {"ioctl_module", "sys_clone2"}

(* Where a task executes code of ioctl_module: before mutex_lock, with the   *)
(* mutex, after try_module_get, after module_put, after mutex_unlock.        *)
InIoctl == {"enter", "locked", "get", "work", "free", "unlock", "leave"}
Locked  == {"locked", "get", "work", "free", "unlock"}

(* A crash in custom_ioctl leaves mutexlock locked: at strlen of a bad user   *)
(* address, or after try_module_get.                                         *)
Crashed == {"strlen", "fault"}

(* sys_clone2: the hook has been tested; the call is made.  "oops" is a      *)
(* crash on code or a mutex that is not there.                               *)
PC == {"user", "tested", "clone", "oops"} \cup InIoctl \cup Crashed

(* custom_ioctl's allocations, and those of add_vector_from_bitmap. *)
OwnMemory == {"buf", "vector_name", "struct"}
Strings   == {"temp", "vector_prefix"}

TypeOK ==
  /\ mod \in [Module -> {"absent", "loading", "live", "going"}]
  /\ registered \in BOOLEAN
  /\ initialised \in BOOLEAN
  /\ mutexlock \in Task \cup {NoTask}
  /\ mref \in 0 .. Cardinality(Task)
  /\ sysptr \in BOOLEAN
  /\ file \subseteq Task
  /\ pc \in [Task -> PC]
  /\ request \in [Task -> Request \cup {"none"}]
  /\ memory \in [Task -> SUBSET (OwnMemory \cup Strings)]

Init ==
  /\ mod = [m \in Module |-> "absent"]
  /\ registered = FALSE
  /\ initialised = FALSE
  /\ mutexlock = NoTask
  /\ mref = 0
  /\ sysptr = FALSE
  /\ file = {}
  /\ pc = [t \in Task |-> "user"]
  /\ request = [t \in Task |-> "none"]
  /\ memory = [t \in Task |-> {}]

Goes(t, where) == pc' = [pc EXCEPT ![t] = where]
At(t, where) == pc[t] = where

(* The kernel ends a task that crashes, which closes its files. *)
Crashes(t, where) == Goes(t, where) /\ file' = file \ {t}

modVars == <<mod, registered, initialised, sysptr>>

-------------------------------------------------------------------------------
(* open and close of /dev/ioctl_device, and the ioctl call (external).       *)
Open(t) ==
  /\ At(t, "user") /\ t \notin file
  /\ registered
  /\ Assuming("LateUsers", mod["ioctl_module"] # "loading")
  /\ Assuming("IdleRmmod", mod["ioctl_module"] # "going")
  /\ file' = file \cup {t}
  /\ UNCHANGED <<modVars, mutexlock, mref, pc, request, memory>>

Close(t) ==
  /\ At(t, "user") /\ t \in file
  /\ file' = file \ {t}
  /\ UNCHANGED <<modVars, mutexlock, mref, pc, request, memory>>

(* fops->unlocked_ioctl, whether or not its code is there still. *)
Ioctl(t, r) ==
  /\ At(t, "user") /\ t \in file
  /\ IF mod["ioctl_module"] = "absent" THEN Crashes(t, "oops")
     ELSE Goes(t, "enter") /\ UNCHANGED file
  /\ request' = [request EXCEPT ![t] = r]
  /\ UNCHANGED <<modVars, mutexlock, mref, memory>>

(* Slip: mutex_trylock, its result ignored. *)
TriesLock(t) ==
  /\ At(t, "enter")
  /\ mutexlock' = IF mutexlock = NoTask THEN t ELSE mutexlock
  /\ Goes(t, "locked")
  /\ UNCHANGED <<modVars, mref, file, request, memory>>

(* mutex_lock.  A mutex nobody has initialised reads as locked, and its      *)
(* list of waiters as NULL.                                                  *)
Lock(t) ==
  /\ At(t, "enter")
  /\ \/ /\ initialised
        /\ mutexlock = NoTask
        /\ mutexlock' = t
        /\ Goes(t, "locked")
        /\ UNCHANGED file
     \/ /\ ~ initialised
        /\ Crashes(t, "oops")
        /\ UNCHANGED mutexlock
  /\ UNCHANGED <<modVars, mref, request, memory>>

(* buf, and vector_name for SET and REMOVE.  Without vector_name the request *)
(* returns by out, past the kfrees.                                          *)
Allocate(t) ==
  /\ At(t, "locked")
  /\ \/ /\ UNCHANGED memory
        /\ Goes(t, "unlock")
     \/ /\ request[t] \in ByName
        /\ memory' = [memory EXCEPT ![t] = {"buf"}]
        /\ Goes(t, "unlock")
     \/ /\ memory' = [memory EXCEPT ![t] =
                       IF request[t] \in ByName THEN {"buf", "vector_name"} ELSE {"buf"}]
        /\ Goes(t, IF request[t] = "unknown" THEN "free" ELSE "get")
  /\ UNCHANGED <<modVars, mutexlock, mref, file, request>>

(* SET and REMOVE, strlen of a user address that is not mapped.             *)
NameFaults(t) ==
  /\ At(t, "locked")
  /\ request[t] \in ByName
  /\ memory' = [memory EXCEPT ![t] = {"buf"}]
  /\ Crashes(t, "strlen")
  /\ UNCHANGED <<modVars, mutexlock, mref, request>>

(* try_module_get(THIS_MODULE), its result ignored. *)
GetModule(t) ==
  /\ At(t, "get")
  /\ mref' = IF mod["ioctl_module"] = "going" THEN mref ELSE mref + 1
  /\ Goes(t, "work")
  /\ UNCHANGED <<modVars, mutexlock, file, request, memory>>

(* Slip: a path that returns without module_put. *)
KeepsRef(t) ==
  /\ At(t, "work")
  /\ Goes(t, "free")
  /\ UNCHANGED <<modVars, mutexlock, mref, file, request, memory>>

(* What a request that does not crash allocates here.  A CREATE that builds  *)
(* a vector leaves add_vector_from_bitmap without freeing temp and           *)
(* vector_prefix.                                                            *)
Allocations(r) ==
  CASE r = "create"         -> {{"struct"}, {"struct"} \cup Strings}
    [] r = "vector_for_pid" -> {{"struct"}}
    [] OTHER                -> {{}}

(* The request is carried out or fails, then module_put, which leaves a      *)
(* count of 0 alone.                                                         *)
Work(t) ==
  /\ At(t, "work")
  /\ \E new \in Allocations(request[t]) :
       memory' = [memory EXCEPT ![t] = @ \cup new]
  /\ mref' = IF mref = 0 THEN 0 ELSE mref - 1
  /\ Goes(t, "free")
  /\ UNCHANGED <<modVars, mutexlock, file, request>>

(* pid_buf and kernel_bitmap are not tested: copy_from_user writes through   *)
(* NULL.  Nor is what pid_task returns, and the walk of a SHOW, or of the    *)
(* show_my_vector of a SET, may come to a node that has been freed.          *)
WorkFaults(t) ==
  /\ At(t, "work")
  /\ request[t] # "remove"
  /\ memory' \in {memory, [memory EXCEPT ![t] =
                    IF request[t] = "vector_for_pid" THEN @ \cup {"struct"} ELSE @]}
  /\ Crashes(t, "fault")
  /\ UNCHANGED <<modVars, mutexlock, mref, request>>

(* Slip: pid_buf and kernel_bitmap are not freed. *)
FreeSome(t) ==
  /\ At(t, "free")
  /\ memory' = [memory EXCEPT ![t] = @ \ {"buf", "vector_name"}]
  /\ Goes(t, "unlock")
  /\ UNCHANGED <<modVars, mutexlock, mref, file, request>>

(* free_vector_name: kfree of whatever custom_ioctl has allocated. *)
Free(t) ==
  /\ At(t, "free")
  /\ memory' = [memory EXCEPT ![t] = @ \ OwnMemory]
  /\ Goes(t, "unlock")
  /\ UNCHANGED <<modVars, mutexlock, mref, file, request>>

(* Slip: a path that returns without mutex_unlock. *)
KeepsMutex(t) ==
  /\ At(t, "unlock")
  /\ Goes(t, "leave")
  /\ UNCHANGED <<modVars, mutexlock, mref, file, request, memory>>

(* out: mutex_unlock. *)
Unlock(t) ==
  /\ At(t, "unlock")
  /\ mutexlock' = NoTask
  /\ Goes(t, "leave")
  /\ UNCHANGED <<modVars, mref, file, request, memory>>

(* What has not been freed by now is lost. *)
Leave(t) ==
  /\ At(t, "leave")
  /\ Goes(t, "user")
  /\ request' = [request EXCEPT ![t] = "none"]
  /\ memory' = [memory EXCEPT ![t] = {}]
  /\ UNCHANGED <<modVars, mutexlock, mref, file>>

-------------------------------------------------------------------------------
(* The clone2 entry of the patched kernel (external): sysptr is tested, and  *)
(* then called.                                                              *)
TestHook(t) ==
  /\ At(t, "user")
  /\ sysptr
  /\ Assuming("IdleRmmod", mod["sys_clone2"] # "going")
  /\ Goes(t, "tested")
  /\ UNCHANGED <<modVars, mutexlock, mref, file, request, memory>>

CallHook(t) ==
  /\ At(t, "tested")
  /\ IF sysptr THEN Goes(t, "clone") /\ UNCHANGED file ELSE Crashes(t, "oops")
  /\ UNCHANGED <<modVars, mutexlock, mref, request, memory>>

(* sys_clone2 returns; it takes no reference on its module. *)
CloneReturns(t) ==
  /\ At(t, "clone")
  /\ Goes(t, "user")
  /\ UNCHANGED <<modVars, mutexlock, mref, file, request, memory>>

-------------------------------------------------------------------------------
taskVars == <<mutexlock, mref, file, pc, request, memory>>

(* init_ioctl_module registers the device and then initialises the mutex. *)
InitRegister ==
  /\ mod["ioctl_module"] = "absent"
  /\ mod' = [mod EXCEPT !["ioctl_module"] = "loading"]
  /\ registered' = TRUE
  /\ initialised' = FALSE
  /\ UNCHANGED <<sysptr, taskVars>>

(* Slip: without mutex_init. *)
ForgetsMutex ==
  /\ mod["ioctl_module"] = "loading"
  /\ mod' = [mod EXCEPT !["ioctl_module"] = "live"]
  /\ UNCHANGED <<registered, initialised, sysptr, taskVars>>

InitMutex ==
  /\ mod["ioctl_module"] = "loading"
  /\ mod' = [mod EXCEPT !["ioctl_module"] = "live"]
  /\ initialised' = TRUE
  /\ mutexlock' = NoTask
  /\ UNCHANGED <<registered, sysptr, mref, file, pc, request, memory>>

(* init_sys_clone2 sets the hook unless it is set. *)
InitHook ==
  /\ mod["sys_clone2"] = "absent"
  /\ mod' = [mod EXCEPT !["sys_clone2"] = "live"]
  /\ sysptr' = TRUE
  /\ UNCHANGED <<registered, initialised, taskVars>>

InModule(t, m) ==
  IF m = "ioctl_module" THEN pc[t] \in InIoctl ELSE pc[t] = "clone"

Idle(m) ==
  IF m = "ioctl_module" THEN file = {}
  ELSE \A t \in Task : pc[t] \notin {"tested", "clone"}

(* rmmod is refused only while a request holds a reference. *)
RmmodBegin(m) ==
  /\ mod[m] = "live"
  /\ m = "ioctl_module" => mref = 0
  /\ Assuming("IdleRmmod", Idle(m))
  /\ mod' = [mod EXCEPT ![m] = "going"]
  /\ UNCHANGED <<registered, initialised, sysptr, taskVars>>

(* exit_ioctl_module and exit_sys_clone2. *)
ModuleExit(m) ==
  /\ mod[m] = "going"
  /\ IF m = "ioctl_module" THEN registered /\ registered' = FALSE /\ UNCHANGED sysptr
                           ELSE sysptr /\ sysptr' = FALSE /\ UNCHANGED registered
  /\ UNCHANGED <<mod, initialised, taskVars>>

(* The module's memory is freed: whoever executes it crashes. *)
ModuleGone(m) ==
  /\ mod[m] = "going"
  /\ IF m = "ioctl_module" THEN ~ registered ELSE ~ sysptr
  /\ mod' = [mod EXCEPT ![m] = "absent"]
  /\ pc' = [t \in Task |-> IF InModule(t, m) THEN "oops" ELSE pc[t]]
  /\ file' = {t \in file : ~ InModule(t, m)}
  /\ UNCHANGED <<registered, initialised, sysptr, mutexlock, mref, request, memory>>

-------------------------------------------------------------------------------
IoctlStep(t) ==
  \/ Lock(t) \/ Allocate(t) \/ NameFaults(t) \/ GetModule(t) \/ Work(t)
  \/ WorkFaults(t) \/ Free(t) \/ Unlock(t) \/ Leave(t)

TaskStep(t) ==
  \/ Open(t) \/ Close(t)
  \/ \E r \in Request : Ioctl(t, r)
  \/ IoctlStep(t)
  \/ TestHook(t) \/ CallHook(t) \/ CloneReturns(t)

LoaderStep ==
  \/ InitRegister \/ InitMutex \/ InitHook
  \/ \E m \in Module : RmmodBegin(m) \/ ModuleExit(m) \/ ModuleGone(m)

Next == LoaderStep \/ \E t \in Task : TaskStep(t)

Spec == Init /\ [][Next]_vars

(* A task in the kernel is scheduled again.  mutex_lock wakes its waiters in *)
(* turn, so one of them gets the mutex when it is free infinitely often.     *)
FairSpec ==
  Spec /\ \A t \in Task : /\ SF_vars(Lock(t))
                          /\ WF_vars(IoctlStep(t))

-------------------------------------------------------------------------------
(* mutexlock excludes: between mutex_lock and mutex_unlock there is one task *)
(* (the requests work on custom_ioctl's shared state, as the static buffer   *)
(* of show_all_vectors).                                                     *)
OneRequestAtATime ==
  \A t \in Task : pc[t] \in Locked => mutexlock = t

(* Every path of custom_ioctl gives back the reference it took, so rmmod     *)
(* finds the module's count at 0 exactly when no request is being served.    *)
(* A request that crashes after try_module_get keeps its reference, and one  *)
(* that crashes at strlen has none, though it holds the mutex.               *)
RefsBalanced ==
  mref = Cardinality({t \in Task : pc[t] \in {"work", "fault"}})

(* What a request allocates and has not freed when it returns: buf, when     *)
(* there was no memory for vector_name, or the two strings of a vector just  *)
(* built; and on every other path nothing.                                   *)
LeaksKnown ==
  \A t \in Task : pc[t] = "leave" /\ memory[t] # {} =>
    \/ memory[t] = {"buf"} /\ request[t] \in ByName
    \/ memory[t] = Strings /\ request[t] = "create"

(* No task is in a module's code when it goes, enters one that is gone,      *)
(* calls a hook that has been reset or takes a mutex that is none.           *)
CodeStays == \A t \in Task : pc[t] # "oops"

(* "ioctl_module.ko ... will handle all the ioctl requests" (README, steps   *)
(* to test): every ioctl call returns, unless one has crashed with the mutex. *)
RequestsHandled ==
  \A t \in Task :
    request[t] # "none" ~>
      request[t] = "none" \/ \E u \in Task : pc[u] \in {"oops"} \cup Crashed

-------------------------------------------------------------------------------
(* A request is being served from mutex_lock to mutex_unlock or a crash at   *)
(* strlen, and for ever when it has crashed with a reference on the module.  *)
(* The module counts as in when init has ended.                              *)
Serving == {t \in Task : pc[t] \in Locked \cup {"fault"}}

Device == IF mod["ioctl_module"] = "loading" THEN "absent" ELSE mod["ioctl_module"]

Service == INSTANCE DeviceService WITH serving <- Serving, device <- Device

(* mutexlock, the references custom_ioctl takes and the loader's test of     *)
(* them together: one request at a time, none when the module is out or      *)
(* going, and no rmmod while one is served.                                  *)
ServesOneAtATime == Service!Spec
===============================================================================
