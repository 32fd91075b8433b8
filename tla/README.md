# Per-process system call vectors: specification and proofs

A *vector* is a linked list of overridden system calls. A task whose
`task_struct.syscall_vector_info` points to such a list has its system calls
dispatched through it. Kernel modules register vectors with the kernel, tasks
acquire them through an ioctl device and a new system call `sys_clone2`, and
a reference count on each vector, together with the kernel's own count on each
module, is what keeps a list from being freed while a task uses it. This
directory holds TLA+ models of that life cycle, of the requests that show vectors,
of the way in and out of the device, of the overriding system calls and of the
programs that use all this, with their model-checking runs and machine-checked
proofs. All paths below are relative to `src/`.

## 1. Inventory

| component | state | operations | called by |
|---|---|---|---|
| registry, `vec_load_unload.c` | `vec_list_head` (newest first), per node: name, id, bitmap, list address, `refcount`, owning module; `list_lock`; a static text buffer | `register_syscall`, `register_dynamic_syscall`, `unregister_syscall`, `get_vector_address`, `get_vector_address_from_id`, `check_any_current_vector`, `increment_ref_count_from_address`, `reduce_ref_count`, `reduce_ref_count_from_address`, `show_all_vectors`, `show_my_vector` | everything below |
| dynamic vectors, `dynamic_vector.c` | `list_heads[256]`, the global index `i`, the list under construction `listHead` | `add_vector_from_bitmap`, `cleanup_override` | the ioctl device, rmmod |
| ioctl device, `ioctl_module.c` | `mutexlock`; a request's locals; `current->syscall_vector_info` | requests SET, REMOVE, CREATE_FROM_BITMAP, SHOW_ALL, SHOW_MINE, VECTOR_FOR_PID; `validate_bitmap`, `if_assigned_reduce`; insmod, rmmod | user programs |
| `sys_clone2.c` | the hook `sysptr` | `sys_clone2`; insmod, rmmod | user programs |
| static vectors, `vector1_module.c`, `vector2_module.c` | `listHead` | `initVector`, `cleanup_override` | insmod, rmmod |
| overridden calls, `overridden_syscalls.c` | the cached system call table pointer | ten system call bodies (part of module `vector1`) | the dispatcher |
| user programs, `demo/`, `tests/` | the requests still to make; a buffer, a file | SET, REMOVE, CREATE, `clone2`, SHOW | a shell |
| kernel (not in the repository but for old copies `fork.cpy`, `sched.cpy`) | `syscall_vector_info`, module states and reference counts | dispatch, fork, exit, insmod, rmmod, `try_module_get`, `module_put` | |

How they interact. A lookup in the registry adds 1 to the vector's `refcount` and
takes a reference on the module that owns it, both under `list_lock`, and returns
the list's *address*. The caller stores the address in a `task_struct` after
the lock is released. A reduction, by name or by address, undoes both. rmmod of a
vector module first stops `try_module_get` (the kernel refuses when the module is
referenced), then runs `cleanup_override`, which unregisters each list and
frees it. The overrides are code of `vector1`, so every list, whoever owns it,
points into that module.

What is hard about it:

* references are taken by one task and dropped by another (`sys_clone2` takes the
  child's), found by name at one end and by address at the other;
* an address crosses from one `list_lock` section to the next;
* `try_module_get`, `unregister_syscall` and both `register` functions can fail
  and no caller looks;
* rmmod runs concurrently with lookups; CREATE checks and registers in two
  critical sections;
* a vector with no entries has address 0, which also means "not found";
* the SHOW functions walk the list without `list_lock`;
* the device exists before its mutex, and an open file does not keep the module in;
* a request may crash where `custom_ioctl` does not test what it has, and nobody then
  releases `mutexlock`;
* `loggedWrite` works in its caller's buffer and makes two writes where its caller
  made one.

What makes each component correct is listed with its properties in section 4;
`PROJECT.json` lists the hazards at their lines.

## 2. Modules

| module | extends | what it models |
|---|---|---|
| `Vectors` | | bitmaps, `validate_bitmap`, the list built for a bitmap, the two static lists, names and SHOW text |
| `VectorRegistry` | `Vectors` | the registry: one operator per exported function of `vec_load_unload.c`, and the kernel's module references |
| `VectorSystem` | `VectorRegistry` | the composition: ioctl requests, `sys_clone2`, fork, exit, insmod and rmmod over the registry; the properties |
| `VectorLease` | | the abstract specification: override lists are lent to tasks, and one that is lent is neither changed nor destroyed |
| `DeviceService` | | the abstract specification of the ioctl device: requests are served one at a time, while its module is in, and its removal waits for them |
| `VectorLifetime` | `VectorSystem` | the inductive invariant behind "no vector goes away while it is in use", and the refinement mappings to `VectorLease` and `DeviceService` |
| `VectorExact` | `VectorLifetime` | the invariant behind the exact counts, when nobody misuses them and nothing fails |
| `VectorReaders` | `VectorSystem` | the SHOW requests as processes that walk the list node by node |
| `VectorPrograms` | `VectorSystem` | the demo programs as scripts of requests, started and killed by a shell |
| `EntryPoints` | | `custom_ioctl` on every path: mutex, module reference and memory; `sysptr`; insmod and rmmod of `ioctl_module` and `sys_clone2` |
| `OverriddenSyscalls` | `Vectors` | the ten overrides, with `loggedWrite` in steps |
| `MC...` | | the small instances |
| `VectorSystemProofs`, `VectorLifetimeProofs`, `VectorCountProofs`, `VectorExactProofs`, `VectorReadersProofs`, `VectorProgramsProofs`, `EntryPointsProofs`, `OverriddenSyscallsProofs` | | the proofs (section 5) |

`VectorReaders` and `VectorPrograms` each run over the whole of `VectorSystem`.
`EntryPoints` and `OverriddenSyscalls` stand apart. What `EntryPoints` shares with
`VectorSystem` and `VectorReaders` is how requests follow one another, which these have
as a guard on `mutexlock` and a condition on rmmod, and `EntryPoints` has as the steps of
`custom_ioctl` and of the loader: `VectorSystem` and `EntryPoints` each implement
`DeviceService`, through a mapping of its own. What `OverriddenSyscalls` shares with them is which overrides a vector
may hold.

## 3. How the model reads

`Vectors`. A bitmap is the set of its bits; the member `"high"` stands for all
bits from 1024 up, which `validate_bitmap` refuses. An override list is the
set of its entries (order never shows, as no list has two entries for one call). A
name is `"Vector"` and the bitmap in decimal, so it is a function of the
bitmap; `VectorName(b)` is one line of text, and `ShowText(b)`, what
`show_my_vector` leaves in its caller's buffer, is three. That difference is kept
because `if_assigned_reduce` passes the second where the first is expected.

`VectorRegistry`. Each operation runs under `list_lock` from its first statement
to its last, so it is one step. A traversal is a cursor `i`: the position where
`list_for_each_entry` breaks, 0 when it runs through (`StopsAt`). `TakeRef` and
`DropRef` are the blocks `if (flag != 0)` of the lookups and the reductions.
`mstate` and `mref` are the kernel's: `try_module_get` counts only while the
module is live, and the last reference is what `rmmod` looks at.

`VectorSystem`.

| variable | code |
|---|---|
| `heap` | the override list allocated at each address, `{}` when free |
| `heads` | `listHead` of the static modules, `list_heads[0..i-1]` of `dynamic_vector` |
| `info` | `task_struct.syscall_vector_info` |
| `pc`, `va`, `arg` | where a task is; the address a request carries between two `list_lock` sections; the bitmap of a CREATE |
| `mutexlock` | who holds the device's mutex |

| action | code |
|---|---|
| `SetLookup`, `SetAssign` | IOCTL_SET up to `get_vector_address`, and from there |
| `RemoveVector` | IOCTL_REMOVE (its only `list_lock` section is `reduce_ref_count`) |
| `CreateLookup`; `CreateExisting`, `CreateNoMemory`, `CreateBuild` | IOCTL_CREATE_FROM_BITMAP up to `check_any_current_vector`, and its three continuations in `add_vector_from_bitmap` |
| `CloneInherit`, `CloneById`; `CloneForks`, `CloneFails` | `sys_clone2` up to `_do_fork`, with and without CLONE_SYSCALLS; the fork |
| `NameCrashes`, `FaultCrashes` | a request that crashes with `mutexlock`, for ever: `strlen` of a bad address (211, 258), before `try_module_get`; a `kernel_bitmap` or `pid_buf` that is NULL (385, 344), `pid_task` returning NULL (361), or a SHOW on a freed node, after it. The kernel ends the task, which gives up its vector |
| `Fork`, `ForkInherit`, `KernelCounts`, `Exit` | the kernel's: a fork without and with CLONE_SYSCALLS, and the reference `fork.cpy:1327` would take for a child of `sys_clone2` too |
| `InsmodStatic`, `Insmod` | `initVector`; the other modules' init |
| `RmmodBegin`, `CleanupHead`, `RmmodEnd` | rmmod: the reference check, one iteration of `cleanup_override`, the module gone |

Merged into one step: in `SetAssign`, `show_my_vector` (unlocked) and
`reduce_ref_count`; in `CleanupHead`, `unregister_syscall` and `delete_vector`; in
`CreateBuild`, the list's construction (in memory no one else sees) and its
registration. `mutexlock` serialises the requests, so the only other actors in
such a gap are `sys_clone2`, exit and rmmod. None of them can change what
`reduce_ref_count` does with a text that is never a name. A list that is freed
between `unregister_syscall` and `delete_vector` of the same module is one no
lookup can return any more. `show_my_vector` in `SetAssign` may itself come to a freed node;
as for every crash of a request with `mutexlock`, what follows is that of `FaultCrashes`,
which is the step to look at (the reference SET has just taken would be lost besides).

`VectorReaders`. `show` is the SHOW request being served: its caller, the position
`at` of the traversal, the text so far. Everything else is `VectorSystem`'s and
goes on meanwhile (`SystemStep`), but for other requests, which wait for
`mutexlock`, and rmmod of `ioctl_module`, which the request's reference refuses.

| action | code |
|---|---|
| `ShowAll`, `ShowMine` | IOCTL_SHOW_ALL, IOCTL_SHOW_MINE up to the first node |
| `VectorForPid`, `ReadSubject` | IOCTL_VECTOR_FOR_PID up to `pid_task`, and reading the task's pointer, which may be freed memory by then |
| `VisitAll`, `VisitMine`, `WalkEnds` | an iteration of `show_all_vectors`, of `show_my_vector`, and the end of either loop |
| `VisitFreed` | an iteration on a node that has been unregistered: what it reads is anything |
| `ShowReturns` | `copy_to_user` and out |

The text is kept as the bitmaps of its entries; only its length (`EntryLen`) counts,
for the test `ret > MAX_BUFFER_SIZE` before an entry is appended, and for what becomes of
it: `show_all_vectors` copies all of it to the `BUF_LEN` bytes of `custom_ioctl`'s `buf`
(`vec_load_unload.c:91`, `ioctl_module.c:193`), of which the user gets `BUF_LEN` (310). A
text longer than that overruns `buf`, which crashes the request or goes unnoticed
(`Overruns`), and is cut. `stage = "oops"` is a crash, after which the kernel ends the
task (`ShowCrashes`) as in `FaultCrashes`. The pointer of `current` is read in the step
that begins a SHOW_MINE: nobody else writes it.

`EntryPoints`. One `pc` per task goes through `custom_ioctl`: `enter`, `locked`
(after `mutex_lock`), `get`, `work` (after `try_module_get`), `free` (after
`module_put`), `unlock`, `leave`; and through the clone2 entry, `tested` and `clone`.
The six requests are three kinds, by what they allocate: a name (SET, REMOVE), a
struct (VECTOR_FOR_PID, CREATE_FROM_BITMAP) or neither. A task that has crashed does
nothing any more and releases nothing but its files: `strlen` is a crash in SET or REMOVE
with `mutexlock` and before `try_module_get` (`NameFaults`), `fault` one with both
(`WorkFaults`: `kernel_bitmap` or `pid_buf` NULL, `pid_task` NULL, a SHOW on a freed node),
and `oops` one on code, a hook or a mutex that is not there. `memory` is what the request
has allocated, the strings of `add_vector_from_bitmap` included (`Allocations`). Insmod is two steps, as
`register_chrdev` comes before `mutex_init`; rmmod is the check of the reference
count, the exit function, and the end of the module's memory, where a task that
executes it crashes. `file` is who has the device open.

`OverriddenSyscalls`. Threads of one or two processes (`tgid`), each under a
vector chosen at the start, make any of the calls their vector overrides. Each of the
nine plain overrides is one step: it touches only its own stack and the system call
table pointer, and then makes the original call, gives up before it, or crashes
(`OverrideCrashes`: `filp_open` has returned an error pointer, the list has no system call
table, which nothing in the sources puts into one, or a path is a bad address). `loggedWrite` is a step per
access to what other threads share:

| action | code |
|---|---|
| `LoggedBegin` | up to the test for `.c`, with the ways to give up before it |
| `LoggedSave` | `copy_from_user`, which may fail, and the page for the comment, which is not tested |
| `LoggedMark` | `copy_to_user` of the comment into the caller's buffer, whole or in part (then the call gives up) |
| `LoggedComment` | the first `original_write`, its result unused |
| `LoggedRestore` | the caller's bytes copied back, or the call given up |
| `LoggedData` | the second `original_write`, whose result is returned |

A file is its last two writes, each with its author and whether it was a comment, the
change after a comment, or a plain write; a buffer says of its first `count` bytes and
of the bytes behind them whether the comment is there. What a call returns is left out: 8787
where an override could not get the process name, 0 for a protected path, -1 and `-ENOMEM`
are values an original call may return as well.

`VectorPrograms`. `todo` is what a task's program has still to do: the requests of
`demo/test_ioctl.c` (with each of three names), `test_vector1.c`, `test_vector2.c`,
`user_clone.c`, `user_ioctl2.c` and `user_ioctl3.c` that change who has which vector.
`Proceeds` is a program's test of the result, after which it stops or not. Any number
of programs run at a time, any may be killed at any point, and modules come and go.

`VectorLease` has three variables: `lists` (what each address stands for), `assigned`
and `pending` (the list a task has, and the list a request has obtained and not
yet passed on). `VectorLifetime` maps them to `heap`, `info` and `va`: nodes, counts,
modules and the mutex disappear.

`DeviceService` has two: `serving` (the tasks whose request is being served) and `device`
(`ioctl_module`: absent, live or going). `EntryPoints` maps `serving` to the tasks between
`mutex_lock` and `mutex_unlock`, with one that crashed there after `try_module_get`, and
`device` to the module, absent until insmod has ended. `VectorLifetime` maps it to the tasks
between the two steps of SET and CREATE and the one that crashed. A crash at `strlen` ends
the service of its request, as rmmod of `ioctl_module` is possible then: it is `mutexlock`
that keeps others from being served. What takes a single step there (REMOVE, for one) is
begun and finished in it, and stutters.

Errors before the first registry call after which a request returns (no memory for `buf` or
`vector_name`, a failing `copy_from_user`, an invalid bitmap) change nothing of
`VectorSystem`'s state and are stuttering steps there; `EntryPoints` has their paths. Those
that crash the task are `NameCrashes` and `FaultCrashes`.

### Bounds

| bound | where | why it is enough |
|---|---|---|
| `Task`, `Addr`, `Node` | 2 or 3 tasks, 2 to 4 addresses and nodes | an empty pool is a failed allocation, which the code may meet at any time; two users of one vector, two vectors at once and a node without a list all fit, and addresses are reused |
| `MaxRef` | a refcount stays within `-MaxRef .. MaxRef`, an `mref` above `-MaxRef` | the counter is an `int` that has no limit in the code; 3 (6 in `exact`) exceeds the number of users so that leaked references show |
| `MaxHeads` | length of `list_heads` at which CREATE starts no new list | two dynamic vectors of one kind or of two kinds |
| `MAX_BUFFER_SIZE`, `BUF_LEN` | 35 and 33 in `show` (1024 and 256 in the code) | an entry there is 18 bytes long: one vector fits into both, two overrun `buf`, and with two the text is longer than `MAX_BUFFER_SIZE`, so that a third is left out |
| `Thread`, `Process`, `File`, `Fd`, `Buffer` | 2 threads in 1 or 2 processes, a `.c` file and another, descriptors 2 and 3, two buffers and one in read-only memory | two actors on every shared object, and each side of each test of `loggedWrite` |
| `content` | the last two writes of a file | the properties relate a write to its neighbour |
| `RoomToFork` | with `ForksSucceed`, no more `sys_clone2` under way than dead tasks | only keeps that assumption meaningful |

### What is assumed of the environment

The code relies on its users for things it does not check. `Env` is the
set of those assumptions a run makes. None can be left out: "without it" is
what TLC finds when it is taken out of the cfg named (or is a run of its own).

| module | assumption | meaning | without it |
|---|---|---|---|
| `VectorSystem` | `RemovesOwn` | a task passes REMOVE the name SHOW_MINE gives it | `remove_any` |
| | `BootOrder` | `vector1` and `vector2` are inserted before `dynamic_vector` (README, "STEPS TO TEST", 5 to 8) | `lifetime`: a `vector2` inserted later hides a dynamic vector of the same bitmap, and drops by name and by address reach different nodes |
| | `QuietRmmod` | no lookup between the start and the end of an rmmod | `rmmod_race` |
| | `FreesFirst` | a task sets or creates only when it has no vector | `set_leak`; made in `exact`, `progress` and the runs for violations |
| | `ForksSucceed`, `MemoryAvailable` | `_do_fork` and `kmalloc` do not fail | `exact`: references taken for a child that is never born, or for a list nobody registered, are leaked. `lifetime` does not assume them |
| | `OneReference` | `_do_fork` takes no reference for a child `sys_clone2` took one for | `exact`: the child's reference is counted twice and dropped once. `fork.cpy:1327`, the only fork in the repository, does increment for CLONE_SYSCALLS, which `sys_clone2` passes on in its flags; but that file is of a kernel whose fork has no `vector_address` argument yet, so which of the two the final kernel did is not known. `lifetime` does not assume it |
| `EntryPoints` | `LateUsers` | nobody opens the device before insmod has ended | `entries`: a request locks `mutexlock` before `mutex_init` |
| | `IdleRmmod` | rmmod begins when nobody has the device open or is in `sys_clone2`, and nobody comes meanwhile | `entries`: the reference is taken only after `mutex_lock` and `fops` has no owner, so rmmod frees the code under a request that waits; a caller that has tested `sysptr` calls through NULL |
| `OverriddenSyscalls` | `OwnFiles` | no two writes go to one file at a time | `overrides`: another write comes between a comment and its change (`LoggedChanges`) |
| | `OwnBuffers` | no two calls of a process use one buffer at a time | `overrides`: another thread writes the comment for its data (`DataFromCaller`) |
| | `StableFds` | a descriptor is not opened or closed while a call uses it | `overrides`: `fd` is looked up again for each write, and the comment and the change end up in different files, one perhaps not a `.c` file |
| | `LongData` | the data is at least as long as the comment | `overrides`: the bytes behind shorter data stay overwritten (`BufferKept`) |
| | `WholeBuffers` | a buffer can be written to its end, and as long as a call uses it, or cannot be written at all | `overrides`: `copy_to_user` gives up halfway and the comment stays in the buffer, or in the file without its change (`BufferKept`, `DataFromCaller`, `LoggedChanges`) |
| | `WritesSucceed` | `write` to an open descriptor does not fail | `overrides`: a comment with no change after it |

`RemovesOwn` and `FreesFirst` are about programs, and the run `programs` shows that the
demo programs keep them, whatever other programs and rmmod do between their
requests; `ProgramsAreCareful` (section 5) proves it. Two programs of the repository
do not: `tests/user_code.c:44` goes on to
REMOVE when its SET has failed, and `demo/temp/user_write.c:48-50` removes a vector
before it has set it. If somebody else has created that vector meanwhile, it is his
reference they drop, as in `remove_any`. Neither is among the scripts of `programs`, so
what that run shows is not said of them.

## 4. Runs

| run | module | shows |
|---|---|---|
| `lifetime` | `VectorLifetime` | Under `RemovesOwn`, `BootOrder` and `QuietRmmod`, whatever fails: `NoDanglingVector` (a list that a task or a request still points to is allocated), `HeldModulesLoaded` (its code and its owner are in the kernel), `RefcountCoversUsers`, `ModulePinned` (counts may leak, never fall short), `HidesOnlyEmpty` (a name and an address lead to the same node), `HeldListUnchanged` (a list in use is neither freed nor freed and rebuilt), `LendsLists` (the whole implements `VectorLease`), and the invariant `LifetimeInv` the proofs use |
| `exact` | `VectorSystem` | With all assumptions, `OneReference` among them: `RefcountExact` (counts equal users), `UnpinnedWhenUnused` (rmmod becomes possible again), `OneVectorPerBitmap` (concurrent CREATEs make one vector), `VectorHasItsOverrides` |
| `progress` | `VectorLifetime` | `RequestsFinish` (a request returns and `mutexlock` is released, unless its task crashes in it) and `RmmodFinishes`, under fairness and with lookups racing rmmod; `ServesOneAtATime` (the system implements `DeviceService`) |
| `show` | `VectorReaders` | `ShowInv` (a SHOW is served alone), `ShowAllComplete` (while nothing is unregistered SHOW_ALL shows vectors that were there, in order, whatever is inserted meanwhile; all of them if their text fits into `BUF_LEN`) with `WalkInv`, the invariant that carries it, `AnswerIsSubjects` (the other two show the vector their task has, though its pointer was read before the walk), `ShowFinishes` |
| `entries` | `EntryPoints` | Under `LateUsers` and `IdleRmmod`, with allocations failing and requests crashing at will: `OneRequestAtATime`, `RefsBalanced` (each path gives back the module reference it took; a crash after `try_module_get` keeps it, one at `strlen` has none), `LeaksKnown` (what returning requests lose is `buf`, when `vector_name` cannot be had, and the two strings of `add_vector_from_bitmap` when CREATE has built a vector), `CodeStays` (nobody executes code that is gone), `RequestsHandled`, `ServesOneAtATime` (the code implements `DeviceService`) |
| `overrides` | `OverriddenSyscalls` | Under the six assumptions: `LoggedChanges` (a comment before each change, with its author, and a change after each comment), `OnlyCFilesLogged`, `DataFromCaller` (no comment is written as data), `BufferKept` |
| `programs` | `VectorPrograms` | `KeepsToProtocol` (at each request the program has, or has not, a vector, as `RemovesOwn` and `FreesFirst` demand), hence `NoDanglingVector`, and `RemovesAssigned` (a program drops references of its own vector only) |

The README promises of SHOW_ALL "vector name", "vector id" and "overridden functions' bitmap"
of the vectors loaded (147-149). From about a dozen vectors on the text is longer than the
256 bytes of `buf`, and the code does not keep that promise; `ShowAllComplete` says what is
left of it.

In `programs` any of the eight scripts may be started at any time: its behaviours include
several programs that share one vector, and several that create one bitmap at a time.

The violations are disagreements between the code and what its comments and README
say; `PROJECT.json` quotes the lines.

| run | what happens |
|---|---|
| `remove_any` | REMOVE with a name the caller does not have drops another task's reference (`ioctl_module.c:286`); the vector can be freed under it |
| `rmmod_race` | a lookup after rmmod has begun: `try_module_get` fails unnoticed, the address is handed out, `cleanup_override` ignores the refusal and frees the list |
| `set_leak` | SET by a task that has a vector never reduces the old one's count: `if_assigned_reduce` looks for a name of three lines |
| `lost_override` | the bits for mkdir and rmdir have no branch in `add_vector_from_bitmap` |
| `show_race` | rmmod frees the node a SHOW stands on, as the walk does not take `list_lock` |

`exact` uses only bitmaps with a branch for each bit, and vectors that do not hide
one another. `lost_override` shows why; and a vector created for such bits alone
has no entries, hence address 0, so that the next CREATE of its bitmap does not see
it and registers another.

### Fairness

* `progress`: weak fairness of a request's second step, of the fork inside
  `sys_clone2`, and of the steps of an rmmod that has begun. Each is a thread in the
  kernel that waits for nothing but `list_lock`, which every holder releases
  without waiting.
* `show`: weak fairness of the steps of a SHOW, which waits for nothing.
* `entries`: weak fairness of each task's steps in `custom_ioctl`, and strong
  fairness of its `mutex_lock`: the mutex is free again and again, and it wakes its
  waiters in the order they came.

No fairness is assumed of programs or administrators: a task need not issue a
request, exit, or remove a module.

`RequestsFinish`, `ShowFinishes` and `RequestsHandled` except what the code cannot do: a
request that crashes holds `mutexlock` for ever and keeps everybody waiting, and a SHOW
whose list changes under it follows freed links.

### Deadlock

Checked in `entries`, where some module can always be removed and inserted again, and in
`programs`, where the shell can always start a program. In the other runs the system really
may stop: a request has crashed holding `mutexlock` and the reference that keeps
`ioctl_module` and what it depends on in, or every thread has crashed in an override.

## 5. Proofs

Checked by TLAPS for all values of the constants:

| module | proves |
|---|---|
| `VectorSystemProofs` | `TypeCorrect` |
| `VectorLifetimeProofs` | `LoaderCorrect`; the refinement of `DeviceService`; every step keeps `RegistryInv` under `Careful` |
| `VectorCountProofs` | every step keeps `CountInv` under `Careful`; `LifetimeInvariant` to `HeldListsStay` below; the refinement of `VectorLease` |
| `VectorExactProofs` | the exact counts, and what a registered vector is |
| `VectorReadersProofs` | `VectorReaders` implements `VectorSystem`; what a SHOW shows |
| `VectorProgramsProofs` | the programs are users as `VectorSystem` assumes them |
| `EntryPointsProofs` | the safety properties of `EntryPoints`; the refinement of `DeviceService` |
| `OverriddenSyscallsProofs` | the properties of `OverriddenSyscalls` |

| theorem | says | assumes |
|---|---|---|
| `TypeCorrect` | `Spec => []TypeOK` | |
| `LoaderCorrect` | `Spec => []LoaderInv` | |
| `SystemServesOneAtATime` | `Spec => ServesOneAtATime` | |
| `LifetimeInvariant` | `Spec => []LifetimeInv` | `Careful` |
| `NoneDangles`, `ModulesStay`, `UsersAreCounted`, `NamesReachLists` | `Spec => []P` for `NoDanglingVector`, `HeldModulesLoaded`, `RefcountCoversUsers`, `HidesOnlyEmpty` | `Careful` |
| `HeldListsStay` | `Spec => HeldListUnchanged` | `Careful` |
| `SystemLendsLists` | `Spec => LendsLists` | `Careful` |
| `ModulesArePinned` | `Spec => []ModulePinned` | `Careful` |
| `CountsAreExact`, `UnusedIsUnpinned`, `NoTwins` | `Spec => []P` for `RefcountExact`, `UnpinnedWhenUnused`, `OneVectorPerBitmap` | `Undisturbed` |
| `VectorsAreAsNamed` | `Spec => []VectorHasItsOverrides` | `Undisturbed`, `BitsHaveBranches` |
| `ReadersImplementSystem` | `ReadersSpec => Spec` | |
| `NoneDanglesDuringShow` | `ReadersSpec => []NoDanglingVector` | `Careful` |
| `ShowExcludesRequests`, `WalksShowInOrder`, `ShowAllIsComplete` | `ReadersSpec => []P` for `ShowInv`, `WalkInv`, `ShowAllComplete` | |
| `AnswersAreTheSubjects` | `ReadersSpec => []AnswerIsSubjects` | `Careful` |
| `EntryTypes`, `MutexExcludes`, `ReferencesBalanced`, `CodeIsThere`, `LeaksAreKnown` | `Spec => []P` for `TypeOK`, `OneRequestAtATime`, `RefsBalanced`, `CodeStays`, `LeaksKnown` of `EntryPoints` | `Orderly` |
| `DeviceServesOneAtATime` | `Spec => ServesOneAtATime` of `EntryPoints` | `Orderly` |
| `ProgramsTyped` | `ProgramsSpec => []ProgramsTypeOK` | |
| `ProgramsKeepToProtocol`, `ProgramsDoNotDangle` | `ProgramsSpec => []P` for `KeepsToProtocol`, `NoDanglingVector` | `LoadedCarefully` |
| `ProgramsRemoveAssigned` | `ProgramsSpec => RemovesAssigned` | `LoadedCarefully` |
| `ProgramsAreCareful` | `ProgramsSpec => C!Spec`: the programs implement `VectorSystem` with `RemovesOwn` and `FreesFirst` in `Env` | `LoadedCarefully` |
| `ProgramsCountExactly`, `ProgramsUnpinModules` | `ProgramsSpec => []P` for `RefcountExact`, `UnpinnedWhenUnused` | `NothingFails` |
| `TypeCorrect` (`OverriddenSyscallsProofs`) | `Spec => []TypeOK` | |
| `WritesCallersData` | `Spec => []DataFromCaller` | `OwnBuffers`, `WholeBuffers` |
| `CallersMemoryKept` | `Spec => []BufferKept` | `OwnBuffers`, `LongData`, `WholeBuffers` |
| `CommentsInCFilesOnly` | `Spec => []OnlyCFilesLogged` | `StableFds` |
| `ChangesAreLogged` | `Spec => []LoggedChanges` | `StableFds`, `OwnFiles`, `WholeBuffers`, `WritesSucceed` |

* `Careful` is `{"RemovesOwn", "BootOrder", "QuietRmmod"} \subseteq Env`, the assumptions
  of the run `lifetime`, and `Orderly` is `{"LateUsers", "IdleRmmod"} \subseteq Env`. Where
  only these are assumed, memory, registration and fork may fail at any time.
* `Undisturbed` is that all of `Assumptions` are in `Env`, that there are two addresses and
  two nodes more than `MaxHeads` (the modules can register that many vectors, so memory
  never runs out), and that no bitmap passed builds an empty list. `exact` is an instance.
  Each part is needed: section 3 says which run shows it.
* `BitsHaveBranches`: no bitmap passed has a bit `add_vector_from_bitmap` has no branch for.
  mkdir and rmdir are such bits; `lost_override` shows what becomes of them.
* `LoadedCarefully` is `{"BootOrder", "QuietRmmod"} \subseteq Env`: what remains of `Careful`
  for administrators when the programs see to the rest. `NothingFails` adds `ForksSucceed`,
  `MemoryAvailable`, `OneReference` and the two bounds on memory of `Undisturbed`; its other two parts are
  the programs' doing.
* `OwnBuffers` and its companions are the assumptions on threads of section 3; each theorem
  takes those it needs.

None of the named assumptions can be left out (section 3). The constants are those of the modules'
named assumptions: tasks, addresses and nodes are finite sets of any size, `NULL` and
`NoTask` are none of them, `MaxRef` is positive and `MaxHeads` a natural number.
A step that would take a count past `MaxRef` is disabled, in the proofs as in the
runs, so what they say holds until an `int` would overflow.

### The argument

None of the safety properties is inductive. `NoDanglingVector` needs that rmmod is
refused, hence that the module's count is positive, hence that each of its users
is in the count; and that in turn that a drop by name (REMOVE) and a drop by
address (exit) reach the node where the reference was taken. `LifetimeInv` says all
of it, in four layers; each uses the ones before.

1. `TypeOK`.
2. `LoaderInv`: dependencies are in, an absent module has no lists, and a task
   between its two registry calls holds `mutexlock` while `ioctl_module` is in.
3. `RegistryInv`: no node is listed twice; lists in use by modules are allocated and
   distinct; a node with a list (`Backed`) points into its own module's lists, and no two
   to one list; a vector hides only vectors without a list (`HidesOnlyEmpty`), so name
   and address of a list lead to the same node. `CreateIsNew` carries what
   `check_any_current_vector` found across to `register_dynamic_syscall`: the mutex
   keeps other creators out, `BootOrder` keeps `initVector` out.
4. `CountInv`: refcounts are at least the number of users, and a module's `mref` at
   least the number of its `Pins`. These are a token per reference of a backed
   vector (`VectorPins`), and one for each list that is not registered
   (`OrphanPins`): `add_vector_from_bitmap` takes a module reference and assigns the
   list also when registration fails, and nothing ever drops that reference.
   `GoingUnpinned` says a module being removed has no pins, so by counting, its
   lists have no users; `QuietRmmod` keeps new ones from coming.

The counting is done on sets: `PinsUp`, `PinsDown`, `PinsAdded` and `PinsOrphaned` relate a
refcount, a new node or an orphaned list to one token more or less, and
`PointerMoves` does the same for the tasks that point to a list. `TakeRefCounts` and
`DropRefCounts` put the two together for every lookup and every drop; `FoundOwn`
says that a careful REMOVE finds the caller's own node, and `NothingReduced` that
`if_assigned_reduce` finds none.

`SystemLendsLists` needs two things of `LifetimeInv`: a list that is borrowed is there, and
a list that `CleanupHead` frees is lent to nobody. Both follow from `NoDanglingVector`
in the state *after* the step, which is what makes the refinement short once the
counts are done. `CarriesInside` adds that a task carries an address only inside a
request and that a task not yet forked has no vector, so that `CloneForks` passes on
to an heir without one.

`WalkInv` is the loop invariant of `show_all_vectors`: registration adds at the
head, so the vectors that were there when the walk began stay the end of the list
(`PresentKept`), and what has been shown is exactly those before the cursor
(`ShownSoFar`). It is inductive only together with `ShowInv`, as another request or a
second SHOW would move the cursor, and needs that no node is listed twice.

`SubjectInv` does the same for `show_my_vector`: the vector sought is the subject's as long as nothing is unregistered, as a task that
has a vector gets no other while a SHOW holds `mutexlock`, and the walk has not
passed it. A vector in use keeps its node while other vectors are registered
(`AddHeadListed`), so the answer is that node's bitmap, or nothing when it is gone.
`LifetimeInv` makes the node unique (`MineIsOne`).

*Exact counts.* `ModulePinned` counts the vectors without a list too, which `Pins` leaves
out. `PinInv` adds them: all are of `dynamic_vector`, CREATE has counted each once, and as
their address is 0 nobody can drop that reference, so the module never leaves.
For the equalities `ExactInv` bounds the counts from above, where `LifetimeInv` bounds them
from below. `RequestsInv`: a task keeps an address in one place at a time, because
`FreesFirst` had it give up its vector before SET or CREATE. `MemoryInv`: every allocated
list is on a module's heads and has its node, and list and nodes take no more than
`MaxHeads + 2`, so no allocation fails and no list is orphaned. `NoStrayPins` and
`RefcountExact`: a module has no reference but those of its vectors, a vector none
but those of its users. Each is inductive only with the others: a list that got lost would
keep a module reference that no vector accounts for. `BuiltAsNamed`, carried on top,
says that a list is still the one its bitmap builds.

*Programs.* What a program will ask next depends on what it has asked: a REMOVE is preceded
by a SET of the same name that succeeded, a CREATE by a REMOVE or by nothing. `WillKeep`
says a task is `Prepared` for its next request: before SET and CREATE it has no vector,
and from its SET to its REMOVE its vector is registered under the name it will pass.
Between the two, other programs and rmmod take any number of steps, and what keeps the
vector as it is (`NamedStays`) is `LifetimeInv`, for which programs have to keep to the
protocol. The induction does both at once: `C` is `VectorExactProofs` instantiated with
`RemovesOwn` and `FreesFirst` added to `Env` and with the bitmaps the scripts use. `PreparedKeeps`
says that a prepared program keeps to the protocol in its next step, `StepIsCareful`
that the step is then one of `C`, so that `C!LifetimeInv` holds after it, and `StepPrepares`
that every program is prepared for what follows. So the programs implement `C!Spec`,
and what the other modules prove of it, the exact counts among them, holds of them.

*Overrides.* `loggedWrite` works in its caller's buffer and looks its descriptor up at each
write, so its promises hold as long as nobody else touches either. `BuffersInv`: a
buffer holds the comment exactly while its one call is between putting it there and
taking it out, of which that call has a good copy; that it is taken out is `WholeBuffers`. `FileInv`: the descriptor of a call
that comments still leads to a `.c` file. `PairsInv`: a file of this kind ends in a comment
exactly while its author has still to write the change. It needs `FilesApart`, that no
two calls have one file, and that is not inductive when `StableFds` forbids only
closing: a thread may be writing to a standard descriptor that is closed, which
`loggedWrite` does not look at, when a second opens a `.c` file there that a third is
about to change; the first then writes between comment and change. Hence the
assumption covers opening as well.

`EntryInv` of `EntryPointsProofs` ties the counters of `EntryPoints` to where tasks are:
modules are in while somebody has the device open or is in the hook (`InUse`), who
is behind `mutex_lock` holds it and who holds it is there or crashed (`Exclusive`),
and the reference count is 1 while a task is between `try_module_get` and
`module_put` or crashed there (`Balanced`); `Tidy` says what its request has allocated.
A crash at `strlen` leaves the mutex without the reference: rmmod and insmod of
`ioctl_module` are possible then, and give the device a new mutex.

*One request at a time.* Each refinement of `DeviceService` goes action by action. In the
system modules what a step needs of the state before it is `LoaderInv` (who is between the
steps of a request, or crashed with a reference, holds `mutexlock` and keeps `ioctl_module`
in); it holds in any environment, so a lookup that races rmmod breaks what is promised of
vectors but never the order of the requests. In `EntryPoints` it is `EntryInv`: a lock that
succeeds finds nobody between lock and unlock (`Exclusive`), the module is in then
(`InUse`), and rmmod, which looks at the reference count alone, finds nobody there either
(`Balanced`). A request between `mutex_lock` and `try_module_get`, or between `module_put`
and `mutex_unlock`, has no reference: it is `IdleRmmod`, not the count, that keeps
rmmod away from it.

## 6. What is only model-checked, and what is not modelled

Only model-checked is liveness (`RequestsFinish`, `RmmodFinishes`, `ShowFinishes`,
`RequestsHandled`, in `progress`, `show` and `entries`): it needs fairness and ENABLED,
which the proof system does not handle. Every other property of a passing run is
stated by a theorem.

Not modelled:

* superseded copies (`vec_copy.c`, `*.bak`, `*.cpy`) and generated descriptors
  (`*.mod.c`; their `depends=` lines are `Requires`);
* `list_heads[256]` written past its end by the 257th CREATE: `MaxHeads` stops
  before, as what lies behind the array is not in the model;
* what a text that overruns `buf` or the static buffer does to the memory behind it: a crash
  of the request and nothing at all are the two outcomes in the model;
* bytes: `loggedWrite` copies `count` bytes to one page whatever `count` is; the wording
  of the comment is not kept but for its user;
* what an overriding call returns;
* the reference `loggedWrite` takes with `fget` and never drops;
* paths that are read from the user twice (`overriddenUnlink`, `blockedOpen`): once to
  test them and once by the original call. The model decides per call whether a path is
  protected;
* the programs that do not change who has which vector (`user_ioctl1`,
  `default_clone`), those that do not keep to the protocol (`tests/user_code.c`,
  `user_write.c`, section 3), and `tests/test_vector2.c`, which asks for its bitmap;
* dispatch of a system call in `VectorSystem`: a task may follow its pointer at any
  time, which is what `Held` stands for.

The kernel's share (module states and counts, fork, exit, rmmod, the clone2 entry) is
not in the repository and is modelled from how the code uses it: the patched
`_do_fork` gives the child the address `sys_clone2` passes, or with CLONE_SYSCALLS, for which
it passes 0, the parent's pointer (`fork.cpy:1328`), with or without a reference of its own
(`OneReference`); exit drops the task's reference with `reduce_ref_count_from_address`, which
nothing else in the repository calls, and so does the end of a task that has crashed.
