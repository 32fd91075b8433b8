---------------------------- MODULE VectorRegistry ----------------------------
(***************************************************************************)
(* The registry of vec_load_unload.c: the list of registered vectors, their *)
(* reference counts, and the references it takes on the modules that own   *)
(* them.  Every operation but the show functions runs under list_lock, so  *)
(* each is one step; the callers in VectorSystem supply the rest of the    *)
(* step.  A struct_vector is a member of Node; the module loader's part    *)
(* (struct module, try_module_get, module_put) is the kernel's.            *)
(***************************************************************************)
EXTENDS Vectors, Integers, SequencesExt

CONSTANTS
  Node,     \* the memory kzalloc can give out for struct_vector
  Addr,     \* the memory kmalloc can give out for override lists
  NULL,
  MaxRef    \* bound: how far from 0 a refcount is taken, a mref below 0

ASSUME NULLAssumption == NULL \notin Addr
ASSUME MaxRefAssumption == MaxRef \in Nat \ {0}

VectorModule == StaticModule \cup {"dynamic_vector"}
Module == VectorModule \cup {"ioctl_module"}
Pointer == Addr \cup {NULL}

VARIABLES
  vec_list,  \* vec_list_head: the nodes, newest first (list_add)
  node,      \* the contents of each struct_vector
  mstate,    \* the module loader's state of each module
  mref       \* the references try_module_get holds on a vector module

registryVars == <<vec_list, node, mstate, mref>>

(* vector_id, vector_name and overfuncs_bitmap all follow from the bitmap. *)
Vector == [bitmap: Bitmap, addr: Pointer, refcount: Int,
           module: VectorModule \cup {"none"}]
NoVector == [bitmap |-> {}, addr |-> NULL, refcount |-> 0, module |-> "none"]

Listed == {vec_list[i] : i \in DOMAIN vec_list}

RegistryTypeOK ==
  /\ vec_list \in Seq(Node)
  /\ node \in [Node -> Vector]
  /\ mstate \in [Module -> {"absent", "live", "going"}]
  /\ mref \in [VectorModule -> Int]

RegistryInit ==
  /\ vec_list = <<>>
  /\ node = [n \in Node |-> NoVector]
  /\ mstate = [m \in Module |-> "absent"]
  /\ mref = [m \in VectorModule |-> 0]

-------------------------------------------------------------------------------
(* list_for_each_entry over vec_list_head with a break: the cursor stops at *)
(* the first node of S, or at 0 when the loop runs through.                 *)
Cursor == 0 .. Len(vec_list)

StopsAt(i, S) ==
  IF i = 0 THEN \A j \in DOMAIN vec_list : vec_list[j] \notin S
           ELSE /\ vec_list[i] \in S
                /\ \A j \in 1 .. (i - 1) : vec_list[j] \notin S

ByName(name) == {n \in Node : VectorName(node[n].bitmap) = name}
ByBitmap(b)  == {n \in Node : node[n].bitmap = b}
ByAddr(a)    == {n \in Node : node[n].addr = a}

At(i) == node[vec_list[i]]
AddrAt(i) == IF i = 0 THEN NULL ELSE At(i).addr

(* The kernel's module references.  Taking one fails once rmmod has begun;  *)
(* no caller looks at the result.  A module that is gone has no counter.    *)
try_module_get(m) ==
  mref' = IF mstate[m] = "live" THEN [mref EXCEPT ![m] = @ + 1] ELSE mref
module_put(m) ==
  /\ mref[m] > -MaxRef
  /\ mref' = IF mstate[m] = "absent" THEN mref
             ELSE [mref EXCEPT ![m] = @ - 1]

(* Slip: the vector is counted and its module is not. *)
CountsOnly(i) ==
  IF i = 0 THEN UNCHANGED <<node, mref>>
  ELSE /\ At(i).refcount < MaxRef
       /\ node' = [node EXCEPT ![vec_list[i]].refcount = @ + 1]
       /\ UNCHANGED mref

(* refcount + 1 and try_module_get, shared by the four lookups. *)
TakeRef(i) ==
  IF i = 0 THEN UNCHANGED <<node, mref>>
  ELSE /\ At(i).refcount < MaxRef
       /\ node' = [node EXCEPT ![vec_list[i]].refcount = @ + 1]
       /\ try_module_get(At(i).module)

(* Slips: one half of a reduction without the other. *)
PutsOnly(i) ==
  IF i = 0 THEN UNCHANGED <<node, mref>>
  ELSE module_put(At(i).module) /\ UNCHANGED node
KeepsModule(i) ==
  IF i = 0 THEN UNCHANGED <<node, mref>>
  ELSE /\ At(i).refcount > -MaxRef
       /\ node' = [node EXCEPT ![vec_list[i]].refcount = @ - 1]
       /\ UNCHANGED mref

(* refcount - 1 and module_put, shared by the two reductions. *)
DropRef(i) ==
  IF i = 0 THEN UNCHANGED <<node, mref>>
  ELSE /\ At(i).refcount > -MaxRef
       /\ node' = [node EXCEPT ![vec_list[i]].refcount = @ - 1]
       /\ module_put(At(i).module)

-------------------------------------------------------------------------------
(* The exported operations.  The cursor i is what the traversal found: the  *)
(* lookups return AddrAt(i), reduce_ref_count At(i).refcount - 1 or -1.     *)
get_vector_address(i, name) == StopsAt(i, ByName(name)) /\ TakeRef(i)

get_vector_address_from_id(i, b) == StopsAt(i, ByBitmap(b)) /\ TakeRef(i)

check_any_current_vector(i, b) == StopsAt(i, ByBitmap(b)) /\ TakeRef(i)

(* Slip: the address is looked up and its count left alone. *)
FindsOnly(i, a) == StopsAt(i, ByAddr(a)) /\ UNCHANGED <<node, mref>>

increment_ref_count_from_address(i, a) == StopsAt(i, ByAddr(a)) /\ TakeRef(i)

reduce_ref_count(i, name) == StopsAt(i, ByName(name)) /\ DropRef(i)

reduce_ref_count_from_address(i, a) == StopsAt(i, ByAddr(a)) /\ DropRef(i)

(* add_vector_address (count 0) and add_dynamic_vector_address (count 1):   *)
(* the new node n goes to the head of the list.  No name is checked.        *)
FreeNode == {n \in Node \ Listed : node[n] = NoVector}

AddVector(n, b, a, m, count) ==
  /\ n \in FreeNode
  /\ node' = [node EXCEPT ![n] = [bitmap |-> b, addr |-> a,
                                  refcount |-> count, module |-> m]]
  /\ vec_list' = <<n>> \o vec_list

(* register_syscall and register_dynamic_syscall, whose kzalloc may fail.   *)
register_syscall(n, b, a, m) == AddVector(n, b, a, m, 0)

(* Slips: THIS_MODULE of the module the request came in through; a new      *)
(* vector its creator is not counted in.                                    *)
ForCaller(n, b, a, m) == AddVector(n, b, a, "ioctl_module", 1)
Uncounted(n, b, a, m) == AddVector(n, b, a, m, 0)

register_dynamic_syscall(n, b, a, m) == AddVector(n, b, a, m, 1)
RegisterFails == UNCHANGED <<vec_list, node>>

(* Slip: cleanup waits for the count to drop to 0. *)
WaitsForUsers(a) ==
  \E i \in Cursor :
    /\ StopsAt(i, ByAddr(a))
    /\ IF i = 0 THEN UNCHANGED <<vec_list, node>>
       ELSE /\ At(i).refcount <= 0
            /\ vec_list' = RemoveAt(vec_list, i)
            /\ node' = [node EXCEPT ![vec_list[i]] = NoVector]

(* unregister_syscall: remove_vector_address refuses (-2222) while the      *)
(* refcount is positive, and no caller looks at the result.                 *)
unregister_syscall(a) ==
  \E i \in Cursor :
    /\ StopsAt(i, ByAddr(a))
    /\ IF i = 0 \/ At(i).refcount > 0
       THEN UNCHANGED <<vec_list, node>>
       ELSE /\ vec_list' = RemoveAt(vec_list, i)
            /\ node' = [node EXCEPT ![vec_list[i]] = NoVector]

(* show_my_vector: the text it leaves in the caller's buffer, the cursor    *)
(* being where the search for the caller's vector stopped.                  *)
show_my_vector(i, a) ==
  IF a = NULL THEN <<"vector not assigned">>
  ELSE IF i = 0 THEN <<>> ELSE ShowText(At(i).bitmap)
===============================================================================
