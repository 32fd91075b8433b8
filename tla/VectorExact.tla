------------------------------ MODULE VectorExact ------------------------------
(***************************************************************************)
(* What the counts mean when nobody misuses them and nothing fails: the    *)
(* invariant that carries RefcountExact and its companions.  It takes all  *)
(* of Assumptions, memory for every list and node a module can register    *)
(* (list_heads bounds those of dynamic_vector), and no bitmap that builds  *)
(* an empty list.                                                          *)
(***************************************************************************)
EXTENDS VectorLifetime

Undisturbed ==
  /\ Assumptions \subseteq Env
  /\ Cardinality(Addr) >= MaxHeads + 2
  /\ Cardinality(Node) >= MaxHeads + 2
  /\ \A b \in Bitmaps : validate_bitmap(b) => VectorFromBitmap(b) # {}

(* No bit a user passes is one add_vector_from_bitmap has no branch for. *)
BitsHaveBranches ==
  \A b \in Bitmaps : validate_bitmap(b) => VectorFromBitmap(b) = b

(* Where a task keeps addresses: one that has ended nowhere, one in a       *)
(* request only in va, as FreesFirst had it give up the vector it had.      *)
OneAddressEach ==
  \A t \in Task :
    /\ pc[t] \in Ended \cup {"set", "create"} => info[t] = NULL
    /\ pc[t] \in Ended \cup {"user"} => va[t] = NULL

(* A CREATE that is to build a list has a bitmap with one and room for it.  *)
CreateHasRoom ==
  \A t \in Task : pc[t] = "create" =>
    /\ arg[t] \in Bitmaps /\ validate_bitmap(arg[t])
    /\ va[t] = NULL => Len(heads["dynamic_vector"]) < MaxHeads

RequestsInv == OneAddressEach /\ CreateHasRoom

(* Memory is in use only where a module's list heads lead to it, nodes only *)
(* where vec_list does, and each list has its node.                         *)
NothingLeaks ==
  /\ \A a \in Addr : heap[a] # {} => \E m \in VectorModule : a \in ListsOf(m)
  /\ \A n \in Node \ Listed : node[n] = NoVector
  /\ \A m \in VectorModule : \A a \in ListsOf(m) : \E n \in Backed : node[n].addr = a
  /\ Listed \subseteq Backed

HeadsBounded ==
  /\ \A m \in StaticModule : Len(heads[m]) <= 1
  /\ Len(heads["dynamic_vector"]) <= MaxHeads

MemoryInv == NothingLeaks /\ HeadsBounded

(* No module is referenced more often than its vectors are. *)
NoStrayPins == \A m \in VectorModule : mref[m] <= Cardinality(VectorPins(m))

ExactInv == RequestsInv /\ MemoryInv /\ NoStrayPins /\ RefcountExact
===============================================================================
