---------------------------- MODULE VectorLifetime ----------------------------
(***************************************************************************)
(* Why no vector goes away while it is in use: the invariant that carries  *)
(* NoDanglingVector and its companions through every step, for users that  *)
(* remove their own vector, modules inserted in the order README gives and *)
(* no lookups during rmmod.  VectorLifetimeProofs proves that steps keep   *)
(* LoaderInv and RegistryInv, VectorCountProofs that they keep CountInv.   *)
(***************************************************************************)
EXTENDS VectorSystem

Careful == {"RemovesOwn", "BootOrder", "QuietRmmod"} \subseteq Env

(* The registered vectors that have a list.  One without (address 0) is     *)
(* never assigned, so it does not matter who counts it.                     *)
Backed == {n \in Listed : node[n].addr # NULL}

-------------------------------------------------------------------------------
(* Modules and the mutex. *)

(* SET and CREATE_FROM_BITMAP are being served between their two steps, and  *)
(* for ever when one has crashed with its reference on ioctl_module; the     *)
(* other requests are served in one.                                         *)
Serving == {t \in Task : pc[t] \in {"set", "create", "fault"}}

DependenciesIn ==
  \A m \in Module :
    mstate[m] # "absent" => \A d \in Requires(m) : mstate[d] = "live"

NoListsWhenAbsent ==
  \A m \in VectorModule : mstate[m] = "absent" => heads[m] = <<>>

MutexHeld ==
  \A t \in Serving : mutexlock = t /\ mstate["ioctl_module"] = "live"

LoaderInv == DependenciesIn /\ NoListsWhenAbsent /\ MutexHeld

-------------------------------------------------------------------------------
(* The list of vectors, and who owns the override lists they point to. *)
ListedOnce ==
  \A i, j \in DOMAIN vec_list : vec_list[i] = vec_list[j] => i = j

ListsAllocated == \A m \in VectorModule : \A a \in ListsOf(m) : heap[a] # {}

ListsDistinct ==
  \A m1, m2 \in VectorModule :
    \A i \in DOMAIN heads[m1], j \in DOMAIN heads[m2] :
      heads[m1][i] = heads[m2][j] /\ heads[m1][i] # NULL => m1 = m2 /\ i = j

NodesHaveLists ==
  \A n \in Backed : /\ node[n].module \in VectorModule
                    /\ node[n].addr \in ListsOf(node[n].module)

OneNodePerList ==
  \A n1, n2 \in Backed : node[n1].addr = node[n2].addr => n1 = n2

StaticNodes ==
  \A n \in Backed : node[n].module \in StaticModule =>
    node[n].bitmap = StaticBitmap(node[n].module)

VectorsInv ==
  /\ ListedOnce
  /\ ListsAllocated
  /\ ListsDistinct
  /\ NodesHaveLists
  /\ OneNodePerList
  /\ StaticNodes
  /\ HidesOnlyEmpty

(* What check_any_current_vector found stays true until CreateBuild. *)
CreateIsNew ==
  \A t \in Task : pc[t] = "create" /\ va[t] = NULL =>
    \A n \in Backed : node[n].bitmap # arg[t]

RegistryInv == VectorsInv /\ CreateIsNew

-------------------------------------------------------------------------------
(* The counts.  A module's reference count covers the references of its     *)
(* vectors, one token each, and the lists the registry failed to register.  *)
VectorPins(m) == {p \in Node \X (1 .. MaxRef) :
  /\ p[1] \in Backed
  /\ node[p[1]].module = m
  /\ p[2] <= node[p[1]].refcount}

OrphanPins(m) == {p \in Addr \X {0} :
  p[1] \in ListsOf(m) /\ \A n \in Backed : node[n].addr # p[1]}

Pins(m) == VectorPins(m) \cup OrphanPins(m)

PinsCounted == \A m \in VectorModule : mref[m] >= Cardinality(Pins(m))

GoingUnpinned == \A m \in VectorModule : mstate[m] = "going" => Pins(m) = {}

RefcountInRange == \A n \in Backed : node[n].refcount \in 0 .. MaxRef

CountInv ==
  /\ RefcountInRange
  /\ RefcountCoversUsers
  /\ HeldModulesLoaded
  /\ PinsCounted
  /\ GoingUnpinned

LifetimeInv == TypeOK /\ LoaderInv /\ RegistryInv /\ CountInv

-------------------------------------------------------------------------------
(* The vectors without a list count as well: CREATE gives each a reference  *)
(* and nobody can drop it, so dynamic_vector, which registered them, stays. *)
EmptyPins(m) == {p \in Node \X (1 .. MaxRef) :
  /\ p[1] \in Listed \ Backed
  /\ node[p[1]].module = m
  /\ p[2] <= node[p[1]].refcount}

EmptyVectorsStay ==
  \A n \in Listed \ Backed : /\ node[n].module = "dynamic_vector"
                             /\ node[n].refcount >= 1
                             /\ mstate["dynamic_vector"] = "live"

AllPins(m) == Pins(m) \cup EmptyPins(m)

AllPinsCounted == \A m \in VectorModule : mref[m] >= Cardinality(AllPins(m))

PinInv == EmptyVectorsStay /\ AllPinsCounted

-------------------------------------------------------------------------------
(* A list at an address is on loan to the task it is assigned to and to the *)
(* request that carries it.                                                 *)
Lease == INSTANCE VectorLease
  WITH Override <- Flavour, lists <- heap, assigned <- info, pending <- va

(* What registry, requests, fork, exit and rmmod do together is a lending   *)
(* of lists: one is destroyed only when nobody has it, and changes hands    *)
(* only by the task that has it.                                            *)
LendsLists == Lease!Spec

-------------------------------------------------------------------------------
Service == INSTANCE DeviceService
  WITH serving <- Serving, device <- mstate["ioctl_module"]

(* The requests wait for one another and rmmod of ioctl_module for them, as  *)
(* EntryPoints shows that custom_ioctl and the loader see to.                *)
ServesOneAtATime == Service!Spec
===============================================================================
