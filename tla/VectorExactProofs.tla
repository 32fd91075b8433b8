--------------------------- MODULE VectorExactProofs ---------------------------
(***************************************************************************)
(* What LifetimeInv leaves open about the counts: that a module is         *)
(* referenced as often as all its vectors are, those without a list        *)
(* included (PinInv), and that undisturbed no count is too high (ExactInv).*)
(***************************************************************************)
EXTENDS VectorExact, VectorCountProofs

-------------------------------------------------------------------------------
(* References of the vectors without a list. *)

LEMMA AllPinsFinite ==
  ASSUME NEW m
  PROVE  IsFiniteSet(AllPins(m)) /\ Cardinality(AllPins(m)) \in Nat
<1>1. IsFiniteSet(Node \X (1 .. MaxRef))
  <2>1. IsFiniteSet(1 .. MaxRef)
    BY MaxRefAssumption, FS_Interval
  <2> QED
    BY <2>1, FiniteAssumption, FS_Product
<1>2. EmptyPins(m) \in SUBSET (Node \X (1 .. MaxRef))
  BY DEF EmptyPins
<1>3. IsFiniteSet(EmptyPins(m))
  BY <1>1, <1>2, FS_Subset
<1>4. IsFiniteSet(AllPins(m))
  BY <1>3, PinsFinite, FS_Union DEF AllPins
<1> QED
  BY <1>4, FS_CardinalityType

(* A count that bounds a set of references still does after a step.         *)
LEMMA StillCovers ==
  ASSUME NEW S, IsFiniteSet(S), NEW T, NEW x, NEW r \in Int, NEW q \in Int,
         r >= Cardinality(S),
         \/ T \subseteq S /\ q >= r
         \/ T \subseteq S \cup {x} /\ q = r + 1
         \/ x \in S /\ T \subseteq S \ {x} /\ q = r - 1
  PROVE  q >= Cardinality(T)
<1>1. Cardinality(S) \in Nat
  BY FS_CardinalityType
<1>2. T \subseteq S \cup {x}
  OBVIOUS
<1>3. Cardinality(T) \in Nat
  <2>1. IsFiniteSet(S \cup {x})
    BY FS_AddElement
  <2> QED
    BY <1>2, <2>1, FS_Subset, FS_CardinalityType
<1> QED
  BY <1>1, <1>3, SmallerCount

LEMMA AllPinsUp ==
  ASSUME RegistryTypeOK, NEW n \in Listed,
         NEW c \in Int, c = node[n].refcount + 1, Counted(n, c),
         UNCHANGED <<vec_list, listVars>>
  PROVE  \A m : /\ AllPins(m)' \subseteq AllPins(m) \cup {<<n, c>>}
                /\ node[n].module # m => AllPins(m)' \subseteq AllPins(m)
<1>1. node[n].refcount \in Int /\ n \in Node /\ Listed \subseteq Node
  BY ListedNodes DEF RegistryTypeOK, Vector
<1>2. /\ Backed' = Backed /\ Listed' = Listed
      /\ node'[n].refcount = c
      /\ \A k \in Node \ {n} : node'[k] = node[k]
      /\ \A k \in Node : node'[k].module = node[k].module
  BY <1>1, RefcountStep DEF Listed
<1> TAKE m
<1>3. ASSUME NEW p \in EmptyPins(m)'
      PROVE  \/ p \in EmptyPins(m)
             \/ p = <<n, c>> /\ node[n].module = m
  <2>1. /\ p \in Node \X (1 .. MaxRef) /\ p[1] \in Listed \ Backed
        /\ p[1] \in Node /\ p[2] \in Int /\ p = <<p[1], p[2]>>
        /\ node[p[1]].module = m /\ p[2] <= node'[p[1]].refcount
    BY <1>2 DEF EmptyPins
  <2>2. CASE p[1] = n /\ p[2] = c
    BY <2>1, <2>2
  <2>3. CASE ~ (p[1] = n /\ p[2] = c)
    <3>1. p[2] <= node[p[1]].refcount
      BY <1>1, <1>2, <2>1, <2>3
    <3> QED
      BY <2>1, <3>1 DEF EmptyPins
  <2> QED
    BY <2>2, <2>3
<1>4. /\ Pins(m)' \subseteq Pins(m) \cup {<<n, c>>}
      /\ node[n].module # m => Pins(m)' \subseteq Pins(m)
  BY PinsUp
<1> QED
  BY <1>3, <1>4 DEF AllPins

LEMMA AllPinsDown ==
  ASSUME RegistryTypeOK, NEW n \in Backed, node[n].refcount \in 1 .. MaxRef,
         Counted(n, node[n].refcount - 1), UNCHANGED <<vec_list, listVars>>
  PROVE  \A m : /\ AllPins(m)' \subseteq AllPins(m)
                /\ node[n].module = m =>
                     /\ <<n, node[n].refcount>> \in AllPins(m)
                     /\ AllPins(m)' \subseteq AllPins(m) \ {<<n, node[n].refcount>>}
<1>1. n \in Node /\ n \in Listed /\ Listed \subseteq Node
  BY ListedNodes DEF Backed
<1>2. /\ Backed' = Backed /\ Listed' = Listed
      /\ \A k \in Node \ {n} : node'[k] = node[k]
  <2>1. PICK c \in Int : c = node[n].refcount - 1
    BY MaxRefAssumption
  <2> QED
    BY <1>1, <2>1, RefcountStep DEF Listed
<1> TAKE m
<1>3. EmptyPins(m)' \subseteq EmptyPins(m)
  <2> SUFFICES ASSUME NEW p \in EmptyPins(m)'
               PROVE  p \in EmptyPins(m)
    OBVIOUS
  <2>1. /\ p \in Node \X (1 .. MaxRef) /\ p[1] \in Listed \ Backed
        /\ node'[p[1]].module = m /\ p[2] <= node'[p[1]].refcount
    BY <1>2 DEF EmptyPins
  <2>2. node'[p[1]] = node[p[1]]
    BY <1>1, <1>2, <2>1
  <2> QED
    BY <2>1, <2>2 DEF EmptyPins
<1>4. <<n, node[n].refcount>> \notin EmptyPins(m)
  BY DEF EmptyPins
<1>5. /\ Pins(m)' \subseteq Pins(m)
      /\ node[n].module = m =>
           /\ <<n, node[n].refcount>> \in Pins(m)
           /\ Pins(m)' \subseteq Pins(m) \ {<<n, node[n].refcount>>}
  BY PinsDown
<1> QED
  BY <1>3, <1>4, <1>5 DEF AllPins

(* No vector and no list changes: what must hold of the modules.            *)
LEMMA PinsKept ==
  ASSUME TypeOK, PinInv, UNCHANGED <<vec_list, node, heads>>,
         \A m \in VectorModule : mref'[m] >= Cardinality(AllPins(m)),
         Listed \ Backed # {} => mstate'["dynamic_vector"] = "live"
  PROVE  PinInv'
<1>1. Listed' = Listed /\ Backed' = Backed
  BY SamePins DEF Listed
<1>2. \A m : AllPins(m)' = AllPins(m)
  <2>1. \A m : EmptyPins(m)' = EmptyPins(m)
    BY <1>1 DEF EmptyPins
  <2> QED
    BY <2>1, SamePins DEF AllPins
<1>3. EmptyVectorsStay'
  BY <1>1 DEF PinInv, EmptyVectorsStay
<1>4. AllPinsCounted'
  BY <1>2 DEF AllPinsCounted
<1> QED
  BY <1>3, <1>4 DEF PinInv

LEMMA QuietPins ==
  ASSUME TypeOK, PinInv, UNCHANGED <<vec_list, node, heads, mref, mstate>>
  PROVE  PinInv'
<1>1. \A m \in VectorModule : mref'[m] >= Cardinality(AllPins(m))
  BY DEF PinInv, AllPinsCounted
<1>2. Listed \ Backed # {} => mstate'["dynamic_vector"] = "live"
  BY DEF PinInv, EmptyVectorsStay
<1> QED
  BY <1>1, <1>2, PinsKept

(* The module a lookup refers to is in, so its reference is counted.        *)
LEMMA LookupPins ==
  ASSUME TypeOK, LoaderInv, RegistryInv, PinInv, Careful, MayLookUp,
         NEW i \in Cursor, TakeRef(i), UNCHANGED <<vec_list, mstate, listVars>>
  PROVE  PinInv'
<1>0. RegistryTypeOK
  BY DEF TypeOK
<1>1. CASE i = 0
  BY <1>1, QuietPins DEF TakeRef, listVars
<1>2. ASSUME NEW n \in Listed, i # 0, n = vec_list[i]
      PROVE  PinInv'
  <2> DEFINE o == node[n].module
  <2>1. PICK c \in Int : c = node[n].refcount + 1
    BY <1>0, ListedNodes DEF RegistryTypeOK, Vector
  <2>2. /\ Counted(n, c)
        /\ mref' = IF mstate[o] = "live" THEN [mref EXCEPT ![o] = @ + 1] ELSE mref
    BY <1>2, <2>1 DEF TakeRef, Counted, try_module_get, At
  <2>3. /\ Backed' = Backed /\ Listed' = Listed
        /\ node'[n].refcount = c
        /\ \A k \in Node \ {n} : node'[k] = node[k]
        /\ \A k \in Node : node'[k].module = node[k].module
        /\ \A k \in Listed : k \in Node
        /\ node[n].refcount \in Int
    <3>1. /\ Backed' = Backed
          /\ node'[n].refcount = c
          /\ \A k \in Node \ {n} : node'[k] = node[k]
          /\ \A k \in Node : node'[k].module = node[k].module
      BY <1>0, <2>1, <2>2, RefcountStep
    <3>2. \A k \in Listed : k \in Node
      BY <1>0, ListedNodes
    <3>3. node[n].refcount \in Int
      BY <1>0, <3>2 DEF RegistryTypeOK, Vector
    <3>4. Listed' = Listed
      BY DEF Listed
    <3> QED
      BY <3>1, <3>2, <3>3, <3>4
  <2>4. o \in VectorModule /\ mstate[o] = "live"
    <3>1. CASE n \in Backed
      <4>1. mstate[o] # "absent" /\ o \in VectorModule /\ o \in Module
        BY <3>1, BackedModule
      <4> QED
        BY <4>1 DEF TypeOK, RegistryTypeOK, Careful, MayLookUp, Assuming
    <3>2. CASE n \notin Backed
      BY <3>2 DEF PinInv, EmptyVectorsStay, VectorModule
    <3> QED
      BY <3>1, <3>2
  <2>5. EmptyVectorsStay'
    <3> SUFFICES ASSUME NEW k \in Listed \ Backed
                 PROVE  /\ node'[k].module = "dynamic_vector"
                        /\ node'[k].refcount >= 1
                        /\ mstate["dynamic_vector"] = "live"
      BY <2>3 DEF EmptyVectorsStay
    <3>1. /\ node[k].module = "dynamic_vector" /\ node[k].refcount >= 1
          /\ mstate["dynamic_vector"] = "live"
      BY DEF PinInv, EmptyVectorsStay
    <3>2. node'[k].refcount >= 1
      BY <2>1, <2>3, <3>1
    <3> QED
      BY <2>3, <3>1, <3>2
  <2>6. AllPinsCounted'
    <3> SUFFICES ASSUME NEW k \in VectorModule
                 PROVE  mref'[k] >= Cardinality(AllPins(k)')
      BY DEF AllPinsCounted
    <3>1. /\ mref[k] \in Int /\ mref[k] >= Cardinality(AllPins(k))
          /\ IsFiniteSet(AllPins(k))
      BY <1>0, AllPinsFinite DEF RegistryTypeOK, PinInv, AllPinsCounted
    <3>2. mref'[k] = IF k = o THEN mref[k] + 1 ELSE mref[k]
      BY <1>0, <2>2, <2>4 DEF RegistryTypeOK
    <3>3. /\ AllPins(k)' \subseteq AllPins(k) \cup {<<n, c>>}
          /\ k # o => AllPins(k)' \subseteq AllPins(k)
      BY <1>0, <2>1, <2>2, AllPinsUp
    <3>4. CASE k = o
      BY <3>1, <3>2, <3>3, <3>4, StillCovers
    <3>5. CASE k # o
      BY <3>1, <3>2, <3>3, <3>5, StillCovers
    <3> QED
      BY <3>4, <3>5
  <2> QED
    BY <2>5, <2>6 DEF PinInv
<1>3. i # 0 => vec_list[i] \in Listed
  BY <1>0, CursorType, LenProperties DEF Listed, RegistryTypeOK
<1> QED
  BY <1>1, <1>2, <1>3

(* A task gives its own vector up, which has a list. *)
LEMMA DropPins ==
  ASSUME TypeOK, LoaderInv, RegistryInv, CountInv, PinInv,
         NEW t \in Task, info[t] # NULL,
         NEW i \in Cursor, i # 0, AddrAt(i) = info[t], DropRef(i),
         UNCHANGED <<vec_list, mstate, listVars>>
  PROVE  PinInv'
<1>0. RegistryTypeOK
  BY DEF TypeOK
<1>1. PICK n \in Backed : n = vec_list[i]
  BY OwnNode
<1> DEFINE o == node[n].module
<1>2. /\ o \in VectorModule /\ mstate[o] # "absent"
      /\ node[n].refcount \in 1 .. MaxRef
      /\ n \in Node /\ n \in Listed
  BY <1>0, <1>1, OwnNode, ListedNodes DEF At, Backed
<1>3. PICK c \in Int : c = node[n].refcount - 1
  BY <1>2, MaxRefAssumption
<1>4. Counted(n, c) /\ mref' = [mref EXCEPT ![o] = @ - 1]
  <2>1. node' = [node EXCEPT ![n].refcount = node[n].refcount - 1]
    BY <1>1 DEF DropRef
  <2>2. mref' = [mref EXCEPT ![o] = @ - 1]
    BY <1>1, <1>2 DEF DropRef, module_put, At
  <2> QED
    BY <1>3, <2>1, <2>2 DEF Counted
<1>5. /\ Backed' = Backed /\ Listed' = Listed
      /\ \A k \in Node \ {n} : node'[k] = node[k]
      /\ \A k \in Listed : k \in Node
  <2>1. /\ Backed' = Backed
        /\ \A k \in Node \ {n} : node'[k] = node[k]
    BY <1>0, <1>2, <1>3, <1>4, RefcountStep
  <2>2. \A k \in Listed : k \in Node
    BY <1>0, ListedNodes
  <2>3. Listed' = Listed
    BY DEF Listed
  <2> QED
    BY <2>1, <2>2, <2>3
<1>6. EmptyVectorsStay'
  <2>1. \A k \in Listed \ Backed : node'[k] = node[k]
    BY <1>5
  <2> QED
    BY <1>5, <2>1 DEF PinInv, EmptyVectorsStay
<1>7. AllPinsCounted'
  <2> SUFFICES ASSUME NEW k \in VectorModule
               PROVE  mref'[k] >= Cardinality(AllPins(k)')
    BY DEF AllPinsCounted
  <2>1. /\ mref[k] \in Int /\ mref[k] >= Cardinality(AllPins(k))
        /\ IsFiniteSet(AllPins(k))
    BY <1>0, AllPinsFinite DEF RegistryTypeOK, PinInv, AllPinsCounted
  <2>2. mref'[k] = IF k = o THEN mref[k] - 1 ELSE mref[k]
    BY <1>0, <1>2, <1>4 DEF RegistryTypeOK
  <2>3. /\ AllPins(k)' \subseteq AllPins(k)
        /\ k = o => /\ <<n, node[n].refcount>> \in AllPins(k)
                    /\ AllPins(k)' \subseteq AllPins(k) \ {<<n, node[n].refcount>>}
    <3>1. Counted(n, node[n].refcount - 1)
      BY <1>3, <1>4
    <3> QED
      BY <1>0, <1>2, <3>1, AllPinsDown
  <2>4. CASE k = o
    BY <2>1, <2>2, <2>3, <2>4, StillCovers
  <2>5. CASE k # o
    BY <2>1, <2>2, <2>3, <2>5, StillCovers
  <2> QED
    BY <2>4, <2>5
<1> QED
  BY <1>6, <1>7 DEF PinInv

(* What CreateBuild does: a list, a vector for it if one can be registered, *)
(* and a reference of dynamic_vector in any case.                           *)
LEMMA CreateBuilds ==
  ASSUME TypeOK, LoaderInv, RegistryInv, NEW t \in Task, CreateBuild(t)
  PROVE  /\ mstate["dynamic_vector"] = "live" /\ mstate' = mstate
         /\ \A k \in VectorModule :
              mref'[k] = IF k = "dynamic_vector" THEN mref[k] + 1 ELSE mref[k]
         /\ \E a \in Pointer :
              /\ BuildList(arg[t], a)
              /\ a # NULL => a \in FreeAddr
              /\ \/ \E n \in Node : AddVector(n, arg[t], a, "dynamic_vector", 1)
                 \/ MayFail(FreeNode) /\ UNCHANGED <<vec_list, node>>
              /\ info' = [info EXCEPT ![t] = a]
              /\ va' = [va EXCEPT ![t] = NULL]
              /\ heads' = [heads EXCEPT !["dynamic_vector"] = Append(@, a)]
              /\ \A k \in VectorModule :
                   ListsOf(k)' = IF k = "dynamic_vector" THEN (ListsOf(k) \cup {a}) \ {NULL}
                                 ELSE ListsOf(k)
<1> DEFINE dyn == "dynamic_vector"
<1>1. dyn \in VectorModule /\ mstate' = mstate /\ mstate[dyn] = "live"
  <2>1. pc[t] \in {"set", "create", "fault"}
    BY DEF CreateBuild
  <2> QED
    BY <2>1, RequestNeedsDynamic DEF VectorModule, CreateBuild
<1>2. PICK a \in Pointer :
        /\ BuildList(arg[t], a)
        /\ try_module_get(dyn)
        /\ \/ \E n \in Node : AddVector(n, arg[t], a, dyn, 1)
           \/ MayFail(FreeNode) /\ UNCHANGED <<vec_list, node>>
        /\ info' = [info EXCEPT ![t] = a]
        /\ va' = [va EXCEPT ![t] = NULL]
        /\ heads' = [heads EXCEPT ![dyn] = Append(@, a)]
  BY DEF CreateBuild, Return, Enter, register_dynamic_syscall, RegisterFails
<1>3. PICK list \in SUBSET Flavour :
        IF a = NULL THEN heap' = heap
        ELSE a \in FreeAddr /\ list # {} /\ heap' = [heap EXCEPT ![a] = list]
  BY <1>2, NULLAssumption
     DEF BuildList, VectorFromBitmap, Branches, FreeAddr
<1>4. \A k \in VectorModule :
        ListsOf(k)' = IF k = dyn THEN (ListsOf(dyn) \cup {a}) \ {NULL} ELSE ListsOf(k)
  BY <1>1, <1>2, <1>3, BuiltList DEF RegistryInv, VectorsInv
<1>5. \A k \in VectorModule : mref'[k] = IF k = dyn THEN mref[k] + 1 ELSE mref[k]
  <2>1. mref' = [mref EXCEPT ![dyn] = @ + 1]
    BY <1>1, <1>2 DEF try_module_get
  <2>2. mref \in [VectorModule -> Int]
    BY DEF TypeOK, RegistryTypeOK
  <2> QED
    BY <1>1, <2>1, <2>2
<1>6. a # NULL => a \in FreeAddr
  BY <1>3
<1> QED
  BY <1>1, <1>2, <1>4, <1>5, <1>6

(* A new vector without a list has one reference.                           *)
LEMMA EmptyPinsAdded ==
  ASSUME RegistryTypeOK, NEW n, NEW b, NEW a, NEW m, NEW c \in {0, 1},
         AddVector(n, b, a, m, c)
  PROVE  /\ \A k \in Listed \ Backed : node'[k] = node[k]
         /\ \A k \in Listed' \ Backed' : k \in Listed \ Backed \/ (k = n /\ a = NULL)
         /\ \A k : /\ EmptyPins(k)' \subseteq EmptyPins(k) \cup {<<n, c>>}
                   /\ k # m \/ a # NULL => EmptyPins(k)' \subseteq EmptyPins(k)
<1>1. /\ node'[n].module = m /\ node'[n].refcount = c
      /\ n \notin Listed
      /\ \A k \in Node \ {n} : node'[k] = node[k]
      /\ Listed' = Listed \cup {n}
      /\ Backed' = IF a = NULL THEN Backed ELSE Backed \cup {n}
  BY AddedNode
<1>2. \A k \in Listed : k \in Node \ {n}
  BY <1>1, ListedNodes
<1>3. \A k \in Listed \ Backed : node'[k] = node[k]
  BY <1>1, <1>2
<1>4. \A k \in Listed' \ Backed' : k \in Listed \ Backed \/ (k = n /\ a = NULL)
  <2>1. CASE a = NULL
    BY <1>1, <2>1
  <2>2. CASE a # NULL
    BY <1>1, <2>2
  <2> QED
    BY <2>1, <2>2
<1>5. ASSUME NEW k, NEW p \in EmptyPins(k)'
      PROVE  p \in EmptyPins(k) \/ (p = <<n, c>> /\ k = m /\ a = NULL)
  <2>1. /\ p \in Node \X (1 .. MaxRef) /\ p[1] \in Listed' \ Backed'
        /\ node'[p[1]].module = k /\ p[2] <= node'[p[1]].refcount
        /\ p[2] \in Int /\ p[2] >= 1
    BY MaxRefAssumption DEF EmptyPins
  <2>2. p = <<p[1], p[2]>>
    BY <2>1
  <2>3. CASE p[1] \in Listed \ Backed
    <3>1. node[p[1]].module = k /\ p[2] <= node[p[1]].refcount
      BY <1>3, <2>1, <2>3
    <3> QED
      BY <2>1, <2>3, <3>1 DEF EmptyPins
  <2>4. CASE p[1] = n /\ a = NULL
    <3>1. k = m /\ p[2] <= c
      BY <1>1, <2>1, <2>4
    <3>2. p[2] = c
      BY <2>1, <3>1
    <3> QED
      BY <2>2, <2>4, <3>1, <3>2
  <2> QED
    BY <1>4, <2>1, <2>3, <2>4
<1> QED
  BY <1>3, <1>4, <1>5

LEMMA CreateBuildPins ==
  ASSUME TypeOK, LoaderInv, RegistryInv, PinInv, NEW t \in Task, CreateBuild(t)
  PROVE  PinInv'
<1> DEFINE dyn == "dynamic_vector"
<1>0. RegistryTypeOK
  BY DEF TypeOK
<1>1. /\ dyn \in VectorModule /\ mstate[dyn] = "live" /\ mstate' = mstate
      /\ \A k \in VectorModule : mref'[k] = IF k = dyn THEN mref[k] + 1 ELSE mref[k]
  BY CreateBuilds DEF VectorModule
<1>2. PICK a \in Pointer :
        /\ \/ \E n \in Node : AddVector(n, arg[t], a, dyn, 1)
           \/ UNCHANGED <<vec_list, node>>
        /\ \A k \in VectorModule :
             ListsOf(k)' = IF k = dyn THEN (ListsOf(k) \cup {a}) \ {NULL} ELSE ListsOf(k)
  BY CreateBuilds
<1> HIDE DEF dyn
<1>3. \A k \in VectorModule : NULL \notin ListsOf(k)
  BY DEF ListsOf
<1>4. ASSUME NEW p, \A k \in VectorModule :
                      /\ AllPins(k)' \subseteq AllPins(k) \cup {p}
                      /\ k # dyn => AllPins(k)' \subseteq AllPins(k)
      PROVE  AllPinsCounted'
  <2> SUFFICES ASSUME NEW k \in VectorModule
               PROVE  mref'[k] >= Cardinality(AllPins(k)')
    BY DEF AllPinsCounted
  <2>1. /\ mref[k] \in Int /\ mref[k] >= Cardinality(AllPins(k))
        /\ IsFiniteSet(AllPins(k))
    BY <1>0, AllPinsFinite DEF RegistryTypeOK, PinInv, AllPinsCounted
  <2>2. CASE k = dyn
    <3>1. mref'[k] = mref[k] + 1 /\ AllPins(k)' \subseteq AllPins(k) \cup {p}
      BY <1>1, <1>4, <2>2
    <3> QED
      BY <2>1, <3>1, StillCovers
  <2>3. CASE k # dyn
    <3>1. mref'[k] = mref[k] /\ AllPins(k)' \subseteq AllPins(k)
      BY <1>1, <1>4, <2>3
    <3> QED
      BY <2>1, <3>1, StillCovers
  <2> QED
    BY <2>2, <2>3
<1>5. CASE UNCHANGED <<vec_list, node>>
  <2>1. Listed' = Listed /\ Backed' = Backed
    BY <1>5 DEF Listed, Backed
  <2>2. EmptyVectorsStay'
    BY <1>1, <1>5, <2>1 DEF PinInv, EmptyVectorsStay
  <2>3. \A k \in VectorModule :
          /\ Pins(k)' \subseteq Pins(k) \cup {<<a, 0>>}
          /\ k # dyn => Pins(k)' \subseteq Pins(k)
    <3>1. \A k \in VectorModule :
            ListsOf(k)' \subseteq IF k = dyn THEN (ListsOf(k) \cup {a}) \ {NULL} ELSE ListsOf(k)
      BY <1>2
    <3> QED
      BY <1>5, <3>1, PinsOrphaned
  <2>4. \A k : EmptyPins(k)' = EmptyPins(k)
    BY <1>5, <2>1 DEF EmptyPins
  <2> QED
    BY <1>4, <2>2, <2>3, <2>4 DEF PinInv, AllPins
<1>6. ASSUME NEW n \in Node, AddVector(n, arg[t], a, dyn, 1)
      PROVE  PinInv'
  <2>1. /\ \A k \in Listed \ Backed : node'[k] = node[k]
        /\ \A k \in Listed' \ Backed' : k \in Listed \ Backed \/ k = n
        /\ \A k : /\ EmptyPins(k)' \subseteq EmptyPins(k) \cup {<<n, 1>>}
                  /\ k # dyn => EmptyPins(k)' \subseteq EmptyPins(k)
    BY <1>0, <1>6, EmptyPinsAdded
  <2>2. node'[n].module = dyn /\ node'[n].refcount = 1
    BY <1>0, <1>6, AddedNode
  <2>3. EmptyVectorsStay'
    <3> SUFFICES ASSUME NEW k \in Listed' \ Backed'
                 PROVE  node'[k].module = dyn /\ node'[k].refcount >= 1
      BY <1>1 DEF EmptyVectorsStay, dyn
    <3>1. CASE k = n
      BY <2>2, <3>1
    <3>2. CASE k \in Listed \ Backed
      BY <2>1, <3>2 DEF PinInv, EmptyVectorsStay, dyn
    <3> QED
      BY <2>1, <3>1, <3>2
  <2>4. \A k \in VectorModule :
          /\ Pins(k)' \subseteq Pins(k) \cup {<<n, 1>>}
          /\ k # dyn => Pins(k)' \subseteq Pins(k)
    <3>1. \A k \in VectorModule : ListsOf(k)' \subseteq (ListsOf(k) \cup {a}) \ {NULL}
      BY <1>2, <1>3
    <3> QED
      BY <1>0, <1>6, <3>1, PinsAdded
  <2> QED
    BY <1>4, <2>1, <2>3, <2>4 DEF PinInv, AllPins
<1> QED
  BY <1>2, <1>5, <1>6

(* What InsmodStatic does: the list, with its vector or lost. *)
LEMMA InsmodBuilds ==
  ASSUME TypeOK, LoaderInv, RegistryInv, NEW m \in StaticModule, InsmodStatic(m)
  PROVE  /\ m \in VectorModule /\ m \in Module
         /\ mstate[m] = "absent" /\ heads[m] = <<>> /\ mref' = mref
         /\ \E a \in FreeAddr :
              /\ heap' = [heap EXCEPT ![a] = StaticVector(m)]
              /\ \/ /\ \E n \in Node : AddVector(n, StaticBitmap(m), a, m, 0)
                    /\ mstate' = [mstate EXCEPT ![m] = "live"]
                    /\ heads' = [heads EXCEPT ![m] = <<a>>]
                    /\ \A k \in VectorModule :
                         ListsOf(k)' = IF k = m THEN {a} ELSE ListsOf(k)
                 \/ MayFail(FreeNode) /\ UNCHANGED <<vec_list, node, mstate, heads>>
<1>1. /\ m \in VectorModule /\ m \in Module
      /\ mstate[m] = "absent" /\ heads[m] = <<>> /\ mref' = mref
  BY DEF InsmodStatic, CanInsmod, VectorModule, Module, LoaderInv, NoListsWhenAbsent
<1>2. PICK a \in FreeAddr :
        /\ heap' = [heap EXCEPT ![a] = StaticVector(m)]
        /\ \/ /\ \E n \in Node : AddVector(n, StaticBitmap(m), a, m, 0)
              /\ mstate' = [mstate EXCEPT ![m] = "live"]
              /\ heads' = [heads EXCEPT ![m] = <<a>>]
           \/ MayFail(FreeNode) /\ UNCHANGED <<vec_list, node, mstate, heads>>
  BY DEF InsmodStatic, register_syscall, RegisterFails
<1>3. ASSUME heads' = [heads EXCEPT ![m] = <<a>>], NEW k \in VectorModule
      PROVE  ListsOf(k)' = IF k = m THEN {a} ELSE ListsOf(k)
  <2>1. heads'[k] = IF k = m THEN <<a>> ELSE heads[k]
    BY <1>1, <1>3 DEF TypeOK
  <2>2. a # NULL
    BY NULLAssumption DEF FreeAddr
  <2> QED
    BY <2>1, <2>2 DEF ListsOf
<1> QED
  BY <1>1, <1>2, <1>3

LEMMA InsmodStaticPins ==
  ASSUME TypeOK, LoaderInv, RegistryInv, PinInv, NEW m \in StaticModule, InsmodStatic(m)
  PROVE  PinInv'
<1>0. RegistryTypeOK
  BY DEF TypeOK
<1>1. m \in VectorModule /\ mstate[m] = "absent" /\ heads[m] = <<>> /\ mref' = mref
  BY InsmodBuilds
<1>2. PICK a \in FreeAddr :
        \/ /\ \E n \in Node : AddVector(n, StaticBitmap(m), a, m, 0)
           /\ mstate' = [mstate EXCEPT ![m] = "live"]
           /\ \A k \in VectorModule : ListsOf(k)' = IF k = m THEN {a} ELSE ListsOf(k)
        \/ UNCHANGED <<vec_list, node, mstate, heads>>
  BY InsmodBuilds
<1>3. CASE UNCHANGED <<vec_list, node, mstate, heads>>
  BY <1>1, <1>3, QuietPins
<1>4. ASSUME NEW n \in Node, AddVector(n, StaticBitmap(m), a, m, 0),
             mstate' = [mstate EXCEPT ![m] = "live"],
             \A k \in VectorModule : ListsOf(k)' = IF k = m THEN {a} ELSE ListsOf(k)
      PROVE  PinInv'
  <2>1. a # NULL
    BY NULLAssumption DEF FreeAddr
  <2>2. /\ \A k \in Listed \ Backed : node'[k] = node[k]
        /\ \A k \in Listed' \ Backed' : k \in Listed \ Backed
        /\ \A k : EmptyPins(k)' \subseteq EmptyPins(k)
    BY <1>0, <1>4, <2>1, EmptyPinsAdded
  <2>3. mstate["dynamic_vector"] = "live" => mstate'["dynamic_vector"] = "live"
    BY <1>0, <1>4 DEF RegistryTypeOK, Module, VectorModule
  <2>4. EmptyVectorsStay'
    BY <2>2, <2>3 DEF PinInv, EmptyVectorsStay
  <2>5. \A k \in VectorModule : Pins(k)' \subseteq Pins(k)
    <3>1. \A k \in VectorModule : ListsOf(k)' \subseteq (ListsOf(k) \cup {a}) \ {NULL}
      BY <1>4, <2>1 DEF ListsOf
    <3> QED
      BY <1>0, <1>4, <3>1, PinsAdded
  <2>6. ASSUME NEW k \in VectorModule
        PROVE  mref'[k] >= Cardinality(AllPins(k)')
    <3>1. /\ mref[k] \in Int /\ mref[k] >= Cardinality(AllPins(k))
          /\ IsFiniteSet(AllPins(k)) /\ mref'[k] = mref[k]
      BY <1>0, <1>1, AllPinsFinite DEF RegistryTypeOK, PinInv, AllPinsCounted
    <3>2. AllPins(k)' \subseteq AllPins(k)
      BY <2>2, <2>5 DEF AllPins
    <3> QED
      BY <3>1, <3>2, StillCovers
  <2> QED
    BY <2>4, <2>6 DEF PinInv, AllPinsCounted
<1> QED
  BY <1>2, <1>3, <1>4

LEMMA InsmodPins ==
  ASSUME TypeOK, PinInv, NEW m \in Module, Insmod(m)
  PROVE  PinInv'
<1>1. /\ UNCHANGED <<vec_list, node, heads>> /\ mref' = mref
      /\ mstate["dynamic_vector"] = "live" => mstate'["dynamic_vector"] = "live"
  BY DEF Insmod, listVars, TypeOK, RegistryTypeOK, Module, VectorModule
<1> QED
  BY <1>1, PinsKept DEF PinInv, AllPinsCounted, EmptyVectorsStay

(* rmmod finds dynamic_vector busy while it has a vector without a list.    *)
LEMMA RmmodBeginPins ==
  ASSUME TypeOK, PinInv, NEW m \in Module, RmmodBegin(m)
  PROVE  PinInv'
<1>1. /\ UNCHANGED <<vec_list, node, heads>> /\ mref' = mref
      /\ mstate' = [mstate EXCEPT ![m] = "going"]
      /\ m = "dynamic_vector" => mref[m] = 0
  BY DEF RmmodBegin, listVars
<1>2. ASSUME m = "dynamic_vector", NEW n \in Listed \ Backed
      PROVE  FALSE
  <2>1. node[n].module = m /\ node[n].refcount >= 1 /\ n \in Node
    BY <1>2, ListedNodes DEF PinInv, EmptyVectorsStay, TypeOK
  <2>2. <<n, 1>> \in AllPins(m)
    BY <1>2, <2>1, MaxRefAssumption DEF AllPins, EmptyPins
  <2>3. 0 >= Cardinality(AllPins(m))
    BY <1>1, <1>2 DEF PinInv, AllPinsCounted, VectorModule
  <2>4. AllPins(m) = {}
    BY <2>3, AllPinsFinite, FS_EmptySet
  <2> QED
    BY <2>2, <2>4
<1>3. Listed \ Backed # {} => mstate'["dynamic_vector"] = "live"
  <2>1. Listed \ Backed # {} => mstate["dynamic_vector"] = "live" /\ m # "dynamic_vector"
    BY <1>2 DEF PinInv, EmptyVectorsStay
  <2> QED
    BY <1>1, <2>1 DEF TypeOK, RegistryTypeOK, Module, VectorModule
<1> QED
  BY <1>1, <1>3, PinsKept DEF PinInv, AllPinsCounted

LEMMA RmmodEndPins ==
  ASSUME TypeOK, CountInv, PinInv, NEW m \in Module, RmmodEnd(m)
  PROVE  PinInv'
<1>1. /\ UNCHANGED <<vec_list, node, heads>>
      /\ mref' = [x \in VectorModule |-> IF x = m THEN 0 ELSE mref[x]]
      /\ mstate[m] = "going" /\ mstate' = [mstate EXCEPT ![m] = "absent"]
  BY DEF RmmodEnd, listVars
<1>2. Listed \ Backed # {} => m # "dynamic_vector"
  BY <1>1 DEF PinInv, EmptyVectorsStay
<1>3. Listed \ Backed # {} => mstate'["dynamic_vector"] = "live"
  BY <1>1, <1>2 DEF PinInv, EmptyVectorsStay, TypeOK, RegistryTypeOK
<1>4. ASSUME m \in VectorModule
      PROVE  Cardinality(AllPins(m)) = 0
  <2>1. Pins(m) = {}
    BY <1>1, <1>4 DEF CountInv, GoingUnpinned
  <2>2. EmptyPins(m) = {}
    BY <1>2 DEF EmptyPins, PinInv, EmptyVectorsStay
  <2> QED
    BY <2>1, <2>2, FS_EmptySet DEF AllPins
<1>5. \A k \in VectorModule : mref'[k] >= Cardinality(AllPins(k))
  BY <1>1, <1>4 DEF PinInv, AllPinsCounted
<1> QED
  BY <1>1, <1>3, <1>5, PinsKept

(* What unregister_syscall does: nothing, or one node goes that has the     *)
(* address and no reference.                                                *)
LEMMA Unregisters ==
  ASSUME RegistryTypeOK, ListedOnce, HidesOnlyEmpty, NEW a, unregister_syscall(a)
  PROVE  \/ UNCHANGED <<vec_list, node>>
         \/ \E n \in Listed : /\ node[n].addr = a /\ ~ node[n].refcount > 0
                              /\ Listed' = Listed \ {n}
                              /\ node'[n] = NoVector
                              /\ \A k \in Node \ {n} : node'[k] = node[k]
<1>1. PICK i \in Cursor :
        /\ StopsAt(i, ByAddr(a))
        /\ IF i = 0 \/ At(i).refcount > 0
           THEN UNCHANGED <<vec_list, node>>
           ELSE /\ vec_list' = RemoveAt(vec_list, i)
                /\ node' = [node EXCEPT ![vec_list[i]] = NoVector]
  BY DEF unregister_syscall
<1>2. CASE i # 0 /\ ~ At(i).refcount > 0
  <2>1. i \in 1 .. Len(vec_list) /\ i \in DOMAIN vec_list
    BY <1>2, CursorType, LenProperties DEF RegistryTypeOK
  <2>2. PICK n \in Listed : n = vec_list[i]
    BY <2>1 DEF Listed
  <2>3. node[n].addr = a /\ ~ node[n].refcount > 0 /\ n \in Node
    BY <1>1, <1>2, <2>2, ListedNodes DEF StopsAt, ByAddr, At
  <2>4. Listed' = Listed \ {n}
    BY <1>1, <1>2, <2>1, <2>2, RemovedNode
  <2>5. node' = [node EXCEPT ![n] = NoVector]
    BY <1>1, <1>2, <2>2
  <2>6. /\ node'[n] = NoVector
        /\ \A k \in Node \ {n} : node'[k] = node[k]
    BY <2>3, <2>5 DEF RegistryTypeOK
  <2> QED
    BY <2>3, <2>4, <2>6
<1> QED
  BY <1>1, <1>2

LEMMA CleanupHeadPinInv ==
  ASSUME TypeOK, RegistryInv, CountInv, PinInv, NEW m \in Module, CleanupHead(m)
  PROVE  PinInv'
<1> DEFINE h == Head(heads[m])
<1>0. RegistryTypeOK /\ Listed \subseteq Node
  BY ListedNodes DEF TypeOK
<1>1. /\ m \in VectorModule /\ mstate' = mstate /\ mref' = mref
      /\ unregister_syscall(h)
  BY DEF CleanupHead
<1>2. Backed' = {n \in Backed : node[n].addr # h}
  BY <1>1, CleanupHeadProperties DEF RegistryInv, CountInv
<1> HIDE DEF h
<1>3. /\ Listed' \subseteq Listed
      /\ \A n \in Listed' : node'[n] = node[n]
      /\ \A n \in Listed \ Listed' : node[n].addr = h
  <2>1. CASE UNCHANGED <<vec_list, node>>
    BY <2>1 DEF Listed
  <2>2. ASSUME NEW n \in Listed, node[n].addr = h, Listed' = Listed \ {n},
               \A k \in Node \ {n} : node'[k] = node[k]
        PROVE  /\ Listed' \subseteq Listed
               /\ \A k \in Listed' : node'[k] = node[k]
               /\ \A k \in Listed \ Listed' : node[k].addr = h
    BY <1>0, <2>2
  <2> QED
    BY <1>0, <1>1, <2>1, <2>2, Unregisters DEF RegistryInv, VectorsInv
<1>4. \A n \in Listed' \ Backed' : n \in Listed \ Backed
  <2> SUFFICES ASSUME NEW n \in Listed', n \in Backed
               PROVE  n \in Backed'
    BY <1>3
  <2>1. node'[n].addr # NULL
    BY <1>3 DEF Backed
  <2> QED
    BY <2>1 DEF Backed
<1>5. EmptyVectorsStay'
  BY <1>1, <1>3, <1>4 DEF PinInv, EmptyVectorsStay
<1>6. ASSUME NEW k \in VectorModule
      PROVE  AllPins(k)' \subseteq AllPins(k)
  <2>1. ASSUME NEW p \in EmptyPins(k)'
        PROVE  p \in EmptyPins(k)
    <3>1. /\ p \in Node \X (1 .. MaxRef) /\ p[1] \in Listed' \ Backed'
          /\ node'[p[1]].module = k /\ p[2] <= node'[p[1]].refcount
      BY DEF EmptyPins
    <3>2. p[1] \in Listed \ Backed /\ node'[p[1]] = node[p[1]]
      BY <1>3, <1>4, <3>1
    <3> QED
      BY <3>1, <3>2 DEF EmptyPins
  <2>2. Pins(k)' \subseteq Pins(k)
    BY CleanupHeadPins
  <2> QED
    BY <2>1, <2>2 DEF AllPins
<1>7. ASSUME NEW k \in VectorModule
      PROVE  mref'[k] >= Cardinality(AllPins(k)')
  <2>1. /\ mref[k] \in Int /\ mref[k] >= Cardinality(AllPins(k))
        /\ IsFiniteSet(AllPins(k)) /\ mref'[k] = mref[k]
    BY <1>0, <1>1, AllPinsFinite DEF RegistryTypeOK, PinInv, AllPinsCounted
  <2> QED
    BY <1>6, <2>1, StillCovers
<1> QED
  BY <1>5, <1>7 DEF PinInv, AllPinsCounted

-------------------------------------------------------------------------------
(* Every step keeps PinInv. *)

LEMMA EndPins ==
  ASSUME LifetimeInv, PinInv, NEW t \in Task, NEW end, EndsTask(t, end)
  PROVE  PinInv'
<1>0. TypeOK /\ LoaderInv /\ RegistryInv /\ CountInv
  BY DEF LifetimeInv
<1>1. UNCHANGED <<vec_list, mstate, listVars>>
  BY DEF EndsTask
<1>2. CASE UNCHANGED <<node, mref>>
  BY <1>0, <1>1, <1>2, QuietPins DEF listVars
<1>3. ASSUME NEW i \in Cursor, info[t] # NULL,
             reduce_ref_count_from_address(i, info[t]), i # 0
      PROVE  PinInv'
  <2>1. AddrAt(i) = info[t] /\ DropRef(i)
    BY <1>3 DEF reduce_ref_count_from_address, StopsAt, ByAddr, AddrAt, At
  <2> QED
    BY <1>0, <1>1, <1>3, <2>1, DropPins
<1> QED
  BY <1>2, <1>3 DEF EndsTask, reduce_ref_count_from_address, DropRef

LEMMA RequestPins ==
  ASSUME LifetimeInv, PinInv, Careful, NEW t \in Task, Request(t)
  PROVE  PinInv'
<1>0. TypeOK /\ LoaderInv /\ RegistryInv /\ CountInv
  BY DEF LifetimeInv
<1>1. ASSUME NEW b \in Bitmaps, SetLookup(t, b) \/ CreateLookup(t, b)
      PROVE  PinInv'
  <2>1. PICK i \in Cursor : TakeRef(i)
    BY <1>1 DEF SetLookup, CreateLookup, get_vector_address, check_any_current_vector
  <2>2. MayLookUp /\ UNCHANGED <<vec_list, mstate, listVars>>
    BY <1>1 DEF SetLookup, CreateLookup
  <2> QED
    BY <1>0, <2>1, <2>2, LookupPins
<1>2. ASSUME NEW b \in Bitmaps, RemoveVector(t, b)
      PROVE  PinInv'
  BY <1>0, <1>2, RemoveDropsOwn, DropPins
<1>3. CASE SetAssign(t)
  <2>1. UNCHANGED <<node, mref>>
    BY <1>3, NothingReduced DEF SetAssign
  <2> QED
    BY <1>0, <1>3, <2>1, QuietPins DEF SetAssign, listVars
<1>4. CASE CreateExisting(t) \/ CreateNoMemory(t)
  BY <1>0, <1>4, QuietPins DEF CreateExisting, CreateNoMemory, registryVars, listVars
<1>5. CASE NameCrashes(t) \/ FaultCrashes(t)
  BY <1>5, EndIsEndsTask, EndPins
<1> QED
  BY <1>0, <1>1, <1>2, <1>3, <1>4, <1>5, CreateBuildPins DEF Request

LEMMA ProcessPins ==
  ASSUME LifetimeInv, PinInv, Careful, NEW t \in Task, Process(t)
  PROVE  PinInv'
<1>0. TypeOK /\ LoaderInv /\ RegistryInv /\ CountInv
  BY DEF LifetimeInv
<1>1. CASE \/ CloneInherit(t) \/ KernelCounts(t) \/ ForkInherit(t)
           \/ \E b \in Bitmaps : CloneById(t, b)
  <2>1. PICK i \in Cursor : TakeRef(i)
    BY <1>1 DEF CloneInherit, KernelCounts, ForkInherit, CloneById,
                increment_ref_count_from_address, get_vector_address_from_id
  <2>2. MayLookUp /\ UNCHANGED <<vec_list, mstate, listVars>>
    BY <1>1 DEF CloneInherit, KernelCounts, ForkInherit, CloneById
  <2> QED
    BY <1>0, <2>1, <2>2, LookupPins
<1>2. CASE \/ \E child \in Task : CloneForks(t, child) \/ Fork(t, child)
           \/ CloneFails(t)
  BY <1>0, <1>2, QuietPins DEF CloneForks, Fork, CloneFails, registryVars, listVars
<1>3. CASE Exit(t)
  BY <1>3, EndIsEndsTask, EndPins
<1> QED
  BY <1>1, <1>2, <1>3 DEF Process

LEMMA StepKeepsPins ==
  ASSUME LifetimeInv, PinInv, Careful, [Next]_vars
  PROVE  PinInv'
<1>0. TypeOK /\ LoaderInv /\ RegistryInv /\ CountInv
  BY DEF LifetimeInv
<1>1. CASE UNCHANGED vars
  BY <1>0, <1>1, QuietPins DEF vars, registryVars, listVars
<1>2. CASE Loader
  BY <1>0, <1>2, InsmodStaticPins, InsmodPins, RmmodBeginPins, CleanupHeadPinInv,
     RmmodEndPins DEF Loader
<1> QED
  BY <1>1, <1>2, RequestPins, ProcessPins DEF Next

LEMMA PinInvariant ==
  ASSUME Careful
  PROVE  Spec => []PinInv
<1>1. Init => PinInv
  <2> SUFFICES ASSUME Init PROVE PinInv
    OBVIOUS
  <2>1. Listed = {} /\ Backed = {} /\ \A m \in VectorModule : heads[m] = <<>> /\ mref[m] = 0
    BY DEF Init, RegistryInit, Listed, Backed
  <2>2. \A m \in VectorModule : AllPins(m) = {}
    BY <2>1 DEF AllPins, Pins, VectorPins, OrphanPins, EmptyPins, ListsOf
  <2> QED
    BY <2>1, <2>2, FS_EmptySet DEF PinInv, EmptyVectorsStay, AllPinsCounted
<1>2. LifetimeInv /\ PinInv /\ [Next]_vars => PinInv'
  BY StepKeepsPins
<1> QED
  BY <1>1, <1>2, LifetimeInvariant, PTL DEF Spec

(* Given Careful, rmmod finds a module busy while any vector it registered  *)
(* has a positive refcount, one that has no list and that nobody can ever   *)
(* give up included.                                                        *)
THEOREM ModulesArePinned ==
  ASSUME Careful
  PROVE  Spec => []ModulePinned
<1>1. TypeOK /\ PinInv => ModulePinned
  <2> SUFFICES ASSUME TypeOK, PinInv, NEW m \in VectorModule
               PROVE  mref[m] >= Cardinality(Tokens(m))
    BY DEF ModulePinned
  <2>1. Tokens(m) \subseteq AllPins(m)
    BY DEF Tokens, AllPins, Pins, VectorPins, EmptyPins
  <2>2. mref[m] >= Cardinality(AllPins(m))
    BY DEF PinInv, AllPinsCounted
  <2>3. Cardinality(Tokens(m)) <= Cardinality(AllPins(m)) /\ Cardinality(Tokens(m)) \in Nat
    BY <2>1, AllPinsFinite, FS_Subset, FS_CardinalityType
  <2>4. Cardinality(AllPins(m)) \in Nat
    BY AllPinsFinite
  <2>5. mref[m] \in Int
    BY DEF TypeOK, RegistryTypeOK
  <2> QED
    BY <2>2, <2>3, <2>4, <2>5
<1> QED
  BY <1>1, PinInvariant, TypeCorrect, PTL

-------------------------------------------------------------------------------
(* ExactInv: the tasks and their requests. *)

LEMMA UndisturbedMeans ==
  ASSUME Undisturbed
  PROVE  /\ Careful /\ ~ OutOfMemory
         /\ "FreesFirst" \in Env /\ "ForksSucceed" \in Env /\ "QuietRmmod" \in Env
         /\ "OneReference" \in Env
BY DEF Undisturbed, Assumptions, Careful, OutOfMemory

LEMMA StepKeepsRequests ==
  ASSUME LifetimeInv, RequestsInv, Undisturbed, [Next]_vars
  PROVE  RequestsInv'
<1>0. /\ TypeOK /\ LoaderInv
      /\ "FreesFirst" \in Env /\ "ForksSucceed" \in Env
  BY UndisturbedMeans DEF LifetimeInv
<1>1. ASSUME UNCHANGED <<info, pc, va, arg>>,
             Len(heads'["dynamic_vector"]) = Len(heads["dynamic_vector"])
               \/ \A t \in Task : pc[t] # "create"
      PROVE  RequestsInv'
  BY <1>1 DEF RequestsInv, OneAddressEach, CreateHasRoom
<1>2. ASSUME heads' = heads, \A t \in Task : pc'[t] = "create" => pc[t] = "create",
             \A t \in Task : pc'[t] = "create" => va'[t] = va[t] /\ arg'[t] = arg[t],
             OneAddressEach'
      PROVE  RequestsInv'
  BY <1>2 DEF RequestsInv, CreateHasRoom
<1>3. ASSUME NEW t \in Task, pc[t] = "create", NEW u \in Task, pc[u] = "create"
      PROVE  t = u
  BY <1>0, <1>3 DEF LoaderInv, MutexHeld, Serving
<1>4. ASSUME NEW t \in Task, pc[t] = "user", mutexlock = NoTask
      PROVE  \A u \in Task : pc[u] \notin {"set", "create"}
  BY <1>0, <1>4, NoTaskAssumption DEF LoaderInv, MutexHeld, Serving
<1>5. ASSUME NEW t \in Task, Exit(t) \/ NameCrashes(t) \/ FaultCrashes(t)
      PROVE  RequestsInv'
  <2>1. PICK end \in Ended : EndsTask(t, end)
    BY <1>5, EndIsEndsTask
  <2>2. /\ pc[t] = "user" /\ pc' = [pc EXCEPT ![t] = end]
        /\ info' = [info EXCEPT ![t] = NULL] /\ va' = va
        /\ heads' = heads /\ arg' = arg
    BY <2>1 DEF EndsTask, listVars
  <2>3. OneAddressEach'
    BY <1>0, <2>2 DEF TypeOK, RequestsInv, OneAddressEach, Ended, Crashed
  <2> QED
    BY <1>0, <1>2, <2>2, <2>3 DEF TypeOK, Ended, Crashed
<1>6. ASSUME NEW t \in Task, Request(t)
      PROVE  RequestsInv'
  <2>1. ASSUME NEW b \in Bitmaps, SetLookup(t, b)
        PROVE  RequestsInv'
    <3>1. CASE UNCHANGED taskVars
      BY <1>1, <2>1, <3>1 DEF SetLookup, listVars, taskVars
    <3>2. ASSUME NEW a, Enter(t, "set", a), UNCHANGED <<info, arg>>
          PROVE  RequestsInv'
      <4>1. info[t] = NULL /\ heads' = heads
        BY <1>0, <2>1 DEF SetLookup, Assuming, listVars
      <4>2. /\ pc' = [pc EXCEPT ![t] = "set"]
            /\ va' = [va EXCEPT ![t] = a]
        BY <3>2 DEF Enter
      <4>3. OneAddressEach'
        BY <1>0, <3>2, <4>1, <4>2
           DEF TypeOK, RequestsInv, OneAddressEach, Ended, Crashed
      <4> QED
        BY <1>0, <1>2, <3>2, <4>1, <4>2, <4>3 DEF TypeOK
    <3> QED
      BY <2>1, <3>1, <3>2 DEF SetLookup
  <2>2. ASSUME NEW b \in Bitmaps, RemoveVector(t, b)
        PROVE  RequestsInv'
    <3>1. /\ pc' = pc /\ va' = va /\ arg' = arg /\ heads' = heads
          /\ info' = info \/ info' = [info EXCEPT ![t] = NULL]
      BY <2>2 DEF RemoveVector, listVars
    <3>2. OneAddressEach'
      BY <1>0, <3>1 DEF TypeOK, RequestsInv, OneAddressEach
    <3> QED
      BY <1>2, <3>1, <3>2
  <2>3. ASSUME NEW b \in Bitmaps, CreateLookup(t, b)
        PROVE  RequestsInv'
    <3>1. PICK a : /\ a = NULL => Len(heads["dynamic_vector"]) < MaxHeads
                   /\ Enter(t, "create", a)
      BY <2>3 DEF CreateLookup
    <3>2. /\ pc' = [pc EXCEPT ![t] = "create"] /\ va' = [va EXCEPT ![t] = a]
          /\ arg' = [arg EXCEPT ![t] = b]
          /\ info' = info /\ heads' = heads /\ validate_bitmap(b)
          /\ info[t] = NULL
      BY <1>0, <2>3, <3>1 DEF CreateLookup, Enter, Assuming, listVars
    <3>3. OneAddressEach'
      BY <1>0, <3>2 DEF TypeOK, RequestsInv, OneAddressEach, Ended, Crashed
    <3>4. \A u \in Task : pc[u] # "create"
      BY <1>4, <2>3 DEF CreateLookup, IoctlReady
    <3>5. CreateHasRoom'
      BY <1>0, <3>1, <3>2, <3>4 DEF TypeOK, CreateHasRoom
    <3> QED
      BY <3>3, <3>5 DEF RequestsInv
  <2>4. ASSUME Return(t), info' = info \/ (\E a : info' = [info EXCEPT ![t] = a]),
               heads' = heads \/ \A u \in Task : pc[u] = "create" => u = t
        PROVE  RequestsInv'
    <3>1. /\ pc' = [pc EXCEPT ![t] = "user"] /\ va' = [va EXCEPT ![t] = NULL]
          /\ arg' = [arg EXCEPT ![t] = {}]
      BY <2>4 DEF Return, Enter
    <3>2. OneAddressEach'
      BY <1>0, <2>4, <3>1 DEF TypeOK, RequestsInv, OneAddressEach, Ended, Crashed
    <3>3. CreateHasRoom'
      BY <1>0, <2>4, <3>1 DEF TypeOK, RequestsInv, CreateHasRoom
    <3> QED
      BY <3>2, <3>3 DEF RequestsInv
  <2>5. CASE SetAssign(t) \/ CreateExisting(t) \/ CreateNoMemory(t)
    BY <2>4, <2>5 DEF SetAssign, CreateExisting, CreateNoMemory, listVars
  <2>6. CASE CreateBuild(t)
    <3>1. \A u \in Task : pc[u] = "create" => u = t
      BY <1>3, <2>6 DEF CreateBuild
    <3> QED
      BY <2>4, <2>6, <3>1 DEF CreateBuild
  <2> QED
    BY <1>5, <1>6, <2>1, <2>2, <2>3, <2>5, <2>6 DEF Request
<1>7. ASSUME NEW t \in Task, Process(t)
      PROVE  RequestsInv'
  <2>1. ASSUME pc[t] \in {"user", "inherit"}, NEW where \in Cloning, NEW a,
               Enter(t, where, a), info' = info, heads' = heads, arg' = arg
        PROVE  RequestsInv'
    <3>1. /\ pc' = [pc EXCEPT ![t] = where] /\ va' = [va EXCEPT ![t] = a]
          /\ where \notin {"create", "set", "user"} \cup Ended
      BY <2>1 DEF Enter, Cloning, Ended, Crashed
    <3>2. OneAddressEach'
      BY <1>0, <2>1, <3>1 DEF TypeOK, RequestsInv, OneAddressEach
    <3> QED
      BY <1>0, <1>2, <2>1, <3>1, <3>2 DEF TypeOK
  <2>2. CASE \/ CloneInherit(t) \/ KernelCounts(t) \/ ForkInherit(t)
             \/ \E b \in Bitmaps : CloneById(t, b)
    BY <2>1, <2>2 DEF CloneInherit, KernelCounts, ForkInherit, CloneById, Cloning,
                      listVars
  <2>3. ASSUME NEW child \in Task, CloneForks(t, child)
        PROVE  RequestsInv'
    <3>1. /\ pc[t] \in Cloning /\ pc[child] = "dead"
          /\ pc' = [pc EXCEPT ![t] = "user", ![child] = "user"]
          /\ info' = [info EXCEPT ![child] = va[t]]
          /\ va' = [va EXCEPT ![t] = NULL]
          /\ heads' = heads /\ arg' = arg
      BY <2>3 DEF CloneForks, listVars
    <3>2. OneAddressEach'
      BY <1>0, <3>1 DEF TypeOK, RequestsInv, OneAddressEach, Cloning, Ended, Crashed
    <3> QED
      BY <1>0, <1>2, <3>1, <3>2 DEF TypeOK, Cloning
  <2>4. ASSUME NEW child \in Task, Fork(t, child)
        PROVE  RequestsInv'
    <3>1. /\ pc[child] = "dead" /\ pc' = [pc EXCEPT ![child] = "user"]
          /\ info' = info /\ va' = va /\ heads' = heads /\ arg' = arg
      BY <2>4 DEF Fork, listVars
    <3>2. OneAddressEach'
      BY <1>0, <3>1 DEF TypeOK, RequestsInv, OneAddressEach, Ended, Crashed
    <3> QED
      BY <1>0, <1>2, <3>1, <3>2 DEF TypeOK
  <2>5. CASE Exit(t)
    BY <1>5, <2>5
  <2>6. ~ CloneFails(t)
    BY <1>0 DEF CloneFails
  <2> QED
    BY <1>7, <2>2, <2>3, <2>4, <2>5, <2>6 DEF Process
<1>8. CASE Loader
  <2>1. UNCHANGED <<info, pc, va, arg>>
    BY <1>8 DEF Loader, InsmodStatic, Insmod, RmmodBegin, CleanupHead, RmmodEnd, taskVars
  <2>2. ASSUME heads'["dynamic_vector"] # heads["dynamic_vector"]
        PROVE  \A t \in Task : pc[t] # "create"
    <3>1. PICK m \in Module : CleanupHead(m) \/ (m \in StaticModule /\ InsmodStatic(m))
      <4>1. StaticModule \subseteq Module
        BY DEF Module, VectorModule
      <4> QED
        BY <1>8, <2>2, <4>1 DEF Loader, Insmod, RmmodBegin, RmmodEnd, listVars
    <3>2. m = "dynamic_vector" /\ CleanupHead(m)
      <4>1. \E x : heads' = [heads EXCEPT ![m] = x] \/ heads' = heads
        BY <3>1 DEF CleanupHead, InsmodStatic
      <4>2. m = "dynamic_vector"
        BY <1>0, <2>2, <4>1 DEF TypeOK, VectorModule
      <4> QED
        BY <3>1, <4>2 DEF StaticModule
    <3>3. mstate["dynamic_vector"] # "live"
      BY <3>2 DEF CleanupHead
    <3> QED
      BY <1>0, <3>3, RequestNeedsDynamic
  <2> QED
    BY <1>1, <2>1, <2>2
<1>9. CASE UNCHANGED vars
  BY <1>1, <1>9 DEF vars, taskVars, listVars
<1> QED
  BY <1>6, <1>7, <1>8, <1>9 DEF Next

-------------------------------------------------------------------------------
(* ExactInv: memory and nodes never run out. *)

(* A module has at most as many lists as it has list heads. *)
LEMMA ListsCounted ==
  ASSUME TypeOK, NEW m \in VectorModule
  PROVE  /\ IsFiniteSet(ListsOf(m))
         /\ Cardinality(ListsOf(m)) \in Nat
         /\ Len(heads[m]) \in Nat
         /\ Cardinality(ListsOf(m)) <= Len(heads[m])
<1> DEFINE S == 1 .. Len(heads[m])
           T == {heads[m][j] : j \in DOMAIN heads[m]}
<1>1. Len(heads[m]) \in Nat /\ DOMAIN heads[m] = S
  BY LenProperties DEF TypeOK
<1>2. IsFiniteSet(S) /\ Cardinality(S) = Len(heads[m])
  BY <1>1, FS_Interval
<1>3. heads[m] \in Surjection(S, T)
  <2>1. heads[m] = [j \in DOMAIN heads[m] |-> heads[m][j]]
    BY DEF TypeOK
  <2>2. heads[m] \in [S -> T]
    BY <1>1, <2>1
  <2>3. \A x \in T : \E j \in S : heads[m][j] = x
    BY <1>1
  <2> QED
    BY <2>2, <2>3 DEF Surjection
<1>4. IsFiniteSet(T) /\ Cardinality(T) <= Len(heads[m])
  BY <1>2, <1>3, FS_Surjection
<1>5. ListsOf(m) \in SUBSET T
  BY DEF ListsOf
<1>6. IsFiniteSet(ListsOf(m)) /\ Cardinality(ListsOf(m)) <= Cardinality(T)
  BY <1>4, <1>5, FS_Subset
<1>7. Cardinality(ListsOf(m)) \in Nat /\ Cardinality(T) \in Nat
  BY <1>4, <1>6, FS_CardinalityType
<1> QED
  BY <1>1, <1>4, <1>6, <1>7

AllLists == UNION {ListsOf(m) : m \in VectorModule}

LEMMA AllListsCounted ==
  ASSUME TypeOK
  PROVE  /\ IsFiniteSet(AllLists)
         /\ Cardinality(AllLists) \in Nat
         /\ Cardinality(AllLists) <= Len(heads["vector1"]) + Len(heads["vector2"])
                                       + Len(heads["dynamic_vector"])
<1> DEFINE A == ListsOf("vector1")
           B == ListsOf("vector2")
           C == ListsOf("dynamic_vector")
<1>1. AllLists = (A \cup B) \cup C
  BY DEF AllLists, VectorModule, StaticModule
<1>2. {"vector1", "vector2", "dynamic_vector"} \subseteq VectorModule
  BY DEF VectorModule, StaticModule
<1>3. /\ IsFiniteSet(A) /\ IsFiniteSet(B) /\ IsFiniteSet(C)
      /\ Cardinality(A) \in Nat /\ Cardinality(B) \in Nat /\ Cardinality(C) \in Nat
      /\ Len(heads["vector1"]) \in Nat /\ Len(heads["vector2"]) \in Nat
      /\ Len(heads["dynamic_vector"]) \in Nat
      /\ Cardinality(A) <= Len(heads["vector1"])
      /\ Cardinality(B) <= Len(heads["vector2"])
      /\ Cardinality(C) <= Len(heads["dynamic_vector"])
  BY <1>2, ListsCounted
<1> HIDE DEF A, B, C
<1>4. ASSUME NEW S, NEW T, IsFiniteSet(S), IsFiniteSet(T)
      PROVE  /\ IsFiniteSet(S \cup T) /\ Cardinality(S \cup T) \in Nat
             /\ Cardinality(S \cup T) <= Cardinality(S) + Cardinality(T)
  <2>1. /\ IsFiniteSet(S \cup T)
        /\ Cardinality(S \cup T) = Cardinality(S) + Cardinality(T) - Cardinality(S \cap T)
    BY <1>4, FS_Union
  <2>2. IsFiniteSet(S \cap T)
    BY <1>4, FS_Intersection
  <2>3. Cardinality(S \cap T) \in Nat /\ Cardinality(S) \in Nat /\ Cardinality(T) \in Nat
        /\ Cardinality(S \cup T) \in Nat
    BY <1>4, <2>1, <2>2, FS_CardinalityType
  <2> QED
    BY <2>1, <2>3
<1>5. /\ IsFiniteSet(A \cup B) /\ Cardinality(A \cup B) \in Nat
      /\ Cardinality(A \cup B) <= Cardinality(A) + Cardinality(B)
  BY <1>3, <1>4
<1>6. /\ IsFiniteSet(AllLists) /\ Cardinality(AllLists) \in Nat
      /\ Cardinality(AllLists) <= Cardinality(A \cup B) + Cardinality(C)
  BY <1>1, <1>3, <1>4, <1>5
<1> QED
  <2>1. ASSUME NEW x \in Nat, NEW y \in Nat, NEW z \in Nat,
               x = Len(heads["vector1"]), y = Len(heads["vector2"]),
               z = Len(heads["dynamic_vector"])
        PROVE  Cardinality(AllLists) <= x + y + z
    <3>1. Cardinality(A) <= x /\ Cardinality(B) <= y /\ Cardinality(C) <= z
      BY <1>3, <2>1
    <3> QED
      BY <1>3, <1>5, <1>6, <3>1
  <2> QED
    BY <1>3, <1>6, <2>1

(* While a module has room for one more list, there is memory for it and a  *)
(* node to register it with.                                                *)
LEMMA PoolsLast ==
  ASSUME TypeOK, RegistryInv, MemoryInv, Undisturbed,
         Len(heads["vector1"]) + Len(heads["vector2"]) + Len(heads["dynamic_vector"])
           <= MaxHeads + 1
  PROVE  ~ MayFail(FreeAddr) /\ ~ MayFail(FreeNode)
<1>1. /\ IsFiniteSet(AllLists) /\ Cardinality(AllLists) \in Nat
      /\ Cardinality(AllLists) <= MaxHeads + 1
  <2>1. {"vector1", "vector2", "dynamic_vector"} \subseteq VectorModule
    BY DEF VectorModule, StaticModule
  <2>2. /\ Len(heads["vector1"]) \in Nat /\ Len(heads["vector2"]) \in Nat
        /\ Len(heads["dynamic_vector"]) \in Nat
    BY <2>1, ListsCounted
  <2>3. ASSUME NEW x \in Nat, NEW y \in Nat, NEW z \in Nat,
               x + y + z <= MaxHeads + 1, Cardinality(AllLists) <= x + y + z
        PROVE  Cardinality(AllLists) <= MaxHeads + 1
    BY <2>3, AllListsCounted, MaxHeadsAssumption
  <2> QED
    BY <2>2, <2>3, AllListsCounted
<1>2. ASSUME NEW S, IsFiniteSet(S), Cardinality(S) >= MaxHeads + 2
      PROVE  ~ Cardinality(S) <= Cardinality(AllLists)
  <2>1. Cardinality(S) \in Nat
    BY <1>2, FS_CardinalityType
  <2> QED
    BY <1>1, <1>2, <2>1, MaxHeadsAssumption
<1>3. FreeAddr # {}
  <2>1. ASSUME FreeAddr = {}
        PROVE  FALSE
    <3>1. Addr \subseteq AllLists
      BY <2>1 DEF FreeAddr, MemoryInv, NothingLeaks, AllLists
    <3>2. Cardinality(Addr) <= Cardinality(AllLists)
      BY <1>1, <3>1, FS_Subset
    <3> QED
      BY <1>2, <3>2, FiniteAssumption DEF Undisturbed
  <2> QED
    BY <2>1
<1>4. FreeNode # {}
  <2>1. ASSUME FreeNode = {}
        PROVE  FALSE
    <3>1. Node \subseteq Listed
      BY <2>1 DEF FreeNode, MemoryInv, NothingLeaks
    <3> DEFINE f == [n \in Node |-> node[n].addr]
    <3>2. f \in Injection(Node, AllLists)
      <4>1. Node \subseteq Backed
        BY <3>1 DEF MemoryInv, NothingLeaks
      <4>2. \A n \in Node : node[n].addr \in AllLists
        BY <4>1 DEF RegistryInv, VectorsInv, NodesHaveLists, AllLists
      <4>3. \A n, k \in Node : node[n].addr = node[k].addr => n = k
        BY <4>1 DEF RegistryInv, VectorsInv, OneNodePerList
      <4> QED
        BY <4>2, <4>3 DEF Injection, IsInjective
    <3>3. Cardinality(Node) <= Cardinality(AllLists)
      BY <1>1, <3>2, FS_Injection
    <3> QED
      BY <1>2, <3>3, FiniteAssumption DEF Undisturbed
  <2> QED
    BY <2>1
<1> QED
  BY <1>3, <1>4, UndisturbedMeans DEF MayFail

(* What happens to memory when only refcounts may change.                   *)
LEMMA SameMemory ==
  ASSUME TypeOK, MemoryInv, UNCHANGED <<vec_list, listVars>>,
         \A n \in Node \ Listed : node'[n] = node[n],
         \A n \in Node : node'[n].addr = node[n].addr
  PROVE  MemoryInv'
<1>1. /\ Listed' = Listed /\ heap' = heap /\ heads' = heads
      /\ \A m : ListsOf(m)' = ListsOf(m)
      /\ Listed \subseteq Node
  BY ListedNodes DEF Listed, listVars, ListsOf, TypeOK
<1>2. Backed' = Backed /\ Backed \subseteq Node
  BY <1>1 DEF Backed
<1>3. NothingLeaks'
  BY <1>1, <1>2 DEF MemoryInv, NothingLeaks
<1>4. HeadsBounded'
  BY <1>1 DEF MemoryInv, HeadsBounded
<1> QED
  BY <1>3, <1>4 DEF MemoryInv

LEMMA RefMemory ==
  ASSUME TypeOK, MemoryInv, NEW i \in Cursor, TakeRef(i) \/ DropRef(i),
         UNCHANGED <<vec_list, listVars>>
  PROVE  MemoryInv'
<1>0. RegistryTypeOK
  BY DEF TypeOK
<1>1. \A n \in Node : node'[n].addr = node[n].addr
  BY <1>0, TakeRefOnly DEF SameVectors
<1>2. \A n \in Node \ Listed : node'[n] = node[n]
  <2>1. CASE i = 0
    BY <2>1 DEF TakeRef, DropRef
  <2>2. CASE i # 0
    <3>1. vec_list[i] \in Listed /\ vec_list[i] \in Node
      BY <1>0, <2>2, CursorType, LenProperties DEF Listed, RegistryTypeOK
    <3>2. \E c : node' = [node EXCEPT ![vec_list[i]].refcount = c]
      BY <2>2 DEF TakeRef, DropRef
    <3> QED
      BY <1>0, <3>1, <3>2 DEF RegistryTypeOK
  <2> QED
    BY <2>1, <2>2
<1> QED
  BY <1>1, <1>2, SameMemory

(* A list is built and a vector registered for it. *)
LEMMA RegisteredMemory ==
  ASSUME TypeOK, RegistryInv, MemoryInv,
         NEW m \in VectorModule, NEW n, NEW b, NEW a \in Addr, NEW c,
         NEW list, list # {}, heap' = [heap EXCEPT ![a] = list],
         AddVector(n, b, a, m, c),
         \A k \in VectorModule : ListsOf(k)' = IF k = m THEN ListsOf(k) \cup {a}
                                               ELSE ListsOf(k),
         HeadsBounded'
  PROVE  MemoryInv'
<1>0. RegistryTypeOK /\ a # NULL
  BY NULLAssumption DEF TypeOK
<1>1. /\ node'[n].addr = a
      /\ \A k \in Node \ {n} : node'[k] = node[k]
      /\ n \in Node \ Listed
      /\ Listed' = Listed \cup {n} /\ Backed' = Backed \cup {n}
  BY <1>0, AddedNode
<1>2. /\ heap'[a] = list
      /\ \A x \in Addr \ {a} : heap'[x] = heap[x]
  BY DEF TypeOK
<1>3. \A k \in Backed : k \in Backed' /\ node'[k] = node[k]
  BY <1>0, <1>1, ListedNodes DEF Backed
<1>4. \A x \in Addr : heap'[x] # {} => \E k \in VectorModule : x \in ListsOf(k)'
  BY <1>2 DEF MemoryInv, NothingLeaks
<1>5. \A k \in Node \ Listed' : node'[k] = NoVector
  BY <1>1 DEF MemoryInv, NothingLeaks
<1>6. ASSUME NEW k \in VectorModule, NEW x \in ListsOf(k)'
      PROVE  \E y \in Backed' : node'[y].addr = x
  <2>1. CASE x = a
    BY <1>1, <2>1
  <2>2. CASE x \in ListsOf(k)
    BY <1>3, <2>2 DEF MemoryInv, NothingLeaks
  <2> QED
    BY <2>1, <2>2
<1>7. Listed' \subseteq Backed'
  BY <1>1 DEF MemoryInv, NothingLeaks
<1> QED
  BY <1>4, <1>5, <1>6, <1>7 DEF MemoryInv, NothingLeaks

(* Undisturbed, CREATE builds all of its list and registers it. *)
LEMMA CreateSucceeds ==
  ASSUME TypeOK, LoaderInv, RegistryInv, RequestsInv, MemoryInv, Undisturbed,
         NEW t \in Task, CreateBuild(t)
  PROVE  /\ HeadsBounded'
         /\ \E a \in FreeAddr, n \in Node :
              /\ heap' = [heap EXCEPT ![a] = VectorFromBitmap(arg[t])]
              /\ VectorFromBitmap(arg[t]) # {}
              /\ AddVector(n, arg[t], a, "dynamic_vector", 1)
              /\ info' = [info EXCEPT ![t] = a]
              /\ va' = [va EXCEPT ![t] = NULL]
              /\ \A k \in VectorModule :
                   ListsOf(k)' = IF k = "dynamic_vector" THEN ListsOf(k) \cup {a}
                                 ELSE ListsOf(k)
<1> DEFINE dyn == "dynamic_vector"
<1>1. /\ {"vector1", "vector2", dyn} \subseteq VectorModule
      /\ StaticModule = {"vector1", "vector2"} /\ dyn \notin StaticModule
  BY DEF VectorModule, StaticModule
<1>2. /\ Len(heads["vector1"]) \in Nat /\ Len(heads["vector2"]) \in Nat
      /\ Len(heads[dyn]) \in Nat
      /\ Len(heads["vector1"]) <= 1 /\ Len(heads["vector2"]) <= 1
      /\ Len(heads[dyn]) < MaxHeads
      /\ arg[t] \in Bitmaps /\ validate_bitmap(arg[t])
  BY <1>1, ListsCounted
     DEF MemoryInv, HeadsBounded, RequestsInv, CreateHasRoom, CreateBuild
<1>3. ~ MayFail(FreeAddr) /\ ~ MayFail(FreeNode)
  <2>1. ASSUME NEW x \in Nat, NEW y \in Nat, NEW z \in Nat, x <= 1, y <= 1, z < MaxHeads
        PROVE  x + y + z <= MaxHeads + 1
    BY <2>1, MaxHeadsAssumption
  <2> QED
    BY <1>2, <2>1, PoolsLast
<1>4. PICK a \in Pointer :
        /\ BuildList(arg[t], a)
        /\ a # NULL => a \in FreeAddr
        /\ \/ \E n \in Node : AddVector(n, arg[t], a, dyn, 1)
           \/ MayFail(FreeNode) /\ UNCHANGED <<vec_list, node>>
        /\ info' = [info EXCEPT ![t] = a]
        /\ va' = [va EXCEPT ![t] = NULL]
        /\ heads' = [heads EXCEPT ![dyn] = Append(@, a)]
        /\ \A k \in VectorModule :
             ListsOf(k)' = IF k = dyn THEN (ListsOf(k) \cup {a}) \ {NULL} ELSE ListsOf(k)
  BY CreateBuilds
<1>5. /\ VectorFromBitmap(arg[t]) # {}
      /\ a # NULL /\ heap' = [heap EXCEPT ![a] = VectorFromBitmap(arg[t])]
  <2>1. VectorFromBitmap(arg[t]) # {}
    BY <1>2 DEF Undisturbed
  <2>2. PICK lost \in SUBSET arg[t] :
          LET list == VectorFromBitmap(arg[t] \ lost) IN
          /\ lost # {} => MayFail(FreeAddr)
          /\ IF list = {} THEN a = NULL /\ UNCHANGED heap
             ELSE a \in FreeAddr /\ heap' = [heap EXCEPT ![a] = list]
    BY <1>4 DEF BuildList
  <2>3. arg[t] \ lost = arg[t]
    BY <1>3, <2>2
  <2> QED
    BY <2>1, <2>2, <2>3, NULLAssumption DEF FreeAddr
<1>6. PICK n \in Node : AddVector(n, arg[t], a, dyn, 1)
  BY <1>3, <1>4
<1>7. \A k \in VectorModule :
        ListsOf(k)' = IF k = dyn THEN ListsOf(k) \cup {a} ELSE ListsOf(k)
  BY <1>4, <1>5 DEF ListsOf
<1>8. HeadsBounded'
  <2>1. heads[dyn] \in Seq(Pointer)
    BY <1>1 DEF TypeOK
  <2>2. Len(Append(heads[dyn], a)) = Len(heads[dyn]) + 1
    BY <2>1, AppendProperties
  <2>3. /\ heads'[dyn] = Append(heads[dyn], a)
        /\ \A k \in VectorModule \ {dyn} : heads'[k] = heads[k]
    BY <1>1, <1>4 DEF TypeOK
  <2>4. Len(heads'[dyn]) <= MaxHeads
    BY <1>2, <2>2, <2>3, MaxHeadsAssumption
  <2> QED
    BY <1>1, <2>3, <2>4 DEF MemoryInv, HeadsBounded
<1> QED
  BY <1>4, <1>5, <1>6, <1>7, <1>8

(* Undisturbed, insmod of a static module registers its list.               *)
LEMMA InsmodSucceeds ==
  ASSUME TypeOK, LoaderInv, RegistryInv, MemoryInv, Undisturbed,
         NEW m \in StaticModule, InsmodStatic(m)
  PROVE  /\ HeadsBounded' /\ m \in VectorModule /\ mref' = mref
         /\ \E a \in FreeAddr, n \in Node :
              /\ heap' = [heap EXCEPT ![a] = StaticVector(m)]
              /\ AddVector(n, StaticBitmap(m), a, m, 0)
              /\ \A k \in VectorModule :
                   ListsOf(k)' = IF k = m THEN ListsOf(k) \cup {a} ELSE ListsOf(k)
<1>1. /\ {"vector1", "vector2", "dynamic_vector"} \subseteq VectorModule
      /\ StaticModule = {"vector1", "vector2"} /\ StaticModule \subseteq VectorModule
  BY DEF VectorModule, StaticModule
<1>2. heads[m] = <<>> /\ mref' = mref
  BY InsmodBuilds
<1>3. ~ MayFail(FreeNode)
  <2>1. Len(heads[m]) = 0
    BY <1>2
  <2>2. \E other \in StaticModule : {m, other} = StaticModule
    BY <1>1
  <2>3. /\ Len(heads["vector1"]) \in Nat /\ Len(heads["vector2"]) \in Nat
        /\ Len(heads["dynamic_vector"]) \in Nat
        /\ Len(heads["vector1"]) <= 1 /\ Len(heads["vector2"]) <= 1
        /\ Len(heads["vector1"]) = 0 \/ Len(heads["vector2"]) = 0
        /\ Len(heads["dynamic_vector"]) <= MaxHeads
    BY <1>1, <2>1, <2>2, ListsCounted DEF MemoryInv, HeadsBounded
  <2>4. ASSUME NEW x \in Nat, NEW y \in Nat, NEW z \in Nat, x <= 1, y <= 1,
               x = 0 \/ y = 0, z <= MaxHeads
        PROVE  x + y + z <= MaxHeads + 1
    BY <2>4, MaxHeadsAssumption
  <2> QED
    BY <2>3, <2>4, PoolsLast
<1>4. PICK a \in FreeAddr :
        /\ heap' = [heap EXCEPT ![a] = StaticVector(m)]
        /\ \/ /\ \E n \in Node : AddVector(n, StaticBitmap(m), a, m, 0)
              /\ mstate' = [mstate EXCEPT ![m] = "live"]
              /\ heads' = [heads EXCEPT ![m] = <<a>>]
              /\ \A k \in VectorModule : ListsOf(k)' = IF k = m THEN {a} ELSE ListsOf(k)
           \/ MayFail(FreeNode) /\ UNCHANGED <<vec_list, node, mstate, heads>>
  BY InsmodBuilds
<1>5. ListsOf(m) = {}
  BY <1>2 DEF ListsOf
<1>6. HeadsBounded'
  <2>1. /\ heads'[m] = <<a>>
        /\ \A k \in VectorModule \ {m} : heads'[k] = heads[k]
    BY <1>1, <1>3, <1>4 DEF TypeOK
  <2>2. Len(heads'[m]) <= 1 /\ m # "dynamic_vector"
    BY <1>1, <2>1
  <2> QED
    BY <1>1, <2>1, <2>2 DEF MemoryInv, HeadsBounded
<1> QED
  BY <1>1, <1>2, <1>3, <1>4, <1>5, <1>6

(* cleanup_override frees a list and the node that had it. *)
LEMMA CleanupMemory ==
  ASSUME TypeOK, RegistryInv, CountInv, MemoryInv, NEW m \in Module, CleanupHead(m)
  PROVE  MemoryInv'
<1> DEFINE h == Head(heads[m])
<1>0. RegistryTypeOK /\ Listed \subseteq Node
  BY ListedNodes DEF TypeOK
<1>1. /\ m \in VectorModule /\ unregister_syscall(h) /\ heads[m] # <<>>
      /\ heap' = IF h = NULL THEN heap ELSE [heap EXCEPT ![h] = {}]
      /\ heads' = [heads EXCEPT ![m] = Tail(@)]
  BY DEF CleanupHead
<1>2. /\ Backed' = {n \in Backed : node[n].addr # h}
      /\ \A n \in Backed' : node'[n] = node[n]
      /\ \A k \in VectorModule : ListsOf(k)' = ListsOf(k) \ {h}
      /\ h \in Pointer
  BY <1>1, CleanupHeadProperties DEF RegistryInv, CountInv
<1>3. HeadsBounded'
  <2>1. heads[m] \in Seq(Pointer)
    BY <1>1 DEF TypeOK
  <2>2. Len(Tail(heads[m])) = Len(heads[m]) - 1 /\ Len(heads[m]) \in Nat
    BY <1>1, <2>1, HeadTailProperties, LenProperties
  <2>3. /\ heads'[m] = Tail(heads[m])
        /\ \A k \in VectorModule \ {m} : heads'[k] = heads[k]
    BY <1>1 DEF TypeOK
  <2>4. \A b \in Nat : Len(heads[m]) <= b => Len(heads'[m]) <= b
    BY <2>2, <2>3
  <2>5. StaticModule \cup {"dynamic_vector"} = VectorModule
    BY DEF VectorModule
  <2> QED
    BY <2>3, <2>4, <2>5, MaxHeadsAssumption DEF MemoryInv, HeadsBounded
<1> HIDE DEF h
<1>4. ASSUME NEW a \in Addr, heap'[a] # {}
      PROVE  \E k \in VectorModule : a \in ListsOf(k)'
  <2>1. heap[a] # {} /\ a # h
    <3>1. CASE h = NULL
      BY <1>1, <1>4, <3>1, NULLAssumption
    <3>2. CASE h # NULL
      BY <1>1, <1>2, <1>4, <3>2 DEF TypeOK, Pointer
    <3> QED
      BY <3>1, <3>2
  <2> QED
    BY <1>2, <2>1 DEF MemoryInv, NothingLeaks
<1>5. /\ Listed' \subseteq Listed
      /\ \A n \in Node \ Listed' : node'[n] = NoVector
  <2>1. CASE UNCHANGED <<vec_list, node>>
    BY <2>1 DEF Listed, MemoryInv, NothingLeaks
  <2>2. ASSUME NEW n \in Listed, Listed' = Listed \ {n}, node'[n] = NoVector,
               \A k \in Node \ {n} : node'[k] = node[k]
        PROVE  /\ Listed' \subseteq Listed
               /\ \A k \in Node \ Listed' : node'[k] = NoVector
    BY <1>0, <2>2 DEF MemoryInv, NothingLeaks
  <2> QED
    BY <1>0, <1>1, <2>1, <2>2, Unregisters DEF RegistryInv, VectorsInv
<1>6. Listed' \subseteq Backed'
  <2> SUFFICES ASSUME NEW n \in Listed'
               PROVE  node'[n].addr # NULL
    BY DEF Backed
  <2>1. n \in Backed
    BY <1>5 DEF MemoryInv, NothingLeaks
  <2>2. CASE UNCHANGED <<vec_list, node>>
    BY <2>1, <2>2 DEF Backed
  <2>3. ASSUME NEW r \in Listed, Listed' = Listed \ {r},
               \A k \in Node \ {r} : node'[k] = node[k]
        PROVE  node'[n].addr # NULL
    BY <1>0, <2>1, <2>3 DEF Backed
  <2> QED
    BY <1>0, <1>1, <2>2, <2>3, Unregisters DEF RegistryInv, VectorsInv
<1>7. ASSUME NEW k \in VectorModule, NEW a \in ListsOf(k)'
      PROVE  \E n \in Backed' : node'[n].addr = a
  <2>1. a \in ListsOf(k) /\ a # h
    BY <1>2
  <2>2. PICK n \in Backed : node[n].addr = a
    BY <2>1 DEF MemoryInv, NothingLeaks
  <2> QED
    BY <1>2, <2>1, <2>2
<1> QED
  BY <1>3, <1>4, <1>5, <1>6, <1>7 DEF MemoryInv, NothingLeaks

LEMMA StepKeepsMemory ==
  ASSUME LifetimeInv, RequestsInv, MemoryInv, Undisturbed, [Next]_vars
  PROVE  MemoryInv'
<1>0. /\ TypeOK /\ LoaderInv /\ RegistryInv /\ CountInv /\ RegistryTypeOK
  BY DEF LifetimeInv, TypeOK
<1>1. ASSUME UNCHANGED <<vec_list, node, listVars>>
      PROVE  MemoryInv'
  BY <1>0, <1>1, SameMemory
<1>2. ASSUME NEW i \in Cursor, TakeRef(i) \/ DropRef(i), UNCHANGED <<vec_list, listVars>>
      PROVE  MemoryInv'
  BY <1>0, <1>2, RefMemory
<1>3. ASSUME NEW t \in Task, Exit(t) \/ NameCrashes(t) \/ FaultCrashes(t)
      PROVE  MemoryInv'
  <2>1. /\ UNCHANGED <<vec_list, listVars>>
        /\ node' = node \/ \E i \in Cursor : DropRef(i)
    BY <1>3, EndIsEndsTask DEF EndsTask, reduce_ref_count_from_address
  <2> QED
    BY <1>1, <1>2, <2>1
<1>4. ASSUME NEW t \in Task, Request(t)
      PROVE  MemoryInv'
  <2>1. CASE \E b \in Bitmaps : SetLookup(t, b) \/ CreateLookup(t, b)
    BY <1>2, <2>1 DEF SetLookup, CreateLookup, get_vector_address, check_any_current_vector
  <2>2. CASE \E b \in Bitmaps : RemoveVector(t, b)
    BY <1>2, <2>2 DEF RemoveVector, reduce_ref_count
  <2>3. CASE SetAssign(t) \/ CreateExisting(t) \/ CreateNoMemory(t)
    <3>1. UNCHANGED <<vec_list, node, listVars>>
      BY <2>3, NothingReduced DEF SetAssign, CreateExisting, CreateNoMemory, registryVars
    <3> QED
      BY <1>1, <3>1
  <2>4. CASE CreateBuild(t)
    <3>1. PICK a \in FreeAddr, n \in Node :
            /\ heap' = [heap EXCEPT ![a] = VectorFromBitmap(arg[t])]
            /\ VectorFromBitmap(arg[t]) # {}
            /\ AddVector(n, arg[t], a, "dynamic_vector", 1)
            /\ \A k \in VectorModule :
                 ListsOf(k)' = IF k = "dynamic_vector" THEN ListsOf(k) \cup {a}
                               ELSE ListsOf(k)
      BY <1>0, <2>4, CreateSucceeds
    <3>2. HeadsBounded' /\ a \in Addr /\ "dynamic_vector" \in VectorModule
      BY <1>0, <2>4, CreateSucceeds DEF FreeAddr, VectorModule
    <3> QED
      BY <1>0, <3>1, <3>2, RegisteredMemory
  <2> QED
    BY <1>3, <1>4, <2>1, <2>2, <2>3, <2>4 DEF Request
<1>5. ASSUME NEW t \in Task, Process(t)
      PROVE  MemoryInv'
  <2>1. CASE \/ CloneInherit(t) \/ KernelCounts(t) \/ ForkInherit(t)
             \/ \E b \in Bitmaps : CloneById(t, b)
    BY <1>2, <2>1
       DEF CloneInherit, KernelCounts, ForkInherit, CloneById,
           increment_ref_count_from_address, get_vector_address_from_id
  <2>2. CASE Exit(t)
    BY <1>3, <2>2
  <2>3. CASE CloneFails(t) \/ \E child \in Task : CloneForks(t, child) \/ Fork(t, child)
    BY <1>1, <2>3 DEF CloneFails, CloneForks, Fork, registryVars
  <2> QED
    BY <1>5, <2>1, <2>2, <2>3 DEF Process
<1>6. CASE Loader
  <2>1. ASSUME NEW m \in StaticModule, InsmodStatic(m)
        PROVE  MemoryInv'
    <3>1. PICK a \in FreeAddr, n \in Node :
            /\ heap' = [heap EXCEPT ![a] = StaticVector(m)]
            /\ AddVector(n, StaticBitmap(m), a, m, 0)
            /\ \A k \in VectorModule :
                 ListsOf(k)' = IF k = m THEN ListsOf(k) \cup {a} ELSE ListsOf(k)
      BY <1>0, <2>1, InsmodSucceeds
    <3>2. HeadsBounded' /\ a \in Addr /\ m \in VectorModule
      BY <1>0, <2>1, InsmodSucceeds DEF FreeAddr
    <3>3. StaticVector(m) # {}
      BY DEF StaticVector, Vector55, Vector968
    <3> QED
      BY <1>0, <3>1, <3>2, <3>3, RegisteredMemory
  <2>2. ASSUME NEW m \in Module, CleanupHead(m)
        PROVE  MemoryInv'
    BY <1>0, <2>2, CleanupMemory
  <2>3. CASE \E m \in Module : Insmod(m) \/ RmmodBegin(m) \/ RmmodEnd(m)
    BY <1>1, <2>3 DEF Insmod, RmmodBegin, RmmodEnd
  <2> QED
    BY <1>6, <2>1, <2>2, <2>3 DEF Loader
<1>7. CASE UNCHANGED vars
  BY <1>1, <1>7 DEF vars, registryVars
<1> QED
  BY <1>4, <1>5, <1>6, <1>7 DEF Next

-------------------------------------------------------------------------------
(* ExactInv: the counts. *)

ExactCounts == NoStrayPins /\ RefcountExact

LEMMA VectorPinsFinite ==
  ASSUME NEW m
  PROVE  /\ IsFiniteSet(VectorPins(m)) /\ Cardinality(VectorPins(m)) \in Nat
         /\ IsFiniteSet(VectorPins(m)')
<1>1. IsFiniteSet(1 .. MaxRef)
  BY MaxRefAssumption, FS_Interval
<1>2. IsFiniteSet(Node \X (1 .. MaxRef))
  BY <1>1, FiniteAssumption, FS_Product
<1>3. /\ VectorPins(m) \in SUBSET (Node \X (1 .. MaxRef))
      /\ VectorPins(m)' \in SUBSET (Node \X (1 .. MaxRef))
  BY DEF VectorPins
<1>4. IsFiniteSet(VectorPins(m)) /\ IsFiniteSet(VectorPins(m)')
  BY <1>2, <1>3, FS_Subset
<1> QED
  BY <1>4, FS_CardinalityType

(* A count no larger than a set is stays so, as StillCovers the other way.  *)
LEMMA StillCovered ==
  ASSUME NEW S, IsFiniteSet(S), NEW T, IsFiniteSet(T), NEW x, NEW r \in Int, NEW q \in Int,
         r <= Cardinality(S),
         \/ S \subseteq T /\ q <= r
         \/ x \notin S /\ S \cup {x} \subseteq T /\ q = r + 1
         \/ x \in S /\ S \ {x} \subseteq T /\ q = r - 1
  PROVE  q <= Cardinality(T)
<1>1. Cardinality(S) \in Nat /\ Cardinality(T) \in Nat
  BY FS_CardinalityType
<1>2. CASE S \subseteq T /\ q <= r
  <2>1. Cardinality(S) <= Cardinality(T)
    BY <1>2, FS_Subset
  <2> QED
    BY <1>1, <1>2, <2>1
<1>3. CASE x \notin S /\ S \cup {x} \subseteq T /\ q = r + 1
  <2>1. Cardinality(S \cup {x}) = Cardinality(S) + 1
    BY <1>3, FS_AddElement
  <2>2. Cardinality(S \cup {x}) <= Cardinality(T)
    BY <1>3, FS_Subset
  <2> QED
    BY <1>1, <1>3, <2>1, <2>2
<1>4. CASE x \in S /\ S \ {x} \subseteq T /\ q = r - 1
  <2>1. Cardinality(S \ {x}) = Cardinality(S) - 1
    BY <1>4, FS_RemoveElement
  <2>2. Cardinality(S \ {x}) <= Cardinality(T)
    BY <1>4, FS_Subset
  <2> QED
    BY <1>1, <1>4, <2>1, <2>2
<1> QED
  BY <1>2, <1>3, <1>4

(* Every listed vector has a list under these assumptions. *)
LEMMA ListedBacked ==
  ASSUME TypeOK, RegistryInv, MemoryInv, NEW n \in Listed
  PROVE  n \in Backed /\ n \in Node /\ node[n].addr \in Addr
<1>1. n \in Backed /\ n \in Node
  BY ListedNodes DEF MemoryInv, NothingLeaks, TypeOK
<1>2. node[n].addr \in Pointer /\ node[n].addr # NULL
  BY <1>1 DEF TypeOK, RegistryTypeOK, Vector, Backed
<1> QED
  BY <1>1, <1>2 DEF Pointer

(* Only tasks changed, and each list has as many users as before.           *)
LEMMA SameCounts ==
  ASSUME TypeOK, RegistryInv, MemoryInv, ExactCounts,
         UNCHANGED <<vec_list, node>>,
         \A m \in VectorModule : mref'[m] = mref[m] \/ mref'[m] = 0,
         \A a \in Addr : Users(a)' = Users(a)
  PROVE  ExactCounts'
<1>1. Listed' = Listed /\ Backed' = Backed /\ \A m : VectorPins(m)' = VectorPins(m)
  BY DEF Listed, Backed, VectorPins
<1>2. NoStrayPins'
  <2> SUFFICES ASSUME NEW m \in VectorModule
               PROVE  mref'[m] <= Cardinality(VectorPins(m))
    BY <1>1 DEF NoStrayPins
  <2>1. mref[m] <= Cardinality(VectorPins(m)) /\ Cardinality(VectorPins(m)) \in Nat
    BY VectorPinsFinite DEF ExactCounts, NoStrayPins
  <2> QED
    BY <2>1
<1>3. RefcountExact'
  <2> SUFFICES ASSUME NEW n \in Listed
               PROVE  node[n].refcount = Users(node[n].addr)'
    BY <1>1 DEF RefcountExact
  <2>1. node[n].addr \in Addr
    BY ListedBacked
  <2> QED
    BY <2>1 DEF ExactCounts, RefcountExact
<1> QED
  BY <1>2, <1>3 DEF ExactCounts

(* A refcount and the users of its vector go up or down together.           *)
LEMMA RefcountFollows ==
  ASSUME TypeOK, RegistryInv, MemoryInv, ExactCounts,
         NEW n \in Listed, NEW d \in {-1, 1},
         NEW c \in Int, c = node[n].refcount + d, Counted(n, c),
         UNCHANGED <<vec_list, listVars>>,
         \A a \in Addr : Users(a)' = Users(a) + (IF a = node[n].addr THEN d ELSE 0)
  PROVE  RefcountExact'
<1>1. /\ node'[n].refcount = c
      /\ \A k \in Node \ {n} : node'[k] = node[k]
      /\ \A k \in Node : node'[k].addr = node[k].addr
  BY RefcountStep DEF TypeOK
<1>2. Listed' = Listed
  BY DEF Listed
<1>3. ASSUME NEW k \in Listed, NEW a \in Addr, node[k].addr = a
      PROVE  node'[k].refcount = Users(a)'
  <2>1. /\ node[k].refcount = Users(a) /\ Users(a) \in Int
        /\ k \in Backed /\ k \in Node /\ n \in Backed
    BY <1>3, ListedBacked, HeldMeansUsers DEF ExactCounts, RefcountExact
  <2>2. CASE k = n
    BY <1>1, <1>3, <2>1, <2>2
  <2>3. CASE k # n
    <3>1. node[n].addr # a
      BY <1>3, <2>1, <2>3 DEF RegistryInv, VectorsInv, OneNodePerList
    <3> QED
      BY <1>1, <2>1, <2>3, <3>1
  <2> QED
    BY <2>2, <2>3
<1>4. ASSUME NEW k \in Listed', NEW a, node'[k].addr = a
      PROVE  node'[k].refcount = Users(a)'
  <2>1. k \in Listed /\ node[k].addr = a /\ a \in Addr
    BY <1>1, <1>2, <1>4, ListedBacked
  <2> QED
    BY <1>3, <2>1
<1> QED
  BY <1>4 DEF RefcountExact

(* The references of a vector's module when its refcount becomes c.         *)
LEMMA VectorPinsFollow ==
  ASSUME RegistryTypeOK, NEW n \in Backed, node[n].refcount \in 0 .. MaxRef,
         NEW c \in Int, Counted(n, c), UNCHANGED <<vec_list, listVars>>
  PROVE  /\ c = node[n].refcount + 1 /\ c <= MaxRef =>
              \A m : /\ VectorPins(m) \subseteq VectorPins(m)'
                     /\ <<n, c>> \notin VectorPins(m)
                     /\ m = node[n].module => <<n, c>> \in VectorPins(m)'
         /\ c = node[n].refcount - 1 =>
              \A m : /\ VectorPins(m) \ {<<n, node[n].refcount>>} \subseteq VectorPins(m)'
                     /\ m # node[n].module => VectorPins(m) \subseteq VectorPins(m)'
<1>0. n \in Node /\ n \in Listed /\ Backed \subseteq Node
  BY ListedNodes DEF Backed
<1>1. /\ Backed' = Backed
      /\ node'[n].refcount = c
      /\ \A k \in Node \ {n} : node'[k] = node[k]
      /\ \A k \in Node : node'[k].module = node[k].module
  BY <1>0, RefcountStep
<1>2. ASSUME NEW m, NEW p \in VectorPins(m), p[1] # n \/ p[2] <= c
      PROVE  p \in VectorPins(m)'
  <2>1. /\ p \in Node \X (1 .. MaxRef) /\ p[1] \in Backed
        /\ node[p[1]].module = m /\ p[2] <= node[p[1]].refcount
    BY DEF VectorPins
  <2>2. node'[p[1]].module = m /\ p[2] <= node'[p[1]].refcount
    BY <1>0, <1>1, <1>2, <2>1
  <2> QED
    BY <1>1, <2>1, <2>2 DEF VectorPins
<1>3. ASSUME NEW m, NEW p \in VectorPins(m)
      PROVE  /\ p = <<p[1], p[2]>> /\ p[2] \in Int
             /\ p[1] = n => p[2] <= node[n].refcount /\ node[n].module = m
  BY <1>3, MaxRefAssumption DEF VectorPins
<1>4. ASSUME c = node[n].refcount + 1, c <= MaxRef, NEW m
      PROVE  /\ VectorPins(m) \subseteq VectorPins(m)'
             /\ <<n, c>> \notin VectorPins(m)
             /\ m = node[n].module => <<n, c>> \in VectorPins(m)'
  <2>1. node[n].refcount \in Int /\ c \in 1 .. MaxRef
    BY <1>4, MaxRefAssumption
  <2>2. ASSUME NEW p \in VectorPins(m)
        PROVE  p \in VectorPins(m)'
    BY <1>2, <1>3, <1>4, <2>1
  <2>3. <<n, c>> \notin VectorPins(m)
    <3>1. <<n, c>> \in VectorPins(m) => c <= node[n].refcount
      BY <1>3
    <3> QED
      BY <1>4, <2>1, <3>1
  <2>4. ASSUME m = node[n].module
        PROVE  <<n, c>> \in VectorPins(m)'
    BY <1>0, <1>1, <2>1, <2>4 DEF VectorPins
  <2> QED
    BY <2>2, <2>3, <2>4
<1>5. ASSUME c = node[n].refcount - 1, NEW m
      PROVE  /\ VectorPins(m) \ {<<n, node[n].refcount>>} \subseteq VectorPins(m)'
             /\ m # node[n].module => VectorPins(m) \subseteq VectorPins(m)'
  <2>1. node[n].refcount \in Int
    BY MaxRefAssumption
  <2>2. ASSUME NEW p \in VectorPins(m), p # <<n, node[n].refcount>>
        PROVE  p \in VectorPins(m)'
    <3>1. p[1] # n \/ p[2] <= c
      BY <1>3, <1>5, <2>1, <2>2
    <3> QED
      BY <1>2, <3>1
  <2>3. ASSUME NEW p \in VectorPins(m), m # node[n].module
        PROVE  p \in VectorPins(m)'
    BY <1>2, <1>3, <2>3
  <2> QED
    BY <2>2, <2>3
<1> QED
  BY <1>4, <1>5

(* A pointer that is not in use is set: its new target has one user more.   *)
LEMMA OneMoreUser ==
  ASSUME TypeOK, NEW t \in Task, va[t] = NULL, NEW b,
         \/ info' = info /\ va' = [va EXCEPT ![t] = b]
         \/ info[t] = NULL /\ info' = [info EXCEPT ![t] = b] /\ va' = va
  PROVE  \A a \in Addr : Users(a)' = Users(a) + (IF a = b THEN 1 ELSE 0)
<1> TAKE a \in Addr
<1>1. /\ \A x \in Task \ {t} : info'[x] = info[x] /\ va'[x] = va[x]
      /\ a # NULL
  BY NULLAssumption DEF TypeOK
<1>2. /\ Users(a)' = Users(a)
           - (IF info[t] = a THEN 1 ELSE 0) + (IF info'[t] = a THEN 1 ELSE 0)
           - (IF va[t] = a THEN 1 ELSE 0) + (IF va'[t] = a THEN 1 ELSE 0)
      /\ Users(a) \in Nat
  BY <1>1, PointersMove, HeldMeansUsers
<1>3. \/ info'[t] = info[t] /\ va'[t] = b
      \/ info[t] = NULL /\ info'[t] = b /\ va'[t] = va[t]
  BY DEF TypeOK
<1> QED
  BY <1>1, <1>2, <1>3

(* A request hands the address it carries to a task that has none.          *)
LEMMA SameUsers ==
  ASSUME TypeOK, NEW t \in Task, NEW u \in Task,
         \/ info[u] = NULL /\ info' = [info EXCEPT ![u] = va[t]]
         \/ va[t] = NULL /\ info' = info,
         va' = [va EXCEPT ![t] = NULL]
  PROVE  \A a \in Addr : Users(a)' = Users(a)
<1> TAKE a \in Addr
<1>1. /\ \A x \in Task \ {u} : info'[x] = info[x]
      /\ \A x \in Task \ {t} : va'[x] = va[x]
      /\ va'[t] = NULL /\ a # NULL
  BY NULLAssumption DEF TypeOK
<1>2. /\ Users(a)' = Users(a)
           - (IF info[u] = a THEN 1 ELSE 0) + (IF info'[u] = a THEN 1 ELSE 0)
           - (IF va[t] = a THEN 1 ELSE 0) + (IF va'[t] = a THEN 1 ELSE 0)
      /\ Users(a) \in Nat
  BY <1>1, PointersMove, HeldMeansUsers
<1>3. \/ info[u] = NULL /\ info'[u] = va[t]
      \/ va[t] = NULL /\ info'[u] = info[u]
  BY DEF TypeOK
<1> QED
  BY <1>1, <1>2, <1>3

(* A lookup: the caller gets a pointer, the vector and its module a count.  *)
LEMMA LookupExact ==
  ASSUME TypeOK, LoaderInv, RegistryInv, CountInv, MemoryInv, ExactCounts,
         \A m \in Module : mstate[m] # "going",
         NEW t \in Task, va[t] = NULL, NEW i \in Cursor, TakeRef(i),
         info' = info, va' = [va EXCEPT ![t] = AddrAt(i)],
         UNCHANGED <<vec_list, mstate, listVars>>
  PROVE  ExactCounts'
<1>0. RegistryTypeOK
  BY DEF TypeOK
<1>1. \A a \in Addr : Users(a)' = Users(a) + (IF a = AddrAt(i) THEN 1 ELSE 0)
  BY OneMoreUser
<1>2. CASE i = 0
  <2>1. UNCHANGED <<node, mref>> /\ AddrAt(i) = NULL
    BY <1>2 DEF TakeRef, AddrAt
  <2>2. \A a \in Addr : Users(a)' = Users(a)
    BY <1>1, <2>1, NULLAssumption, HeldMeansUsers
  <2> QED
    BY <2>1, <2>2, SameCounts
<1>3. ASSUME NEW n \in Listed, i # 0, n = vec_list[i]
      PROVE  ExactCounts'
  <2> DEFINE o == node[n].module
  <2>1. n \in Backed /\ n \in Node
    BY ListedBacked
  <2>2. PICK c \in Int : c = node[n].refcount + 1
    BY <1>0, <2>1 DEF RegistryTypeOK, Vector
  <2>3. /\ Counted(n, c) /\ AddrAt(i) = node[n].addr
        /\ node[n].refcount < MaxRef
        /\ mref' = IF mstate[o] = "live" THEN [mref EXCEPT ![o] = @ + 1] ELSE mref
    BY <1>3, <2>2 DEF TakeRef, Counted, try_module_get, At, AddrAt
  <2>4. o \in VectorModule /\ mstate[o] = "live"
    <3>1. mstate[o] # "absent" /\ o \in VectorModule /\ o \in Module
      BY <2>1, BackedModule
    <3> QED
      BY <3>1 DEF TypeOK, RegistryTypeOK
  <2>5. node[n].refcount \in 0 .. MaxRef /\ c <= MaxRef
    BY <2>1, <2>2, <2>3, MaxRefAssumption DEF CountInv, RefcountInRange
  <2>6. RefcountExact'
    <3>1. PICK d \in {-1, 1} : d = 1
      OBVIOUS
    <3>2. c = node[n].refcount + d
      BY <2>2, <3>1
    <3>3. \A a \in Addr : Users(a)' = Users(a) + (IF a = node[n].addr THEN d ELSE 0)
      BY <1>1, <2>3, <3>1
    <3> QED
      BY <2>3, <3>2, <3>3, RefcountFollows
  <2>7. NoStrayPins'
    <3> SUFFICES ASSUME NEW m \in VectorModule
                 PROVE  mref'[m] <= Cardinality(VectorPins(m)')
      BY DEF NoStrayPins
    <3>1. /\ mref[m] \in Int /\ mref[m] <= Cardinality(VectorPins(m))
          /\ IsFiniteSet(VectorPins(m))
      BY <1>0, VectorPinsFinite DEF RegistryTypeOK, ExactCounts, NoStrayPins
    <3>2. IsFiniteSet(VectorPins(m)')
      BY VectorPinsFinite
    <3>3. mref'[m] = IF m = o THEN mref[m] + 1 ELSE mref[m]
      BY <1>0, <2>3, <2>4 DEF RegistryTypeOK
    <3>4. /\ VectorPins(m) \subseteq VectorPins(m)'
          /\ <<n, c>> \notin VectorPins(m)
          /\ m = o => <<n, c>> \in VectorPins(m)'
      BY <1>0, <2>1, <2>2, <2>3, <2>5, VectorPinsFollow
    <3>5. CASE m = o
      <4>1. VectorPins(m) \cup {<<n, c>>} \subseteq VectorPins(m)' /\ mref'[m] = mref[m] + 1
        BY <3>3, <3>4, <3>5
      <4> QED
        BY <3>1, <3>2, <3>4, <4>1, StillCovered
    <3>6. CASE m # o
      BY <3>1, <3>2, <3>3, <3>4, <3>6, StillCovered
    <3> QED
      BY <3>5, <3>6
  <2> QED
    BY <2>6, <2>7 DEF ExactCounts
<1>4. i # 0 => vec_list[i] \in Listed
  BY <1>0, CursorType, LenProperties DEF Listed, RegistryTypeOK
<1> QED
  BY <1>2, <1>3, <1>4

(* A task gives its vector up. *)
LEMMA DropExact ==
  ASSUME TypeOK, LoaderInv, RegistryInv, CountInv, MemoryInv, ExactCounts,
         NEW t \in Task, info[t] # NULL, info' = [info EXCEPT ![t] = NULL], va' = va,
         NEW i \in Cursor, i # 0, AddrAt(i) = info[t], DropRef(i),
         UNCHANGED <<vec_list, mstate, listVars>>
  PROVE  ExactCounts'
<1>0. RegistryTypeOK
  BY DEF TypeOK
<1>1. PICK n \in Backed : n = vec_list[i]
  BY OwnNode
<1> DEFINE o == node[n].module
<1>2. /\ o \in VectorModule /\ mstate[o] # "absent"
      /\ node[n].refcount \in 1 .. MaxRef /\ node[n].addr = info[t]
      /\ n \in Node /\ n \in Listed
  BY <1>0, <1>1, OwnNode, ListedNodes DEF At, AddrAt, Backed
<1>3. PICK c \in Int : c = node[n].refcount - 1
  BY <1>2, MaxRefAssumption
<1>4. Counted(n, c) /\ mref' = [mref EXCEPT ![o] = @ - 1]
  <2>1. node' = [node EXCEPT ![n].refcount = node[n].refcount - 1]
    BY <1>1 DEF DropRef
  <2>2. mref' = [mref EXCEPT ![o] = @ - 1]
    BY <1>1, <1>2 DEF DropRef, module_put, At
  <2> QED
    BY <1>3, <2>1, <2>2 DEF Counted
<1>5. RefcountExact'
  <2>1. PICK d \in {-1, 1} : d = -1
    OBVIOUS
  <2>2. c = node[n].refcount + d
    BY <1>2, <1>3, <2>1, MaxRefAssumption
  <2>3. ASSUME NEW a \in Addr
        PROVE  Users(a)' = Users(a) + (IF a = node[n].addr THEN d ELSE 0)
    <3>1. /\ Users(a)' = Users(a) - (IF a = info[t] THEN 1 ELSE 0)
          /\ Users(a) \in Nat
      BY HandedBack, HeldMeansUsers
    <3> QED
      BY <1>2, <2>1, <3>1
  <2> QED
    BY <1>2, <1>4, <2>2, <2>3, RefcountFollows
<1>6. NoStrayPins'
  <2> SUFFICES ASSUME NEW m \in VectorModule
               PROVE  mref'[m] <= Cardinality(VectorPins(m)')
    BY DEF NoStrayPins
  <2> DEFINE x == <<n, node[n].refcount>>
  <2>1. /\ mref[m] \in Int /\ mref[m] <= Cardinality(VectorPins(m))
        /\ IsFiniteSet(VectorPins(m)) /\ IsFiniteSet(VectorPins(m)')
    BY <1>0, VectorPinsFinite DEF RegistryTypeOK, ExactCounts, NoStrayPins
  <2>2. mref'[m] = IF m = o THEN mref[m] - 1 ELSE mref[m]
    BY <1>0, <1>2, <1>4 DEF RegistryTypeOK
  <2>3. node[n].refcount \in 0 .. MaxRef
    BY <1>2, MaxRefAssumption
  <2>4. /\ VectorPins(m) \ {x} \subseteq VectorPins(m)'
        /\ m # o => VectorPins(m) \subseteq VectorPins(m)'
    BY <1>0, <1>3, <1>4, <2>3, VectorPinsFollow
  <2>5. CASE m = o
    <3>1. x \in VectorPins(m)
      BY <1>2, <2>5, MaxRefAssumption DEF VectorPins
    <3>2. mref'[m] = mref[m] - 1 /\ mref[m] - 1 \in Int
      BY <2>1, <2>2, <2>5
    <3> QED
      BY <2>1, <2>4, <3>1, <3>2, StillCovered
  <2>6. CASE m # o
    BY <2>1, <2>2, <2>4, <2>6, StillCovered
  <2> QED
    BY <2>5, <2>6
<1> QED
  BY <1>5, <1>6 DEF ExactCounts

(* A vector is registered, counted once for each user its list gets.        *)
LEMMA RegisteredExact ==
  ASSUME TypeOK, RegistryInv, CountInv, MemoryInv, ExactCounts,
         NEW m \in VectorModule, NEW n, NEW b, NEW a \in FreeAddr, NEW c \in {0, 1},
         AddVector(n, b, a, m, c),
         \A k \in VectorModule : mref'[k] = IF k = m THEN mref[k] + c ELSE mref[k],
         \A x \in Addr : Users(x)' = Users(x) + (IF x = a THEN c ELSE 0)
  PROVE  ExactCounts'
<1>0. RegistryTypeOK /\ a # NULL /\ a \in Addr /\ Listed \subseteq Node
  BY NULLAssumption, ListedNodes DEF TypeOK, FreeAddr
<1>1. /\ node'[n].addr = a /\ node'[n].module = m /\ node'[n].refcount = c
      /\ \A k \in Node \ {n} : node'[k] = node[k]
      /\ n \in Node \ Listed
      /\ Listed' = Listed \cup {n} /\ Backed' = Backed \cup {n}
  BY <1>0, AddedNode
<1>2. ASSUME NEW k \in Listed, NEW x \in Addr, node[k].addr = x
      PROVE  node[k].refcount = Users(x)'
  <2>1. x # a
    BY <1>2, FreshUnheld, ListedBacked
  <2> QED
    BY <1>2, <2>1, HeldMeansUsers DEF ExactCounts, RefcountExact
<1>3. ASSUME NEW k \in Listed', NEW x, node'[k].addr = x
      PROVE  node'[k].refcount = Users(x)'
  <2>1. CASE k = n
    <3>1. Users(a) = 0
      BY FreshUnheld
    <3> QED
      BY <1>0, <1>1, <1>3, <2>1, <3>1
  <2>2. CASE k # n
    <3>1. k \in Listed /\ node'[k] = node[k]
      BY <1>0, <1>1, <2>2
    <3> QED
      BY <1>2, <1>3, <3>1, ListedBacked
  <2> QED
    BY <2>1, <2>2
<1>4. NoStrayPins'
  <2> SUFFICES ASSUME NEW k \in VectorModule
               PROVE  mref'[k] <= Cardinality(VectorPins(k)')
    BY DEF NoStrayPins
  <2>1. /\ mref[k] \in Int /\ mref[k] <= Cardinality(VectorPins(k))
        /\ IsFiniteSet(VectorPins(k)) /\ IsFiniteSet(VectorPins(k)')
    BY <1>0, VectorPinsFinite DEF RegistryTypeOK, ExactCounts, NoStrayPins
  <2>2. n \notin Backed /\ Backed \subseteq Node
    BY <1>0, <1>1 DEF Backed
  <2>3. ASSUME NEW p \in VectorPins(k)
        PROVE  p \in VectorPins(k)' /\ p[1] # n
    BY <1>1, <2>2 DEF VectorPins
  <2>4. CASE k = m /\ c = 1
    <3>1. <<n, 1>> \in VectorPins(k)'
      BY <1>1, <2>4, MaxRefAssumption DEF VectorPins
    <3>2. <<n, 1>> \notin VectorPins(k)
      BY <2>3
    <3>3. VectorPins(k) \cup {<<n, 1>>} \subseteq VectorPins(k)'
      BY <2>3, <3>1
    <3>4. mref'[k] = mref[k] + 1
      BY <2>4
    <3> QED
      BY <2>1, <3>2, <3>3, <3>4, StillCovered
  <2>5. CASE ~ (k = m /\ c = 1)
    <3>1. mref'[k] = mref[k]
      BY <2>1, <2>5
    <3>2. VectorPins(k) \subseteq VectorPins(k)'
      BY <2>3
    <3> QED
      BY <2>1, <3>1, <3>2, StillCovered
  <2> QED
    BY <2>4, <2>5
<1> QED
  BY <1>3, <1>4 DEF ExactCounts, RefcountExact

(* cleanup_override: what it unregisters is not counted any more. *)
LEMMA CleanupExact ==
  ASSUME TypeOK, RegistryInv, CountInv, MemoryInv, ExactCounts,
         NEW m \in Module, CleanupHead(m)
  PROVE  ExactCounts'
<1> DEFINE h == Head(heads[m])
<1>0. RegistryTypeOK /\ Listed \subseteq Node
  BY ListedNodes DEF TypeOK
<1>1. /\ unregister_syscall(h) /\ mref' = mref
      /\ \A a : Users(a)' = Users(a)
  <2>1. unregister_syscall(h) /\ mref' = mref /\ UNCHANGED <<info, va>>
    BY DEF CleanupHead, taskVars
  <2> QED
    BY <2>1, SameTasks
<1>2. CASE UNCHANGED <<vec_list, node>>
  BY <1>1, <1>2, SameCounts
<1>3. ASSUME NEW n \in Listed, ~ node[n].refcount > 0, Listed' = Listed \ {n},
             \A k \in Node \ {n} : node'[k] = node[k]
      PROVE  ExactCounts'
  <2>1. Backed' = Backed \ {n}
    BY <1>0, <1>3 DEF Backed
  <2>2. n \in Backed /\ node[n].refcount = 0
    <3>1. n \in Backed
      BY ListedBacked
    <3>2. node[n].refcount \in 0 .. MaxRef
      BY <3>1 DEF CountInv, RefcountInRange
    <3> QED
      BY <1>3, <3>1, <3>2, MaxRefAssumption
  <2>3. ASSUME NEW k, NEW p \in VectorPins(k)
        PROVE  p \in VectorPins(k)'
    <3>1. /\ p \in Node \X (1 .. MaxRef) /\ p[1] \in Backed /\ p[2] \in 1 .. MaxRef
          /\ node[p[1]].module = k /\ p[2] <= node[p[1]].refcount
      BY DEF VectorPins
    <3>2. p[1] # n
      BY <2>2, <3>1, MaxRefAssumption
    <3>3. node'[p[1]] = node[p[1]] /\ p[1] \in Backed'
      BY <1>3, <2>1, <3>1, <3>2
    <3> QED
      BY <3>1, <3>3 DEF VectorPins
  <2>4. NoStrayPins'
    <3> SUFFICES ASSUME NEW k \in VectorModule
                 PROVE  mref'[k] <= Cardinality(VectorPins(k)')
      BY DEF NoStrayPins
    <3>1. /\ mref[k] \in Int /\ mref[k] <= Cardinality(VectorPins(k))
          /\ IsFiniteSet(VectorPins(k)) /\ IsFiniteSet(VectorPins(k)')
      BY <1>0, VectorPinsFinite DEF RegistryTypeOK, ExactCounts, NoStrayPins
    <3>2. VectorPins(k) \subseteq VectorPins(k)' /\ mref'[k] = mref[k]
      BY <1>1, <2>3
    <3> QED
      BY <3>1, <3>2, StillCovered
  <2>5. ASSUME NEW k \in Listed', NEW x, node'[k].addr = x
        PROVE  node'[k].refcount = Users(x)'
    <3>1. k \in Listed /\ node'[k] = node[k]
      BY <1>0, <1>3
    <3> QED
      BY <1>1, <2>5, <3>1 DEF ExactCounts, RefcountExact
  <2> QED
    BY <2>4, <2>5 DEF ExactCounts, RefcountExact
<1> QED
  BY <1>0, <1>1, <1>2, <1>3, Unregisters DEF RegistryInv, VectorsInv

(* The address assigned to a task leads to a node, so exit finds it.        *)
LEMMA ExitFinds ==
  ASSUME TypeOK, CountInv, MemoryInv, NEW t \in Task, info[t] # NULL,
         NEW i \in Cursor, StopsAt(i, ByAddr(info[t]))
  PROVE  i # 0 /\ AddrAt(i) = info[t]
<1>0. RegistryTypeOK /\ info[t] \in Addr /\ Listed \subseteq Node
  BY ListedNodes DEF TypeOK, Pointer
<1>1. Held(info[t])
  BY DEF Held, Assigned
<1>2. PICK m \in VectorModule : info[t] \in ListsOf(m)
  BY <1>0, <1>1 DEF CountInv, HeldModulesLoaded
<1>3. PICK n \in Backed : node[n].addr = info[t]
  BY <1>2 DEF MemoryInv, NothingLeaks
<1>4. PICK j \in DOMAIN vec_list : vec_list[j] = n
  BY DEF Backed, Listed
<1>5. n \in ByAddr(info[t])
  BY <1>0, <1>3 DEF ByAddr, Backed
<1>6. i # 0
  BY <1>4, <1>5 DEF StopsAt
<1> QED
  BY <1>6 DEF StopsAt, ByAddr, AddrAt, At

LEMMA EndExact ==
  ASSUME LifetimeInv, MemoryInv, ExactCounts, NEW t \in Task, NEW end, EndsTask(t, end)
  PROVE  ExactCounts'
<1>0. TypeOK /\ LoaderInv /\ RegistryInv /\ CountInv
  BY DEF LifetimeInv
<1>1. /\ info' = [info EXCEPT ![t] = NULL] /\ va' = va
      /\ UNCHANGED <<vec_list, mstate, listVars>>
  BY DEF EndsTask
<1>2. ASSUME info[t] # NULL
      PROVE  ExactCounts'
  <2>1. PICK i \in Cursor : StopsAt(i, ByAddr(info[t])) /\ DropRef(i)
    BY <1>2 DEF EndsTask, reduce_ref_count_from_address
  <2>2. i # 0 /\ AddrAt(i) = info[t]
    BY <1>0, <1>2, <2>1, ExitFinds
  <2> QED
    BY <1>0, <1>1, <1>2, <2>1, <2>2, DropExact
<1>3. ASSUME info[t] = NULL
      PROVE  ExactCounts'
  <2>1. UNCHANGED <<node, mref>>
    BY <1>3 DEF EndsTask
  <2>2. info' = info
    BY <1>0, <1>1, <1>3 DEF TypeOK
  <2>3. \A a \in Addr : Users(a)' = Users(a)
    BY <1>1, <2>2 DEF Users, Assigned, Carried
  <2> QED
    BY <1>0, <1>1, <2>1, <2>3, SameCounts
<1> QED
  BY <1>2, <1>3

LEMMA RequestExact ==
  ASSUME LifetimeInv, RequestsInv, MemoryInv, ExactCounts, Undisturbed,
         NEW t \in Task, Request(t)
  PROVE  ExactCounts'
<1>0. /\ TypeOK /\ LoaderInv /\ RegistryInv /\ CountInv /\ RegistryTypeOK
      /\ Careful /\ ~ OutOfMemory /\ "QuietRmmod" \in Env
  BY UndisturbedMeans DEF LifetimeInv, TypeOK
<1>1. ASSUME pc[t] = "user", MayLookUp, NEW i \in Cursor, TakeRef(i), info' = info,
             va' = [va EXCEPT ![t] = AddrAt(i)], UNCHANGED <<vec_list, mstate, listVars>>
      PROVE  ExactCounts'
  <2>1. va[t] = NULL
    BY <1>1 DEF RequestsInv, OneAddressEach
  <2>2. \A m \in Module : mstate[m] # "going"
    BY <1>0, <1>1 DEF MayLookUp, Assuming
  <2> QED
    BY <1>0, <1>1, <2>1, <2>2, LookupExact
<1>2. ASSUME NEW b \in Bitmaps, SetLookup(t, b)
      PROVE  ExactCounts'
  <2>1. PICK i \in Cursor :
          /\ TakeRef(i)
          /\ IF AddrAt(i) = NULL THEN UNCHANGED taskVars
             ELSE Enter(t, "set", AddrAt(i)) /\ UNCHANGED info
    BY <1>2 DEF SetLookup, get_vector_address
  <2>2. /\ pc[t] = "user" /\ MayLookUp /\ UNCHANGED <<vec_list, mstate, listVars>>
    BY <1>2 DEF SetLookup, IoctlReady
  <2>3. info' = info
    BY <2>1 DEF taskVars
  <2>4. va' = [va EXCEPT ![t] = AddrAt(i)]
    <3>1. CASE AddrAt(i) = NULL
      <4>1. va' = va /\ va[t] = NULL
        BY <2>1, <2>2, <3>1 DEF taskVars, RequestsInv, OneAddressEach
      <4> QED
        BY <1>0, <3>1, <4>1 DEF TypeOK
    <3>2. CASE AddrAt(i) # NULL
      BY <2>1, <3>2 DEF Enter
    <3> QED
      BY <3>1, <3>2
  <2> QED
    BY <1>1, <2>1, <2>2, <2>3, <2>4
<1>3. ASSUME NEW b \in Bitmaps, CreateLookup(t, b)
      PROVE  ExactCounts'
  <2>1. PICK i \in Cursor : TakeRef(i) /\ Enter(t, "create", AddrAt(i))
    BY <1>3 DEF CreateLookup, check_any_current_vector
  <2>2. /\ pc[t] = "user" /\ MayLookUp /\ UNCHANGED <<vec_list, mstate, listVars>>
        /\ info' = info
    BY <1>3 DEF CreateLookup, IoctlReady
  <2> QED
    BY <1>1, <2>1, <2>2 DEF Enter
<1>4. ASSUME NEW b \in Bitmaps, RemoveVector(t, b)
      PROVE  ExactCounts'
  <2>1. /\ info[t] # NULL /\ info' = [info EXCEPT ![t] = NULL] /\ va' = va
        /\ UNCHANGED <<vec_list, mstate, listVars>>
        /\ \E i \in Cursor : i # 0 /\ AddrAt(i) = info[t] /\ DropRef(i)
    BY <1>0, <1>4, RemoveDropsOwn
  <2> QED
    BY <1>0, <2>1, DropExact
<1>5. CASE SetAssign(t) \/ CreateExisting(t)
  <2>1. /\ UNCHANGED <<vec_list, node, mref>>
        /\ info' = [info EXCEPT ![t] = va[t]] /\ va' = [va EXCEPT ![t] = NULL]
        /\ pc[t] \in {"set", "create"}
    BY <1>5, NothingReduced DEF SetAssign, CreateExisting, Return, Enter, registryVars
  <2>2. info[t] = NULL
    BY <2>1 DEF RequestsInv, OneAddressEach
  <2>3. \A a \in Addr : Users(a)' = Users(a)
    BY <1>0, <2>1, <2>2, SameUsers
  <2> QED
    BY <1>0, <2>1, <2>3, SameCounts
<1>6. ~ CreateNoMemory(t)
  BY <1>0 DEF CreateNoMemory
<1>7. CASE CreateBuild(t)
  <2> DEFINE dyn == "dynamic_vector"
  <2>1. PICK a \in FreeAddr, n \in Node :
          /\ AddVector(n, arg[t], a, dyn, 1)
          /\ info' = [info EXCEPT ![t] = a]
          /\ va' = [va EXCEPT ![t] = NULL]
    BY <1>0, <1>7, CreateSucceeds
  <2>2. \A k \in VectorModule : mref'[k] = IF k = dyn THEN mref[k] + 1 ELSE mref[k]
    BY <1>0, <1>7, CreateBuilds
  <2>3. va[t] = NULL /\ info[t] = NULL /\ dyn \in VectorModule
    BY <1>7 DEF CreateBuild, RequestsInv, OneAddressEach, VectorModule
  <2>4. va' = va
    BY <1>0, <2>1, <2>3 DEF TypeOK
  <2>5. \A x \in Addr : Users(x)' = Users(x) + (IF x = a THEN 1 ELSE 0)
    BY <1>0, <2>1, <2>3, <2>4, OneMoreUser
  <2> HIDE DEF dyn
  <2>6. PICK c \in {0, 1} : c = 1
    OBVIOUS
  <2> QED
    BY <1>0, <2>1, <2>2, <2>3, <2>5, <2>6, RegisteredExact
<1>8. CASE NameCrashes(t) \/ FaultCrashes(t)
  BY <1>8, EndIsEndsTask, EndExact
<1> QED
  BY <1>2, <1>3, <1>4, <1>5, <1>6, <1>7, <1>8 DEF Request

LEMMA ProcessExact ==
  ASSUME LifetimeInv, RequestsInv, MemoryInv, ExactCounts, Undisturbed,
         NEW t \in Task, Process(t)
  PROVE  ExactCounts'
<1>0. /\ TypeOK /\ LoaderInv /\ RegistryInv /\ CountInv /\ RegistryTypeOK
      /\ Careful /\ "ForksSucceed" \in Env /\ "QuietRmmod" \in Env
      /\ "OneReference" \in Env
  BY UndisturbedMeans DEF LifetimeInv, TypeOK
<1>1. ASSUME NEW i \in Cursor, TakeRef(i), NEW where, Enter(t, where, AddrAt(i)),
             pc[t] = "user", MayLookUp, info' = info,
             UNCHANGED <<vec_list, mstate, listVars>>
      PROVE  ExactCounts'
  <2>1. va[t] = NULL /\ va' = [va EXCEPT ![t] = AddrAt(i)]
    BY <1>1 DEF Enter, RequestsInv, OneAddressEach
  <2>2. \A m \in Module : mstate[m] # "going"
    BY <1>0, <1>1 DEF MayLookUp, Assuming
  <2> QED
    BY <1>0, <1>1, <2>1, <2>2, LookupExact
<1>2. CASE CloneInherit(t)
  <2>1. PICK i \in Cursor \ {0} : StopsAt(i, ByAddr(info[t])) /\ TakeRef(i)
    BY <1>2 DEF CloneInherit, increment_ref_count_from_address
  <2>2. AddrAt(i) = info[t]
    BY <2>1 DEF StopsAt, ByAddr, AddrAt, At
  <2>3. /\ pc[t] = "user" /\ MayLookUp /\ Enter(t, "inherit", info[t])
        /\ info' = info /\ UNCHANGED <<vec_list, mstate, listVars>>
    BY <1>2 DEF CloneInherit
  <2> QED
    BY <1>1, <2>1, <2>2, <2>3
<1>3. CASE ForkInherit(t)
  <2>1. PICK i \in Cursor : increment_ref_count_from_address(i, info[t])
    BY <1>3 DEF ForkInherit
  <2>2. AddrAt(i) = info[t]
    <3>1. CASE info[t] = NULL
      BY <2>1, <3>1, FoundAddress DEF AddrAt
    <3>2. CASE info[t] # NULL
      BY <1>0, <2>1, <3>2, ExitFinds DEF increment_ref_count_from_address
    <3> QED
      BY <3>1, <3>2
  <2>3. /\ pc[t] = "user" /\ MayLookUp /\ Enter(t, "clone", info[t])
        /\ info' = info /\ UNCHANGED <<vec_list, mstate, listVars>>
    BY <1>3 DEF ForkInherit
  <2> QED
    BY <1>1, <2>1, <2>2, <2>3, FoundAddress
<1>4. ~ KernelCounts(t)
  BY <1>0 DEF KernelCounts
<1>5. CASE \E b \in Bitmaps : CloneById(t, b)
  BY <1>1, <1>5 DEF CloneById, get_vector_address_from_id
<1>6. ASSUME NEW child \in Task, CloneForks(t, child)
      PROVE  ExactCounts'
  <2>1. /\ UNCHANGED <<vec_list, node, mref>> /\ pc[child] = "dead"
        /\ info' = [info EXCEPT ![child] = va[t]] /\ va' = [va EXCEPT ![t] = NULL]
    BY <1>6 DEF CloneForks, registryVars
  <2>2. info[child] = NULL
    BY <2>1 DEF RequestsInv, OneAddressEach, Ended
  <2>3. \A a \in Addr : Users(a)' = Users(a)
    BY <1>0, <2>1, <2>2, SameUsers
  <2> QED
    BY <1>0, <2>1, <2>3, SameCounts
<1>7. ASSUME NEW child \in Task, Fork(t, child)
      PROVE  ExactCounts'
  <2>1. UNCHANGED <<vec_list, node, mref, info, va>>
    BY <1>7 DEF Fork, registryVars
  <2>2. \A a \in Addr : Users(a)' = Users(a)
    BY <2>1 DEF Users, Assigned, Carried
  <2> QED
    BY <1>0, <2>1, <2>2, SameCounts
<1>8. ~ CloneFails(t)
  BY <1>0 DEF CloneFails
<1>9. CASE Exit(t)
  BY <1>9, EndIsEndsTask, EndExact
<1> QED
  BY <1>2, <1>3, <1>4, <1>5, <1>6, <1>7, <1>8, <1>9 DEF Process

LEMMA LoaderExact ==
  ASSUME LifetimeInv, MemoryInv, ExactCounts, Undisturbed, Loader
  PROVE  ExactCounts'
<1>0. TypeOK /\ LoaderInv /\ RegistryInv /\ CountInv /\ RegistryTypeOK
  BY DEF LifetimeInv, TypeOK
<1>1. ASSUME UNCHANGED <<info, va>>
      PROVE  \A a \in Addr : Users(a)' = Users(a) /\ Users(a) \in Nat
  BY <1>1, SameTasks, HeldMeansUsers
<1>2. ASSUME NEW m \in StaticModule, InsmodStatic(m)
      PROVE  ExactCounts'
  <2>1. PICK a \in FreeAddr, n \in Node : AddVector(n, StaticBitmap(m), a, m, 0)
    BY <1>0, <1>2, InsmodSucceeds
  <2>2. m \in VectorModule /\ mref' = mref /\ UNCHANGED <<info, va>>
    BY <1>0, <1>2, InsmodSucceeds DEF InsmodStatic, taskVars
  <2>3. PICK c \in {0, 1} : c = 0
    OBVIOUS
  <2>4. \A k \in VectorModule : mref'[k] = IF k = m THEN mref[k] + c ELSE mref[k]
    BY <1>0, <2>2, <2>3 DEF RegistryTypeOK
  <2>5. \A x \in Addr : Users(x)' = Users(x) + (IF x = a THEN c ELSE 0)
    BY <1>1, <2>2, <2>3
  <2> QED
    BY <1>0, <2>1, <2>2, <2>3, <2>4, <2>5, RegisteredExact
<1>3. ASSUME NEW m \in Module, Insmod(m) \/ RmmodBegin(m) \/ RmmodEnd(m)
      PROVE  ExactCounts'
  <2>1. /\ UNCHANGED <<vec_list, node, info, va>>
        /\ \A k \in VectorModule : mref'[k] = mref[k] \/ mref'[k] = 0
    BY <1>3 DEF Insmod, RmmodBegin, RmmodEnd, taskVars
  <2>2. \A a \in Addr : Users(a)' = Users(a)
    BY <1>1, <2>1
  <2> QED
    BY <1>0, <2>1, <2>2, SameCounts
<1>4. ASSUME NEW m \in Module, CleanupHead(m)
      PROVE  ExactCounts'
  BY <1>0, <1>4, CleanupExact
<1> QED
  BY <1>2, <1>3, <1>4 DEF Loader

LEMMA StepKeepsExact ==
  ASSUME LifetimeInv, ExactInv, Undisturbed, [Next]_vars
  PROVE  ExactInv'
<1>1. RequestsInv /\ MemoryInv /\ ExactCounts
  BY DEF ExactInv, ExactCounts
<1>2. RequestsInv' /\ MemoryInv'
  BY <1>1, StepKeepsRequests, StepKeepsMemory
<1>3. ExactCounts'
  <2>1. CASE \E t \in Task : Request(t) \/ Process(t)
    BY <1>1, <2>1, RequestExact, ProcessExact
  <2>2. CASE Loader
    BY <1>1, <2>2, LoaderExact
  <2>3. CASE UNCHANGED vars
    <3>1. UNCHANGED <<vec_list, node, mref, info, va>>
      BY <2>3 DEF vars, registryVars, taskVars
    <3>2. \A a \in Addr : Users(a)' = Users(a)
      BY <3>1, SameTasks
    <3> QED
      BY <1>1, <3>1, <3>2, SameCounts DEF LifetimeInv
  <2> QED
    BY <2>1, <2>2, <2>3 DEF Next
<1> QED
  BY <1>2, <1>3 DEF ExactInv, ExactCounts

LEMMA InitExact ==
  ASSUME Init
  PROVE  ExactInv
<1>1. /\ Listed = {} /\ Backed = {}
      /\ \A m \in VectorModule : heads[m] = <<>> /\ ListsOf(m) = {} /\ mref[m] = 0
      /\ \A t \in Task : info[t] = NULL /\ va[t] = NULL /\ pc[t] \in {"user", "dead"}
      /\ \A n \in Node : node[n] = NoVector
      /\ \A a \in Addr : heap[a] = {}
  BY DEF Init, RegistryInit, Listed, Backed, ListsOf
<1>2. RequestsInv
  BY <1>1 DEF RequestsInv, OneAddressEach, CreateHasRoom
<1>3. MemoryInv
  <2>1. HeadsBounded
    <3>1. Len(<<>>) = 0
      BY EmptySeq
    <3>2. StaticModule \subseteq VectorModule /\ "dynamic_vector" \in VectorModule
      BY DEF VectorModule
    <3> QED
      BY <1>1, <3>1, <3>2, MaxHeadsAssumption DEF HeadsBounded
  <2>2. NothingLeaks
    BY <1>1 DEF NothingLeaks
  <2> QED
    BY <2>1, <2>2 DEF MemoryInv
<1>4. NoStrayPins
  BY <1>1, VectorPinsFinite DEF NoStrayPins
<1>5. RefcountExact
  BY <1>1 DEF RefcountExact
<1> QED
  BY <1>2, <1>3, <1>4, <1>5 DEF ExactInv

LEMMA ExactInvariant ==
  ASSUME Undisturbed
  PROVE  Spec => []ExactInv
<1>1. Init => ExactInv
  BY InitExact
<1>2. LifetimeInv /\ ExactInv /\ [Next]_vars => ExactInv'
  BY StepKeepsExact
<1>3. Spec => []LifetimeInv
  BY UndisturbedMeans, LifetimeInvariant
<1> QED
  BY <1>1, <1>2, <1>3, PTL DEF Spec

-------------------------------------------------------------------------------
(* The reference counts of vec_load_unload.c leak nothing and are dropped   *)
(* once: SET, REMOVE, CREATE, clone2 and exit keep each refcount equal to   *)
(* the number of tasks and requests that use the vector.                    *)
THEOREM CountsAreExact ==
  ASSUME Undisturbed
  PROVE  Spec => []RefcountExact
<1>1. ExactInv => RefcountExact
  BY DEF ExactInv
<1> QED
  BY <1>1, ExactInvariant, PTL

(* When no task uses a vector and no request carries one, module_put has    *)
(* answered every try_module_get: each vector module can be removed again.  *)
THEOREM UnusedIsUnpinned ==
  ASSUME Undisturbed
  PROVE  Spec => []UnpinnedWhenUnused
<1>1. ASSUME LifetimeInv, ExactInv, \A t \in Task : info[t] = NULL /\ va[t] = NULL,
             NEW m \in VectorModule
      PROVE  mref[m] = 0
  <2>0. /\ TypeOK /\ RegistryInv /\ CountInv /\ RegistryTypeOK /\ MemoryInv
    BY <1>1 DEF LifetimeInv, TypeOK, ExactInv
  <2>1. \A n \in Backed : node[n].refcount = 0
    <3> SUFFICES ASSUME NEW n \in Backed
                 PROVE  node[n].refcount = 0
      OBVIOUS
    <3>1. n \in Listed /\ node[n].addr \in Addr
      BY <2>0, ListedBacked DEF Backed
    <3>2. ~ Held(node[n].addr)
      BY <1>1, <3>1, NULLAssumption DEF Held, Assigned, Carried
    <3>3. Users(node[n].addr) = 0
      BY <3>2, HeldMeansUsers
    <3> QED
      BY <1>1, <3>1, <3>3 DEF ExactInv, RefcountExact
  <2>2. VectorPins(m) = {}
    BY <2>1, MaxRefAssumption DEF VectorPins
  <2>3. mref[m] <= 0
    BY <1>1, <2>2, FS_EmptySet DEF ExactInv, NoStrayPins
  <2>4. mref[m] >= 0
    <3>1. mref[m] >= Cardinality(Pins(m)) /\ Cardinality(Pins(m)) \in Nat
      BY <2>0, PinsFinite DEF CountInv, PinsCounted
    <3> QED
      BY <2>0, <3>1 DEF RegistryTypeOK
  <2> QED
    BY <2>0, <2>3, <2>4 DEF RegistryTypeOK
<1>2. LifetimeInv /\ ExactInv => UnpinnedWhenUnused
  BY <1>1 DEF UnpinnedWhenUnused
<1>3. Spec => []LifetimeInv
  BY UndisturbedMeans, LifetimeInvariant
<1> QED
  BY <1>2, <1>3, ExactInvariant, PTL

(* What check_any_current_vector answers still holds when register is       *)
(* called: mutexlock lets no second CREATE in between, so no bitmap is      *)
(* registered twice.                                                        *)
THEOREM NoTwins ==
  ASSUME Undisturbed
  PROVE  Spec => []OneVectorPerBitmap
<1>1. ASSUME LifetimeInv, ExactInv, NEW i \in DOMAIN vec_list, NEW j \in DOMAIN vec_list,
             At(i).bitmap = At(j).bitmap
      PROVE  i = j
  <2>0. TypeOK /\ RegistryTypeOK /\ RegistryInv /\ MemoryInv
    BY <1>1 DEF LifetimeInv, TypeOK, ExactInv
  <2>1. i \in 1 .. Len(vec_list) /\ j \in 1 .. Len(vec_list) /\ Len(vec_list) \in Nat
    BY <2>0, ListedNodes, LenProperties DEF RegistryTypeOK
  <2>2. At(i).addr # NULL /\ At(j).addr # NULL
    BY <2>0 DEF MemoryInv, NothingLeaks, Listed, Backed, At
  <2>3. ~ i < j /\ ~ j < i
    BY <1>1, <2>0, <2>2 DEF RegistryInv, VectorsInv, HidesOnlyEmpty
  <2> QED
    BY <2>1, <2>3
<1>2. LifetimeInv /\ ExactInv => OneVectorPerBitmap
  BY <1>1 DEF OneVectorPerBitmap
<1>3. Spec => []LifetimeInv
  BY UndisturbedMeans, LifetimeInvariant
<1> QED
  BY <1>2, <1>3, ExactInvariant, PTL

-------------------------------------------------------------------------------
(* What a vector overrides. *)

BuiltAsNamed == \A n \in Backed : node[n].bitmap = heap[node[n].addr]

LEMMA SameVectorsSameLists ==
  ASSUME TypeOK, BuiltAsNamed, SameVectors
  PROVE  BuiltAsNamed'
<1>1. Listed \subseteq Node /\ Listed' = Listed /\ heap' = heap
  BY ListedNodes DEF TypeOK, SameVectors, Listed, listVars
<1> QED
  BY <1>1 DEF BuiltAsNamed, SameVectors, Backed

LEMMA RegisteredAsBuilt ==
  ASSUME TypeOK, RegistryInv, CountInv, BuiltAsNamed,
         NEW n, NEW b, NEW a \in FreeAddr, NEW m, NEW c, AddVector(n, b, a, m, c),
         heap' = [heap EXCEPT ![a] = b]
  PROVE  BuiltAsNamed'
<1>1. /\ node'[n].bitmap = b /\ node'[n].addr = a
      /\ \A k \in Node \ {n} : node'[k] = node[k]
      /\ Backed' \subseteq Backed \cup {n}
      /\ n \in Node \ Listed
  BY AddedNode DEF TypeOK
<1>2. a \in Addr /\ \A k \in Backed : node[k].addr # a
  BY FreshUnheld
<1>3. heap'[a] = b /\ \A x \in Addr \ {a} : heap'[x] = heap[x]
  BY <1>2 DEF TypeOK
<1> SUFFICES ASSUME NEW k \in Backed'
             PROVE  node'[k].bitmap = heap'[node'[k].addr]
  BY DEF BuiltAsNamed
<1>4. CASE k = n
  BY <1>1, <1>3, <1>4
<1>5. CASE k # n
  <2>1. k \in Backed /\ k \in Node /\ node'[k] = node[k]
    BY <1>1, <1>5, ListedNodes DEF Backed, TypeOK
  <2>2. node[k].addr \in Addr
    BY <2>1 DEF TypeOK, RegistryTypeOK, Vector, Pointer, Backed
  <2> QED
    BY <1>2, <1>3, <2>1, <2>2 DEF BuiltAsNamed
<1> QED
  BY <1>4, <1>5

LEMMA StepKeepsBuilt ==
  ASSUME LifetimeInv, ExactInv, BuiltAsNamed, Undisturbed, BitsHaveBranches, [Next]_vars
  PROVE  BuiltAsNamed'
<1>0. /\ TypeOK /\ LoaderInv /\ RegistryInv /\ CountInv /\ RegistryTypeOK
      /\ RequestsInv /\ MemoryInv
  BY DEF LifetimeInv, TypeOK, ExactInv
<1>1. ASSUME SameVectors
      PROVE  BuiltAsNamed'
  BY <1>0, <1>1, SameVectorsSameLists
<1>2. ASSUME UNCHANGED <<vec_list, node, listVars>>
      PROVE  BuiltAsNamed'
  BY <1>1, <1>2 DEF SameVectors
<1>3. ASSUME NEW i \in Cursor, TakeRef(i) \/ DropRef(i), UNCHANGED <<vec_list, listVars>>
      PROVE  BuiltAsNamed'
  BY <1>0, <1>1, <1>3, TakeRefOnly
<1>4. ASSUME NEW t \in Task, Exit(t) \/ NameCrashes(t) \/ FaultCrashes(t)
      PROVE  BuiltAsNamed'
  <2>1. /\ UNCHANGED <<vec_list, listVars>>
        /\ node' = node \/ \E i \in Cursor : DropRef(i)
    BY <1>4, EndIsEndsTask DEF EndsTask, reduce_ref_count_from_address
  <2> QED
    BY <1>2, <1>3, <2>1
<1>5. ASSUME NEW t \in Task, Request(t)
      PROVE  BuiltAsNamed'
  <2>1. CASE \E b \in Bitmaps : SetLookup(t, b) \/ CreateLookup(t, b)
    BY <1>3, <2>1 DEF SetLookup, CreateLookup, get_vector_address, check_any_current_vector
  <2>2. CASE \E b \in Bitmaps : RemoveVector(t, b)
    BY <1>3, <2>2 DEF RemoveVector, reduce_ref_count
  <2>3. CASE SetAssign(t) \/ CreateExisting(t) \/ CreateNoMemory(t)
    <3>1. UNCHANGED <<vec_list, node, listVars>>
      BY <2>3, NothingReduced DEF SetAssign, CreateExisting, CreateNoMemory, registryVars
    <3> QED
      BY <1>2, <3>1
  <2>4. CASE CreateBuild(t)
    <3>1. PICK a \in FreeAddr, n \in Node :
            /\ heap' = [heap EXCEPT ![a] = VectorFromBitmap(arg[t])]
            /\ AddVector(n, arg[t], a, "dynamic_vector", 1)
      BY <1>0, <2>4, CreateSucceeds
    <3>2. VectorFromBitmap(arg[t]) = arg[t]
      BY <1>0, <2>4 DEF CreateBuild, RequestsInv, CreateHasRoom, BitsHaveBranches
    <3> QED
      BY <1>0, <3>1, <3>2, RegisteredAsBuilt
  <2> QED
    BY <1>4, <1>5, <2>1, <2>2, <2>3, <2>4 DEF Request
<1>6. ASSUME NEW t \in Task, Process(t)
      PROVE  BuiltAsNamed'
  <2>1. CASE \/ CloneInherit(t) \/ KernelCounts(t) \/ ForkInherit(t)
             \/ \E b \in Bitmaps : CloneById(t, b)
    BY <1>3, <2>1
       DEF CloneInherit, KernelCounts, ForkInherit, CloneById,
           increment_ref_count_from_address, get_vector_address_from_id
  <2>2. CASE Exit(t)
    BY <1>4, <2>2
  <2>3. CASE CloneFails(t) \/ \E child \in Task : CloneForks(t, child) \/ Fork(t, child)
    BY <1>2, <2>3 DEF CloneFails, CloneForks, Fork, registryVars
  <2> QED
    BY <1>6, <2>1, <2>2, <2>3 DEF Process
<1>7. CASE Loader
  <2>1. ASSUME NEW m \in StaticModule, InsmodStatic(m)
        PROVE  BuiltAsNamed'
    <3>1. PICK a \in FreeAddr, n \in Node :
            /\ heap' = [heap EXCEPT ![a] = StaticVector(m)]
            /\ AddVector(n, StaticBitmap(m), a, m, 0)
      BY <1>0, <2>1, InsmodSucceeds
    <3> QED
      BY <1>0, <3>1, RegisteredAsBuilt DEF StaticBitmap
  <2>2. ASSUME NEW m \in Module, CleanupHead(m)
        PROVE  BuiltAsNamed'
    <3> DEFINE h == Head(heads[m])
    <3>1. /\ m \in VectorModule
          /\ heap' = IF h = NULL THEN heap ELSE [heap EXCEPT ![h] = {}]
      BY <2>2 DEF CleanupHead
    <3>2. /\ Backed' = {n \in Backed : node[n].addr # h}
          /\ \A n \in Backed' : node'[n] = node[n]
      BY <1>0, <2>2, <3>1, CleanupHeadProperties DEF RegistryInv, CountInv
    <3> HIDE DEF h
    <3>3. ASSUME NEW n \in Backed'
          PROVE  node'[n].bitmap = heap'[node'[n].addr]
      <4>1. n \in Backed /\ node[n].addr # h /\ node'[n] = node[n]
        BY <3>2
      <4>2. node[n].addr \in Addr
        BY <1>0, <4>1, BackedModule
      <4>3. heap'[node[n].addr] = heap[node[n].addr]
        BY <1>0, <3>1, <4>1, <4>2 DEF TypeOK
      <4> QED
        BY <4>1, <4>3 DEF BuiltAsNamed
    <3> QED
      BY <3>3 DEF BuiltAsNamed
  <2>3. CASE \E m \in Module : Insmod(m) \/ RmmodBegin(m) \/ RmmodEnd(m)
    BY <1>2, <2>3 DEF Insmod, RmmodBegin, RmmodEnd
  <2> QED
    BY <1>7, <2>1, <2>2, <2>3 DEF Loader
<1>8. CASE UNCHANGED vars
  BY <1>2, <1>8 DEF vars, registryVars
<1> QED
  BY <1>5, <1>6, <1>7, <1>8 DEF Next

(* The list add_vector_from_bitmap or initVector builds stays what its      *)
(* bitmap says while it is registered.  BitsHaveBranches is needed: there   *)
(* is no branch for mkdir and rmdir (dynamic_vector.c).                     *)
THEOREM VectorsAreAsNamed ==
  ASSUME Undisturbed, BitsHaveBranches
  PROVE  Spec => []VectorHasItsOverrides
<1>1. Init => BuiltAsNamed
  BY DEF Init, RegistryInit, BuiltAsNamed, Backed, Listed
<1>2. LifetimeInv /\ ExactInv /\ BuiltAsNamed /\ [Next]_vars => BuiltAsNamed'
  BY StepKeepsBuilt
<1>3. LifetimeInv /\ ExactInv /\ BuiltAsNamed => VectorHasItsOverrides
  BY DEF VectorHasItsOverrides, BuiltAsNamed, Backed, ExactInv, MemoryInv, NothingLeaks
<1>4. Spec => []LifetimeInv
  BY UndisturbedMeans, LifetimeInvariant
<1> QED
  BY <1>1, <1>2, <1>3, <1>4, ExactInvariant, PTL DEF Spec

===============================================================================
