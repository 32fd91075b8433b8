--------------------------- MODULE VectorCountProofs ---------------------------
(***************************************************************************)
(* The proof that every step keeps CountInv, the last part of LifetimeInv; *)
(* then the theorems: LifetimeInv is an invariant, with it hold the        *)
(* properties the users of a vector rely on, and VectorSystem implements   *)
(* VectorLease.                                                            *)
(***************************************************************************)
EXTENDS VectorLifetimeProofs

-------------------------------------------------------------------------------
(* Counting the users of a list.  f is info or va. *)
PointsTo(f, a) == {t \in Task : f[t] = a}

LEMMA PointsToFinite ==
  ASSUME NEW f, NEW a
  PROVE  /\ IsFiniteSet(PointsTo(f, a))
         /\ Cardinality(PointsTo(f, a)) \in Nat
         /\ Cardinality(PointsTo(f, a)) = 0 <=> PointsTo(f, a) = {}
<1>1. PointsTo(f, a) \in SUBSET Task
  BY DEF PointsTo
<1> QED
  BY <1>1, FiniteAssumption, FS_Subset, FS_CardinalityType, FS_EmptySet

(* One task's pointer changes: the count of one address goes down, that of  *)
(* another goes up.                                                         *)
LEMMA PointerMoves ==
  ASSUME NEW f, NEW g, NEW t \in Task, NEW a,
         \A u \in Task \ {t} : g[u] = f[u]
  PROVE  Cardinality(PointsTo(g, a)) =
           Cardinality(PointsTo(f, a)) - (IF f[t] = a THEN 1 ELSE 0)
                                       + (IF g[t] = a THEN 1 ELSE 0)
<1> DEFINE S == PointsTo(f, a)
           T == PointsTo(g, a)
<1>1. IsFiniteSet(S) /\ Cardinality(S) \in Nat /\ (t \in S <=> f[t] = a)
  <2>1. t \in S <=> f[t] = a
    BY DEF PointsTo
  <2> QED
    BY <2>1, PointsToFinite
<1>2. IF g[t] = a THEN T = (S \ {t}) \cup {t} ELSE T = S \ {t}
  BY DEF PointsTo
<1> HIDE DEF S, T
<1>3. /\ IsFiniteSet(S \ {t})
      /\ Cardinality(S \ {t}) = Cardinality(S) - (IF f[t] = a THEN 1 ELSE 0)
  BY <1>1, FS_RemoveElement
<1>4. Cardinality(T) = Cardinality(S) - (IF f[t] = a THEN 1 ELSE 0)
                                      + (IF g[t] = a THEN 1 ELSE 0)
  <2>1. CASE g[t] = a
    <3>1. Cardinality((S \ {t}) \cup {t}) = Cardinality(S \ {t}) + 1
      BY <1>3, FS_AddElement
    <3> QED
      BY <1>1, <1>2, <1>3, <2>1, <3>1
  <2>2. CASE g[t] # a
    <3>1. Cardinality(T) = Cardinality(S) - (IF f[t] = a THEN 1 ELSE 0)
      BY <1>2, <1>3, <2>2
    <3> QED
      BY <1>1, <2>2, <3>1
  <2> QED
    BY <2>1, <2>2
<1> QED
  BY <1>4 DEF S, T

(* Somebody holds a list exactly when its users are not 0. *)
LEMMA UsersCounted ==
  /\ \A a : Users(a) = Cardinality(PointsTo(info, a)) + Cardinality(PointsTo(va, a))
  /\ \A a : Held(a) <=> PointsTo(info, a) # {} \/ PointsTo(va, a) # {}
  /\ \A a : Users(a)' = Cardinality(PointsTo(info', a)) + Cardinality(PointsTo(va', a))
  /\ \A a : Held(a)' <=> PointsTo(info', a) # {} \/ PointsTo(va', a) # {}
BY DEF Users, Held, Assigned, Carried, PointsTo

LEMMA HeldMeansUsers ==
  ASSUME NEW a
  PROVE  /\ Users(a) \in Nat /\ Users(a)' \in Nat
         /\ Held(a) <=> Users(a) >= 1
         /\ Held(a)' <=> Users(a)' >= 1
<1>1. ASSUME NEW S, NEW T, S = PointsTo(info, a) \/ S = PointsTo(info', a),
             T = PointsTo(va, a) \/ T = PointsTo(va', a)
      PROVE  /\ Cardinality(S) + Cardinality(T) \in Nat
             /\ S # {} \/ T # {} <=> Cardinality(S) + Cardinality(T) >= 1
  <2>1. /\ Cardinality(S) \in Nat /\ (Cardinality(S) = 0 <=> S = {})
        /\ Cardinality(T) \in Nat /\ (Cardinality(T) = 0 <=> T = {})
    BY <1>1, PointsToFinite
  <2> QED
    BY <2>1
<1> QED
  BY <1>1, UsersCounted

(* How the users of each list change when a task's pointers do. *)
NoNewUsers == \A a \in Addr : Users(a)' <= Users(a)
NewUserOf(b) == \A a \in Addr : Users(a)' <= Users(a) + (IF a = b THEN 1 ELSE 0)

LEMMA PointersMove ==
  ASSUME NEW t \in Task, NEW u \in Task, NEW a,
         \A x \in Task \ {u} : info'[x] = info[x],
         \A x \in Task \ {t} : va'[x] = va[x]
  PROVE  Users(a)' = Users(a)
           - (IF info[u] = a THEN 1 ELSE 0) + (IF info'[u] = a THEN 1 ELSE 0)
           - (IF va[t] = a THEN 1 ELSE 0) + (IF va'[t] = a THEN 1 ELSE 0)
<1>1. Cardinality(PointsTo(info', a)) = Cardinality(PointsTo(info, a))
        - (IF info[u] = a THEN 1 ELSE 0) + (IF info'[u] = a THEN 1 ELSE 0)
  BY PointerMoves
<1>2. Cardinality(PointsTo(va', a)) = Cardinality(PointsTo(va, a))
        - (IF va[t] = a THEN 1 ELSE 0) + (IF va'[t] = a THEN 1 ELSE 0)
  BY PointerMoves
<1>3. Cardinality(PointsTo(info, a)) \in Nat /\ Cardinality(PointsTo(va, a)) \in Nat
  BY PointsToFinite
<1>4. /\ Users(a) = Cardinality(PointsTo(info, a)) + Cardinality(PointsTo(va, a))
      /\ Users(a)' = Cardinality(PointsTo(info', a)) + Cardinality(PointsTo(va', a))
  BY UsersCounted
<1> QED
  BY <1>1, <1>2, <1>3, <1>4

(* A request passes the address it carries on, or drops it. *)
LEMMA HandedOver ==
  ASSUME TypeOK, NEW t \in Task, NEW u \in Task,
         \/ info' = [info EXCEPT ![u] = va[t]]
         \/ info' = info,
         va' = [va EXCEPT ![t] = NULL]
  PROVE  NoNewUsers
<1> SUFFICES ASSUME NEW a \in Addr PROVE Users(a)' <= Users(a)
  BY DEF NoNewUsers
<1>1. /\ \A x \in Task \ {u} : info'[x] = info[x]
      /\ \A x \in Task \ {t} : va'[x] = va[x]
      /\ info'[u] = info[u] \/ info'[u] = va[t]
      /\ va'[t] # a
  BY NULLAssumption DEF TypeOK
<1> QED
  BY <1>1, PointersMove, HeldMeansUsers

(* A task gets the address b, to carry or for good. *)
LEMMA HandedOut ==
  ASSUME TypeOK, NEW t \in Task, NEW b,
         \/ info' = info /\ va' = [va EXCEPT ![t] = b]
         \/ info' = [info EXCEPT ![t] = b] /\ va' = [va EXCEPT ![t] = NULL]
  PROVE  NewUserOf(b)
<1> SUFFICES ASSUME NEW a \in Addr
             PROVE  Users(a)' <= Users(a) + (IF a = b THEN 1 ELSE 0)
  BY DEF NewUserOf
<1>1. /\ \A x \in Task \ {t} : info'[x] = info[x]
      /\ \A x \in Task \ {t} : va'[x] = va[x]
      /\ \/ info'[t] = info[t] /\ va'[t] = b
         \/ info'[t] = b /\ va'[t] # a
  BY NULLAssumption DEF TypeOK
<1> QED
  BY <1>1, PointersMove, HeldMeansUsers

(* A task gives its vector up. *)
LEMMA HandedBack ==
  ASSUME TypeOK, NEW t \in Task,
         info' = [info EXCEPT ![t] = NULL], va' = va
  PROVE  \A a \in Addr : Users(a)' = Users(a) - (IF a = info[t] THEN 1 ELSE 0)
<1> TAKE a \in Addr
<1>1. /\ \A x \in Task \ {t} : info'[x] = info[x]
      /\ \A x \in Task \ {t} : va'[x] = va[x]
      /\ info'[t] # a /\ va'[t] = va[t]
  BY NULLAssumption DEF TypeOK
<1> QED
  BY <1>1, PointersMove, HeldMeansUsers

-------------------------------------------------------------------------------
(* Counting the references of a module. *)
LEMMA PinsFinite ==
  ASSUME NEW m
  PROVE  IsFiniteSet(Pins(m)) /\ Cardinality(Pins(m)) \in Nat
<1>1. IsFiniteSet(Node \X (1 .. MaxRef))
  <2>1. IsFiniteSet(1 .. MaxRef)
    BY MaxRefAssumption, FS_Interval
  <2> QED
    BY <2>1, FiniteAssumption, FS_Product
<1>2. IsFiniteSet(Addr \X {0})
  BY FiniteAssumption, FS_Singleton, FS_Product
<1>3. IsFiniteSet((Node \X (1 .. MaxRef)) \cup (Addr \X {0}))
  BY <1>1, <1>2, FS_Union
<1>4. Pins(m) \in SUBSET ((Node \X (1 .. MaxRef)) \cup (Addr \X {0}))
  BY DEF Pins, VectorPins, OrphanPins
<1> QED
  BY <1>3, <1>4, FS_Subset, FS_CardinalityType

LEMMA SmallerCount ==
  ASSUME NEW S, IsFiniteSet(S), NEW T, NEW x
  PROVE  /\ T \subseteq S => Cardinality(T) <= Cardinality(S)
         /\ T \subseteq S \cup {x} => Cardinality(T) <= Cardinality(S) + 1
         /\ x \in S /\ T \subseteq S \ {x} => Cardinality(T) <= Cardinality(S) - 1
<1>1. Cardinality(S) \in Nat
  BY FS_CardinalityType
<1>2. ASSUME NEW U, IsFiniteSet(U), T \subseteq U
      PROVE  Cardinality(T) <= Cardinality(U) /\ Cardinality(T) \in Nat
  BY <1>2, FS_Subset, FS_CardinalityType
<1>3. /\ IsFiniteSet(S \cup {x})
      /\ Cardinality(S \cup {x}) = IF x \in S THEN Cardinality(S) ELSE Cardinality(S) + 1
  BY FS_AddElement
<1>4. /\ IsFiniteSet(S \ {x})
      /\ Cardinality(S \ {x}) = IF x \in S THEN Cardinality(S) - 1 ELSE Cardinality(S)
  BY FS_RemoveElement
<1>5. T \subseteq S \cup {x} => Cardinality(T) <= Cardinality(S) + 1
  <2> HAVE T \subseteq S \cup {x}
  <2>1. Cardinality(T) <= Cardinality(S \cup {x}) /\ Cardinality(T) \in Nat
    BY <1>2, <1>3
  <2> QED
    BY <1>1, <1>3, <2>1
<1>6. x \in S /\ T \subseteq S \ {x} => Cardinality(T) <= Cardinality(S) - 1
  <2> HAVE x \in S /\ T \subseteq S \ {x}
  <2>1. Cardinality(T) <= Cardinality(S \ {x}) /\ Cardinality(T) \in Nat
    BY <1>2, <1>4
  <2> QED
    BY <1>1, <1>4, <2>1
<1> QED
  BY <1>2, <1>5, <1>6

(* The references stay as they are when only tasks or modules change.       *)
LEMMA SamePins ==
  ASSUME UNCHANGED <<vec_list, node, heads>>
  PROVE  Backed' = Backed /\ \A m : Pins(m)' = Pins(m)
BY DEF Pins, VectorPins, OrphanPins, Backed, Listed, ListsOf

(* One refcount changes: what else of the vectors and references stays.     *)
Counted(n, c) == node' = [node EXCEPT ![n].refcount = c]

LEMMA RefcountStep ==
  ASSUME RegistryTypeOK, NEW n \in Listed, NEW c \in Int,
         Counted(n, c),
         UNCHANGED <<vec_list, listVars>>
  PROVE  /\ Backed' = Backed
         /\ node'[n].refcount = c
         /\ \A k \in Node \ {n} : node'[k] = node[k]
         /\ \A k \in Node : /\ node'[k].addr = node[k].addr
                            /\ node'[k].module = node[k].module
         /\ \A m : OrphanPins(m)' = OrphanPins(m)
         /\ \A m : ListsOf(m)' = ListsOf(m)
<1>1. n \in Node /\ Listed' = Listed /\ Listed \subseteq Node
  BY ListedNodes DEF Listed
<1>2. SameVectors
  BY <1>1, RefcountOnly DEF Counted
<1>3. node[n] \in Vector /\ node'[n] = [node[n] EXCEPT !.refcount = c]
  BY <1>1 DEF RegistryTypeOK, Counted
<1>4. node'[n].refcount = c
  BY <1>3 DEF Vector
<1>5. \A k \in Node \ {n} : node'[k] = node[k]
  BY <1>1 DEF RegistryTypeOK, Counted
<1>6. Backed' = Backed
  BY <1>1, <1>2 DEF Backed, SameVectors
<1>7. \A m : ListsOf(m)' = ListsOf(m)
  BY DEF ListsOf, listVars
<1>8. ASSUME NEW m
      PROVE  OrphanPins(m)' = OrphanPins(m)
  <2>1. \A k \in Backed : node'[k].addr = node[k].addr
    BY <1>1, <1>2 DEF SameVectors, Backed
  <2>2. \A x : (\A k \in Backed' : node'[k].addr # x) <=> (\A k \in Backed : node[k].addr # x)
    BY <1>6, <2>1
  <2>3. ListsOf(m)' = ListsOf(m)
    BY <1>7
  <2>4. \A p \in Addr \X {0} : p \in OrphanPins(m)' <=> p \in OrphanPins(m)
    BY <2>2, <2>3 DEF OrphanPins
  <2>5. OrphanPins(m)' \subseteq Addr \X {0} /\ OrphanPins(m) \subseteq Addr \X {0}
    BY DEF OrphanPins
  <2> QED
    BY <2>4, <2>5
<1> QED
  BY <1>2, <1>4, <1>5, <1>6, <1>7, <1>8 DEF SameVectors

LEMMA PinsUp ==
  ASSUME RegistryTypeOK, NEW n \in Listed,
         NEW c \in Int, c = node[n].refcount + 1, Counted(n, c),
         UNCHANGED <<vec_list, listVars>>
  PROVE  \A m : /\ Pins(m)' \subseteq Pins(m) \cup {<<n, c>>}
                /\ ~ (n \in Backed /\ node[n].module = m) => Pins(m)' \subseteq Pins(m)
<1>1. node[n].refcount \in Int /\ n \in Node /\ Listed \subseteq Node
  BY ListedNodes DEF RegistryTypeOK, Vector
<1>2. /\ Backed' = Backed
      /\ node'[n].refcount = c
      /\ \A k \in Node \ {n} : node'[k] = node[k]
      /\ \A k \in Node : node'[k].module = node[k].module
      /\ \A m : OrphanPins(m)' = OrphanPins(m)
  BY <1>1, RefcountStep
<1> TAKE m
<1>3. ASSUME NEW p \in VectorPins(m)'
      PROVE  \/ p \in VectorPins(m)
             \/ /\ p = <<n, c>>
                /\ n \in Backed /\ node[n].module = m
  <2>1. /\ p \in Node \X (1 .. MaxRef) /\ p[1] \in Backed
        /\ p[1] \in Node /\ p[2] \in Int /\ p = <<p[1], p[2]>>
        /\ node[p[1]].module = m /\ p[2] <= node'[p[1]].refcount
    BY <1>2 DEF VectorPins
  <2>2. CASE p[1] = n /\ p[2] = c
    BY <2>1, <2>2
  <2>3. CASE ~ (p[1] = n /\ p[2] = c)
    <3>1. p[2] <= node[p[1]].refcount
      BY <1>1, <1>2, <2>1, <2>3
    <3> QED
      BY <2>1, <3>1 DEF VectorPins
  <2> QED
    BY <2>2, <2>3
<1>4. VectorPins(m)' \subseteq VectorPins(m) \cup {<<n, c>>}
  BY <1>3
<1>5. ~ (n \in Backed /\ node[n].module = m) => VectorPins(m)' \subseteq VectorPins(m)
  BY <1>3
<1>6. OrphanPins(m)' = OrphanPins(m)
  BY <1>2
<1> QED
  BY <1>4, <1>5, <1>6 DEF Pins

LEMMA PinsDown ==
  ASSUME RegistryTypeOK, NEW n \in Backed, node[n].refcount \in 1 .. MaxRef,
         Counted(n, node[n].refcount - 1), UNCHANGED <<vec_list, listVars>>
  PROVE  \A m : /\ Pins(m)' \subseteq Pins(m)
                /\ node[n].module = m =>
                     /\ <<n, node[n].refcount>> \in Pins(m)
                     /\ Pins(m)' \subseteq Pins(m) \ {<<n, node[n].refcount>>}
<1>1. /\ node[n].refcount \in Int /\ node[n].refcount >= 1
      /\ n \in Node /\ n \in Listed
  BY ListedNodes, MaxRefAssumption DEF Backed
<1>2. /\ Backed' = Backed
      /\ node'[n].refcount = node[n].refcount - 1
      /\ \A k \in Node \ {n} : node'[k] = node[k]
      /\ \A k \in Node : node'[k].module = node[k].module
      /\ \A m : OrphanPins(m)' = OrphanPins(m)
  <2>1. PICK c \in Int : c = node[n].refcount - 1
    BY <1>1
  <2> QED
    BY <1>1, <2>1, RefcountStep
<1> TAKE m
<1>3. ASSUME NEW p \in VectorPins(m)'
      PROVE  p \in VectorPins(m) /\ p # <<n, node[n].refcount>>
  <2>1. /\ p \in Node \X (1 .. MaxRef) /\ p[1] \in Backed
        /\ p[1] \in Node /\ p[2] \in Int
        /\ node[p[1]].module = m /\ p[2] <= node'[p[1]].refcount
    BY <1>2 DEF VectorPins
  <2>2. CASE p[1] = n
    BY <1>1, <1>2, <2>1, <2>2 DEF VectorPins
  <2>3. CASE p[1] # n
    <3>1. p[2] <= node[p[1]].refcount
      BY <1>2, <2>1, <2>3
    <3> QED
      BY <2>1, <2>3, <3>1 DEF VectorPins
  <2> QED
    BY <2>2, <2>3
<1>4. <<n, node[n].refcount>> \notin OrphanPins(m)
  BY <1>1 DEF OrphanPins
<1>5. node[n].module = m => <<n, node[n].refcount>> \in VectorPins(m)
  BY <1>1 DEF VectorPins
<1> QED
  BY <1>2, <1>3, <1>4, <1>5 DEF Pins

-------------------------------------------------------------------------------
(* CountInv, by what a step does to the registry and to the users. *)

(* No vector and no list changes: what must hold of the modules.            *)
LEMMA ModuleCounts ==
  ASSUME TypeOK, CountInv, UNCHANGED <<vec_list, node, heads>>, NoNewUsers,
         \A m \in VectorModule :
           /\ mref'[m] >= Cardinality(Pins(m))
           /\ mstate'[m] = "going" => Pins(m) = {},
         \A a \in Addr : Held(a) =>
           /\ mstate'["vector1"] = "live"
           /\ \E m \in VectorModule : mstate'[m] = "live" /\ a \in ListsOf(m)
  PROVE  CountInv'
<1>1. /\ Backed' = Backed /\ Listed' = Listed
      /\ \A m : Pins(m)' = Pins(m)
      /\ \A m : ListsOf(m)' = ListsOf(m)
  BY SamePins DEF Listed, ListsOf
<1>2. RefcountInRange'
  BY <1>1 DEF CountInv, RefcountInRange
<1>3. RefcountCoversUsers'
  <2> SUFFICES ASSUME NEW n \in Listed, NEW a \in Addr, node[n].addr = a
               PROVE  node[n].refcount >= Users(a)'
    <3>1. \A n \in Listed : node[n].addr # NULL => node[n].addr \in Addr
      BY ListedNodes DEF TypeOK, RegistryTypeOK, Vector, Pointer
    <3>2. ASSUME NEW n \in Listed', NEW a, a = node'[n].addr, a # NULL
          PROVE  node'[n].refcount >= Users(a)'
      BY <1>1, <3>1, <3>2
    <3> QED
      BY <3>2 DEF RefcountCoversUsers
  <2>1. Users(a)' <= Users(a) /\ Users(a)' \in Int /\ Users(a) \in Int
    BY HeldMeansUsers DEF NoNewUsers
  <2>2. node[n].refcount >= Users(a)
    BY NULLAssumption DEF CountInv, RefcountCoversUsers
  <2>3. node[n].refcount \in Int
    BY ListedNodes DEF TypeOK, RegistryTypeOK, Vector
  <2> QED
    BY <2>1, <2>2, <2>3
<1>4. HeldModulesLoaded'
  <2>1. ASSUME NEW a \in Addr, Held(a)'
        PROVE  Held(a)
    <3>1. /\ Users(a)' >= 1 /\ Users(a)' <= Users(a)
          /\ Users(a)' \in Int /\ Users(a) \in Int
      BY <2>1, HeldMeansUsers DEF NoNewUsers
    <3> QED
      BY <3>1, HeldMeansUsers
  <2> QED
    BY <1>1, <2>1 DEF HeldModulesLoaded
<1>5. PinsCounted'
  BY <1>1 DEF PinsCounted
<1>6. GoingUnpinned'
  BY <1>1 DEF GoingUnpinned
<1> QED
  BY <1>2, <1>3, <1>4, <1>5, <1>6 DEF CountInv

LEMMA QuietCounts ==
  ASSUME TypeOK, CountInv, UNCHANGED <<vec_list, node, mref, mstate, listVars>>,
         NoNewUsers
  PROVE  CountInv'
<1>1. UNCHANGED <<vec_list, node, heads>>
  BY DEF listVars
<1>2. \A m \in VectorModule :
        /\ mref'[m] >= Cardinality(Pins(m))
        /\ mstate'[m] = "going" => Pins(m) = {}
  BY DEF CountInv, PinsCounted, GoingUnpinned
<1>3. \A a \in Addr : Held(a) =>
        /\ mstate'["vector1"] = "live"
        /\ \E m \in VectorModule : mstate'[m] = "live" /\ a \in ListsOf(m)
  BY DEF CountInv, HeldModulesLoaded
<1> QED
  BY <1>1, <1>2, <1>3, ModuleCounts

(* A vector that has a list belongs to a module that is not absent.         *)
LEMMA BackedModule ==
  ASSUME TypeOK, LoaderInv, RegistryInv, NEW n \in Backed
  PROVE  /\ n \in Node /\ n \in Listed /\ node[n].addr \in Addr
         /\ node[n].module \in VectorModule
         /\ node[n].addr \in ListsOf(node[n].module)
         /\ mstate[node[n].module] # "absent"
         /\ node[n].module \in Module /\ "vector1" \in Module
         /\ mstate[node[n].module] = "live" => mstate["vector1"] = "live"
<1>1. n \in Node /\ n \in Listed /\ node[n].addr \in Addr
  BY ListedNodes DEF Backed, TypeOK, RegistryTypeOK, Vector, Pointer
<1>2. node[n].module \in VectorModule /\ node[n].addr \in ListsOf(node[n].module)
  BY DEF RegistryInv, VectorsInv, NodesHaveLists
<1>3. mstate[node[n].module] # "absent"
  BY <1>2 DEF ListsOf, LoaderInv, NoListsWhenAbsent
<1>4. node[n].module \in Module /\ "vector1" \in Module
  BY <1>2 DEF Module, VectorModule, StaticModule
<1>5. node[n].module # "vector1" => "vector1" \in Requires(node[n].module)
  BY <1>2 DEF Requires, VectorModule, StaticModule
<1>6. mstate[node[n].module] = "live" => mstate["vector1"] = "live"
  BY <1>4, <1>5 DEF LoaderInv, DependenciesIn
<1> QED
  BY <1>1, <1>2, <1>3, <1>4, <1>6

LEMMA TakeRefCounts ==
  ASSUME TypeOK, LoaderInv, RegistryInv, CountInv,
         \A m \in Module : mstate[m] # "going",
         NEW i \in Cursor, TakeRef(i),
         UNCHANGED <<vec_list, mstate, listVars>>,
         NewUserOf(AddrAt(i))
  PROVE  CountInv'
<1>0. RegistryTypeOK
  BY DEF TypeOK
<1>1. CASE AddrAt(i) = NULL /\ UNCHANGED <<node, mref>>
  <2>1. NoNewUsers
    BY <1>1, NULLAssumption, HeldMeansUsers DEF NewUserOf, NoNewUsers
  <2> QED
    BY <1>1, <2>1, QuietCounts
<1>2. ASSUME NEW n \in Listed, i # 0, n = vec_list[i]
      PROVE  CountInv'
  <2> DEFINE a == node[n].addr
             o == node[n].module
  <2>1. n \in Node /\ node[n].refcount \in Int
    BY <1>0, ListedNodes DEF RegistryTypeOK, Vector
  <2>2. /\ node[n].refcount < MaxRef
        /\ Counted(n, node[n].refcount + 1)
        /\ mref' = IF mstate[o] = "live" THEN [mref EXCEPT ![o] = @ + 1] ELSE mref
        /\ AddrAt(i) = a
    BY <1>2 DEF TakeRef, Counted, try_module_get, At, AddrAt
  <2>3. NewUserOf(a)
    BY <2>2
  <2>4. \A k \in VectorModule :
          /\ Pins(k)' \subseteq Pins(k) \cup {<<n, node[n].refcount + 1>>}
          /\ ~ (n \in Backed /\ o = k) => Pins(k)' \subseteq Pins(k)
    <3>1. PICK c \in Int : c = node[n].refcount + 1
      BY <2>1
    <3>2. \A k :
            /\ Pins(k)' \subseteq Pins(k) \cup {<<n, c>>}
            /\ ~ (n \in Backed /\ node[n].module = k) => Pins(k)' \subseteq Pins(k)
      BY <1>0, <2>2, <3>1, PinsUp
    <3> QED
      BY <3>1, <3>2
  <2>5. /\ Backed' = Backed /\ Listed' = Listed
        /\ node'[n].refcount = node[n].refcount + 1
        /\ \A k \in Node \ {n} : node'[k] = node[k]
        /\ \A k \in Node : node'[k].addr = node[k].addr
        /\ \A k : ListsOf(k)' = ListsOf(k)
    <3>1. PICK c \in Int : c = node[n].refcount + 1
      BY <2>1
    <3> QED
      BY <1>0, <2>1, <2>2, <3>1, RefcountStep DEF Listed
  <2>6. n \in Backed <=> a # NULL
    BY <2>1 DEF Backed
  <2>7. n \in Backed => mstate[o] = "live" /\ mstate["vector1"] = "live"
    <3>1. n \in Backed => mstate[o] \in {"live", "going", "absent"}
      BY BackedModule DEF TypeOK, RegistryTypeOK
    <3> QED
      BY <3>1, BackedModule
  <2>8. RefcountInRange'
    <3>1. n \in Backed => node[n].refcount \in 0 .. MaxRef
      BY DEF CountInv, RefcountInRange
    <3>2. n \in Backed => node[n].refcount + 1 \in 0 .. MaxRef
      BY <2>1, <2>2, <3>1, MaxRefAssumption
    <3>3. \A k \in Backed : k \in Node
      BY BackedModule
    <3> QED
      BY <2>5, <3>2, <3>3 DEF CountInv, RefcountInRange
  <2>9. RefcountCoversUsers'
    <3>1. ASSUME NEW k \in Backed, NEW x \in Addr, node[k].addr = x
          PROVE  node'[k].refcount >= Users(x)'
      <4>1. node[k].refcount >= Users(x) /\ k \in Node /\ node[k].refcount \in Int
        BY <3>1, NULLAssumption, BackedModule
           DEF CountInv, RefcountCoversUsers, RefcountInRange
      <4>2. /\ Users(x)' <= Users(x) + (IF x = a THEN 1 ELSE 0)
            /\ Users(x) \in Int /\ Users(x)' \in Int
        BY <2>3, HeldMeansUsers DEF NewUserOf
      <4>3. CASE k = n
        BY <2>1, <2>5, <3>1, <4>1, <4>2, <4>3
      <4>4. CASE k # n
        <5>1. x # a
          <6>1. n \in Backed => node[k].addr # node[n].addr
            BY <4>4 DEF RegistryInv, VectorsInv, OneNodePerList
          <6> QED
            BY <2>6, <3>1, <6>1, NULLAssumption
        <5> QED
          BY <2>5, <4>1, <4>2, <4>4, <5>1
      <4> QED
        BY <4>3, <4>4
    <3>2. ASSUME NEW k \in Listed', NEW x, x = node'[k].addr, x # NULL
          PROVE  node'[k].refcount >= Users(x)'
      <4>1. k \in Backed /\ node[k].addr = x /\ x \in Addr
        BY <1>0, <2>5, <3>2, ListedNodes, BackedModule DEF Backed
      <4> QED
        BY <3>1, <4>1
    <3> QED
      BY <3>2 DEF RefcountCoversUsers
  <2>10. HeldModulesLoaded'
    <3>1. ASSUME NEW x \in Addr, Held(x)'
          PROVE  /\ mstate["vector1"] = "live"
                 /\ \E k \in VectorModule : mstate[k] = "live" /\ x \in ListsOf(k)
      <4>1. CASE x = a
        BY <2>6, <2>7, <4>1, NULLAssumption, BackedModule
      <4>2. CASE x # a
        <5>1. /\ Users(x)' >= 1 /\ Users(x)' <= Users(x)
              /\ Users(x)' \in Int /\ Users(x) \in Int
          BY <2>3, <3>1, <4>2, HeldMeansUsers DEF NewUserOf
        <5>2. Held(x)
          BY <5>1, HeldMeansUsers
        <5> QED
          BY <5>2 DEF CountInv, HeldModulesLoaded
      <4> QED
        BY <4>1, <4>2
    <3> QED
      BY <2>5, <3>1 DEF HeldModulesLoaded
  <2>11. PinsCounted'
    <3> SUFFICES ASSUME NEW k \in VectorModule
                 PROVE  mref'[k] >= Cardinality(Pins(k)')
      BY DEF PinsCounted
    <3>1. /\ mref[k] \in Int /\ mref[k] >= Cardinality(Pins(k))
          /\ IsFiniteSet(Pins(k)) /\ Cardinality(Pins(k)) \in Nat
      BY PinsFinite DEF TypeOK, RegistryTypeOK, CountInv, PinsCounted
    <3>2. mref'[k] \in {mref[k], mref[k] + 1}
          /\ (mstate[o] = "live" /\ o = k => mref'[k] = mref[k] + 1)
      BY <1>0, <2>2 DEF RegistryTypeOK
    <3>3. Pins(k)' \subseteq Pins(k) => Cardinality(Pins(k)') <= Cardinality(Pins(k))
      BY <3>1, SmallerCount
    <3>4. Cardinality(Pins(k)') <= Cardinality(Pins(k)) + 1
      BY <2>4, <3>1, SmallerCount
    <3>5. IsFiniteSet(Pins(k)') /\ Cardinality(Pins(k)') \in Int
      <4>1. /\ Pins(k)' \subseteq Pins(k) \cup {<<n, node[n].refcount + 1>>}
            /\ IsFiniteSet(Pins(k) \cup {<<n, node[n].refcount + 1>>})
        BY <2>4, <3>1, FS_AddElement
      <4> QED
        BY <4>1, FS_Subset, FS_CardinalityType
    <3> QED
      BY <2>4, <2>7, <3>1, <3>2, <3>3, <3>4, <3>5
  <2>12. GoingUnpinned'
    BY DEF GoingUnpinned, Module
  <2> QED
    BY <2>8, <2>9, <2>10, <2>11, <2>12 DEF CountInv
<1>3. i # 0 => vec_list[i] \in Listed
  BY <1>0, CursorType, LenProperties DEF Listed, RegistryTypeOK
<1> QED
  BY <1>1, <1>2, <1>3 DEF TakeRef, AddrAt

(* The node that counts a task's own vector. *)
LEMMA OwnNode ==
  ASSUME TypeOK, LoaderInv, RegistryInv, CountInv, NEW t \in Task, info[t] # NULL,
         NEW i \in Cursor, i # 0, AddrAt(i) = info[t]
  PROVE  /\ vec_list[i] \in Backed
         /\ At(i).module \in VectorModule /\ mstate[At(i).module] # "absent"
         /\ At(i).refcount \in 1 .. MaxRef
         /\ At(i).refcount >= Users(info[t])
<1>1. vec_list[i] \in Backed
  BY CursorType, LenProperties
     DEF TypeOK, RegistryTypeOK, Listed, Backed, AddrAt, At
<1>2. PICK n \in Backed : n = vec_list[i]
  BY <1>1
<1>3. /\ n \in Node /\ n \in Listed /\ node[n].addr \in Addr /\ node[n].addr = info[t]
      /\ node[n].module \in VectorModule /\ mstate[node[n].module] # "absent"
  BY <1>2, BackedModule DEF AddrAt, At
<1>4. Users(info[t]) \in Int /\ Users(info[t]) >= 1
  <2>1. Held(info[t])
    BY DEF Held, Assigned
  <2> QED
    BY <2>1, HeldMeansUsers
<1>5. node[n].refcount >= Users(info[t])
  BY <1>3, NULLAssumption DEF CountInv, RefcountCoversUsers
<1>6. node[n].refcount \in 0 .. MaxRef
  BY DEF CountInv, RefcountInRange
<1>7. node[n].refcount \in 1 .. MaxRef
  BY <1>4, <1>5, <1>6, MaxRefAssumption
<1> QED
  BY <1>2, <1>3, <1>5, <1>7 DEF At

(* The node that counts a task's own vector gives one reference back.       *)
LEMMA DropRefCounts ==
  ASSUME TypeOK, LoaderInv, RegistryInv, CountInv,
         NEW t \in Task, info[t] # NULL, info' = [info EXCEPT ![t] = NULL], va' = va,
         NEW i \in Cursor, i # 0, AddrAt(i) = info[t], DropRef(i),
         UNCHANGED <<vec_list, mstate, listVars>>
  PROVE  CountInv'
<1>0. RegistryTypeOK
  BY DEF TypeOK
<1>1. vec_list[i] \in Backed
  BY OwnNode
<1>2. ASSUME NEW n \in Backed, n = vec_list[i]
      PROVE  CountInv'
  <2> DEFINE a == node[n].addr
             own == node[n].module
  <2>1. /\ n \in Node /\ n \in Listed /\ a \in Addr /\ a = info[t]
        /\ own \in VectorModule /\ a \in ListsOf(own) /\ mstate[own] # "absent"
    BY <1>2, BackedModule DEF AddrAt, At
  <2>2. node[n].refcount \in 1 .. MaxRef /\ node[n].refcount >= Users(a)
    BY <1>2, <2>1, OwnNode DEF At
  <2>3. PICK c \in Int : c = node[n].refcount - 1
    BY <2>2, MaxRefAssumption
  <2>4. /\ Counted(n, c)
        /\ mref' = [mref EXCEPT ![own] = @ - 1]
    <3>1. node' = [node EXCEPT ![n].refcount = node[n].refcount - 1]
      BY <1>2 DEF DropRef
    <3>2. mref' = [mref EXCEPT ![own] = @ - 1]
      BY <1>2, <2>1 DEF DropRef, module_put, At
    <3> QED
      BY <2>3, <3>1, <3>2 DEF Counted
  <2>5. \A x \in Addr : Users(x)' = Users(x) - (IF x = a THEN 1 ELSE 0)
    BY <2>1, HandedBack
  <2>6. \A k : /\ Pins(k)' \subseteq Pins(k)
               /\ own = k => /\ <<n, node[n].refcount>> \in Pins(k)
                             /\ Pins(k)' \subseteq Pins(k) \ {<<n, node[n].refcount>>}
    <3>1. Counted(n, node[n].refcount - 1)
      BY <2>3, <2>4
    <3> QED
      BY <1>0, <2>2, <3>1, PinsDown
  <2>7. /\ Backed' = Backed
        /\ node'[n].refcount = c
        /\ \A k \in Node \ {n} : node'[k] = node[k]
        /\ \A k \in Node : node'[k].addr = node[k].addr
        /\ \A k : ListsOf(k)' = ListsOf(k)
    BY <1>0, <2>1, <2>4, RefcountStep
  <2>8. \A k \in Backed : k \in Node
    BY BackedModule
  <2>9. RefcountInRange'
    <3>1. c \in 0 .. MaxRef
      BY <2>2, <2>3, MaxRefAssumption
    <3> QED
      BY <2>7, <2>8, <3>1 DEF CountInv, RefcountInRange
  <2>10. RefcountCoversUsers'
    <3>1. ASSUME NEW k \in Backed, NEW x \in Addr, node[k].addr = x
          PROVE  node'[k].refcount >= Users(x)'
      <4>1. node[k].refcount >= Users(x) /\ k \in Node /\ node[k].refcount \in Int
        BY <3>1, NULLAssumption, BackedModule
           DEF CountInv, RefcountCoversUsers, RefcountInRange
      <4>2. /\ Users(x)' = Users(x) - (IF x = a THEN 1 ELSE 0)
            /\ Users(x) \in Int /\ Users(x)' \in Int
        BY <2>5, HeldMeansUsers
      <4>3. CASE k = n
        BY <2>3, <2>7, <3>1, <4>1, <4>2, <4>3
      <4>4. CASE k # n
        BY <2>7, <4>1, <4>2, <4>4
      <4> QED
        BY <4>3, <4>4
    <3>2. Listed' = Listed
      BY DEF Listed
    <3>3. ASSUME NEW k \in Listed', NEW x, x = node'[k].addr, x # NULL
          PROVE  node'[k].refcount >= Users(x)'
      <4>1. k \in Backed /\ node[k].addr = x /\ x \in Addr
        BY <1>0, <2>7, <3>2, <3>3, ListedNodes, BackedModule DEF Backed
      <4> QED
        BY <3>1, <4>1
    <3> QED
      BY <3>3 DEF RefcountCoversUsers
  <2>11. HeldModulesLoaded'
    <3>1. ASSUME NEW x \in Addr, Held(x)'
          PROVE  Held(x)
      <4>1. /\ Users(x)' >= 1 /\ Users(x)' = Users(x) - (IF x = a THEN 1 ELSE 0)
            /\ Users(x)' \in Int /\ Users(x) \in Int
        BY <2>5, <3>1, HeldMeansUsers
      <4>2. Users(x) >= 1
        BY <4>1
      <4> QED
        BY <4>2, HeldMeansUsers
    <3> QED
      BY <2>7, <3>1 DEF CountInv, HeldModulesLoaded
  <2>12. PinsCounted'
    <3> SUFFICES ASSUME NEW k \in VectorModule
                 PROVE  mref'[k] >= Cardinality(Pins(k)')
      BY DEF PinsCounted
    <3>1. /\ mref[k] \in Int /\ mref[k] >= Cardinality(Pins(k))
          /\ IsFiniteSet(Pins(k)) /\ Cardinality(Pins(k)) \in Nat
      BY PinsFinite DEF TypeOK, RegistryTypeOK, CountInv, PinsCounted
    <3>2. mref'[k] = IF k = own THEN mref[k] - 1 ELSE mref[k]
      BY <1>0, <2>1, <2>4 DEF RegistryTypeOK
    <3>3. Cardinality(Pins(k)') <= Cardinality(Pins(k))
      BY <2>6, <3>1, SmallerCount
    <3>4. k = own => Cardinality(Pins(k)') <= Cardinality(Pins(k)) - 1
      BY <2>6, <3>1, SmallerCount
    <3>5. Cardinality(Pins(k)') \in Int
      BY <2>6, <3>1, FS_Subset, FS_CardinalityType
    <3> QED
      BY <3>1, <3>2, <3>3, <3>4, <3>5
  <2>13. GoingUnpinned'
    BY <2>6 DEF CountInv, GoingUnpinned
  <2> QED
    BY <2>9, <2>10, <2>11, <2>12, <2>13 DEF CountInv
<1> QED
  BY <1>1, <1>2

-------------------------------------------------------------------------------
(* The steps of the tasks, but for CreateBuild. *)

(* A lookup, and the address it found carried or not. *)
LEMMA LookupCounts ==
  ASSUME TypeOK, LoaderInv, RegistryInv, CountInv, Careful, MayLookUp,
         NEW t \in Task, NEW i \in Cursor, TakeRef(i), info' = info,
         va' = va \/ va' = [va EXCEPT ![t] = AddrAt(i)],
         UNCHANGED <<vec_list, mstate, listVars>>
  PROVE  CountInv'
<1>1. \A m \in Module : mstate[m] # "going"
  BY DEF Careful, MayLookUp, Assuming
<1>2. NewUserOf(AddrAt(i))
  <2>1. CASE va' = [va EXCEPT ![t] = AddrAt(i)]
    BY <2>1, HandedOut
  <2>2. CASE va' = va
    <3>1. va' = [va EXCEPT ![t] = va[t]]
      BY <2>2 DEF TypeOK
    <3>2. \A a \in Addr : Users(a)' = Users(a)
      BY <2>2 DEF Users, Assigned, Carried
    <3> QED
      BY <3>2, HeldMeansUsers DEF NewUserOf
  <2> QED
    BY <2>1, <2>2
<1> QED
  BY <1>1, <1>2, TakeRefCounts

(* A step that touches no count and hands the carried address over.         *)
LEMMA HandOverCounts ==
  ASSUME TypeOK, CountInv, UNCHANGED <<vec_list, node, mref, mstate, listVars>>,
         NEW t \in Task, NEW u \in Task,
         info' = [info EXCEPT ![u] = va[t]] \/ info' = info,
         va' = [va EXCEPT ![t] = NULL]
  PROVE  CountInv'
BY HandedOver, QuietCounts

(* SET looks for a vector named by a whole text and gives nothing up. *)
LEMMA NothingReduced ==
  ASSUME NEW t \in Task, if_assigned_reduce(t)
  PROVE  UNCHANGED <<node, mref>>
<1>1. ASSUME info[t] # NULL, NEW i \in Cursor, NEW j \in Cursor,
             reduce_ref_count(j, show_my_vector(i, info[t]))
      PROVE  j = 0
  <2>1. \A b : VectorName(b) # <<>> /\ \A c : VectorName(b) # ShowText(c)
    BY DEF VectorName, ShowText
  <2>2. show_my_vector(i, info[t]) = <<>> \/ \E c : show_my_vector(i, info[t]) = ShowText(c)
    BY <1>1 DEF show_my_vector
  <2> QED
    BY <1>1, <2>1, <2>2 DEF reduce_ref_count, StopsAt, ByName
<1> QED
  BY <1>1 DEF if_assigned_reduce, reduce_ref_count, DropRef

(* The name SHOW_MINE gives a task leads back to the node of its vector.    *)
LEMMA FoundOwn ==
  ASSUME RegistryTypeOK, HidesOnlyEmpty, NEW t \in Task, NEW b \in OwnName(t),
         NEW i \in Cursor, StopsAt(i, ByName(VectorName(b)))
  PROVE  i # 0 /\ info[t] # NULL /\ AddrAt(i) = info[t]
<1>1. PICK j \in DOMAIN vec_list : /\ info[t] # NULL
                                   /\ StopsAt(j, ByAddr(info[t]))
                                   /\ b = At(j).bitmap
  BY DEF OwnName
<1>2. /\ j \in 1 .. Len(vec_list) /\ Len(vec_list) \in Nat
      /\ vec_list[j] \in Node /\ At(j).addr = info[t]
      /\ vec_list[j] \in ByName(VectorName(b))
  <2>1. j \in 1 .. Len(vec_list) /\ vec_list[j] \in Node /\ Len(vec_list) \in Nat
    BY ListedNodes, LenProperties DEF RegistryTypeOK
  <2> QED
    BY <1>1, <2>1 DEF StopsAt, ByAddr, ByName, At
<1>3. i # 0
  BY <1>2 DEF StopsAt
<1>4. i \in DOMAIN vec_list /\ i \in 1 .. Len(vec_list) /\ At(i).bitmap = b
  <2>1. i \in 1 .. Len(vec_list) /\ i \in DOMAIN vec_list
    BY <1>3, CursorType, LenProperties DEF RegistryTypeOK
  <2>2. VectorName(At(i).bitmap) = VectorName(b)
    BY <1>3, <2>1 DEF StopsAt, ByName, At
  <2> QED
    BY <2>1, <2>2 DEF VectorName
<1>5. ~ j < i
  BY <1>2, <1>3, <1>4 DEF StopsAt
<1>6. ~ i < j
  BY <1>1, <1>2, <1>4 DEF HidesOnlyEmpty
<1>7. i = j
  BY <1>2, <1>4, <1>5, <1>6
<1> QED
  BY <1>1, <1>2, <1>3, <1>7 DEF AddrAt

(* REMOVE drops the caller's own reference and clears its pointer. *)
LEMMA RemoveDropsOwn ==
  ASSUME TypeOK, LoaderInv, RegistryInv, CountInv, Careful,
         NEW t \in Task, NEW b \in Bitmaps, RemoveVector(t, b)
  PROVE  /\ info[t] # NULL /\ info' = [info EXCEPT ![t] = NULL] /\ va' = va
         /\ UNCHANGED <<vec_list, mstate, listVars>>
         /\ \E i \in Cursor : i # 0 /\ AddrAt(i) = info[t] /\ DropRef(i)
<1>1. b \in OwnName(t)
  BY DEF RemoveVector, Careful, Assuming
<1>2. PICK i \in Cursor :
        /\ StopsAt(i, ByName(VectorName(b)))
        /\ DropRef(i)
        /\ info' = IF i = 0 \/ At(i).refcount - 1 < 0 THEN info
                   ELSE [info EXCEPT ![t] = NULL]
  BY DEF RemoveVector, reduce_ref_count
<1>3. i # 0 /\ info[t] # NULL /\ AddrAt(i) = info[t]
  BY <1>1, <1>2, FoundOwn DEF RegistryInv, VectorsInv, TypeOK
<1>4. At(i).refcount \in Int /\ At(i).refcount >= 1
  BY <1>3, OwnNode, MaxRefAssumption
<1>5. info' = [info EXCEPT ![t] = NULL]
  <2>1. ~ (i = 0 \/ At(i).refcount - 1 < 0)
    BY <1>3, <1>4
  <2> QED
    BY <1>2, <2>1
<1>6. UNCHANGED <<vec_list, mstate, listVars, va>>
  BY DEF RemoveVector
<1> QED
  BY <1>2, <1>3, <1>5, <1>6

LEMMA RemoveVectorCounts ==
  ASSUME TypeOK, LoaderInv, RegistryInv, CountInv, Careful,
         NEW t \in Task, NEW b \in Bitmaps, RemoveVector(t, b)
  PROVE  CountInv'
BY RemoveDropsOwn, DropRefCounts

(* A task that exits or crashes gives its vector up. *)
LEMMA EndCounts ==
  ASSUME TypeOK, LoaderInv, RegistryInv, CountInv, NEW t \in Task, NEW end,
         EndsTask(t, end)
  PROVE  CountInv'
<1>0. RegistryTypeOK
  BY DEF TypeOK
<1>1. /\ info' = [info EXCEPT ![t] = NULL] /\ va' = va
      /\ UNCHANGED <<vec_list, mstate, listVars>>
  BY DEF EndsTask
<1>2. CASE UNCHANGED <<node, mref>>
  <2>1. NoNewUsers
    <3>1. ASSUME NEW a \in Addr
          PROVE  Users(a)' <= Users(a)
      <4>1. Users(a)' = Users(a) - (IF a = info[t] THEN 1 ELSE 0)
        BY <1>1, HandedBack
      <4> QED
        BY <4>1, HeldMeansUsers
    <3> QED
      BY <3>1 DEF NoNewUsers
  <2> QED
    BY <1>1, <1>2, <2>1, QuietCounts
<1>3. ASSUME NEW i \in Cursor, info[t] # NULL,
             reduce_ref_count_from_address(i, info[t]), i # 0
      PROVE  CountInv'
  <2>1. AddrAt(i) = info[t]
    BY <1>3 DEF reduce_ref_count_from_address, StopsAt, ByAddr, AddrAt, At
  <2> QED
    BY <1>1, <1>3, <2>1, DropRefCounts DEF reduce_ref_count_from_address
<1> QED
  BY <1>2, <1>3 DEF EndsTask, reduce_ref_count_from_address, DropRef

(* A child inherits a list that nobody could register: no vector counts it, *)
(* and its parent holds it already.                                         *)
LEMMA OrphanCounts ==
  ASSUME TypeOK, CountInv, NEW t \in Task, info[t] # NULL,
         \A n \in Listed : node[n].addr # info[t],
         info' = info, va' = [va EXCEPT ![t] = info[t]],
         UNCHANGED <<vec_list, node, mref, mstate, listVars>>
  PROVE  CountInv'
<1>1. /\ Backed' = Backed /\ Listed' = Listed
      /\ \A m : Pins(m)' = Pins(m)
      /\ \A m : ListsOf(m)' = ListsOf(m)
  BY SamePins DEF Listed, ListsOf, listVars
<1>2. \A a \in Addr : a # info[t] => Users(a)' <= Users(a)
  <2>1. NewUserOf(info[t])
    BY HandedOut
  <2>2. \A a \in Addr : Users(a) \in Int
    BY HeldMeansUsers
  <2> QED
    BY <2>1, <2>2 DEF NewUserOf
<1>3. RefcountInRange'
  BY <1>1 DEF CountInv, RefcountInRange
<1>4. RefcountCoversUsers'
  <2>1. ASSUME NEW n \in Listed, NEW a \in Addr, node[n].addr = a
        PROVE  node[n].refcount >= Users(a)'
    <3>1. Users(a)' <= Users(a) /\ Users(a)' \in Int /\ Users(a) \in Int
      BY <1>2, <2>1, HeldMeansUsers
    <3>2. node[n].refcount >= Users(a) /\ node[n].refcount \in Int
      BY <2>1, NULLAssumption, ListedNodes
         DEF CountInv, RefcountCoversUsers, TypeOK, RegistryTypeOK, Vector
    <3> QED
      BY <3>1, <3>2
  <2>2. \A n \in Listed : node[n].addr # NULL => node[n].addr \in Addr
    BY ListedNodes DEF TypeOK, RegistryTypeOK, Vector, Pointer
  <2>3. ASSUME NEW n \in Listed', NEW a, a = node'[n].addr, a # NULL
        PROVE  node'[n].refcount >= Users(a)'
    BY <1>1, <2>1, <2>2, <2>3
  <2> QED
    BY <2>3 DEF RefcountCoversUsers
<1>5. HeldModulesLoaded'
  <2>1. ASSUME NEW a \in Addr, Held(a)'
        PROVE  Held(a)
    <3>1. CASE a = info[t]
      BY <3>1 DEF Held, Assigned
    <3>2. CASE a # info[t]
      <4>1. /\ Users(a)' >= 1 /\ Users(a)' <= Users(a)
            /\ Users(a)' \in Int /\ Users(a) \in Int
        BY <1>2, <2>1, <3>2, HeldMeansUsers
      <4> QED
        BY <4>1, HeldMeansUsers
    <3> QED
      BY <3>1, <3>2
  <2> QED
    BY <1>1, <2>1 DEF CountInv, HeldModulesLoaded
<1>6. PinsCounted' /\ GoingUnpinned'
  BY <1>1 DEF CountInv, PinsCounted, GoingUnpinned
<1> QED
  BY <1>3, <1>4, <1>5, <1>6 DEF CountInv

(* Where increment_ref_count_from_address stops. *)
LEMMA FoundAddress ==
  ASSUME NEW i \in Cursor, NEW a, increment_ref_count_from_address(i, a)
  PROVE  /\ TakeRef(i)
         /\ i # 0 => AddrAt(i) = a
         /\ i = 0 => UNCHANGED <<node, mref>> /\ \A n \in Listed : n \notin ByAddr(a)
BY DEF increment_ref_count_from_address, StopsAt, ByAddr, AddrAt, At, TakeRef, Listed

LEMMA ForkInheritCounts ==
  ASSUME TypeOK, LoaderInv, RegistryInv, CountInv, Careful,
         NEW t \in Task, ForkInherit(t)
  PROVE  CountInv'
<1>1. PICK i \in Cursor : increment_ref_count_from_address(i, info[t])
  BY DEF ForkInherit
<1>2. /\ MayLookUp /\ info' = info /\ va' = [va EXCEPT ![t] = info[t]]
      /\ UNCHANGED <<vec_list, mstate, listVars>>
  BY DEF ForkInherit, Enter
<1>3. CASE i # 0 \/ info[t] = NULL
  <2>1. TakeRef(i) /\ AddrAt(i) = info[t]
    BY <1>1, <1>3, FoundAddress DEF AddrAt
  <2> QED
    BY <1>2, <2>1, LookupCounts
<1>4. CASE i = 0 /\ info[t] # NULL
  <2>1. UNCHANGED <<node, mref>> /\ \A n \in Listed : node[n].addr # info[t]
    BY <1>1, <1>4, FoundAddress, ListedNodes DEF ByAddr, TypeOK
  <2> QED
    BY <1>2, <1>4, <2>1, OrphanCounts
<1> QED
  BY <1>3, <1>4

LEMMA ProcessCounts ==
  ASSUME TypeOK, LoaderInv, RegistryInv, CountInv, Careful,
         NEW t \in Task, Process(t)
  PROVE  CountInv'
<1>1. CASE CloneInherit(t)
  <2>1. PICK i \in Cursor \ {0} : increment_ref_count_from_address(i, info[t])
    BY <1>1 DEF CloneInherit
  <2>2. TakeRef(i) /\ AddrAt(i) = info[t]
    BY <2>1 DEF increment_ref_count_from_address, StopsAt, ByAddr, AddrAt, At
  <2>3. /\ MayLookUp /\ info' = info
        /\ va' = [va EXCEPT ![t] = AddrAt(i)]
        /\ UNCHANGED <<vec_list, mstate, listVars>>
    BY <1>1, <2>2 DEF CloneInherit, Enter
  <2> QED
    BY <2>2, <2>3, LookupCounts
<1>2. ASSUME NEW b \in Bitmaps, CloneById(t, b)
      PROVE  CountInv'
  <2>1. PICK i \in Cursor : TakeRef(i) /\ va' = [va EXCEPT ![t] = AddrAt(i)]
    BY <1>2 DEF CloneById, get_vector_address_from_id, Enter
  <2> QED
    BY <1>2, <2>1, LookupCounts DEF CloneById
<1>3. ASSUME NEW child \in Task, CloneForks(t, child)
      PROVE  CountInv'
  BY <1>3, HandOverCounts DEF CloneForks, registryVars
<1>4. ASSUME NEW child \in Task, Fork(t, child)
      PROVE  CountInv'
  <2>1. NoNewUsers
    <3>1. \A a \in Addr : Users(a)' = Users(a)
      BY <1>4 DEF Fork, Users, Assigned, Carried
    <3> QED
      BY <3>1, HeldMeansUsers DEF NoNewUsers
  <2> QED
    BY <1>4, <2>1, QuietCounts DEF Fork, registryVars
<1>5. CASE CloneFails(t)
  BY <1>5, HandOverCounts DEF CloneFails, Enter, registryVars
<1>6. CASE KernelCounts(t)
  <2>1. PICK i \in Cursor : increment_ref_count_from_address(i, va[t])
    BY <1>6 DEF KernelCounts
  <2>2. /\ MayLookUp /\ info' = info /\ va' = va
        /\ UNCHANGED <<vec_list, mstate, listVars>>
    BY <1>6 DEF KernelCounts, Enter, TypeOK
  <2> QED
    BY <2>1, <2>2, FoundAddress, LookupCounts
<1>7. CASE Exit(t)
  BY <1>7, EndCounts DEF Exit
<1> QED
  BY <1>1, <1>2, <1>3, <1>4, <1>5, <1>6, <1>7, ForkInheritCounts DEF Process

-------------------------------------------------------------------------------
(* The steps that build a list: CreateBuild and InsmodStatic. *)

LEMMA PinsAdded ==
  ASSUME RegistryTypeOK, NEW n, NEW b, NEW a, NEW m, NEW c \in {0, 1},
         AddVector(n, b, a, m, c),
         \A k \in VectorModule : ListsOf(k)' \subseteq (ListsOf(k) \cup {a}) \ {NULL}
  PROVE  \A k \in VectorModule :
           /\ Pins(k)' \subseteq Pins(k) \cup {<<n, c>>}
           /\ k # m \/ c = 0 => Pins(k)' \subseteq Pins(k)
<1>1. /\ node'[n].addr = a /\ node'[n].module = m /\ node'[n].refcount = c
      /\ \A k \in Backed : node'[k] = node[k]
      /\ Backed' = IF a = NULL THEN Backed ELSE Backed \cup {n}
  <2>1. /\ n \in Node \ Listed
        /\ node'[n].addr = a /\ node'[n].module = m /\ node'[n].refcount = c
        /\ \A k \in Node \ {n} : node'[k] = node[k]
        /\ Backed' = IF a = NULL THEN Backed ELSE Backed \cup {n}
    BY AddedNode
  <2>2. \A k \in Backed : k \in Node \ {n}
    BY <2>1, ListedNodes DEF Backed
  <2> QED
    BY <2>1, <2>2
<1> TAKE k \in VectorModule
<1>2. ASSUME NEW p \in VectorPins(k)'
      PROVE  p \in VectorPins(k) \/ (p = <<n, c>> /\ k = m /\ c # 0)
  <2>0. p = <<p[1], p[2]>>
    BY DEF VectorPins
  <2>1. /\ p \in Node \X (1 .. MaxRef) /\ p[1] \in Backed'
        /\ node'[p[1]].module = k /\ p[2] <= node'[p[1]].refcount
        /\ p[2] \in Int /\ p[2] >= 1
    BY MaxRefAssumption DEF VectorPins
  <2>2. CASE p[1] \in Backed
    <3>1. node[p[1]].module = k /\ p[2] <= node[p[1]].refcount
      BY <1>1, <2>1, <2>2
    <3> QED
      BY <2>1, <2>2, <3>1 DEF VectorPins
  <2>3. CASE p[1] \notin Backed
    <3>1. p[1] = n
      BY <1>1, <2>1, <2>3
    <3>2. p[2] <= c
      BY <1>1, <2>1, <3>1
    <3>3. c = 1 /\ p[2] = 1
      BY <2>1, <3>2
    <3> QED
      BY <1>1, <2>0, <2>1, <3>1, <3>3
  <2> QED
    BY <2>2, <2>3
<1>3. ASSUME NEW p \in OrphanPins(k)'
      PROVE  p \in OrphanPins(k)
  <2>1. /\ p \in Addr \X {0} /\ p[1] \in ListsOf(k)'
        /\ \A x \in Backed' : node'[x].addr # p[1]
    BY DEF OrphanPins
  <2>2. p[1] # a
    BY <1>1, <2>1
  <2>3. p[1] \in ListsOf(k)
    BY <2>1, <2>2
  <2>4. \A x \in Backed : node[x].addr # p[1]
    BY <1>1, <2>1
  <2> QED
    BY <2>1, <2>3, <2>4 DEF OrphanPins
<1>4. /\ VectorPins(k)' \subseteq VectorPins(k) \cup {<<n, c>>}
      /\ k # m \/ c = 0 => VectorPins(k)' \subseteq VectorPins(k)
      /\ OrphanPins(k)' \subseteq OrphanPins(k)
  BY <1>2, <1>3
<1> QED
  BY <1>4 DEF Pins

LEMMA PinsOrphaned ==
  ASSUME NEW a, NEW m, UNCHANGED <<vec_list, node>>,
         \A k \in VectorModule :
           ListsOf(k)' \subseteq IF k = m THEN (ListsOf(k) \cup {a}) \ {NULL} ELSE ListsOf(k)
  PROVE  \A k \in VectorModule :
           /\ Pins(k)' \subseteq Pins(k) \cup {<<a, 0>>}
           /\ k # m \/ a = NULL => Pins(k)' \subseteq Pins(k)
<1>1. Backed' = Backed
  BY DEF Backed, Listed
<1> TAKE k \in VectorModule
<1>2. VectorPins(k)' = VectorPins(k)
  BY <1>1 DEF VectorPins
<1>3. ASSUME NEW p \in OrphanPins(k)'
      PROVE  p \in OrphanPins(k) \/ (p = <<a, 0>> /\ k = m /\ a # NULL)
  <2>1. /\ p \in Addr \X {0} /\ p[1] \in ListsOf(k)'
        /\ \A x \in Backed : node[x].addr # p[1]
    BY <1>1 DEF OrphanPins
  <2>5. p = <<p[1], 0>>
    BY <2>1
  <2>2. ListsOf(k)' \subseteq IF k = m THEN (ListsOf(k) \cup {a}) \ {NULL} ELSE ListsOf(k)
    OBVIOUS
  <2>3. p[1] \in ListsOf(k) \/ (k = m /\ p[1] = a /\ a # NULL)
    BY <2>1, <2>2
  <2>4. p[1] \in ListsOf(k) => p \in OrphanPins(k)
    BY <2>1 DEF OrphanPins
  <2> QED
    BY <2>3, <2>4, <2>5
<1>4. /\ OrphanPins(k)' \subseteq OrphanPins(k) \cup {<<a, 0>>}
      /\ k # m \/ a = NULL => OrphanPins(k)' \subseteq OrphanPins(k)
  BY <1>3
<1> QED
  BY <1>2, <1>4 DEF Pins

(* Nobody uses memory that kmalloc can give out. *)
LEMMA FreshUnheld ==
  ASSUME TypeOK, RegistryInv, CountInv, NEW a \in FreeAddr
  PROVE  /\ a \in Addr /\ a # NULL /\ ~ Held(a) /\ Users(a) = 0
         /\ \A n \in Backed : node[n].addr # a
<1>1. \A m \in VectorModule : a \notin ListsOf(m)
  BY FreshList DEF RegistryInv, VectorsInv
<1>2. a \in Addr /\ a # NULL /\ ~ Held(a)
  BY <1>1, NULLAssumption DEF FreeAddr, CountInv, HeldModulesLoaded
<1>3. \A n \in Backed : node[n].addr # a
  BY <1>1 DEF RegistryInv, VectorsInv, NodesHaveLists
<1>4. Users(a) = 0
  BY <1>2, HeldMeansUsers
<1> QED
  BY <1>2, <1>3, <1>4

(* What a new list and the vector that may be registered for it leave of    *)
(* the others.                                                              *)
LEMMA NewListCounts ==
  ASSUME TypeOK, LoaderInv, RegistryInv, CountInv,
         NEW a \in Pointer, a # NULL => a \in FreeAddr, NewUserOf(a),
         \A k \in Backed : k \in Backed' /\ node'[k] = node[k],
         \A k \in Backed' \ Backed : /\ node'[k].addr = a
                                     /\ node'[k].refcount \in 0 .. MaxRef
                                     /\ node'[k].refcount >= Users(a)',
         \A k \in VectorModule : ListsOf(k) \subseteq ListsOf(k)',
         \A k \in Module : mstate[k] = "live" => mstate'[k] = "live",
         a # NULL /\ Held(a)' =>
           /\ mstate'["vector1"] = "live"
           /\ \E k \in VectorModule : mstate'[k] = "live" /\ a \in ListsOf(k)'
  PROVE  RefcountInRange' /\ RefcountCoversUsers' /\ HeldModulesLoaded'
<1>1. RefcountInRange'
  BY DEF CountInv, RefcountInRange
<1>2. \A x \in Addr : x # a => Users(x)' <= Users(x) /\ Users(x)' \in Int /\ Users(x) \in Int
  <2>1. ASSUME NEW x \in Addr, x # a
        PROVE  Users(x)' <= Users(x) /\ Users(x)' \in Int /\ Users(x) \in Int
    BY <2>1, HeldMeansUsers DEF NewUserOf
  <2> QED
    BY <2>1
<1>3. RefcountCoversUsers'
  <2>1. ASSUME NEW k \in Backed, NEW x, node[k].addr = x
        PROVE  node[k].refcount >= Users(x)'
    <3>1. x \in Addr /\ x # a
      BY <2>1, BackedModule, FreshUnheld, NULLAssumption
    <3>2. node[k].refcount >= Users(x)
      BY <2>1, <3>1, NULLAssumption, BackedModule DEF CountInv, RefcountCoversUsers
    <3>3. node[k].refcount \in Int
      BY DEF CountInv, RefcountInRange
    <3> QED
      BY <1>2, <3>1, <3>2, <3>3
  <2>2. ASSUME NEW k \in Listed', NEW x, x = node'[k].addr, x # NULL
        PROVE  node'[k].refcount >= Users(x)'
    <3>1. k \in Backed'
      BY <2>2 DEF Backed
    <3>2. CASE k \in Backed
      BY <2>1, <2>2, <3>2
    <3>3. CASE k \notin Backed
      BY <2>2, <3>1, <3>3
    <3> QED
      BY <3>2, <3>3
  <2> QED
    BY <2>2 DEF RefcountCoversUsers
<1>4. HeldModulesLoaded'
  <2> SUFFICES ASSUME NEW x \in Addr, Held(x)'
               PROVE  /\ mstate'["vector1"] = "live"
                      /\ \E k \in VectorModule : mstate'[k] = "live" /\ x \in ListsOf(k)'
    BY DEF HeldModulesLoaded
  <2>1. CASE x = a
    BY <2>1, NULLAssumption
  <2>2. CASE x # a
    <3>1. Held(x)
      <4>1. Users(x)' >= 1
        BY HeldMeansUsers
      <4>2. Users(x) >= 1
        BY <1>2, <2>2, <4>1
      <4> QED
        BY <4>2, HeldMeansUsers
    <3>2. VectorModule \subseteq Module /\ "vector1" \in Module
      BY DEF Module, VectorModule, StaticModule
    <3> QED
      BY <3>1, <3>2 DEF CountInv, HeldModulesLoaded
  <2> QED
    BY <2>1, <2>2
<1> QED
  BY <1>1, <1>3, <1>4

LEMMA CreateBuildCounts ==
  ASSUME TypeOK, LoaderInv, RegistryInv, CountInv, NEW t \in Task, CreateBuild(t)
  PROVE  CountInv'
<1> DEFINE dyn == "dynamic_vector"
<1>0. RegistryTypeOK
  BY DEF TypeOK
<1>1. /\ dyn \in VectorModule /\ mstate' = mstate
      /\ mstate[dyn] = "live" /\ mstate["vector1"] = "live"
  <2>1. pc[t] \in {"set", "create", "fault"}
    BY DEF CreateBuild
  <2> QED
    BY <2>1, RequestNeedsDynamic DEF VectorModule, CreateBuild
<1>2. PICK a \in Pointer :
        /\ BuildList(arg[t], a)
        /\ try_module_get(dyn)
        /\ \/ \E n \in Node : register_dynamic_syscall(n, arg[t], a, dyn)
           \/ RegisterFails
        /\ info' = [info EXCEPT ![t] = a]
        /\ va' = [va EXCEPT ![t] = NULL]
        /\ heads' = [heads EXCEPT ![dyn] = Append(@, a)]
  BY DEF CreateBuild, Return, Enter
<1>3. PICK list \in SUBSET Flavour :
        IF a = NULL THEN heap' = heap
        ELSE a \in FreeAddr /\ list # {} /\ heap' = [heap EXCEPT ![a] = list]
  BY <1>2, NULLAssumption
     DEF BuildList, VectorFromBitmap, Branches, FreeAddr
<1>4. \A k \in VectorModule :
        ListsOf(k)' = IF k = dyn THEN (ListsOf(dyn) \cup {a}) \ {NULL} ELSE ListsOf(k)
  BY <1>1, <1>2, <1>3, BuiltList DEF RegistryInv, VectorsInv
<1>5. \A k \in VectorModule : NULL \notin ListsOf(k)
  BY DEF ListsOf
<1>6. NewUserOf(a)
  BY <1>2, HandedOut
<1>7. /\ \A k \in VectorModule : mref'[k] = IF k = dyn THEN mref[k] + 1 ELSE mref[k]
      /\ \A k \in VectorModule : mref[k] \in Int
  BY <1>0, <1>1, <1>2 DEF try_module_get, RegistryTypeOK
<1> HIDE DEF dyn
<1>8. /\ a # NULL => a \in FreeAddr
      /\ \A k \in VectorModule : ListsOf(k) \subseteq ListsOf(k)'
      /\ \A k \in VectorModule : ListsOf(k)' \subseteq (ListsOf(k) \cup {a}) \ {NULL}
      /\ a # NULL => a \in ListsOf(dyn)'
  BY <1>1, <1>3, <1>4, <1>5
<1>9. ASSUME NEW p, \A k \in VectorModule :
                      /\ Pins(k)' \subseteq Pins(k) \cup {p}
                      /\ k # dyn => Pins(k)' \subseteq Pins(k)
      PROVE  PinsCounted' /\ GoingUnpinned'
  <2>1. GoingUnpinned'
    BY <1>1, <1>9 DEF CountInv, GoingUnpinned
  <2>2. ASSUME NEW k \in VectorModule
        PROVE  mref'[k] >= Cardinality(Pins(k)')
    <3>1. /\ mref[k] \in Int /\ mref[k] >= Cardinality(Pins(k))
          /\ IsFiniteSet(Pins(k)) /\ Cardinality(Pins(k)) \in Nat
      BY <1>7, PinsFinite DEF CountInv, PinsCounted
    <3>2. Cardinality(Pins(k)') <= Cardinality(Pins(k)) + 1
      BY <1>9, <3>1, SmallerCount
    <3>3. k # dyn => Cardinality(Pins(k)') <= Cardinality(Pins(k))
      BY <1>9, <3>1, SmallerCount
    <3>4. Cardinality(Pins(k)') \in Int
      <4>1. Pins(k)' \subseteq Pins(k) \cup {p} /\ IsFiniteSet(Pins(k) \cup {p})
        BY <1>9, <3>1, FS_AddElement
      <4> QED
        BY <4>1, FS_Subset, FS_CardinalityType
    <3> QED
      BY <1>7, <3>1, <3>2, <3>3, <3>4
  <2> QED
    BY <2>1, <2>2 DEF PinsCounted
<1>10. a # NULL => /\ mstate'["vector1"] = "live"
                   /\ \E k \in VectorModule : mstate'[k] = "live" /\ a \in ListsOf(k)'
  BY <1>1, <1>8
<1>11. CASE RegisterFails
  <2>1. UNCHANGED <<vec_list, node>>
    BY <1>11 DEF RegisterFails
  <2>2. Backed' = Backed
    BY <2>1 DEF Backed, Listed
  <2>3. RefcountInRange' /\ RefcountCoversUsers' /\ HeldModulesLoaded'
    BY <1>1, <1>6, <1>8, <1>10, <2>1, <2>2, NewListCounts
  <2>4. PinsCounted' /\ GoingUnpinned'
    <3>1. \A k \in VectorModule :
            ListsOf(k)' \subseteq IF k = dyn THEN (ListsOf(k) \cup {a}) \ {NULL} ELSE ListsOf(k)
      BY <1>4
    <3>2. \A k \in VectorModule :
            /\ Pins(k)' \subseteq Pins(k) \cup {<<a, 0>>}
            /\ k # dyn => Pins(k)' \subseteq Pins(k)
      BY <2>1, <3>1, PinsOrphaned
    <3> QED
      BY <1>9, <3>2
  <2> QED
    BY <2>3, <2>4 DEF CountInv
<1>12. ASSUME NEW n \in Node, AddVector(n, arg[t], a, dyn, 1)
       PROVE  CountInv'
  <2>1. /\ n \in Node \ Listed
        /\ node'[n].addr = a /\ node'[n].refcount = 1
        /\ \A k \in Node \ {n} : node'[k] = node[k]
        /\ Backed' = IF a = NULL THEN Backed ELSE Backed \cup {n}
    BY <1>0, <1>12, AddedNode
  <2>2. \A k \in Backed : k \in Backed' /\ node'[k] = node[k]
    BY <2>1, BackedModule
  <2>3. 1 \in 0 .. MaxRef
    BY MaxRefAssumption
  <2>4. a # NULL => Users(a)' <= 1
    <3>1. ASSUME a # NULL
          PROVE  Users(a)' <= 1
      <4>1. a \in Addr /\ Users(a) = 0
        BY <1>8, <3>1, FreshUnheld
      <4> QED
        BY <1>6, <4>1, HeldMeansUsers DEF NewUserOf
    <3> QED
      BY <3>1
  <2>5. \A k \in Backed' \ Backed : /\ node'[k].addr = a
                                    /\ node'[k].refcount \in 0 .. MaxRef
                                    /\ node'[k].refcount >= Users(a)'
    <3>1. \A k \in Backed' \ Backed : k = n /\ a # NULL
      BY <2>1
    <3>2. a # NULL => 1 >= Users(a)'
      BY <2>4, HeldMeansUsers
    <3> QED
      BY <2>1, <2>3, <3>1, <3>2
  <2>6. RefcountInRange' /\ RefcountCoversUsers' /\ HeldModulesLoaded'
    BY <1>1, <1>6, <1>8, <1>10, <2>2, <2>5, NewListCounts
  <2>7. PinsCounted' /\ GoingUnpinned'
    <3>1. \A k \in VectorModule :
            /\ Pins(k)' \subseteq Pins(k) \cup {<<n, 1>>}
            /\ k # dyn => Pins(k)' \subseteq Pins(k)
      BY <1>0, <1>8, <1>12, PinsAdded
    <3> QED
      BY <1>9, <3>1
  <2> QED
    BY <2>6, <2>7 DEF CountInv
<1> QED
  BY <1>2, <1>11, <1>12 DEF register_dynamic_syscall

LEMMA SameTasks ==
  ASSUME UNCHANGED <<info, va>>
  PROVE  /\ NoNewUsers /\ \A a : NewUserOf(a)
         /\ \A a : Users(a)' = Users(a) /\ Held(a)' = Held(a)
<1>1. \A a : Users(a)' = Users(a) /\ Held(a)' = Held(a)
  BY DEF Users, Held, Assigned, Carried
<1> QED
  BY <1>1, HeldMeansUsers DEF NoNewUsers, NewUserOf

LEMMA InsmodStaticCounts ==
  ASSUME TypeOK, LoaderInv, RegistryInv, CountInv,
         NEW m \in StaticModule, InsmodStatic(m)
  PROVE  CountInv'
<1>0. RegistryTypeOK
  BY DEF TypeOK
<1>1. PICK a \in FreeAddr :
        \/ /\ \E n \in Node : register_syscall(n, StaticBitmap(m), a, m)
           /\ mstate' = [mstate EXCEPT ![m] = "live"]
           /\ heads' = [heads EXCEPT ![m] = <<a>>]
        \/ RegisterFails /\ UNCHANGED <<mstate, heads>>
  BY DEF InsmodStatic
<1>2. /\ m \in VectorModule /\ m \in Module /\ mstate[m] = "absent"
      /\ heads[m] = <<>> /\ mref' = mref
  BY DEF InsmodStatic, CanInsmod, VectorModule, Module, LoaderInv, NoListsWhenAbsent
<1>3. /\ NoNewUsers /\ NewUserOf(a)
      /\ \A x : Users(x)' = Users(x) /\ Held(x)' = Held(x)
  <2>1. UNCHANGED <<info, va>>
    BY DEF InsmodStatic, taskVars
  <2> QED
    BY <2>1, SameTasks
<1>4. a \in Addr /\ a \in Pointer /\ a # NULL /\ ~ Held(a) /\ Users(a) = 0
  BY FreshUnheld DEF Pointer
<1>5. CASE RegisterFails /\ UNCHANGED <<mstate, heads>>
  <2>1. UNCHANGED <<vec_list, node, heads>>
    BY <1>5 DEF RegisterFails
  <2> QED
    BY <1>2, <1>3, <1>5, <2>1, ModuleCounts
       DEF CountInv, PinsCounted, GoingUnpinned, HeldModulesLoaded
<1>6. ASSUME NEW n \in Node, AddVector(n, StaticBitmap(m), a, m, 0),
             mstate' = [mstate EXCEPT ![m] = "live"],
             heads' = [heads EXCEPT ![m] = <<a>>]
      PROVE  CountInv'
  <2>1. /\ n \in Node \ Listed
        /\ node'[n].addr = a /\ node'[n].refcount = 0
        /\ \A k \in Node \ {n} : node'[k] = node[k]
        /\ Backed' = Backed \cup {n}
    BY <1>0, <1>4, <1>6, AddedNode
  <2>2. \A k \in Backed : k \in Backed' /\ node'[k] = node[k]
    BY <2>1, BackedModule
  <2>3. 0 \in 0 .. MaxRef
    BY MaxRefAssumption
  <2>4. /\ ListsOf(m) = {}
        /\ \A k \in VectorModule \ {m} : ListsOf(k)' = ListsOf(k)
        /\ ListsOf(m)' \subseteq {a} \ {NULL}
    <3>1. heads'[m] = <<a>> /\ \A k \in VectorModule \ {m} : heads'[k] = heads[k]
      BY <1>2, <1>6 DEF TypeOK
    <3> QED
      BY <1>2, <1>4, <3>1 DEF ListsOf
  <2>5. \A k \in VectorModule :
          /\ ListsOf(k) \subseteq ListsOf(k)'
          /\ ListsOf(k)' \subseteq (ListsOf(k) \cup {a}) \ {NULL}
    BY <2>4 DEF ListsOf
  <2>6. \A k \in Module : /\ mstate[k] = "live" => mstate'[k] = "live"
                          /\ mstate'[k] = "going" => mstate[k] = "going"
    BY <1>0, <1>6 DEF RegistryTypeOK
  <2>7. \A k \in Backed' \ Backed : /\ node'[k].addr = a
                                    /\ node'[k].refcount \in 0 .. MaxRef
                                    /\ node'[k].refcount >= Users(a)'
    <3>1. Users(a)' = 0
      BY <1>3, <1>4
    <3> QED
      BY <2>1, <2>3, <3>1
  <2>8. RefcountInRange' /\ RefcountCoversUsers' /\ HeldModulesLoaded'
    <3>1. ~ Held(a)'
      BY <1>3, <1>4, HeldMeansUsers
    <3> QED
      BY <1>3, <1>4, <2>2, <2>5, <2>6, <2>7, <3>1, NewListCounts
  <2>9. \A k \in VectorModule : Pins(k)' \subseteq Pins(k)
    BY <1>0, <1>6, <2>5, PinsAdded
  <2>10. PinsCounted'
    <3> SUFFICES ASSUME NEW k \in VectorModule
                 PROVE  mref'[k] >= Cardinality(Pins(k)')
      BY DEF PinsCounted
    <3>1. /\ mref[k] \in Int /\ mref[k] >= Cardinality(Pins(k))
          /\ IsFiniteSet(Pins(k)) /\ Cardinality(Pins(k)) \in Nat
      BY <1>0, PinsFinite DEF RegistryTypeOK, CountInv, PinsCounted
    <3>2. /\ Cardinality(Pins(k)') <= Cardinality(Pins(k))
          /\ Cardinality(Pins(k)') \in Nat
      BY <2>9, <3>1, FS_Subset, FS_CardinalityType
    <3> QED
      BY <1>2, <3>1, <3>2
  <2>11. GoingUnpinned'
    <3> SUFFICES ASSUME NEW k \in VectorModule, mstate'[k] = "going"
                 PROVE  Pins(k)' = {}
      BY DEF GoingUnpinned
    <3>1. Pins(k) = {}
      BY <2>6 DEF CountInv, GoingUnpinned, Module
    <3> QED
      BY <2>9, <3>1
  <2> QED
    BY <2>8, <2>10, <2>11 DEF CountInv
<1> QED
  BY <1>1, <1>5, <1>6 DEF register_syscall

-------------------------------------------------------------------------------
(* The module loader. *)

LEMMA InsmodCounts ==
  ASSUME TypeOK, CountInv, NEW m \in Module, Insmod(m)
  PROVE  CountInv'
<1>1. /\ UNCHANGED <<vec_list, node, heads>> /\ mref' = mref
      /\ mstate' = [mstate EXCEPT ![m] = "live"]
      /\ NoNewUsers
  BY SameTasks DEF Insmod, listVars
<1>2. \A k \in Module : /\ mstate[k] = "live" => mstate'[k] = "live"
                        /\ mstate'[k] = "going" => mstate[k] = "going"
  BY <1>1 DEF TypeOK, RegistryTypeOK
<1>3. VectorModule \subseteq Module /\ "vector1" \in Module
  BY DEF Module, VectorModule, StaticModule
<1>4. \A k \in VectorModule :
        /\ mref'[k] >= Cardinality(Pins(k))
        /\ mstate'[k] = "going" => Pins(k) = {}
  BY <1>1, <1>2, <1>3 DEF CountInv, PinsCounted, GoingUnpinned
<1>5. \A a \in Addr : Held(a) =>
        /\ mstate'["vector1"] = "live"
        /\ \E k \in VectorModule : mstate'[k] = "live" /\ a \in ListsOf(k)
  BY <1>2, <1>3 DEF CountInv, HeldModulesLoaded
<1> QED
  BY <1>1, <1>4, <1>5, ModuleCounts

(* A module without references: nobody uses its lists. *)
LEMMA UnpinnedUnheld ==
  ASSUME TypeOK, RegistryInv, CountInv, NEW m \in VectorModule, Pins(m) = {},
         NEW a \in ListsOf(m) \cap Addr
  PROVE  ~ Held(a)
<1>1. PICK n \in Backed : node[n].addr = a
  BY UnpinnedVectors DEF TypeOK, CountInv
<1>2. node[n].module \in VectorModule /\ a \in ListsOf(node[n].module)
  BY <1>1 DEF RegistryInv, VectorsInv, NodesHaveLists
<1>3. ASSUME NEW k \in VectorModule, a \in ListsOf(k)
      PROVE  k = m
  BY <1>3 DEF RegistryInv, VectorsInv, ListsDistinct, ListsOf
<1>4. node[n].refcount = 0
  BY <1>2, <1>3, UnpinnedVectors DEF TypeOK, CountInv
<1>5. node[n].refcount >= Users(a)
  BY <1>1, NULLAssumption DEF CountInv, RefcountCoversUsers, Backed
<1> QED
  BY <1>4, <1>5, HeldMeansUsers

LEMMA RmmodBeginCounts ==
  ASSUME TypeOK, LoaderInv, RegistryInv, CountInv, NEW m \in Module, RmmodBegin(m)
  PROVE  CountInv'
<1>1. /\ UNCHANGED <<vec_list, node, heads>> /\ mref' = mref
      /\ mstate[m] = "live" /\ mstate' = [mstate EXCEPT ![m] = "going"]
      /\ NoNewUsers
  BY SameTasks DEF RmmodBegin, listVars, taskVars
<1>2. \A k \in Module \ {m} : mstate'[k] = mstate[k]
  BY <1>1 DEF TypeOK, RegistryTypeOK
<1>3. /\ VectorModule \subseteq Module /\ "vector1" \in Module
      /\ m \in VectorModule \/ m = "ioctl_module"
      /\ "ioctl_module" \notin VectorModule
  BY DEF Module, VectorModule, StaticModule
<1>4. m \in VectorModule => Pins(m) = {}
  <2>1. ASSUME m \in VectorModule
        PROVE  Pins(m) = {}
    <3>1. mref[m] = 0
      BY <1>3, <2>1 DEF RmmodBegin
    <3>2. /\ 0 >= Cardinality(Pins(m))
          /\ IsFiniteSet(Pins(m)) /\ Cardinality(Pins(m)) \in Nat
      BY <2>1, <3>1, PinsFinite DEF CountInv, PinsCounted
    <3> QED
      BY <3>2, FS_EmptySet
  <2> QED
    BY <2>1
<1>5. \A k \in VectorModule :
        /\ mref'[k] >= Cardinality(Pins(k))
        /\ mstate'[k] = "going" => Pins(k) = {}
  BY <1>1, <1>2, <1>3, <1>4 DEF CountInv, PinsCounted, GoingUnpinned
<1>6. ASSUME NEW a \in Addr, Held(a)
      PROVE  /\ mstate'["vector1"] = "live"
             /\ \E k \in VectorModule : mstate'[k] = "live" /\ a \in ListsOf(k)
  <2>1. PICK k \in VectorModule : mstate[k] = "live" /\ a \in ListsOf(k)
    BY <1>6 DEF CountInv, HeldModulesLoaded
  <2>2. k # m
    BY <1>4, <1>6, <2>1, UnpinnedUnheld
  <2>3. mstate["vector1"] = "live"
    BY <1>6 DEF CountInv, HeldModulesLoaded
  <2>4. m # "vector1"
    <3>1. k # "vector1" => "vector1" \in Requires(k)
      BY <2>1 DEF Requires, VectorModule, StaticModule
    <3> QED
      BY <1>3, <2>1, <2>2, <3>1 DEF RmmodBegin
  <2> QED
    BY <1>2, <1>3, <2>1, <2>2, <2>3, <2>4
<1> QED
  BY <1>1, <1>5, <1>6, ModuleCounts

LEMMA RmmodEndCounts ==
  ASSUME TypeOK, CountInv, NEW m \in Module, RmmodEnd(m)
  PROVE  CountInv'
<1>1. /\ UNCHANGED <<vec_list, node, heads>>
      /\ mstate[m] = "going" /\ mstate' = [mstate EXCEPT ![m] = "absent"]
      /\ mref' = [x \in VectorModule |-> IF x = m THEN 0 ELSE mref[x]]
      /\ NoNewUsers
  BY SameTasks DEF RmmodEnd, listVars, taskVars
<1>2. /\ mstate'[m] = "absent"
      /\ \A k \in Module \ {m} : mstate'[k] = mstate[k]
  BY <1>1 DEF TypeOK, RegistryTypeOK
<1>3. VectorModule \subseteq Module /\ "vector1" \in Module
  BY DEF Module, VectorModule, StaticModule
<1>4. \A k \in VectorModule :
        /\ mref'[k] >= Cardinality(Pins(k))
        /\ mstate'[k] = "going" => Pins(k) = {}
  <2>1. m \in VectorModule => Pins(m) = {} /\ Cardinality(Pins(m)) = 0
    BY <1>1, FS_EmptySet DEF CountInv, GoingUnpinned
  <2> QED
    BY <1>1, <1>2, <1>3, <2>1 DEF CountInv, PinsCounted, GoingUnpinned
<1>5. \A a \in Addr : Held(a) =>
        /\ mstate'["vector1"] = "live"
        /\ \E k \in VectorModule : mstate'[k] = "live" /\ a \in ListsOf(k)
  BY <1>1, <1>2, <1>3 DEF CountInv, HeldModulesLoaded
<1> QED
  BY <1>1, <1>4, <1>5, ModuleCounts

(* A list that is freed takes no other vector's references with it. *)
LEMMA CleanupHeadPins ==
  ASSUME TypeOK, RegistryInv, CountInv, NEW m \in Module, CleanupHead(m)
  PROVE  \A k \in VectorModule : Pins(k)' \subseteq Pins(k)
<1> DEFINE h == Head(heads[m])
<1>1. m \in VectorModule /\ mstate[m] = "going"
  BY DEF CleanupHead
<1>2. /\ Backed' = {n \in Backed : node[n].addr # h}
      /\ \A n \in Backed' : node'[n] = node[n]
      /\ \A k \in VectorModule : ListsOf(k)' = ListsOf(k) \ {h}
  BY <1>1, CleanupHeadProperties DEF RegistryInv, CountInv
<1> HIDE DEF h
<1> TAKE k \in VectorModule
<1>3. ASSUME NEW p \in VectorPins(k)'
      PROVE  p \in VectorPins(k)
  <2>1. /\ p \in Node \X (1 .. MaxRef) /\ p[1] \in Backed'
        /\ node'[p[1]].module = k /\ p[2] <= node'[p[1]].refcount
    BY DEF VectorPins
  <2>2. p[1] \in Backed /\ node'[p[1]] = node[p[1]]
    BY <1>2, <2>1
  <2> QED
    BY <2>1, <2>2 DEF VectorPins
<1>4. ASSUME NEW p \in OrphanPins(k)'
      PROVE  p \in OrphanPins(k)
  <2>1. /\ p \in Addr \X {0} /\ p[1] \in ListsOf(k)'
        /\ \A n \in Backed' : node'[n].addr # p[1]
    BY DEF OrphanPins
  <2>2. p[1] \in ListsOf(k) /\ p[1] # h
    BY <1>2, <2>1
  <2>3. \A n \in Backed : node[n].addr # p[1]
    BY <1>2, <2>1, <2>2
  <2> QED
    BY <2>1, <2>2, <2>3 DEF OrphanPins
<1> QED
  BY <1>3, <1>4 DEF Pins

LEMMA CleanupHeadCounts ==
  ASSUME TypeOK, RegistryInv, CountInv, NEW m \in Module, CleanupHead(m)
  PROVE  CountInv'
<1> DEFINE h == Head(heads[m])
<1>1. /\ m \in VectorModule /\ mstate[m] = "going"
      /\ mstate' = mstate /\ mref' = mref /\ UNCHANGED <<info, va>>
  BY DEF CleanupHead, taskVars
<1>2. /\ Backed' = {n \in Backed : node[n].addr # h}
      /\ \A n \in Backed' : node'[n] = node[n]
      /\ \A k \in VectorModule : ListsOf(k)' = ListsOf(k) \ {h}
      /\ h # NULL => h \in ListsOf(m)
  BY <1>1, CleanupHeadProperties DEF RegistryInv, CountInv
<1> HIDE DEF h
<1>3. \A a : Users(a)' = Users(a) /\ Held(a)' = Held(a)
  BY <1>1, SameTasks
<1>4. RefcountInRange'
  BY <1>2 DEF CountInv, RefcountInRange
<1>5. RefcountCoversUsers'
  <2>1. ASSUME NEW n \in Listed', NEW a, a = node'[n].addr, a # NULL
        PROVE  node'[n].refcount >= Users(a)'
    <3>1. n \in Backed' /\ n \in Backed /\ n \in Listed /\ node'[n] = node[n]
      BY <1>2, <2>1 DEF Backed
    <3> QED
      BY <1>3, <2>1, <3>1 DEF CountInv, RefcountCoversUsers
  <2> QED
    BY <2>1 DEF RefcountCoversUsers
<1>6. HeldModulesLoaded'
  <2>1. ASSUME NEW a \in Addr, Held(a)
        PROVE  /\ mstate["vector1"] = "live"
               /\ \E k \in VectorModule : mstate[k] = "live" /\ a \in ListsOf(k)'
    <3>1. mstate["vector1"] = "live"
      BY <2>1 DEF CountInv, HeldModulesLoaded
    <3>2. PICK k \in VectorModule : mstate[k] = "live" /\ a \in ListsOf(k)
      BY <2>1 DEF CountInv, HeldModulesLoaded
    <3>3. a # h
      <4>1. ASSUME a \in ListsOf(m)
            PROVE  k = m
        BY <3>2, <4>1, <1>1 DEF RegistryInv, VectorsInv, ListsDistinct, ListsOf
      <4> QED
        BY <1>1, <1>2, <3>2, <4>1, NULLAssumption
    <3> QED
      BY <1>2, <3>1, <3>2, <3>3
  <2> QED
    BY <1>1, <1>3, <2>1 DEF HeldModulesLoaded
<1>7. \A k \in VectorModule : Pins(k)' \subseteq Pins(k)
  BY CleanupHeadPins
<1>8. PinsCounted'
  <2> SUFFICES ASSUME NEW k \in VectorModule
               PROVE  mref[k] >= Cardinality(Pins(k)')
    BY <1>1 DEF PinsCounted
  <2>1. /\ mref[k] \in Int /\ mref[k] >= Cardinality(Pins(k))
        /\ IsFiniteSet(Pins(k)) /\ Cardinality(Pins(k)) \in Nat
    BY PinsFinite DEF TypeOK, RegistryTypeOK, CountInv, PinsCounted
  <2>2. /\ Cardinality(Pins(k)') <= Cardinality(Pins(k))
        /\ Cardinality(Pins(k)') \in Nat
    BY <1>7, <2>1, FS_Subset, FS_CardinalityType
  <2> QED
    BY <2>1, <2>2
<1>9. GoingUnpinned'
  BY <1>1, <1>7 DEF CountInv, GoingUnpinned
<1> QED
  BY <1>4, <1>5, <1>6, <1>8, <1>9 DEF CountInv

-------------------------------------------------------------------------------
(* Every step keeps CountInv. *)

LEMMA RequestCounts ==
  ASSUME TypeOK, LoaderInv, RegistryInv, CountInv, Careful,
         NEW t \in Task, Request(t)
  PROVE  CountInv'
<1>1. ASSUME NEW b \in Bitmaps, SetLookup(t, b)
      PROVE  CountInv'
  <2>1. PICK i \in Cursor : /\ TakeRef(i)
                            /\ va' = va \/ va' = [va EXCEPT ![t] = AddrAt(i)]
    BY <1>1 DEF SetLookup, get_vector_address, Enter, taskVars
  <2>2. /\ MayLookUp /\ info' = info /\ UNCHANGED <<vec_list, mstate, listVars>>
    BY <1>1 DEF SetLookup, taskVars
  <2> QED
    BY <2>1, <2>2, LookupCounts
<1>2. ASSUME NEW b \in Bitmaps, CreateLookup(t, b)
      PROVE  CountInv'
  <2>1. PICK i \in Cursor : TakeRef(i) /\ va' = [va EXCEPT ![t] = AddrAt(i)]
    BY <1>2 DEF CreateLookup, check_any_current_vector, Enter
  <2>2. /\ MayLookUp /\ info' = info /\ UNCHANGED <<vec_list, mstate, listVars>>
    BY <1>2 DEF CreateLookup
  <2> QED
    BY <2>1, <2>2, LookupCounts
<1>3. CASE SetAssign(t)
  <2>1. UNCHANGED <<node, mref>>
    BY <1>3, NothingReduced DEF SetAssign
  <2> QED
    BY <1>3, <2>1, HandOverCounts DEF SetAssign, Return, Enter
<1>4. CASE CreateExisting(t) \/ CreateNoMemory(t)
  BY <1>4, HandOverCounts
     DEF CreateExisting, CreateNoMemory, Return, Enter, registryVars
<1>5. CASE NameCrashes(t) \/ FaultCrashes(t)
  BY <1>5, EndIsEndsTask, EndCounts
<1> QED
  BY <1>1, <1>2, <1>3, <1>4, <1>5, RemoveVectorCounts, CreateBuildCounts DEF Request

LEMMA LoaderCounts ==
  ASSUME TypeOK, LoaderInv, RegistryInv, CountInv, Loader
  PROVE  CountInv'
BY InsmodStaticCounts, InsmodCounts, RmmodBeginCounts, CleanupHeadCounts,
   RmmodEndCounts DEF Loader

LEMMA StepKeepsCounts ==
  ASSUME TypeOK, LoaderInv, RegistryInv, CountInv, Careful, [Next]_vars
  PROVE  CountInv'
<1>1. CASE UNCHANGED vars
  <2>1. NoNewUsers
    BY <1>1, SameTasks DEF vars, taskVars
  <2> QED
    BY <1>1, <2>1, QuietCounts DEF vars, registryVars
<1> QED
  BY <1>1, RequestCounts, ProcessCounts, LoaderCounts DEF Next

-------------------------------------------------------------------------------
(* The theorems. *)

LEMMA InitLifetime ==
  ASSUME Init
  PROVE  LifetimeInv
<1>1. TypeOK
  BY InitType
<1>2. /\ vec_list = <<>> /\ Listed = {} /\ Backed = {}
      /\ \A m \in VectorModule : heads[m] = <<>> /\ ListsOf(m) = {}
      /\ \A m \in Module : mstate[m] = "absent"
      /\ \A m \in VectorModule : mref[m] = 0
      /\ \A t \in Task : info[t] = NULL /\ va[t] = NULL /\ pc[t] \in {"user", "dead"}
      /\ mutexlock = NoTask
  BY DEF Init, RegistryInit, Listed, Backed, ListsOf
<1>3. \A a \in Addr : ~ Held(a)
  BY <1>2, NULLAssumption DEF Held, Assigned, Carried
<1>4. \A m \in VectorModule : Pins(m) = {} /\ Cardinality(Pins(m)) = 0
  <2>1. \A m \in VectorModule : Pins(m) = {}
    BY <1>2 DEF Pins, VectorPins, OrphanPins
  <2> QED
    BY <2>1, FS_EmptySet
<1>5. LoaderInv
  BY <1>2 DEF LoaderInv, DependenciesIn, NoListsWhenAbsent, MutexHeld, Serving
<1>6. RegistryInv
  BY <1>2 DEF RegistryInv, VectorsInv, CreateIsNew, ListedOnce, ListsAllocated,
              ListsDistinct, NodesHaveLists, OneNodePerList, StaticNodes, HidesOnlyEmpty
<1>7. CountInv
  BY <1>2, <1>3, <1>4
     DEF CountInv, RefcountInRange, RefcountCoversUsers, HeldModulesLoaded,
         PinsCounted, GoingUnpinned
<1> QED
  BY <1>1, <1>5, <1>6, <1>7 DEF LifetimeInv

LEMMA StepKeepsLifetime ==
  ASSUME LifetimeInv, Careful, [Next]_vars
  PROVE  LifetimeInv'
<1>1. /\ TypeOK /\ LoaderInv /\ RegistryInv /\ CountInv
      /\ RefcountInRange /\ GoingUnpinned
  BY DEF LifetimeInv, CountInv
<1>2. TypeOK'
  BY <1>1, StepKeepsType
<1> QED
  BY <1>1, <1>2, StepKeepsLoader, StepKeepsRegistry, StepKeepsCounts DEF LifetimeInv

(* Given Careful, the lists, the refcounts and the module references agree  *)
(* with each other and with the tasks at all times.                         *)
THEOREM LifetimeInvariant ==
  ASSUME Careful
  PROVE  Spec => []LifetimeInv
<1>1. Init => LifetimeInv
  BY InitLifetime
<1>2. LifetimeInv /\ [Next]_vars => LifetimeInv'
  BY StepKeepsLifetime
<1> QED
  BY <1>1, <1>2, PTL DEF Spec

(* Given Careful, no rmmod frees the list of a vector that a task has or a  *)
(* request is about to assign.                                              *)
THEOREM NoneDangles ==
  ASSUME Careful
  PROVE  Spec => []NoDanglingVector
<1>1. LifetimeInv => NoDanglingVector
  BY DEF LifetimeInv, CountInv, HeldModulesLoaded, NoDanglingVector,
         RegistryInv, VectorsInv, ListsAllocated
<1> QED
  BY <1>1, LifetimeInvariant, PTL

(* Given Careful, the module a task's vector came from and vector1, whose   *)
(* code it calls, stay in.                                                  *)
THEOREM ModulesStay ==
  ASSUME Careful
  PROVE  Spec => []HeldModulesLoaded
<1>1. LifetimeInv => HeldModulesLoaded
  BY DEF LifetimeInv, CountInv
<1> QED
  BY <1>1, LifetimeInvariant, PTL

(* Given Careful, a refcount never falls below the number of users: no      *)
(* sequence of SET, REMOVE, CREATE, clone2, fork and exit drops one twice.  *)
THEOREM UsersAreCounted ==
  ASSUME Careful
  PROVE  Spec => []RefcountCoversUsers
<1>1. LifetimeInv => RefcountCoversUsers
  BY DEF LifetimeInv, CountInv
<1> QED
  BY <1>1, LifetimeInvariant, PTL

(* Given Careful, a name or bitmap reaches the vector that has the list.    *)
THEOREM NamesReachLists ==
  ASSUME Careful
  PROVE  Spec => []HidesOnlyEmpty
<1>1. LifetimeInv => HidesOnlyEmpty
  BY DEF LifetimeInv, RegistryInv, VectorsInv
<1> QED
  BY <1>1, LifetimeInvariant, PTL

LEMMA StepSparesHeldLists ==
  ASSUME LifetimeInv, [Next]_vars, NEW a \in Addr, Held(a)
  PROVE  heap'[a] = heap[a]
<1>1. TypeOK /\ RegistryInv /\ CountInv
  BY DEF LifetimeInv
<1>2. ASSUME NEW b \in FreeAddr
      PROVE  b # a
  BY <1>1, FreshUnheld
<1>3. CASE UNCHANGED heap
  BY <1>3
<1>4. ASSUME NEW b, NEW list, heap' = [heap EXCEPT ![b] = list], b # a
      PROVE  heap'[a] = heap[a]
  BY <1>1, <1>4 DEF TypeOK
<1>5. ASSUME NEW t \in Task, CreateBuild(t)
      PROVE  heap'[a] = heap[a]
  BY <1>2, <1>3, <1>4, <1>5 DEF CreateBuild, BuildList
<1>6. ASSUME NEW m \in StaticModule, InsmodStatic(m)
      PROVE  heap'[a] = heap[a]
  BY <1>2, <1>4, <1>6 DEF InsmodStatic
<1>7. ASSUME NEW m \in Module, CleanupHead(m)
      PROVE  heap'[a] = heap[a]
  <2>1. m \in VectorModule /\ mstate[m] = "going"
    BY <1>7 DEF CleanupHead
  <2>2. Head(heads[m]) # NULL => Head(heads[m]) \in ListsOf(m)
    BY <1>1, <1>7, <2>1, CleanupHeadProperties DEF RegistryInv, CountInv
  <2>3. Pins(m) = {}
    BY <1>1, <2>1 DEF CountInv, GoingUnpinned
  <2>4. a \notin ListsOf(m)
    BY <1>1, <2>1, <2>3, UnpinnedUnheld
  <2>5. CASE Head(heads[m]) = NULL
    BY <1>3, <1>7, <2>5 DEF CleanupHead
  <2>6. CASE Head(heads[m]) # NULL
    BY <1>4, <1>7, <2>2, <2>4, <2>6 DEF CleanupHead
  <2> QED
    BY <2>5, <2>6
<1>8. ASSUME NEW t \in Task, Request(t) \/ Process(t)
      PROVE  CreateBuild(t) \/ UNCHANGED heap
  BY <1>8 DEF Request, SetLookup, RemoveVector, CreateLookup, SetAssign,
              CreateExisting, CreateNoMemory, NameCrashes, FaultCrashes, CrashesAt,
              Process, CloneInherit, KernelCounts, ForkInherit, CloneById,
              CloneForks, Fork, CloneFails, Exit, EndsTask, listVars
<1>9. Loader => \/ \E m \in StaticModule : InsmodStatic(m)
                \/ \E m \in Module : CleanupHead(m)
                \/ UNCHANGED heap
  BY DEF Loader, Insmod, RmmodBegin, RmmodEnd, listVars
<1>10. CASE UNCHANGED vars
  BY <1>3, <1>10 DEF vars, listVars
<1> QED
  BY <1>3, <1>5, <1>6, <1>7, <1>8, <1>9, <1>10 DEF Next

(* Given Careful, the list a task dispatches its system calls through is    *)
(* never freed or rebuilt under it.                                         *)
THEOREM HeldListsStay ==
  ASSUME Careful
  PROVE  Spec => HeldListUnchanged
<1>1. LifetimeInv /\ [Next]_vars => [\A a \in Addr : Held(a) => heap'[a] = heap[a]]_vars
  BY StepSparesHeldLists
<1> QED
  BY <1>1, LifetimeInvariant, PTL DEF Spec, HeldListUnchanged

(* A vector whose list somebody holds stays in the registry as it is.       *)
LEMMA HeldVectorStays ==
  ASSUME LifetimeInv, [Next]_vars, NEW n \in Backed, NEW a \in Addr, Held(a),
         node[n].addr = a
  PROVE  /\ n \in Backed' /\ node'[n].addr = a
         /\ node'[n].bitmap = node[n].bitmap
<1>1. /\ TypeOK /\ RegistryInv /\ CountInv
      /\ n \in Node /\ n \in Listed /\ a # NULL
  BY ListedNodes, NULLAssumption DEF LifetimeInv, TypeOK, Backed
<1>2. ASSUME NEW k, NEW b, NEW c, NEW m, NEW d, AddVector(k, b, c, m, d)
      PROVE  /\ n \in Backed' /\ node'[n].addr = a
             /\ node'[n].bitmap = node[n].bitmap
  <2>1. /\ k \in Node \ Listed /\ Listed' = Listed \cup {k}
        /\ \A x \in Node \ {k} : node'[x] = node[x]
    BY <1>1, <1>2, AddedNode DEF TypeOK
  <2> QED
    BY <1>1, <2>1 DEF Backed
<1>3. ASSUME NEW m \in VectorModule, CleanupHead(m)
      PROVE  /\ n \in Backed' /\ node'[n].addr = a
             /\ node'[n].bitmap = node[n].bitmap
  <2> DEFINE h == Head(heads[m])
  <2>1. /\ mstate[m] = "going"
        /\ Backed' = {x \in Backed : node[x].addr # h}
        /\ \A x \in Backed' : node'[x] = node[x]
        /\ h # NULL => h \in ListsOf(m)
    BY <1>1, <1>3, CleanupHeadProperties DEF CleanupHead, RegistryInv, CountInv
  <2>2. Pins(m) = {}
    BY <1>1, <2>1 DEF CountInv, GoingUnpinned
  <2>3. a \notin ListsOf(m)
    BY <1>1, <2>2, UnpinnedUnheld
  <2> HIDE DEF h
  <2>4. n \in Backed'
    BY <1>1, <2>1, <2>3
  <2> QED
    BY <2>1, <2>4
<1>4. CASE UNCHANGED <<vec_list, node>>
  BY <1>1, <1>4 DEF Backed, Listed
<1>5. ASSUME NEW i \in Cursor, TakeRef(i) \/ DropRef(i), UNCHANGED vec_list
      PROVE  /\ n \in Backed' /\ node'[n].addr = a
             /\ node'[n].bitmap = node[n].bitmap
  <2>1. CASE i = 0
    BY <1>4, <1>5, <2>1 DEF TakeRef, DropRef
  <2>2. CASE i # 0
    <3>1. PICK c : node' = [node EXCEPT ![vec_list[i]].refcount = c]
      BY <1>5, <2>2 DEF TakeRef, DropRef
    <3>2. node[n] \in Vector /\ node \in [Node -> Vector]
      BY <1>1 DEF TypeOK, RegistryTypeOK
    <3>3. /\ node'[n].bitmap = node[n].bitmap /\ node'[n].addr = node[n].addr
      BY <1>1, <3>1, <3>2 DEF Vector
    <3> QED
      BY <1>1, <1>5, <3>3 DEF Backed, Listed
  <2> QED
    BY <2>1, <2>2
<1>6. ASSUME NEW t \in Task, Request(t) \/ Process(t)
      PROVE  \/ UNCHANGED <<vec_list, node>>
             \/ \E i \in Cursor : (TakeRef(i) \/ DropRef(i)) /\ UNCHANGED vec_list
             \/ \E k, b, c, m, d : AddVector(k, b, c, m, d)
  <2>1. CASE Request(t)
    BY <2>1 DEF Request, SetLookup, RemoveVector, CreateLookup, SetAssign,
       if_assigned_reduce, CreateExisting, CreateNoMemory, CreateBuild,
       get_vector_address, check_any_current_vector, reduce_ref_count,
       register_dynamic_syscall, RegisterFails, registryVars, NameCrashes,
       FaultCrashes, CrashesAt, EndsTask, reduce_ref_count_from_address
  <2>2. CASE Process(t)
    BY <2>2 DEF Process, CloneInherit, KernelCounts, ForkInherit, CloneById,
       CloneForks, Fork, CloneFails, Exit, EndsTask,
       get_vector_address_from_id, increment_ref_count_from_address,
       reduce_ref_count_from_address, registryVars
  <2> QED
    BY <1>6, <2>1, <2>2
<1>7. ASSUME Loader
      PROVE  \/ UNCHANGED <<vec_list, node>>
             \/ \E m \in VectorModule : CleanupHead(m)
             \/ \E k, b, c, m, d : AddVector(k, b, c, m, d)
  BY <1>7 DEF Loader, InsmodStatic, Insmod, RmmodBegin, RmmodEnd, CleanupHead,
     register_syscall, RegisterFails
<1> QED
  BY <1>2, <1>3, <1>4, <1>5, <1>6, <1>7 DEF Next, vars, registryVars

-------------------------------------------------------------------------------
(* VectorSystem implements VectorLease: every step of the registry, the     *)
(* requests, sys_clone2, fork, exit and the module loader is one step of    *)
(* the lending of lists, or none.  What the refcounts are for is in         *)
(* LifetimeInv; here it is used of a list that is borrowed (it is there)    *)
(* and of one that is withdrawn (nobody has it).                            *)

(* A task carries an address only inside a request, SET never carries 0,    *)
(* and a task that does not exist or has crashed has no vector.             *)
CarriesInside ==
  \A t \in Task :
    /\ pc[t] \in Ended => info[t] = NULL
    /\ pc[t] \in Ended \cup {"user"} => va[t] = NULL
    /\ pc[t] = "set" => va[t] # NULL

LEMMA InitCarries == Init => CarriesInside
BY DEF Init, CarriesInside

LEMMA EndCarries ==
  ASSUME TypeOK, CarriesInside, NEW t \in Task, NEW end \in Ended, EndsTask(t, end)
  PROVE  CarriesInside'
<1>1. /\ pc' = [pc EXCEPT ![t] = end] /\ info' = [info EXCEPT ![t] = NULL]
      /\ va' = va /\ va[t] = NULL /\ end # "set"
  BY DEF EndsTask, CarriesInside, Ended, Crashed
<1> QED
  BY <1>1 DEF CarriesInside, TypeOK

LEMMA RequestCarries ==
  ASSUME TypeOK, CarriesInside, NEW t \in Task, Request(t)
  PROVE  CarriesInside'
<1>1. ASSUME NEW b \in Bitmaps, SetLookup(t, b) \/ CreateLookup(t, b)
      PROVE  CarriesInside'
  BY <1>1 DEF SetLookup, CreateLookup, Enter, CarriesInside, TypeOK, taskVars,
              Ended, Crashed
<1>2. ASSUME NEW b \in Bitmaps, RemoveVector(t, b)
      PROVE  CarriesInside'
  BY <1>2 DEF RemoveVector, IoctlReady, CarriesInside, TypeOK
<1>3. CASE SetAssign(t) \/ CreateExisting(t)
  BY <1>3 DEF SetAssign, CreateExisting, Return, Enter, CarriesInside, TypeOK, Ended, Crashed
<1>4. CASE CreateNoMemory(t)
  BY <1>4 DEF CreateNoMemory, Return, Enter, CarriesInside, TypeOK, Ended, Crashed
<1>5. CASE CreateBuild(t)
  BY <1>5 DEF CreateBuild, Return, Enter, CarriesInside, TypeOK, Ended, Crashed
<1>6. CASE NameCrashes(t) \/ FaultCrashes(t)
  BY <1>6, EndIsEndsTask, EndCarries
<1> QED
  BY <1>1, <1>2, <1>3, <1>4, <1>5, <1>6 DEF Request

LEMMA ProcessCarries ==
  ASSUME TypeOK, CarriesInside, NEW t \in Task, Process(t)
  PROVE  CarriesInside'
<1>1. CASE \/ CloneInherit(t) \/ KernelCounts(t) \/ ForkInherit(t)
           \/ \E b \in Bitmaps : CloneById(t, b)
  BY <1>1 DEF CloneInherit, KernelCounts, ForkInherit, CloneById, Enter,
              CarriesInside, TypeOK, Ended, Crashed
<1>2. ASSUME NEW child \in Task, CloneForks(t, child)
      PROVE  CarriesInside'
  BY <1>2 DEF CloneForks, CarriesInside, TypeOK, Cloning, Ended, Crashed
<1>3. ASSUME NEW child \in Task, Fork(t, child)
      PROVE  CarriesInside'
  BY <1>3 DEF Fork, CarriesInside, TypeOK, Ended, Crashed
<1>4. CASE CloneFails(t)
  BY <1>4 DEF CloneFails, Enter, CarriesInside, TypeOK, Cloning, Ended, Crashed
<1>5. CASE Exit(t)
  BY <1>5, EndIsEndsTask, EndCarries
<1> QED
  BY <1>1, <1>2, <1>3, <1>4, <1>5 DEF Process

LEMMA StepCarries ==
  ASSUME TypeOK, CarriesInside, [Next]_vars
  PROVE  CarriesInside'
<1>1. ASSUME Loader
      PROVE  UNCHANGED <<info, pc, va>>
  BY <1>1 DEF Loader, InsmodStatic, Insmod, RmmodBegin, CleanupHead, RmmodEnd,
              taskVars
<1>2. CASE UNCHANGED <<info, pc, va>>
  BY <1>2 DEF CarriesInside
<1> QED
  BY <1>1, <1>2, RequestCarries, ProcessCarries DEF Next, vars, taskVars

-------------------------------------------------------------------------------
(* Steps that leave the lists alone, by what they do to info and va.        *)
LEMMA BorrowsOrNot ==
  ASSUME TypeOK, TypeOK', NoDanglingVector', NEW t \in Task, va[t] = NULL,
         va' = [va EXCEPT ![t] = va'[t]], UNCHANGED <<heap, info>>
  PROVE  [Lease!Next]_Lease!vars
<1>1. CASE va'[t] = NULL
  <2>1. va' = va
    BY <1>1 DEF TypeOK
  <2> QED
    BY <2>1 DEF Lease!vars
<1>2. CASE va'[t] # NULL
  <2>1. va'[t] \in Addr
    BY <1>2 DEF TypeOK, Pointer
  <2>2. heap[va'[t]] # {}
    BY <2>1 DEF NoDanglingVector, Held, Assigned, Carried
  <2>3. Lease!Borrow(t)
    BY <2>1, <2>2 DEF Lease!Borrow, Lease!Provided
  <2> QED
    BY <2>3 DEF Lease!Next
<1> QED
  BY <1>1, <1>2

LEMMA ReleasesOrNot ==
  ASSUME TypeOK, NEW t \in Task, UNCHANGED <<heap, va>>,
         info' = info \/ info' = [info EXCEPT ![t] = NULL]
  PROVE  [Lease!Next]_Lease!vars
<1>1. CASE info' = info \/ info[t] = NULL
  <2>1. info' = info
    BY <1>1 DEF TypeOK
  <2> QED
    BY <2>1 DEF Lease!vars
<1>2. CASE info' # info /\ info[t] # NULL
  BY <1>2 DEF Lease!Next, Lease!Release
<1> QED
  BY <1>1, <1>2

LEMMA PassesOnOrNot ==
  ASSUME TypeOK, NEW t \in Task, NEW heir \in Task,
         heir = t \/ info[heir] = NULL,
         va[t] # NULL \/ info[heir] = NULL,
         info' = [info EXCEPT ![heir] = va[t]],
         va' = [va EXCEPT ![t] = NULL],
         UNCHANGED heap
  PROVE  [Lease!Next]_Lease!vars
<1>1. CASE va[t] = NULL
  <2>1. info' = info /\ va' = va
    BY <1>1 DEF TypeOK
  <2> QED
    BY <2>1 DEF Lease!vars
<1>2. CASE va[t] # NULL
  <2>1. Lease!PassOn(t)
    BY <1>2 DEF Lease!PassOn
  <2> QED
    BY <2>1 DEF Lease!Next
<1> QED
  BY <1>1, <1>2

LEMMA ForgoesOrNot ==
  ASSUME TypeOK, NEW t \in Task, va' = [va EXCEPT ![t] = NULL],
         UNCHANGED <<heap, info>>
  PROVE  [Lease!Next]_Lease!vars
<1>1. CASE va[t] = NULL
  <2>1. va' = va
    BY <1>1 DEF TypeOK
  <2> QED
    BY <2>1 DEF Lease!vars
<1>2. CASE va[t] # NULL
  BY <1>2 DEF Lease!Next, Lease!Forgo
<1> QED
  BY <1>1, <1>2

(* A list that appears where there was none. *)
LEMMA Provides ==
  ASSUME TypeOK, TypeOK', NEW a \in Addr, NEW list, list # {}, heap[a] = {},
         heap' = [heap EXCEPT ![a] = list],
         UNCHANGED info \/ \E t \in Task : info' = [info EXCEPT ![t] = a],
         UNCHANGED va
  PROVE  [Lease!Next]_Lease!vars
<1>1. heap'[a] = list /\ list \in SUBSET Flavour
  BY DEF TypeOK
<1>2. heap' = [heap EXCEPT ![a] = heap'[a]] /\ heap'[a] \in (SUBSET Flavour) \ {{}}
  BY <1>1
<1>3. UNCHANGED info \/ \E t \in Task : info' = [info EXCEPT ![t] = a]
  OBVIOUS
<1>4. Lease!Provide(a)
  BY <1>2, <1>3 DEF Lease!Provide, Lease!Provided
<1> QED
  BY <1>4 DEF Lease!Next

-------------------------------------------------------------------------------
LEMMA RequestLends ==
  ASSUME LifetimeInv, LifetimeInv', NoDanglingVector', CarriesInside,
         NEW t \in Task, Request(t)
  PROVE  [Lease!Next]_Lease!vars
<1>0. TypeOK /\ TypeOK'
  BY DEF LifetimeInv
<1>1. ASSUME NEW b \in Bitmaps, SetLookup(t, b) \/ CreateLookup(t, b)
      PROVE  [Lease!Next]_Lease!vars
  <2>1. va[t] = NULL
    BY <1>1 DEF SetLookup, CreateLookup, IoctlReady, CarriesInside
  <2>2. UNCHANGED <<heap, info>> /\ (UNCHANGED va \/ \E a : va' = [va EXCEPT ![t] = a])
    BY <1>1 DEF SetLookup, CreateLookup, Enter, taskVars, listVars
  <2>3. va' = [va EXCEPT ![t] = va'[t]]
    BY <1>0, <2>2 DEF TypeOK
  <2> QED
    BY <1>0, <2>1, <2>2, <2>3, BorrowsOrNot
<1>2. ASSUME NEW b \in Bitmaps, RemoveVector(t, b)
      PROVE  [Lease!Next]_Lease!vars
  BY <1>0, <1>2, ReleasesOrNot DEF RemoveVector, listVars
<1>3. CASE SetAssign(t) \/ CreateExisting(t)
  <2>1. va[t] # NULL
    BY <1>3 DEF SetAssign, CreateExisting, CarriesInside
  <2>2. /\ info' = [info EXCEPT ![t] = va[t]]
        /\ va' = [va EXCEPT ![t] = NULL]
        /\ UNCHANGED heap
    BY <1>3 DEF SetAssign, CreateExisting, Return, Enter, listVars
  <2> QED
    BY <1>0, <2>1, <2>2, PassesOnOrNot
<1>4. CASE CreateNoMemory(t)
  BY <1>0, <1>4, ForgoesOrNot DEF CreateNoMemory, Return, Enter, listVars
<1>5. CASE CreateBuild(t)
  <2>1. va[t] = NULL /\ va' = [va EXCEPT ![t] = NULL]
    BY <1>5 DEF CreateBuild, Return, Enter
  <2>2. UNCHANGED va
    BY <1>0, <2>1 DEF TypeOK
  <2>3. PICK a \in Pointer : BuildList(arg[t], a) /\ info' = [info EXCEPT ![t] = a]
    BY <1>5 DEF CreateBuild
  <2>4. CASE a = NULL /\ UNCHANGED heap
    BY <1>0, <2>2, <2>3, <2>4, ReleasesOrNot
  <2>5. ASSUME NEW list, list # {}, a \in FreeAddr, heap' = [heap EXCEPT ![a] = list]
        PROVE  [Lease!Next]_Lease!vars
    BY <1>0, <2>2, <2>3, <2>5, Provides DEF FreeAddr
  <2> QED
    BY <2>3, <2>4, <2>5 DEF BuildList
<1>6. CASE NameCrashes(t) \/ FaultCrashes(t)
  <2>1. UNCHANGED <<heap, va>> /\ info' = [info EXCEPT ![t] = NULL]
    BY <1>6, EndIsEndsTask DEF EndsTask, listVars
  <2> QED
    BY <1>0, <2>1, ReleasesOrNot
<1> QED
  BY <1>1, <1>2, <1>3, <1>4, <1>5, <1>6 DEF Request

LEMMA ProcessLends ==
  ASSUME LifetimeInv, LifetimeInv', NoDanglingVector', CarriesInside,
         NEW t \in Task, Process(t)
  PROVE  [Lease!Next]_Lease!vars
<1>0. TypeOK /\ TypeOK'
  BY DEF LifetimeInv
<1>1. CASE \/ CloneInherit(t) \/ ForkInherit(t)
           \/ \E b \in Bitmaps : CloneById(t, b)
  <2>1. va[t] = NULL
    BY <1>1 DEF CloneInherit, ForkInherit, CloneById, CarriesInside
  <2>2. va' = [va EXCEPT ![t] = va'[t]] /\ UNCHANGED <<heap, info>>
    BY <1>0, <1>1 DEF CloneInherit, ForkInherit, CloneById, Enter, TypeOK, listVars
  <2> QED
    BY <1>0, <2>1, <2>2, BorrowsOrNot
<1>2. ASSUME NEW child \in Task, CloneForks(t, child)
      PROVE  [Lease!Next]_Lease!vars
  <2>1. info[child] = NULL
    BY <1>2 DEF CloneForks, CarriesInside, Ended
  <2> QED
    BY <1>0, <1>2, <2>1, PassesOnOrNot DEF CloneForks, listVars
<1>3. ASSUME NEW child \in Task, Fork(t, child)
      PROVE  [Lease!Next]_Lease!vars
  BY <1>3 DEF Fork, listVars, Lease!vars
<1>4. CASE CloneFails(t)
  BY <1>0, <1>4, ForgoesOrNot DEF CloneFails, Enter, listVars
<1>5. CASE Exit(t)
  BY <1>0, <1>5, ReleasesOrNot DEF Exit, EndsTask, listVars
<1>6. CASE KernelCounts(t)
  <2>1. UNCHANGED <<heap, info, va>>
    BY <1>0, <1>6 DEF KernelCounts, Enter, TypeOK, listVars
  <2> QED
    BY <2>1 DEF Lease!vars
<1> QED
  BY <1>1, <1>2, <1>3, <1>4, <1>5, <1>6 DEF Process

LEMMA LoaderLends ==
  ASSUME LifetimeInv, LifetimeInv', NoDanglingVector', Loader
  PROVE  [Lease!Next]_Lease!vars
<1>0. TypeOK /\ TypeOK' /\ RegistryInv /\ CountInv
  BY DEF LifetimeInv
<1>1. ASSUME NEW m \in StaticModule, InsmodStatic(m)
      PROVE  [Lease!Next]_Lease!vars
  <2>1. PICK a \in FreeAddr : heap' = [heap EXCEPT ![a] = StaticVector(m)]
    BY <1>1 DEF InsmodStatic
  <2>2. StaticVector(m) # {}
    BY DEF StaticVector, Vector55, Vector968
  <2> QED
    BY <1>0, <1>1, <2>1, <2>2, Provides DEF InsmodStatic, FreeAddr, taskVars
<1>2. ASSUME NEW m \in Module, CleanupHead(m)
      PROVE  [Lease!Next]_Lease!vars
  <2>0. UNCHANGED <<info, va>>
    BY <1>2 DEF CleanupHead, taskVars
  <2>1. CASE UNCHANGED heap
    BY <2>0, <2>1 DEF Lease!vars
  <2>2. ASSUME NEW h, h = Head(heads[m]), h # NULL, heap' = [heap EXCEPT ![h] = {}]
        PROVE  [Lease!Next]_Lease!vars
    <3>1. m \in VectorModule /\ h \in ListsOf(m) /\ h \in Pointer
      BY <1>0, <1>2, <2>2, CleanupHeadProperties
         DEF CleanupHead, RegistryInv, CountInv
    <3>2. heap[h] # {}
      BY <1>0, <3>1 DEF RegistryInv, VectorsInv, ListsAllocated
    <3>3. h \in Addr
      BY <2>2, <3>1 DEF Pointer
    <3>4. heap'[h] = {}
      BY <1>0, <2>2, <3>3 DEF TypeOK
    <3>5. ~ Held(h)'
      BY <3>3, <3>4 DEF NoDanglingVector
    <3>6. ~ Lease!Lent(h)
      BY <2>0, <3>5 DEF Lease!Lent, Held, Assigned, Carried
    <3>7. Lease!Withdraw(h)
      BY <2>0, <2>2, <3>2, <3>3, <3>6 DEF Lease!Withdraw, Lease!Provided
    <3> QED
      BY <3>3, <3>7 DEF Lease!Next
  <2> QED
    BY <1>2, <2>1, <2>2 DEF CleanupHead
<1>3. ASSUME NEW m \in Module, Insmod(m) \/ RmmodBegin(m) \/ RmmodEnd(m)
      PROVE  [Lease!Next]_Lease!vars
  BY <1>3 DEF Insmod, RmmodBegin, RmmodEnd, listVars, taskVars, Lease!vars
<1> QED
  BY <1>1, <1>2, <1>3 DEF Loader

LEMMA StepLends ==
  ASSUME LifetimeInv, LifetimeInv', NoDanglingVector', CarriesInside, [Next]_vars
  PROVE  [Lease!Next]_Lease!vars
<1>1. CASE UNCHANGED vars
  BY <1>1 DEF vars, listVars, taskVars, Lease!vars
<1> QED
  BY <1>1, RequestLends, ProcessLends, LoaderLends DEF Next

(* Given Careful, the code lends lists: one that is lent is not changed and *)
(* not destroyed, and changes hands only by the task that has it, for any   *)
(* number of tasks, lists and vectors and whatever fails.                   *)
THEOREM SystemLendsLists ==
  ASSUME Careful
  PROVE  Spec => LendsLists
<1>1. Init => Lease!Init
  BY DEF Init, Lease!Init
<1>2. Spec => []CarriesInside
  <2>1. TypeOK /\ CarriesInside /\ [Next]_vars => CarriesInside'
    BY StepCarries
  <2> QED
    BY InitCarries, <2>1, TypeCorrect, PTL DEF Spec
<1>3. /\ LifetimeInv /\ LifetimeInv' /\ NoDanglingVector' /\ CarriesInside
      /\ [Next]_vars
      => [Lease!Next]_Lease!vars
  BY StepLends
<1> QED
  BY <1>1, <1>2, <1>3, LifetimeInvariant, NoneDangles, PTL
     DEF Spec, LendsLists, Lease!Spec
===============================================================================
