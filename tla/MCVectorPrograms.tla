---------------------------- MODULE MCVectorPrograms ----------------------------
EXTENDS VectorPrograms, TLC

(* VectorSystem's own choice of bitmaps is not used: the programs choose.    *)
NoBitmaps == {}
Symmetry == Permutations(Task) \cup Permutations(Addr) \cup Permutations(Node)
===============================================================================
