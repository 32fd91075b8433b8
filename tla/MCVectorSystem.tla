---------------------------- MODULE MCVectorSystem ----------------------------
EXTENDS VectorExact, TLC

(* The bitmaps and names the programs of the small instances use. *)
MkdirOnly == {"mkdir"}
V968 == {"mkdir", "rmdir", "write_logged", "open_blocked", "close"}

V55 == {"link", "unlink", "read", "open", "write"}
CloseBlocked == {"close", "open_blocked"}

ExactBitmaps == {V55, CloseBlocked, {"read"}}
V968Bitmaps == {V968}
MkdirBitmaps == {MkdirOnly}
LifetimeBitmaps == {MkdirOnly, V968}
Symmetry == Permutations(Task) \cup Permutations(Addr) \cup Permutations(Node)
===============================================================================
