---------------------------- MODULE MCVectorReaders ----------------------------
EXTENDS VectorReaders, TLC

V968Bitmaps == {{"mkdir", "rmdir", "write_logged", "open_blocked", "close"}}
CreatedBitmaps == {{"close", "open_blocked"}}
Symmetry == Permutations(Task) \cup Permutations(Addr) \cup Permutations(Node)
===============================================================================
