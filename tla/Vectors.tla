------------------------------- MODULE Vectors -------------------------------
(***************************************************************************)
(* The values the registry, the ioctl device and the vector modules pass   *)
(* around: bitmaps, override lists, vector names and the text of the SHOW  *)
(* requests.  A bitmap is the set of its bits, a bit is named for the      *)
(* override it selects (overridden_syscalls.h), and "high" stands for the  *)
(* bits from 1024 up.  An override list is the set of its entries: no list *)
(* has two entries for one system call, so their order shows nowhere.      *)
(*                                                                         *)
(* A definition called a slip, in this and the other modules, is a mistake *)
(* somebody could make in the code.  No specification uses it: it shows    *)
(* that the property PROJECT.json names with it can fail.                  *)
(***************************************************************************)

(* overridden_syscalls.h: bits 1, 2, 4, ..., 512. *)
Flavour == {"read", "write", "open", "close", "unlink", "link", "mkdir",
            "rmdir", "write_logged", "open_blocked"}

Bitmap == SUBSET (Flavour \cup {"high"})

(* ioctl_module.c, validate_bitmap: 0 or -EINVAL. *)
validate_bitmap(b) ==
  /\ ~ {"write", "write_logged"} \subseteq b
  /\ ~ {"open", "open_blocked"} \subseteq b
  /\ "high" \notin b

(* dynamic_vector.c, add_vector_from_bitmap: the bits it has a branch for.  *)
(* There is none for mkdir and rmdir.                                       *)
Branches == Flavour \ {"mkdir", "rmdir"}

(* Slip: one more branch is forgotten. *)
NoBlockedBranch(b) == b \cap (Branches \ {"open_blocked"})

(* The list it builds. *)
VectorFromBitmap(b) == b \cap Branches

(* The lists the two static modules build when they are inserted. *)
Vector55  == {"link", "unlink", "read", "open", "write"}
Vector968 == {"mkdir", "rmdir", "write_logged", "open_blocked", "close"}

StaticModule == {"vector1", "vector2"}
StaticVector(m) == IF m = "vector1" THEN Vector55 ELSE Vector968

(* The bitmap a static module registers is the sum of its overrides' bits.  *)
StaticBitmap(m) == StaticVector(m)

(* Text is a sequence of lines.  A vector's name is "Vector" and its bitmap *)
(* in decimal: one line, and a function of the bitmap.  show_my_vector      *)
(* prints the name, the id and the bitmap of a node, each ended by a        *)
(* newline; vector_id is always the bitmap too.                             *)
VectorName(b) == <<b>>
ShowText(b) == <<VectorName(b)[1], b, b>>
=============================================================================
