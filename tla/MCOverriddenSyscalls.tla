------------------------- MODULE MCOverriddenSyscalls -------------------------
EXTENDS OverriddenSyscalls, TLC

(* A vector that logs writes, and one with the other overrides. *)
Logger == {"write_logged", "open", "close", "read"}
Guard == {"write", "open_blocked", "close", "link", "unlink", "mkdir", "rmdir"}
LoggerAndGuard == {Logger, Guard}

Symmetry == Permutations(Thread) \cup Permutations(Process)
              \cup Permutations(Buffer \ ReadOnly)
===============================================================================
