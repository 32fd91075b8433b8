----------------------------- MODULE VectorPrograms -----------------------------
(***************************************************************************)
(* The repository's user programs (demo/, tests/) run from a shell over the *)
(* system of VectorSystem.  A program is the list of the requests it makes  *)
(* that change who has which vector; its SHOW requests and file operations  *)
(* are left out.  The point is the assumptions RemovesOwn and FreesFirst of *)
(* VectorSystem: nothing in the kernel enforces them, so here the programs  *)
(* have to keep them.                                                       *)
(***************************************************************************)
EXTENDS VectorSystem

CONSTANT Programs   \* the programs users start

VARIABLES
  shell,   \* the task users start programs from
  todo     \* the requests each task's program has still to make

programVars == <<shell, todo>>

(* Whether a program stops when the request fails is part of it. *)
Step(does, vector, stops) == [does |-> does, vector |-> vector, stops |-> stops]

V23   == {"read", "write", "open", "unlink"}
V51   == {"read", "write", "link", "unlink"}
V9    == {"read", "close"}
V1017 == {"read", "close", "unlink", "link", "mkdir", "rmdir", "write_logged",
          "open_blocked"}

ProgramBitmaps == {Vector55, Vector968, V9, V23, V51, V1017}

(* test_ioctl is run with the name of a vector. *)
TestIoctl(b) ==
  <<Step("set", b, TRUE), Step("remove", b, TRUE), Step("create", V1017, TRUE)>>

TestVector(b) == <<Step("set", b, TRUE)>>

UserClone == <<Step("set", Vector968, TRUE), Step("clone", V23, TRUE)>>

(* user_ioctl2 and user_ioctl3; users write their own bitmap in.  *)
UserIoctl(b) == <<Step("create", b, FALSE)>>

Script == [
  test_ioctl_55   |-> TestIoctl(Vector55),
  test_ioctl_9    |-> TestIoctl(V9),
  test_ioctl_1017 |-> TestIoctl(V1017),
  test_vector1    |-> TestVector(Vector55),
  test_vector2    |-> TestVector(Vector968),
  user_clone      |-> UserClone,
  user_ioctl2     |-> UserIoctl(V51),
  user_ioctl3     |-> UserIoctl(V9)]

ASSUME ProgramsAssumption == Programs \subseteq DOMAIN Script

RestsOf(s) == {SubSeq(s, i, Len(s)) : i \in 1 .. Len(s) + 1}

Todos == {<<>>} \cup UNION {RestsOf(Script[p]) : p \in Programs}

ProgramsTypeOK ==
  /\ shell \in Task
  /\ todo \in [Task -> Todos]
  /\ \A t \in Task : t = shell \/ ~ Alive(t) => todo[t] = <<>>

ProgramsInit ==
  /\ Init
  /\ shell \in {t \in Task : pc[t] = "user"}
  /\ todo = [t \in Task |-> <<>>]

IsNext(t, does) == pc[t] = "user" /\ todo[t] # <<>> /\ Head(todo[t]).does = does
Wants(t) == Head(todo[t]).vector

-------------------------------------------------------------------------------
Runs(t, requests) == todo' = [todo EXCEPT ![t] = requests]

(* Slip: programs ignore what a request returns. *)
GoesOn(t, failed) == Runs(t, Tail(todo[t]))

(* A program ends when a request it tests has failed. *)
Proceeds(t, failed) ==
  Runs(t, IF failed /\ Head(todo[t]).stops THEN <<>> ELSE Tail(todo[t]))

(* The shell forks and executes a program. *)
Start(p, child) ==
  /\ Fork(shell, child)
  /\ Runs(child, Script[p])

Sets(t) ==
  /\ IsNext(t, "set")
  /\ SetLookup(t, Wants(t))
  /\ Proceeds(t, pc'[t] = "user")

Removes(t) ==
  /\ IsNext(t, "remove")
  /\ RemoveVector(t, Wants(t))
  /\ Proceeds(t, UNCHANGED node)

(* CREATE_FROM_BITMAP returns an error only for a bitmap out of range. *)
Creates(t) ==
  /\ IsNext(t, "create")
  /\ CreateLookup(t, Wants(t))
  /\ Proceeds(t, FALSE)

Clones(t) ==
  /\ IsNext(t, "clone")
  /\ CloneById(t, Wants(t))
  /\ Proceeds(t, FALSE)

(* The second steps of these requests.  A clone's child shows its vector    *)
(* and ends.                                                                *)
Completes(t) ==
  /\ pc[t] # "user"
  /\ Request(t) \/ Process(t)
  /\ UNCHANGED todo

(* Slip: what a program killed has left to do is left to its task. *)
LeavesRest(t) == t # shell /\ Exit(t) /\ UNCHANGED todo

(* A program has ended or is killed, or crashes in a request.  The names it  *)
(* passes are strings of its own, so it does not at strlen.                  *)
Ends(t) ==
  /\ t # shell
  /\ Exit(t) \/ FaultCrashes(t)
  /\ Runs(t, <<>>)

ProgramStep(t) == Sets(t) \/ Removes(t) \/ Creates(t) \/ Clones(t) \/ Completes(t)
                    \/ Ends(t)

ProgramsNext ==
  /\ \/ Loader /\ UNCHANGED todo
     \/ \E p \in Programs, child \in Task : Start(p, child)
     \/ \E t \in Task : ProgramStep(t)
  /\ UNCHANGED shell

ProgramsSpec == ProgramsInit /\ [][ProgramsNext]_<<vars, programVars>>

-------------------------------------------------------------------------------
(* The assumptions RemovesOwn and FreesFirst hold of the programs, at every  *)
(* moment: one that is about to REMOVE a name has the vector that name leads *)
(* to, and one about to SET or CREATE has none, whatever other programs and  *)
(* rmmod have done since its last request.                                   *)
KeepsToProtocol ==
  \A t \in Task :
    /\ IsNext(t, "remove") => Wants(t) \in OwnName(t)
    /\ IsNext(t, "set") \/ IsNext(t, "create") => info[t] = NULL

(* Why: a program has no vector before it makes its SET or CREATE, and from  *)
(* its SET to its REMOVE the vector is in use and stays as it is.            *)
IsNamed(a, b) == \E n \in Listed : a # NULL /\ node[n].addr = a /\ node[n].bitmap = b

Prepared(t) ==
  /\ Head(todo[t]).does \in {"set", "create"} => pc[t] = "user" /\ info[t] = NULL
  /\ Head(todo[t]).does = "remove" =>
       /\ pc[t] \in {"user", "set"}
       /\ IsNamed(IF pc[t] = "user" THEN info[t] ELSE va[t], Wants(t))

WillKeep == \A t \in Task : todo[t] # <<>> => Prepared(t)

(* IOCTL_REMOVE "removes the vector assigned to the process" (README): a     *)
(* program's REMOVE, or its end, drops a reference of its own vector only.   *)
RemovesAssigned ==
  [][\A t \in Task, n \in Listed :
       todo'[t] # todo[t] /\ node'[n].refcount < node[n].refcount
         => info[t] # NULL /\ node[n].addr = info[t]]_<<vars, programVars>>
===============================================================================
