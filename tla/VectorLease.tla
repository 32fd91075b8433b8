------------------------------ MODULE VectorLease ------------------------------
(***************************************************************************)
(* What the registry, the ioctl device, sys_clone2 and the vector modules  *)
(* promise together, without nodes, counts or modules: override lists are  *)
(* lent to tasks, and a list that is lent is neither changed nor taken     *)
(* away.  VectorSystem implements this for careful users (VectorLifetime). *)
(***************************************************************************)
CONSTANTS Task, Addr, NULL, Override

VARIABLES
  lists,     \* the overrides each address stands for, {} when there is none
  assigned,  \* the list a task's system calls go through, or NULL
  pending    \* the list a task has obtained and not yet passed on, or NULL

vars == <<lists, assigned, pending>>

Init ==
  /\ lists = [a \in Addr |-> {}]
  /\ assigned = [t \in Task |-> NULL]
  /\ pending = [t \in Task |-> NULL]

Lent(a) == \E t \in Task : a \in {assigned[t], pending[t]}

Provided == {a \in Addr : lists[a] # {}}

(* A new list, kept in stock or given to the task that had it made. *)
Provide(a) ==
  /\ a \notin Provided
  /\ lists'[a] \in (SUBSET Override) \ {{}}
  /\ lists' = [lists EXCEPT ![a] = lists'[a]]
  /\ \/ UNCHANGED assigned
     \/ \E t \in Task : assigned' = [assigned EXCEPT ![t] = a]
  /\ UNCHANGED pending

(* A list nobody has on loan is destroyed. *)
Withdraw(a) ==
  /\ a \in Provided
  /\ ~ Lent(a)
  /\ lists' = [lists EXCEPT ![a] = {}]
  /\ UNCHANGED <<assigned, pending>>

Borrow(t) ==
  /\ pending[t] = NULL
  /\ \E a \in Provided : pending' = [pending EXCEPT ![t] = a]
  /\ UNCHANGED <<lists, assigned>>

(* The list obtained is assigned to the task, or to a child that has none. *)
PassOn(t) ==
  /\ pending[t] # NULL
  /\ \E heir \in Task :
       /\ heir = t \/ assigned[heir] = NULL
       /\ assigned' = [assigned EXCEPT ![heir] = pending[t]]
  /\ pending' = [pending EXCEPT ![t] = NULL]
  /\ UNCHANGED lists

Forgo(t) ==
  /\ pending[t] # NULL
  /\ pending' = [pending EXCEPT ![t] = NULL]
  /\ UNCHANGED <<lists, assigned>>

Release(t) ==
  /\ assigned[t] # NULL
  /\ assigned' = [assigned EXCEPT ![t] = NULL]
  /\ UNCHANGED <<lists, pending>>

Next ==
  \/ \E a \in Addr : Provide(a) \/ Withdraw(a)
  \/ \E t \in Task : Borrow(t) \/ PassOn(t) \/ Forgo(t) \/ Release(t)

Spec == Init /\ [][Next]_vars
===============================================================================
