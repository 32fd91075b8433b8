----------------------------- MODULE VectorReaders -----------------------------
(***************************************************************************)
(* The SHOW requests as processes: show_all_vectors and show_my_vector walk *)
(* the list of vectors without list_lock, one step per node, while rmmod    *)
(* unregisters vectors and the tasks they report on come and go.            *)
(*                                                                          *)
(* A SHOW holds mutexlock, so no other request runs meanwhile; unless it    *)
(* crashes it changes nothing but the text it shows, so each step of this   *)
(* module is a step of VectorSystem or leaves that module's state alone.    *)
(***************************************************************************)
EXTENDS VectorSystem

CONSTANTS
  MAX_BUFFER_SIZE,  \* the size of vec_load_unload's static buffer: 1024
  BUF_LEN           \* the size of custom_ioctl's buf, which is what is copied
                    \* to the user: 256

ASSUME HeadAssumption == NULL \notin Node
ASSUME BufferAssumption ==
  MAX_BUFFER_SIZE \in Nat /\ BUF_LEN \in Nat /\ BUF_LEN <= MAX_BUFFER_SIZE

VARIABLES
  show,     \* the SHOW request being served
  present,  \* auxiliary: vec_list when it began
  quiet     \* auxiliary: no vector has been unregistered since

showVars == <<show, present, quiet>>

HEAD == NULL   \* the cursor is back at vec_list_head

(* Lengths of text: a bitmap in decimal; name, id and bitmap with newlines. *)
Bit == [read |-> 1, write |-> 2, open |-> 4, close |-> 8, unlink |-> 16,
        link |-> 32, mkdir |-> 64, rmdir |-> 128, write_logged |-> 256,
        open_blocked |-> 512, high |-> 1024]
Digits(b) == LET v == MapThenSumSet(LAMBDA f : Bit[f], b) IN
  IF v < 10 THEN 1 ELSE IF v < 100 THEN 2 ELSE IF v < 1000 THEN 3 ELSE 4
EntryLen(b) == Len("Vector") + 3 * (Digits(b) + 1)
TextLen(text) == FoldLeft(LAMBDA n, b : n + EntryLen(b), 0, text)

(* What the memory of a freed node reads as, no vector's bitmap. *)
Garbage == {"high"}

Show == [by: Task, kind: {"all", "mine", "pid"},
         stage: {"task", "walk", "copy", "oops"},
         subject: Task \cup {NoTask},  \* the task_struct found for a pid
         sought: Pointer,              \* vector_addr of show_my_vector
         at: Node \cup {HEAD},         \* datastructureptr
         text: Seq(Bitmap)]            \* the entries in the buffer
NoShow == <<>>

Reading == show # NoShow

ret == TextLen(show.text)

(* show_all_vectors adds no entry to a text that is longer than its buffer. *)
Full == ret > MAX_BUFFER_SIZE

(* It copies all of the text to buf, past the end of a shorter buf.         *)
Overruns == show.kind = "all" /\ ret > BUF_LEN

ShowTypeOK ==
  /\ show \in Show \cup {NoShow}
  /\ present \in Seq(Node)
  /\ quiet \in BOOLEAN

ReadersInit == Init /\ show = NoShow /\ present = <<>> /\ quiet = TRUE

First == IF vec_list = <<>> THEN HEAD ELSE vec_list[1]

(* Slip: the links are followed past vec_list_head. *)
RoundAgain(n) ==
  LET i == CHOOSE j \in DOMAIN vec_list : vec_list[j] = n IN
  vec_list[(i % Len(vec_list)) + 1]

(* The node after n, or HEAD. *)
NextOf(n) ==
  IF \E i \in DOMAIN vec_list : vec_list[i] = n /\ i < Len(vec_list)
  THEN vec_list[1 + CHOOSE i \in DOMAIN vec_list : vec_list[i] = n]
  ELSE HEAD

-------------------------------------------------------------------------------
Begins(t, kind, stage, s, sought, at) ==
  /\ IoctlReady(t)
  /\ ~ Reading
  /\ show' = [by |-> t, kind |-> kind, stage |-> stage, subject |-> s,
              sought |-> sought, at |-> at, text |-> <<>>]
  /\ present' = vec_list
  /\ quiet' = TRUE

(* IOCTL_SHOW_ALL. *)
ShowAll(t) == Begins(t, "all", "walk", NoTask, NULL, First)

(* IOCTL_SHOW_MINE; without a vector the text is "vector not assigned". *)
ShowMine(t) ==
  Begins(t, "mine", IF info[t] = NULL THEN "copy" ELSE "walk", t, info[t], First)

(* IOCTL_VECTOR_FOR_PID up to pid_task.  It crashes when pid_buf is NULL,    *)
(* and for a task that has ended: show_my_vector's argument is then read     *)
(* through the NULL of pid_task.                                             *)
VectorForPid(t, s) ==
  \/ Alive(s) /\ Begins(t, "pid", "task", s, NULL, HEAD)
  \/ /\ ~ Alive(s) \/ OutOfMemory
     /\ Begins(t, "pid", "oops", NoTask, NULL, HEAD)

Step(change) == show' = change /\ UNCHANGED <<present, quiet>>

(* syscall_vector_info of the task found; if it has exited by now, of        *)
(* memory that has been freed.                                               *)
ReadSubject ==
  /\ Reading
  /\ show.stage = "task"
  /\ \E a \in Pointer :
       /\ show.subject # NoTask => a = info[show.subject]
       /\ Step([show EXCEPT !.stage = IF a = NULL THEN "copy" ELSE "walk",
                            !.sought = a, !.at = First])

Walking == Reading /\ show.stage = "walk"

(* The loop ends: at vec_list_head, or when the text is longer than the      *)
(* static buffer.  A text that overruns a buffer destroys the memory behind  *)
(* it, which may go unnoticed; copy_to_user then cuts it at BUF_LEN.         *)
WalkEnds ==
  /\ Walking
  /\ \/ show.at = HEAD
     \/ show.kind = "all" /\ Full
  /\ \E stage \in {"copy"} \cup (IF Overruns THEN {"oops"} ELSE {}) :
       Step([show EXCEPT !.stage = stage, !.at = HEAD])

MayVisit ==
  /\ Walking
  /\ show.at # HEAD
  /\ ~ (show.kind = "all" /\ Full)

Shows(b, stage, next) ==
  Step([show EXCEPT !.text = Append(@, b), !.stage = stage, !.at = next])

(* Slip: the cursor moves twice. *)
SkipsNode ==
  /\ MayVisit
  /\ show.kind = "all"
  /\ show.at \in Listed
  /\ Shows(node[show.at].bitmap, "walk", NextOf(NextOf(show.at)))

(* One iteration of show_all_vectors. *)
VisitAll ==
  /\ MayVisit
  /\ show.kind = "all"
  /\ show.at \in Listed
  /\ Shows(node[show.at].bitmap, "walk", NextOf(show.at))

(* One iteration of show_my_vector, which breaks at the vector sought. *)
VisitMine ==
  /\ MayVisit
  /\ show.kind # "all"
  /\ show.at \in Listed
  /\ IF node[show.at].addr = show.sought
     THEN Shows(node[show.at].bitmap, "copy", HEAD)
     ELSE Step([show EXCEPT !.at = NextOf(show.at)])

(* The node has been freed: list_del has poisoned its link, or its memory    *)
(* is somebody else's by now.                                                *)
VisitFreed ==
  /\ MayVisit
  /\ show.at \notin Listed
  /\ \/ Step([show EXCEPT !.stage = "oops"])
     \/ \E next \in Node \cup {HEAD} :
          \/ Shows(Garbage, IF show.kind = "all" THEN "walk" ELSE "copy", next)
          \/ show.kind # "all" /\ Step([show EXCEPT !.at = next])

Ends == show' = NoShow /\ present' = <<>> /\ quiet' = TRUE

(* copy_to_user; whether it fails or not, the request returns. *)
ShowReturns ==
  /\ Reading
  /\ show.stage = "copy"
  /\ Ends

ShowStep == ReadSubject \/ WalkEnds \/ VisitAll \/ VisitMine \/ VisitFreed
              \/ ShowReturns

ShowBegin ==
  \E t \in Task : ShowAll(t) \/ ShowMine(t) \/ \E s \in Task : VectorForPid(t, s)

-------------------------------------------------------------------------------
(* Slip: requests do not wait for a SHOW. *)
NobodyWaits == TRUE

(* mutexlock keeps other requests out. *)
MutexFree == ~ Reading

(* The task_struct found for a pid goes with its task. *)
Gone == \E s \in Task : Reading /\ show.subject = s /\ pc'[s] \in Ended

(* A step of VectorSystem, while a SHOW may be under way. *)
SystemStep ==
  /\ \/ MutexFree /\ \E t \in Task : Request(t)
     \/ \E t \in Task : (Reading => t # show.by) /\ Process(t)
     \/ Loader /\ (Reading => mstate'["ioctl_module"] = "live")
  /\ show' = IF Gone THEN [show EXCEPT !.subject = NoTask] ELSE show
  /\ quiet' = (quiet /\ (Reading => Listed \subseteq Listed'))
  /\ UNCHANGED present

(* The kernel ends the task whose SHOW has crashed. *)
ShowCrashes ==
  /\ Reading
  /\ show.stage = "oops"
  /\ \E t \in Task : show.by = t /\ FaultCrashes(t)
  /\ Ends

ReadersNext ==
  \/ SystemStep
  \/ ShowCrashes
  \/ (ShowBegin \/ ShowStep) /\ UNCHANGED vars

readersVars == <<vars, showVars>>

ReadersSpec == ReadersInit /\ [][ReadersNext]_readersVars

(* A task inside a SHOW is scheduled again. *)
FairReadersSpec == ReadersSpec /\ WF_readersVars(ShowStep /\ UNCHANGED vars)

-------------------------------------------------------------------------------
(* A SHOW has mutexlock to itself: while one is served its caller is in the  *)
(* kernel, ioctl_module is in and no other request has begun.                *)
HoldsMutex ==
  Reading => /\ pc[show.by] = "user"
             /\ mutexlock = NoTask
             /\ mstate["ioctl_module"] = "live"
             /\ \A t \in Task : pc[t] \notin {"set", "create"}

ShowInv == ShowTypeOK /\ HoldsMutex

(* "Always access this variable by gathering the mutex lock 'list_lock'"     *)
(* (vec_load_unload.c, vec_list_head): a traversal stands on a vector that   *)
(* is in the list.                                                           *)
CursorListed == Walking => show.at \in Listed \cup {HEAD}

(* SHOW_ALL shows vectors that were there when it began, once and newest     *)
(* first, while others are inserted; and all of them if their text fits      *)
(* into the BUF_LEN bytes the user gets.  Provided that none is unregistered.*)
ShowAllComplete ==
  Reading /\ quiet /\ show.kind = "all" /\ show.stage = "copy" =>
    LET all == [i \in DOMAIN present |-> node[present[i]].bitmap] IN
    /\ IsPrefix(show.text, all)
    /\ ret \in 0 .. BUF_LEN => show.text = all

(* Why: while nothing is unregistered, the vectors that were there stay the  *)
(* end of the list, and the walk has shown those before its cursor.          *)
PresentKept ==
  Reading /\ quiet =>
    /\ Len(present) <= Len(vec_list)
    /\ \A i \in DOMAIN present :
         present[i] = vec_list[Len(vec_list) - Len(present) + i]

ShownSoFar ==
  Reading /\ quiet /\ show.kind = "all" =>
    /\ show.stage # "task"
    /\ Len(show.text) <= Len(present)
    /\ \A i \in DOMAIN show.text : show.text[i] = node[present[i]].bitmap
    /\ show.stage = "walk" =>
         show.at = IF Len(show.text) = Len(present) THEN HEAD
                   ELSE present[Len(show.text) + 1]
    /\ show.stage = "copy" /\ ~ Full => Len(show.text) = Len(present)

WalkInv == PresentKept /\ ShownSoFar

(* SHOW_MINE and VECTOR_FOR_PID answer with the vector the task has: it has  *)
(* the same one until the answer is out, though the pointer was read before  *)
(* the walk.  An unregistered vector gives no text.                          *)
Mine(s) == {n \in Listed : info[s] # NULL /\ node[n].addr = info[s]}

AnswerIsSubjects ==
  Reading /\ quiet /\ show.stage = "copy" /\ show.subject # NoTask =>
    show.text = LET mine == Mine(show.subject) IN
                IF mine = {} THEN <<>> ELSE <<node[CHOOSE n \in mine : TRUE].bitmap>>

(* Why: the subject is not given another vector before it exits, and the     *)
(* walk has not passed the vector it looks for.                              *)
Passed == {i \in DOMAIN vec_list : \A j \in 1 .. i : vec_list[j] # show.at}
SoughtAhead == \A i \in Passed : node[vec_list[i]].addr # show.sought

SubjectInv ==
  Reading /\ quiet /\ show.subject # NoTask =>
    /\ Alive(show.subject)
    /\ show.kind # "all"
    /\ show.stage # "task" => show.sought = info[show.subject]
    /\ show.stage \in {"task", "walk"} => show.text = <<>>
    /\ show.stage = "walk" =>
         /\ show.sought # NULL
         /\ show.at \in Listed \cup {HEAD}
         /\ SoughtAhead
    /\ show.stage = "copy" =>
         IF Mine(show.subject) = {} THEN show.text = <<>>
         ELSE \E n \in Mine(show.subject) : show.text = <<node[n].bitmap>>

(* Every SHOW returns and gives mutexlock back, however many vectors are     *)
(* inserted while it walks; unless a vector is unregistered under it, or it  *)
(* crashes: its subject had ended, or its text is too long.                  *)
ShowFinishes == Reading ~> ~ Reading \/ ~ quiet \/ show.stage = "oops"

===============================================================================
