-------------------------- MODULE OverriddenSyscalls --------------------------
(***************************************************************************)
(* overridden_syscalls.c: what happens when a task whose vector overrides   *)
(* a system call makes that call.  Nine overrides look up the process name  *)
(* and call the original once: one step each.  loggedWrite tests the file   *)
(* of fd, puts a comment into the CALLER'S buffer, writes it, restores the  *)
(* buffer and writes the data: one step for each access to memory, files    *)
(* and descriptors that other threads of the process share.                 *)
(*                                                                          *)
(* A buffer is what the caller passes (data) and the bytes behind it, as    *)
(* far as the comment is longer (after).  A file is its last two writes, as  *)
(* the properties compare neighbours.  The struct file of a descriptor is   *)
(* identified with its file, and a user with his process.  What a call      *)
(* returns is left out: 8787, 0, -1 and -ENOMEM may come from an original   *)
(* as well as from an override that has not called it.                      *)
(***************************************************************************)
EXTENDS Vectors, Integers, Sequences

CONSTANTS
  Thread, Process,
  Assignable,  \* the vectors processes may have, as sets of overrides
  Fd, File, NoFile,
  CFile,       \* the files whose path has ".c" in it
  Buffer,
  ReadOnly,    \* the buffers in read-only memory, such as literals
  Env          \* what programs and the machine are assumed to do; see below

(* The assumptions loggedWrite makes and does not check:                     *)
(*   OwnBuffers       no two calls of a process use one buffer at a time     *)
(*   OwnFiles         no two writes go to one file at a time                 *)
(*   StableFds        fd is not opened or closed while a call uses it        *)
(*   LongData         the data is at least as long as the comment            *)
(*   WholeBuffers     a buffer can be written to its end, and as long as a   *)
(*                    call uses it, or cannot be written at all              *)
(*   WritesSucceed    original_write does not fail on an open fd             *)
Assumptions == {"OwnBuffers", "OwnFiles", "StableFds", "LongData",
                "WholeBuffers", "WritesSucceed"}

ASSUME EnvAssumption == Env \subseteq Assumptions
ASSUME AssignableAssumption == Assignable \subseteq SUBSET Flavour
ASSUME FdAssumption == Fd \subseteq Nat
ASSUME FileAssumption == NoFile \notin File /\ CFile \subseteq File
ASSUME BufferAssumption == ReadOnly \subseteq Buffer

VARIABLES
  tgid,     \* the process of each thread, and
  vector,   \* the overrides in each process's vector: neither ever changes
  fdt,      \* each process's descriptor table
  content,  \* the last two records of each file, oldest first
  mem,      \* each process's buffers
  table,    \* whether syscallTablePtr is set
  pc,       \* where each thread is: user code, a step of loggedWrite, or oops
  args      \* fd, buf and size of a loggedWrite, and its copy of the data

shared == <<tgid, vector, fdt, content, mem>>
vars == <<shared, table, pc, args>>

Assuming(a, p) == a \in Env => p

Text == {"text", "comment"}
Record == [text: Text, user: Process, as: {"comment", "logged", "plain"}]
Args == [fd: Fd, buf: Buffer, short: BOOLEAN, kbuf: Text]
NoArgs == <<>>
Intact == [data |-> "text", after |-> "text"]

TypeOK ==
  /\ tgid \in [Thread -> Process]
  /\ vector \in [Process -> Assignable]
  /\ fdt \in [Process -> [Fd -> File \cup {NoFile}]]
  /\ content \in [File -> UNION {[1 .. n -> Record] : n \in 0 .. 2}]
  /\ mem \in [Process -> [Buffer -> [data: Text, after: Text]]]
  /\ table \in BOOLEAN
  /\ pc \in [Thread -> {"user", "save", "mark", "comment", "restore",
                        "write", "oops"}]
  /\ args \in [Thread -> Args \cup {NoArgs}]

(* The threads run with the standard descriptors open. *)
Init ==
  /\ tgid \in [Thread -> Process]
  /\ vector \in [Process -> Assignable]
  /\ \E f \in File :
       fdt = [p \in Process |-> [fd \in Fd |-> IF fd < 3 THEN f ELSE NoFile]]
  /\ content = [f \in File |-> <<>>]
  /\ mem = [p \in Process |-> [b \in Buffer |-> Intact]]
  /\ table = FALSE
  /\ pc = [t \in Thread |-> "user"]
  /\ args = [t \in Thread |-> NoArgs]

-------------------------------------------------------------------------------
FileOf(t, fd) == fdt[tgid[t]][fd]
Siblings(t) == {u \in Thread \ {t} : tgid[u] = tgid[t]}
Calling(u) == args[u] # NoArgs

(* What a careful program sees to before it writes from or reads into b.     *)
BufferFree(t, b) ==
  Assuming("OwnBuffers", \A u \in Siblings(t) : Calling(u) => args[u].buf # b)

FileFree(t, f) ==
  Assuming("OwnFiles", \A u \in Thread \ {t} :
                         Calling(u) => FileOf(u, args[u].fd) # f)

FdFree(t, fd) ==
  Assuming("StableFds", \A u \in Siblings(t) : Calling(u) => args[u].fd # fd)

-------------------------------------------------------------------------------
(* The calls of the kernel, which may fail (external).                       *)
original_open(t, f) ==
  /\ \/ \E fd \in Fd :
          /\ FileOf(t, fd) = NoFile
          /\ FdFree(t, fd)
          /\ fdt' = [fdt EXCEPT ![tgid[t]][fd] = f]
     \/ UNCHANGED fdt
  /\ UNCHANGED <<tgid, vector, content, mem>>

original_close(t, fd) ==
  /\ fdt' = [fdt EXCEPT ![tgid[t]][fd] = NoFile]
  /\ UNCHANGED <<tgid, vector, content, mem>>

(* read puts bytes of the file into the buffer. *)
original_read(t, fd, b) ==
  /\ mem' = IF FileOf(t, fd) = NoFile \/ b \in ReadOnly THEN mem
            ELSE [mem EXCEPT ![tgid[t]][b].data = "text"]
  /\ UNCHANGED <<tgid, vector, fdt, content>>

(* write appends what the buffer holds by now to what fd refers to by now.   *)
original_write(t, fd, b, as) ==
  LET f == FileOf(t, fd)
      new == [text |-> mem[tgid[t]][b].data, user |-> tgid[t], as |-> as] IN
  /\ \/ /\ f # NoFile
        /\ content' = [content EXCEPT ![f] =
                         IF Len(@) = 2 THEN <<@[2], new>> ELSE Append(@, new)]
     \/ /\ f = NoFile \/ "WritesSucceed" \notin Env
        /\ UNCHANGED content
  /\ UNCHANGED <<tgid, vector, fdt, mem>>

-------------------------------------------------------------------------------
(* What the overrides have in common: getProcessName, without which the      *)
(* call returns, then the table if it is not set, then the original.         *)
Calls(t, call) == pc[t] = "user" /\ call \in vector[tgid[t]]

Goes(t, where) == pc' = [pc EXCEPT ![t] = where]

Answers(t) == Goes(t, "user") /\ args' = [args EXCEPT ![t] = NoArgs]

getProcessNameFails(t) ==
  /\ \E call \in Flavour \ {"write_logged"} : Calls(t, call)
  /\ Answers(t)
  /\ UNCHANGED <<shared, table>>

(* Before the original is called, an override dereferences without a test    *)
(* the error filp_open may return, the table, which nothing in the sources   *)
(* puts into a vector, and the path of a user.  loggedWrite begins with the  *)
(* table.                                                                    *)
OverrideCrashes(t) ==
  \E call \in Flavour :
    /\ Calls(t, call)
    /\ Goes(t, "oops")
    /\ table' \in {table, table \/ call = "write_logged"}
    /\ UNCHANGED <<shared, args>>

Through(t) == table' = TRUE /\ Answers(t)

Refuses(t) == Answers(t) /\ UNCHANGED <<shared, table>>

overriddenRead(t, fd, b) ==
  /\ Calls(t, "read")
  /\ BufferFree(t, b)
  /\ original_read(t, fd, b) /\ Through(t)

overriddenWrite(t, fd, b) ==
  /\ Calls(t, "write")
  /\ BufferFree(t, b) /\ FileFree(t, FileOf(t, fd))
  /\ original_write(t, fd, b, "plain") /\ Through(t)

overriddenOpen(t, f) ==
  /\ Calls(t, "open")
  /\ original_open(t, f) /\ Through(t)

(* blocked: an httpd process opens a file of user accounts. *)
blockedOpen(t, f, blocked) ==
  /\ Calls(t, "open_blocked")
  /\ IF blocked THEN Refuses(t) ELSE original_open(t, f) /\ Through(t)

overriddenClose(t, fd) ==
  /\ Calls(t, "close")
  /\ FdFree(t, fd)
  /\ original_close(t, fd) /\ Through(t)

(* The names of files and directories are not kept. *)
OnPath(t, call) == Calls(t, call) /\ UNCHANGED shared /\ Through(t)

overriddenLink(t) == OnPath(t, "link")
overriddenMkdir(t) == OnPath(t, "mkdir")
overriddenRmdir(t) == OnPath(t, "rmdir")

overriddenUnlink(t, protected) ==
  IF protected THEN Calls(t, "unlink") /\ Refuses(t) ELSE OnPath(t, "unlink")

-------------------------------------------------------------------------------
(* Slips: the standard descriptors are one more; any path passes for a .c    *)
(* file.                                                                     *)
UpToThree(fd) == fd <= 3
AnyPath(f) == TRUE

Standard(fd) == fd < 3
IsC(f) == f \in CFile
FdIsFile(t, fd) == ~ Standard(fd) /\ FileOf(t, fd) # NoFile

(* loggedWrite up to the test of the path.  It gives up for want of the      *)
(* process name, of a file or of memory.                                     *)
LoggedCall(t, fd, b, short) ==
  /\ Calls(t, "write_logged")
  /\ BufferFree(t, b) /\ FileFree(t, FileOf(t, fd))
  /\ Assuming("LongData", ~ short)
  /\ table' = TRUE
  /\ UNCHANGED shared

Enters(t, fd, b, short, where) ==
  /\ Goes(t, where)
  /\ args' = [args EXCEPT ![t] = [fd |-> fd, buf |-> b, short |-> short,
                                  kbuf |-> "text"]]

LoggedUnnamed(t) == Answers(t)

LoggedBadFd(t, fd) == ~ Standard(fd) /\ ~ FdIsFile(t, fd) /\ Answers(t)

LoggedNoPage(t, fd) == FdIsFile(t, fd) /\ Answers(t)

LoggedStandard(t, fd, b, short) ==
  /\ Standard(fd)
  /\ Enters(t, fd, b, short, "write")

LoggedPath(t, fd, b, short) ==
  /\ FdIsFile(t, fd)
  /\ Enters(t, fd, b, short,
            IF IsC(FileOf(t, fd)) THEN "save" ELSE "write")

LoggedBegin(t, fd, b, short) ==
  /\ LoggedCall(t, fd, b, short)
  /\ \/ LoggedUnnamed(t)
     \/ LoggedBadFd(t, fd)
     \/ LoggedNoPage(t, fd)
     \/ LoggedStandard(t, fd, b, short)
     \/ LoggedPath(t, fd, b, short)

(* Slip: without copy_from_user; kbuf keeps the path. *)
KeepsPath(t) ==
  /\ pc[t] = "save"
  /\ Goes(t, "mark")
  /\ args' = [args EXCEPT ![t].kbuf = "path"]
  /\ UNCHANGED <<shared, table>>

(* copy_from_user, and the page for the comment; without one, strcpy writes  *)
(* through NULL.                                                             *)
LoggedSave(t) ==
  /\ pc[t] = "save"
  /\ \/ /\ Goes(t, "mark")
        /\ args' = [args EXCEPT ![t].kbuf = mem[tgid[t]][args[t].buf].data]
     \/ Answers(t)
     \/ /\ Goes(t, "oops")
        /\ args' = [args EXCEPT ![t] = NoArgs]
  /\ UNCHANGED <<shared, table>>

(* copy_to_user copies all, or less, for which the call gives up.            *)
Copies == IF "WholeBuffers" \in Env THEN {"all"} ELSE {"all", "less"}

(* The comment is copied to the caller's buffer.  It is longer than short    *)
(* data; what is copied of it stays there if that is not all.                *)
LoggedMark(t) ==
  /\ pc[t] = "mark"
  /\ LET b == args[t].buf IN
     \/ b \in ReadOnly /\ Answers(t) /\ UNCHANGED mem
     \/ \E copied \in Copies, behind \in BOOLEAN :
          /\ b \notin ReadOnly
          /\ IF copied = "all"
             THEN Goes(t, "comment") /\ behind = args[t].short /\ UNCHANGED args
             ELSE Answers(t) /\ (behind => args[t].short)
          /\ mem' = [mem EXCEPT ![tgid[t]][b] =
                       [data  |-> "comment",
                        after |-> IF behind THEN "comment" ELSE @.after]]
  /\ UNCHANGED <<tgid, vector, fdt, content, table>>

(* Nobody looks at the result of writing the comment. *)
LoggedComment(t) ==
  /\ pc[t] = "comment"
  /\ original_write(t, args[t].fd, args[t].buf, "comment")
  /\ Goes(t, "restore")
  /\ UNCHANGED <<table, args>>

(* Slip: the saved data is not copied back. *)
KeepsComment(t) ==
  /\ pc[t] = "restore"
  /\ Goes(t, "write")
  /\ UNCHANGED <<shared, table, args>>

(* count bytes are restored, whatever the comment has overwritten; if not    *)
(* all can be, the comment may stay, and the data is not written.            *)
LoggedRestore(t) ==
  /\ pc[t] = "restore"
  /\ \E copied \in Copies, back \in BOOLEAN :
       /\ IF copied = "all" THEN Goes(t, "write") /\ back /\ UNCHANGED args
                            ELSE Answers(t)
       /\ mem' = IF back
                 THEN [mem EXCEPT ![tgid[t]][args[t].buf].data = args[t].kbuf]
                 ELSE mem
  /\ UNCHANGED <<tgid, vector, fdt, content, table>>

LoggedData(t) ==
  /\ pc[t] = "write"
  /\ original_write(t, args[t].fd, args[t].buf,
                    IF args[t].fd < 3 THEN "plain" ELSE "logged")
  /\ Answers(t)
  /\ UNCHANGED table

-------------------------------------------------------------------------------
Wrapped(t) ==
  \/ getProcessNameFails(t)
  \/ \E fd \in Fd, b \in Buffer : overriddenRead(t, fd, b) \/ overriddenWrite(t, fd, b)
  \/ \E f \in File : overriddenOpen(t, f) \/ \E b \in BOOLEAN : blockedOpen(t, f, b)
  \/ \E fd \in Fd : overriddenClose(t, fd)
  \/ overriddenLink(t) \/ overriddenMkdir(t) \/ overriddenRmdir(t)
  \/ \E protected \in BOOLEAN : overriddenUnlink(t, protected)

loggedWrite(t) ==
  \/ \E fd \in Fd, b \in Buffer, short \in BOOLEAN : LoggedBegin(t, fd, b, short)
  \/ LoggedSave(t) \/ LoggedMark(t) \/ LoggedComment(t) \/ LoggedRestore(t)
  \/ LoggedData(t)

Next == \E t \in Thread : Wrapped(t) \/ loggedWrite(t) \/ OverrideCrashes(t)

Spec == Init /\ [][Next]_vars

-------------------------------------------------------------------------------
(* "whatever changes made by a particular user is logged in the .c file by   *)
(* adding the user ID of the user in a commented format for those particular *)
(* changes" (README, WRITE_LOGGED): each change follows a comment with its   *)
(* user's id, and each comment is followed by a change of that user.         *)
LoggedChanges ==
  \A f \in CFile : \A i \in DOMAIN content[f] :
    LET log == content[f]
        Beside(j, as) == /\ j \in DOMAIN log
                         /\ log[j].as = as
                         /\ log[j].user = log[i].user IN
    /\ i = Len(log) /\ log[i].as = "logged" => Beside(i - 1, "comment")
    /\ i < Len(log) /\ log[i].as = "comment" => Beside(i + 1, "logged")

(* loggedWrite comments .c files only: what it learns about fd at its start  *)
(* holds of the file its two writes reach.                                   *)
OnlyCFilesLogged ==
  \A f \in File \ CFile : \A i \in DOMAIN content[f] : content[f][i].as # "comment"

(* A write puts into the file what its caller passed, never a comment that   *)
(* a loggedWrite has put into the caller's buffer for its own use.           *)
DataFromCaller ==
  \A f \in File : \A i \in DOMAIN content[f] :
    content[f][i].text = "comment" <=> content[f][i].as = "comment"

(* Like write, loggedWrite leaves the caller's memory as it was, behind the  *)
(* data too, whichever way it returns.                                       *)
BufferKept ==
  \A p \in Process, b \in Buffer :
    \/ mem[p][b] = Intact
    \/ \E t \in Thread : tgid[t] = p /\ Calling(t) /\ args[t].buf = b
===============================================================================
