----------------------- MODULE OverriddenSyscallsProofs -----------------------
(***************************************************************************)
(* Proofs about OverriddenSyscalls, for any number of threads, processes,   *)
(* files and buffers.  Each promise of loggedWrite is proved from the       *)
(* assumptions it needs and no other: what it puts into a file and which    *)
(* files from those about descriptors and files, what it does to memory     *)
(* from those about buffers.                                                *)
(***************************************************************************)
EXTENDS OverriddenSyscalls, SequenceTheorems, TLAPS

(* The places of a thread that is in a loggedWrite. *)
InLogged == {"save", "mark", "comment", "restore", "write"}

(* A thread has arguments while it is in a loggedWrite. *)
Framed ==
  \A t \in Thread :
    IF pc[t] \in InLogged THEN args[t] \in Args ELSE args[t] = NoArgs

Typed == TypeOK /\ Framed

(* OwnBuffers: no two calls of a process have one buffer. *)
BuffersApart ==
  \A t, u \in Thread :
    /\ t # u /\ tgid[t] = tgid[u]
    /\ pc[t] \in InLogged /\ pc[u] \in InLogged
    => args[t].buf # args[u].buf

(* A buffer holds a comment while, and only while, its call is between        *)
(* putting it there and restoring the data, of which it has a good copy.     *)
BuffersInv ==
  /\ BuffersApart
  /\ \A t \in Thread : pc[t] \in InLogged => args[t].kbuf = "text"
  /\ \A t \in Thread :
       pc[t] \in {"comment", "restore"} => mem[tgid[t]][args[t].buf].data = "comment"
  /\ \A p \in Process, b \in Buffer :
       \/ mem[p][b].data = "text"
       \/ \E t \in Thread :
            tgid[t] = p /\ pc[t] \in {"comment", "restore"} /\ args[t].buf = b

(* LongData: the comment never reaches behind the data. *)
BehindInv ==
  /\ \A t \in Thread : pc[t] \in InLogged => ~ args[t].short
  /\ \A p \in Process, b \in Buffer : mem[p][b].after = "text"

(* StableFds: the file of a call that comments is the .c file it has seen.   *)
FileInv ==
  \A t \in Thread :
    pc[t] \in {"save", "mark", "comment", "restore"} =>
      FdIsFile(t, args[t].fd) /\ IsC(FileOf(t, args[t].fd))

(* OwnFiles: no two calls have one file. *)
FilesApart ==
  \A t, u \in Thread :
    /\ t # u /\ pc[t] \in InLogged /\ pc[u] \in InLogged
    => FileOf(t, args[t].fd) # FileOf(u, args[u].fd)

(* A call that has written its comment and not yet its data, to file f. *)
Owes(t, f) ==
  /\ pc[t] \in {"restore", "write"}
  /\ ~ Standard(args[t].fd)
  /\ FileOf(t, args[t].fd) = f

EndsInCommentOf(log, p) ==
  Len(log) > 0 /\ log[Len(log)].as = "comment" /\ log[Len(log)].user = p

(* A .c file whose last record is a comment is waiting for the change of a    *)
(* call that owes it, and each call that owes one follows its own comment.    *)
PairsInv ==
  /\ LoggedChanges
  /\ \A f \in CFile :
       /\ \A p \in Process : EndsInCommentOf(content[f], p) =>
            \E t \in Thread : tgid[t] = p /\ Owes(t, f)
       /\ \A t \in Thread : Owes(t, f) => EndsInCommentOf(content[f], tgid[t])

(* What a write makes of the records of a file. *)
Log == UNION {[1 .. n -> Record] : n \in 0 .. 2}
Pushed(log, new) == IF Len(log) = 2 THEN <<log[2], new>> ELSE Append(log, new)
NewRecord(t, b, as) == [text |-> mem[tgid[t]][b].data, user |-> tgid[t], as |-> as]
Writes(t, fd, b, as) ==
  /\ FileOf(t, fd) # NoFile
  /\ content' = [content EXCEPT ![FileOf(t, fd)] =
                   Pushed(content[FileOf(t, fd)], NewRecord(t, b, as))]

-------------------------------------------------------------------------------
(* The arguments of a call are never NoArgs. *)
LEMMA ArgsAreSome ==
  ASSUME NEW a \in Args
  PROVE  a # NoArgs
<1>1. "fd" \in DOMAIN a
  BY DEF Args
<1>2. DOMAIN NoArgs = 1 .. 0
  BY DEF NoArgs
<1>3. 1 .. 0 = {}
  OBVIOUS
<1> QED
  BY <1>1, <1>2, <1>3

(* Who calls is in a loggedWrite. *)
LEMMA CallingThreads ==
  ASSUME Framed, NEW t \in Thread
  PROVE  Calling(t) <=> pc[t] \in InLogged
BY ArgsAreSome DEF Framed, Calling

(* The records of a file are a sequence of at most two. *)
LEMMA Logs ==
  ASSUME NEW log \in Log
  PROVE  /\ log \in Seq(Record) /\ Len(log) \in 0 .. 2 /\ DOMAIN log = 1 .. Len(log)
         /\ \A i \in 1 .. Len(log) : log[i] \in Record
<1>1. PICK n \in 0 .. 2 : log \in [1 .. n -> Record]
  BY DEF Log
<1>2. log \in Seq(Record)
  BY <1>1
<1>3. Len(log) = n
  BY <1>1, <1>2
<1> QED
  BY <1>1, <1>2, <1>3

(* A record is pushed behind the last one, and at most one is left of those. *)
LEMMA Pushing ==
  ASSUME NEW log \in Log, NEW new \in Record
  PROVE  /\ Pushed(log, new) \in Log
         /\ Len(Pushed(log, new)) = IF Len(log) = 0 THEN 1 ELSE 2
         /\ Pushed(log, new)[Len(Pushed(log, new))] = new
         /\ Len(log) > 0 => Pushed(log, new)[1] = log[Len(log)]
<1>1. log \in Seq(Record) /\ Len(log) \in 0 .. 2 /\ DOMAIN log = 1 .. Len(log)
  BY Logs
<1>2. CASE Len(log) = 2
  <2>1. Pushed(log, new) = <<log[2], new>>
    BY <1>2 DEF Pushed
  <2>2. log[2] \in Record
    BY <1>2, Logs
  <2>3. <<log[2], new>> \in [1 .. 2 -> Record]
    <3>1. <<log[2], new>> \in Seq(Record) /\ Len(<<log[2], new>>) = 2
      BY <2>2
    <3> QED
      BY <3>1, LenProperties
  <2>4. Pushed(log, new) \in Log
    BY <2>1, <2>3 DEF Log
  <2>5. Len(<<log[2], new>>) = 2 /\ <<log[2], new>>[2] = new /\ <<log[2], new>>[1] = log[2]
    OBVIOUS
  <2> QED
    BY <1>2, <2>1, <2>4, <2>5
<1>3. CASE Len(log) = 1
  <2>1. Pushed(log, new) = Append(log, new)
    BY <1>3 DEF Pushed
  <2>2. /\ Append(log, new) \in Seq(Record) /\ Len(Append(log, new)) = 2
        /\ Append(log, new)[2] = new /\ Append(log, new)[1] = log[1]
    BY <1>1, <1>3
  <2>3. Append(log, new) \in [1 .. 2 -> Record]
    BY <2>2, LenProperties
  <2>4. Pushed(log, new) \in Log
    BY <2>1, <2>3 DEF Log
  <2> QED
    BY <1>3, <2>1, <2>2, <2>4
<1>4. CASE Len(log) = 0
  <2>1. Pushed(log, new) = Append(log, new)
    BY <1>4 DEF Pushed
  <2>2. /\ Append(log, new) \in Seq(Record) /\ Len(Append(log, new)) = 1
        /\ Append(log, new)[1] = new
    BY <1>1, <1>4
  <2>3. Append(log, new) \in [1 .. 1 -> Record]
    BY <2>2, LenProperties
  <2>4. Pushed(log, new) \in Log
    BY <2>1, <2>3 DEF Log
  <2> QED
    BY <1>4, <2>1, <2>2, <2>4
<1> QED
  BY <1>1, <1>2, <1>3, <1>4

(* A write of the kernel either fails or pushes a record. *)
LEMMA WriteEffects ==
  ASSUME Typed, NEW t \in Thread, NEW fd \in Fd, NEW b \in Buffer,
         NEW as \in {"comment", "logged", "plain"},
         original_write(t, fd, b, as)
  PROVE  /\ UNCHANGED <<tgid, vector, fdt, mem>>
         /\ NewRecord(t, b, as) \in Record
         /\ \/ Writes(t, fd, b, as)
            \/ /\ UNCHANGED content
               /\ FileOf(t, fd) = NoFile \/ "WritesSucceed" \notin Env
         /\ content' \in [File -> Log]
<1>1. /\ UNCHANGED <<tgid, vector, fdt, mem>>
      /\ \/ Writes(t, fd, b, as)
         \/ /\ UNCHANGED content
            /\ FileOf(t, fd) = NoFile \/ "WritesSucceed" \notin Env
  BY DEF original_write, Writes, Pushed, NewRecord, Typed, TypeOK, FileOf
<1>2. NewRecord(t, b, as) \in Record
  BY DEF Typed, TypeOK, NewRecord, Record
<1>3. content \in [File -> Log]
  BY DEF Typed, TypeOK, Log
<1>4. FileOf(t, fd) \in File \cup {NoFile}
  BY DEF Typed, TypeOK, FileOf
<1>5. ASSUME Writes(t, fd, b, as)
      PROVE  content' \in [File -> Log]
  <2>1. FileOf(t, fd) \in File
    BY <1>4, <1>5 DEF Writes
  <2>2. Pushed(content[FileOf(t, fd)], NewRecord(t, b, as)) \in Log
    BY <1>2, <1>3, <2>1, Pushing
  <2> QED
    BY <1>3, <1>5, <2>2 DEF Writes
<1> QED
  BY <1>1, <1>2, <1>3, <1>5

(* Each record of a file was there before the write, or is the one written.  *)
RecordsWritten(t, fd, b, as) ==
  \A f \in File : \A i \in DOMAIN content'[f] :
    \/ \E j \in DOMAIN content[f] : content'[f][i] = content[f][j]
    \/ f = FileOf(t, fd) /\ content'[f][i] = NewRecord(t, b, as)

(* After a write, each record is an old one of its file or the new one.       *)
LEMMA WrittenRecords ==
  ASSUME Typed, NEW t \in Thread, NEW fd \in Fd, NEW b \in Buffer,
         NEW as \in {"comment", "logged", "plain"}, Writes(t, fd, b, as)
  PROVE  RecordsWritten(t, fd, b, as)
<1>1. content \in [File -> Log]
  BY DEF Typed, TypeOK, Log
<1>2. NewRecord(t, b, as) \in Record
  BY DEF Typed, TypeOK, NewRecord, Record
<1>3. FileOf(t, fd) \in File
  BY DEF Typed, TypeOK, FileOf, Writes
<1> SUFFICES ASSUME NEW f \in File, NEW i \in DOMAIN content'[f]
             PROVE  \/ \E j \in DOMAIN content[f] : content'[f][i] = content[f][j]
                    \/ f = FileOf(t, fd) /\ content'[f][i] = NewRecord(t, b, as)
  BY DEF RecordsWritten
<1>4. CASE f # FileOf(t, fd)
  BY <1>1, <1>3, <1>4 DEF Writes
<1>5. CASE f = FileOf(t, fd)
  <2> DEFINE log == content[f]
             new == NewRecord(t, b, as)
  <2>1. content'[f] = Pushed(log, new) /\ log \in Log
    BY <1>1, <1>3, <1>5 DEF Writes
  <2>2. /\ Pushed(log, new) \in Log
        /\ Len(Pushed(log, new)) = IF Len(log) = 0 THEN 1 ELSE 2
        /\ Pushed(log, new)[Len(Pushed(log, new))] = new
        /\ Len(log) > 0 => Pushed(log, new)[1] = log[Len(log)]
    BY <1>2, <2>1, Pushing
  <2>3. i \in 1 .. Len(Pushed(log, new)) /\ Len(log) \in 0 .. 2 /\ DOMAIN log = 1 .. Len(log)
    BY <2>1, <2>2, Logs
  <2> HIDE DEF log, new
  <2>4. CASE i = Len(Pushed(log, new))
    BY <1>5, <2>1, <2>2, <2>4 DEF new
  <2>5. CASE i # Len(Pushed(log, new))
    <3>1. Len(log) > 0 /\ i = 1
      BY <2>2, <2>3, <2>5
    <3>2. Len(log) \in DOMAIN log
      BY <2>3, <3>1
    <3> QED
      BY <2>1, <2>2, <3>1, <3>2 DEF log
  <2> QED
    BY <2>4, <2>5
<1> QED
  BY <1>4, <1>5

-------------------------------------------------------------------------------
(* Memory after data is put into a buffer. *)
Memory == [Process -> [Buffer -> [data: Text, after: Text]]]
Put(m, p, b, x) == [m EXCEPT ![p][b].data = x]

LEMMA Putting ==
  ASSUME NEW m \in Memory, NEW p \in Process, NEW b \in Buffer, NEW x \in Text
  PROVE  /\ Put(m, p, b, x) \in Memory
         /\ Put(m, p, b, x)[p][b].data = x
         /\ \A q \in Process, c \in Buffer :
              /\ Put(m, p, b, x)[q][c].after = m[q][c].after
              /\ q # p \/ c # b => Put(m, p, b, x)[q][c] = m[q][c]
<1>1. m[p] \in [Buffer -> [data: Text, after: Text]] /\ m[p][b] \in [data: Text, after: Text]
  BY DEF Memory
<1>2. DEFINE cell == [m[p][b] EXCEPT !.data = x]
<1>3. cell \in [data: Text, after: Text] /\ cell.data = x /\ cell.after = m[p][b].after
  BY <1>1
<1>4. Put(m, p, b, x) = [m EXCEPT ![p] = [m[p] EXCEPT ![b] = cell]]
  BY <1>1 DEF Put, Memory
<1> HIDE DEF cell
<1> QED
  BY <1>1, <1>3, <1>4 DEF Memory

(* What a call of the other overrides may change: what the original does.    *)
LEMMA WrappedEffects ==
  ASSUME Typed, NEW t \in Thread, Wrapped(t)
  PROVE  /\ pc[t] = "user"
         /\ UNCHANGED <<tgid, vector, pc, args>>
         /\ \/ UNCHANGED <<fdt, content, mem>>
            \/ \E b \in Buffer :
                 /\ BufferFree(t, b)
                 /\ mem' = Put(mem, tgid[t], b, "text")
                 /\ UNCHANGED <<fdt, content>>
            \/ \E fd \in Fd, b \in Buffer :
                 /\ BufferFree(t, b) /\ FileFree(t, FileOf(t, fd))
                 /\ original_write(t, fd, b, "plain")
            \/ \E fd \in Fd, f \in File \cup {NoFile} :
                 /\ FdFree(t, fd)
                 /\ fdt' = [fdt EXCEPT ![tgid[t]][fd] = f]
                 /\ UNCHANGED <<content, mem>>
<1>1. pc[t] = "user" /\ Answers(t) => UNCHANGED <<pc, args>>
  <2> SUFFICES ASSUME pc[t] = "user", Answers(t)
               PROVE  UNCHANGED <<pc, args>>
    OBVIOUS
  <2>1. pc' = pc
    BY DEF Answers, Goes, Typed, TypeOK
  <2>2. args[t] = NoArgs
    BY DEF Typed, Framed, InLogged
  <2>3. args' = args
    BY <2>2 DEF Answers, Typed, TypeOK
  <2> QED
    BY <2>1, <2>3
<1>2. CASE getProcessNameFails(t)
  BY <1>1, <1>2 DEF getProcessNameFails, Calls, shared
<1>3. ASSUME NEW fd \in Fd, NEW b \in Buffer, overriddenRead(t, fd, b)
      PROVE  /\ pc[t] = "user" /\ UNCHANGED <<tgid, vector, pc, args, fdt, content>>
             /\ BufferFree(t, b)
             /\ UNCHANGED mem \/ mem' = Put(mem, tgid[t], b, "text")
  BY <1>1, <1>3 DEF Put, overriddenRead, original_read, Through, Calls
<1>4. ASSUME NEW fd \in Fd, NEW b \in Buffer, overriddenWrite(t, fd, b)
      PROVE  /\ pc[t] = "user" /\ UNCHANGED <<tgid, vector, pc, args>>
             /\ BufferFree(t, b) /\ FileFree(t, FileOf(t, fd))
             /\ original_write(t, fd, b, "plain")
  BY <1>1, <1>4 DEF overriddenWrite, original_write, Through, Calls
<1>5. ASSUME NEW f \in File, original_open(t, f)
      PROVE  /\ UNCHANGED <<tgid, vector, content, mem>>
             /\ \/ UNCHANGED fdt
                \/ \E fd \in Fd : /\ FdFree(t, fd)
                                  /\ fdt' = [fdt EXCEPT ![tgid[t]][fd] = f]
  BY <1>5 DEF original_open
<1>6. ASSUME NEW f \in File,
             overriddenOpen(t, f) \/ \E blocked \in BOOLEAN : blockedOpen(t, f, blocked)
      PROVE  /\ pc[t] = "user" /\ UNCHANGED <<tgid, vector, pc, args, content, mem>>
             /\ \/ UNCHANGED fdt
                \/ \E fd \in Fd : /\ FdFree(t, fd)
                                  /\ fdt' = [fdt EXCEPT ![tgid[t]][fd] = f]
  BY <1>1, <1>5, <1>6 DEF overriddenOpen, blockedOpen, Refuses, Through, Calls, shared
<1>7. ASSUME NEW fd \in Fd, overriddenClose(t, fd)
      PROVE  /\ pc[t] = "user" /\ UNCHANGED <<tgid, vector, pc, args, content, mem>>
             /\ FdFree(t, fd)
             /\ fdt' = [fdt EXCEPT ![tgid[t]][fd] = NoFile]
  BY <1>1, <1>7 DEF overriddenClose, original_close, Through, Calls
<1>8. CASE \/ overriddenLink(t) \/ overriddenMkdir(t) \/ overriddenRmdir(t)
           \/ \E protected \in BOOLEAN : overriddenUnlink(t, protected)
  BY <1>1, <1>8 DEF overriddenLink, overriddenMkdir, overriddenRmdir, OnPath,
                    overriddenUnlink, Refuses, Through, Calls, shared
<1> QED
  BY <1>2, <1>3, <1>4, <1>6, <1>7, <1>8 DEF Wrapped

(* What the start of a loggedWrite may change: nothing shared; it returns at *)
(* once, or the thread goes on with arguments nobody else uses.              *)
LEMMA BeginEffects ==
  ASSUME Typed, NEW t \in Thread, NEW fd \in Fd, NEW b \in Buffer,
         NEW short \in BOOLEAN, LoggedBegin(t, fd, b, short)
  PROVE  /\ pc[t] = "user"
         /\ UNCHANGED shared
         /\ \/ UNCHANGED <<pc, args>>
            \/ /\ BufferFree(t, b) /\ FileFree(t, FileOf(t, fd))
               /\ Assuming("LongData", ~ short)
               /\ args' = [args EXCEPT ![t] = [fd |-> fd, buf |-> b, short |-> short,
                                               kbuf |-> "text"]]
               /\ \/ /\ FdIsFile(t, fd) /\ IsC(FileOf(t, fd))
                     /\ pc' = [pc EXCEPT ![t] = "save"]
                  \/ /\ Standard(fd) \/ ~ IsC(FileOf(t, fd))
                     /\ pc' = [pc EXCEPT ![t] = "write"]
<1>1. pc[t] = "user" /\ UNCHANGED shared
  BY DEF LoggedBegin, LoggedCall, Calls
<1>2. ASSUME Answers(t)
      PROVE  UNCHANGED <<pc, args>>
  <2>1. pc' = pc
    BY <1>1, <1>2 DEF Answers, Goes, Typed, TypeOK
  <2>2. args[t] = NoArgs
    BY <1>1 DEF Typed, Framed, InLogged
  <2>3. args' = args
    BY <1>2, <2>2 DEF Answers, Typed, TypeOK
  <2> QED
    BY <2>1, <2>3
<1>3. CASE LoggedUnnamed(t) \/ LoggedBadFd(t, fd) \/ LoggedNoPage(t, fd)
  BY <1>1, <1>2, <1>3 DEF LoggedUnnamed, LoggedBadFd, LoggedNoPage
<1>4. CASE LoggedStandard(t, fd, b, short)
  BY <1>1, <1>4 DEF LoggedBegin, LoggedCall, LoggedStandard, Enters, Goes
<1>5. CASE LoggedPath(t, fd, b, short)
  BY <1>1, <1>5 DEF LoggedBegin, LoggedCall, LoggedPath, Enters, Goes
<1> QED
  BY <1>3, <1>4, <1>5 DEF LoggedBegin

(* An override that crashes before the original call changes nothing else.   *)
LEMMA CrashEffects ==
  ASSUME NEW t \in Thread, OverrideCrashes(t)
  PROVE  /\ pc[t] = "user" /\ pc' = [pc EXCEPT ![t] = "oops"]
         /\ UNCHANGED <<shared, args>>
BY DEF OverrideCrashes, Calls, Goes

(* Putting the comment into the buffer changes nothing but the buffer.        *)
LEMMA MarkEffects ==
  ASSUME Typed, NEW t \in Thread, LoggedMark(t)
  PROVE  /\ pc[t] = "mark" /\ args[t] \in Args /\ tgid[t] \in Process
         /\ UNCHANGED <<tgid, vector, fdt, content>>
         /\ mem' \in Memory
         /\ \/ /\ UNCHANGED mem
               /\ pc' = [pc EXCEPT ![t] = "user"]
               /\ args' = [args EXCEPT ![t] = NoArgs]
            \/ /\ "WholeBuffers" \notin Env
               /\ pc' = [pc EXCEPT ![t] = "user"]
               /\ args' = [args EXCEPT ![t] = NoArgs]
            \/ /\ pc' = [pc EXCEPT ![t] = "comment"]
               /\ UNCHANGED args
               /\ mem'[tgid[t]][args[t].buf].data = "comment"
               /\ ~ args[t].short =>
                    mem'[tgid[t]][args[t].buf].after = mem[tgid[t]][args[t].buf].after
               /\ \A q \in Process, c \in Buffer :
                    q # tgid[t] \/ c # args[t].buf => mem'[q][c] = mem[q][c]
<1>1. pc[t] = "mark" /\ args[t] \in Args /\ tgid[t] \in Process
  BY DEF LoggedMark, Typed, TypeOK, Framed, InLogged
<1>2. UNCHANGED <<tgid, vector, fdt, content>>
  BY DEF LoggedMark
<1>3. mem \in Memory
  BY DEF Typed, TypeOK, Memory
<1>4. CASE Answers(t) /\ UNCHANGED mem
  BY <1>1, <1>2, <1>3, <1>4 DEF Answers, Goes
<1>5. CASE ~ (Answers(t) /\ UNCHANGED mem)
  <2> DEFINE b == args[t].buf
             p == tgid[t]
             cell(behind) == [data  |-> "comment",
                              after |-> IF behind THEN "comment" ELSE mem[p][b].after]
  <2>1. b \in Buffer
    BY <1>1 DEF Args
  <2>2. \A behind \in BOOLEAN : cell(behind) \in [data: Text, after: Text]
    BY <1>1, <1>3, <2>1 DEF Text, Memory
  <2>3. PICK behind \in BOOLEAN :
          /\ mem' = [mem EXCEPT ![p][b] = cell(behind)]
          /\ \/ "WholeBuffers" \notin Env /\ Answers(t)
             \/ behind = args[t].short /\ Goes(t, "comment") /\ UNCHANGED args
    BY <1>1, <1>3, <1>5, <2>1 DEF LoggedMark, Memory, Copies
  <2>4. /\ cell(behind).data = "comment"
        /\ ~ behind => cell(behind).after = mem[p][b].after
    OBVIOUS
  <2>5. \/ /\ "WholeBuffers" \notin Env
           /\ pc' = [pc EXCEPT ![t] = "user"]
           /\ args' = [args EXCEPT ![t] = NoArgs]
        \/ /\ behind = args[t].short
           /\ pc' = [pc EXCEPT ![t] = "comment"] /\ UNCHANGED args
    BY <2>3 DEF Goes, Answers
  <2> HIDE DEF cell
  <2>6. /\ mem' \in Memory
        /\ mem'[p][b] = cell(behind)
        /\ \A q \in Process, c \in Buffer : q # p \/ c # b => mem'[q][c] = mem[q][c]
    BY <1>1, <1>3, <2>1, <2>2, <2>3 DEF Memory
  <2> QED
    BY <1>1, <1>2, <2>4, <2>5, <2>6
<1> QED
  BY <1>4, <1>5

(* Restoring the data changes nothing but the data. *)
LEMMA RestoreEffects ==
  ASSUME "WholeBuffers" \in Env, Typed, NEW t \in Thread, LoggedRestore(t)
  PROVE  /\ pc[t] = "restore" /\ args[t] \in Args /\ tgid[t] \in Process
         /\ UNCHANGED <<tgid, vector, fdt, content, args>>
         /\ pc' = [pc EXCEPT ![t] = "write"]
         /\ mem' \in Memory
         /\ mem'[tgid[t]][args[t].buf].data = args[t].kbuf
         /\ \A q \in Process, c \in Buffer : mem'[q][c].after = mem[q][c].after
         /\ \A q \in Process, c \in Buffer :
              q # tgid[t] \/ c # args[t].buf => mem'[q][c] = mem[q][c]
<1>1. pc[t] = "restore" /\ args[t] \in Args /\ tgid[t] \in Process
  BY DEF LoggedRestore, Typed, TypeOK, Framed, InLogged
<1>2. args[t].buf \in Buffer /\ args[t].kbuf \in Text
  BY <1>1 DEF Args
<1>3. mem \in Memory
  BY DEF Typed, TypeOK, Memory
<1>4. mem' = Put(mem, tgid[t], args[t].buf, args[t].kbuf)
  BY DEF LoggedRestore, Put, Copies
<1>5. /\ Put(mem, tgid[t], args[t].buf, args[t].kbuf) \in Memory
      /\ Put(mem, tgid[t], args[t].buf, args[t].kbuf)[tgid[t]][args[t].buf].data = args[t].kbuf
  BY <1>1, <1>2, <1>3, Putting
<1>6. \A q \in Process, c \in Buffer :
        /\ Put(mem, tgid[t], args[t].buf, args[t].kbuf)[q][c].after = mem[q][c].after
        /\ q # tgid[t] \/ c # args[t].buf =>
             Put(mem, tgid[t], args[t].buf, args[t].kbuf)[q][c] = mem[q][c]
  BY <1>1, <1>2, <1>3, Putting
<1>7. /\ UNCHANGED <<tgid, vector, fdt, content, args>>
      /\ pc' = [pc EXCEPT ![t] = "write"]
  BY DEF LoggedRestore, Goes, Copies
<1> QED
  BY <1>1, <1>4, <1>5, <1>6, <1>7

(* Whether or not it succeeds, the call goes on to the data or returns.      *)
LEMMA RestoreTypes ==
  ASSUME Typed, NEW t \in Thread, LoggedRestore(t)
  PROVE  /\ pc[t] = "restore" /\ args[t] \in Args /\ tgid[t] \in Process
         /\ UNCHANGED <<tgid, vector, fdt, content>>
         /\ \/ pc' = [pc EXCEPT ![t] = "write"] /\ UNCHANGED args
            \/ /\ pc' = [pc EXCEPT ![t] = "user"]
               /\ args' = [args EXCEPT ![t] = NoArgs]
         /\ mem' \in Memory
<1>1. pc[t] = "restore" /\ args[t] \in Args /\ tgid[t] \in Process
  BY DEF LoggedRestore, Typed, TypeOK, Framed, InLogged
<1>2. args[t].buf \in Buffer /\ args[t].kbuf \in Text
  BY <1>1 DEF Args
<1>3. mem \in Memory
  BY DEF Typed, TypeOK, Memory
<1>4. UNCHANGED mem \/ mem' = Put(mem, tgid[t], args[t].buf, args[t].kbuf)
  BY DEF LoggedRestore, Put
<1>5. mem' \in Memory
  BY <1>1, <1>2, <1>3, <1>4, Putting
<1>6. /\ UNCHANGED <<tgid, vector, fdt, content>>
      /\ \/ pc' = [pc EXCEPT ![t] = "write"] /\ UNCHANGED args
         \/ /\ pc' = [pc EXCEPT ![t] = "user"]
            /\ args' = [args EXCEPT ![t] = NoArgs]
  BY DEF LoggedRestore, Goes, Answers
<1> QED
  BY <1>1, <1>5, <1>6

-------------------------------------------------------------------------------
(* The places of a thread, as TypeOK lists them. *)
Place == {"user", "save", "mark", "comment", "restore", "write", "oops"}

(* A thread that goes on to a place with the arguments that belong there      *)
(* leaves every thread with the arguments that belong to where it is.         *)
LEMMA Reframed ==
  ASSUME Typed, NEW t \in Thread, NEW where \in Place, NEW a \in Args \cup {NoArgs},
         IF where \in InLogged THEN a \in Args ELSE a = NoArgs,
         pc' = [pc EXCEPT ![t] = where], args' = [args EXCEPT ![t] = a]
  PROVE  /\ pc' \in [Thread -> Place]
         /\ args' \in [Thread -> Args \cup {NoArgs}]
         /\ Framed'
<1>1. pc \in [Thread -> Place] /\ args \in [Thread -> Args \cup {NoArgs}]
  BY DEF Typed, TypeOK, Place
<1>2. /\ pc' \in [Thread -> Place] /\ args' \in [Thread -> Args \cup {NoArgs}]
      /\ pc'[t] = where /\ args'[t] = a
      /\ \A u \in Thread \ {t} : pc'[u] = pc[u] /\ args'[u] = args[u]
  BY <1>1
<1> QED
  BY <1>2 DEF Typed, Framed

LEMMA StepTyped == Typed /\ [Next]_vars => Typed'
<1> SUFFICES ASSUME Typed, [Next]_vars
             PROVE  Typed'
  OBVIOUS
<1>1. ASSUME NEW t \in Thread, Wrapped(t)
      PROVE  Typed'
  <2>1. UNCHANGED <<tgid, vector, pc, args>>
    BY <1>1, WrappedEffects
  <2>2. /\ fdt' \in [Process -> [Fd -> File \cup {NoFile}]]
        /\ content' \in [File -> UNION {[1 .. n -> Record] : n \in 0 .. 2}]
        /\ mem' \in Memory
    <3>1. CASE UNCHANGED <<fdt, content, mem>>
      BY <3>1 DEF Typed, TypeOK, Memory
    <3>2. CASE \E b \in Buffer :
                 /\ mem' = Put(mem, tgid[t], b, "text")
                 /\ UNCHANGED <<fdt, content>>
      <4>1. PICK b \in Buffer : mem' = Put(mem, tgid[t], b, "text")
        BY <3>2
      <4>2. tgid[t] \in Process /\ "text" \in Text
        BY DEF Typed, TypeOK, Text
      <4>3. mem \in Memory
        BY DEF Typed, TypeOK, Memory
      <4> QED
        BY <3>2, <4>1, <4>2, <4>3, Putting DEF Typed, TypeOK, Memory
    <3>3. CASE \E fd \in Fd, b \in Buffer :
                 original_write(t, fd, b, "plain")
      BY <3>3, WriteEffects DEF Typed, TypeOK, Log, Memory
    <3>4. CASE \E fd \in Fd, f \in File \cup {NoFile} :
                 /\ fdt' = [fdt EXCEPT ![tgid[t]][fd] = f]
                 /\ UNCHANGED <<content, mem>>
      BY <3>4 DEF Typed, TypeOK, Memory
    <3> QED
      BY <1>1, <3>1, <3>2, <3>3, <3>4, WrappedEffects
  <2>3. table' \in BOOLEAN
    BY <1>1 DEF Wrapped, getProcessNameFails, overriddenRead, overriddenWrite,
       overriddenOpen, blockedOpen, overriddenClose, overriddenLink,
       overriddenMkdir, overriddenRmdir, OnPath, overriddenUnlink, Refuses,
       Through, Answers, Typed, TypeOK
  <2> QED
    BY <2>1, <2>2, <2>3 DEF Typed, TypeOK, Framed, Memory
<1>2. ASSUME NEW t \in Thread, NEW fd \in Fd, NEW b \in Buffer,
             NEW short \in BOOLEAN, LoggedBegin(t, fd, b, short)
      PROVE  Typed'
  <2>1. table' \in BOOLEAN
    BY <1>2 DEF LoggedBegin, LoggedCall
  <2>2. [fd |-> fd, buf |-> b, short |-> short, kbuf |-> "text"] \in Args
    BY DEF Args, Text
  <2>3. UNCHANGED shared
    BY <1>2, BeginEffects
  <2>4. CASE UNCHANGED <<pc, args>>
    BY <2>1, <2>3, <2>4 DEF shared, Typed, TypeOK, Framed
  <2>5. CASE /\ args' = [args EXCEPT ![t] = [fd |-> fd, buf |-> b, short |-> short,
                                             kbuf |-> "text"]]
             /\ \E where \in {"save", "write"} : pc' = [pc EXCEPT ![t] = where]
    <3>1. /\ pc' \in [Thread -> {"user", "save", "mark", "comment", "restore", "write", "oops"}]
          /\ args' \in [Thread -> Args \cup {NoArgs}]
      BY <2>2, <2>5 DEF Typed, TypeOK
    <3>2. Framed'
      BY <2>2, <2>5 DEF Typed, TypeOK, Framed, InLogged
    <3> QED
      BY <2>1, <2>3, <3>1, <3>2 DEF shared, Typed, TypeOK
  <2> QED
    BY <1>2, <2>4, <2>5, BeginEffects
<1>3. ASSUME NEW t \in Thread, LoggedSave(t)
      PROVE  Typed'
  <2>1. args[t] \in Args /\ tgid[t] \in Process
    BY <1>3 DEF LoggedSave, Typed, TypeOK, Framed, InLogged
  <2>2. mem[tgid[t]][args[t].buf] \in [data: Text, after: Text]
    BY <2>1 DEF Typed, TypeOK, Args
  <2>3. [args[t] EXCEPT !.kbuf = mem[tgid[t]][args[t].buf].data] \in Args
    BY <2>1, <2>2 DEF Args
  <2>4. UNCHANGED <<shared, table>>
    BY <1>3 DEF LoggedSave
  <2>5. CASE Goes(t, "mark") /\ args' = [args EXCEPT ![t].kbuf = mem[tgid[t]][args[t].buf].data]
    BY <2>3, <2>4, <2>5 DEF Goes, shared, Typed, TypeOK, Framed, InLogged
  <2>6. CASE (Goes(t, "oops") \/ Goes(t, "user")) /\ args' = [args EXCEPT ![t] = NoArgs]
    BY <2>4, <2>6 DEF Goes, shared, Typed, TypeOK, Framed, InLogged
  <2> QED
    BY <1>3, <2>5, <2>6 DEF LoggedSave, Answers
<1>4. ASSUME NEW t \in Thread, LoggedMark(t)
      PROVE  Typed'
  <2>1. args[t] \in Args /\ args \in [Thread -> Args \cup {NoArgs}]
    BY <1>4, MarkEffects DEF Typed, TypeOK
  <2>5. /\ pc' \in [Thread -> Place]
        /\ args' \in [Thread -> Args \cup {NoArgs}]
        /\ Framed'
    <3>1. CASE pc' = [pc EXCEPT ![t] = "user"] /\ args' = [args EXCEPT ![t] = NoArgs]
      BY <3>1, Reframed DEF InLogged, Place
    <3>2. CASE pc' = [pc EXCEPT ![t] = "comment"] /\ UNCHANGED args
      <4>1. args' = [args EXCEPT ![t] = args[t]]
        BY <2>1, <3>2
      <4> QED
        BY <2>1, <3>2, <4>1, Reframed DEF InLogged, Place
    <3> QED
      BY <1>4, <3>1, <3>2, MarkEffects
  <2>6. /\ UNCHANGED <<tgid, vector, fdt, content>>
        /\ mem' \in Memory
    BY <1>4, MarkEffects
  <2>2. table' = table
    BY <1>4 DEF LoggedMark
  <2> QED
    BY <2>2, <2>5, <2>6 DEF Typed, TypeOK, Memory, Place
<1>5. ASSUME NEW t \in Thread, LoggedComment(t)
      PROVE  Typed'
  <2>1. args[t] \in Args
    BY <1>5 DEF LoggedComment, Typed, Framed, InLogged
  <2>2. UNCHANGED <<tgid, vector, fdt, mem>> /\ content' \in [File -> Log]
    BY <1>5, <2>1, WriteEffects DEF LoggedComment, Args
  <2>3. pc' = [pc EXCEPT ![t] = "restore"] /\ UNCHANGED <<args, table>>
    BY <1>5 DEF LoggedComment, Goes
  <2>4. args' = [args EXCEPT ![t] = args[t]]
    BY <2>3 DEF Typed, TypeOK
  <2>5. pc' \in [Thread -> Place] /\ Framed'
    BY <2>1, <2>3, <2>4, Reframed DEF InLogged, Place
  <2> QED
    BY <2>2, <2>3, <2>5 DEF Typed, TypeOK, Log, Place
<1>6. ASSUME NEW t \in Thread, LoggedRestore(t)
      PROVE  Typed'
  <2>1. table' = table
    BY <1>6 DEF LoggedRestore
  <2>2. /\ args[t] \in Args /\ UNCHANGED <<tgid, vector, fdt, content>>
        /\ mem' \in Memory
    BY <1>6, RestoreTypes
  <2>3. /\ pc' \in [Thread -> Place]
        /\ args' \in [Thread -> Args \cup {NoArgs}]
        /\ Framed'
    <3>1. CASE pc' = [pc EXCEPT ![t] = "write"] /\ UNCHANGED args
      <4>1. args' = [args EXCEPT ![t] = args[t]]
        BY <3>1 DEF Typed, TypeOK
      <4> QED
        BY <2>2, <3>1, <4>1, Reframed DEF InLogged, Place
    <3>2. CASE pc' = [pc EXCEPT ![t] = "user"] /\ args' = [args EXCEPT ![t] = NoArgs]
      BY <3>2, Reframed DEF InLogged, Place
    <3> QED
      BY <1>6, <3>1, <3>2, RestoreTypes
  <2> QED
    BY <2>1, <2>2, <2>3 DEF Typed, TypeOK, Memory, Place
<1>7. ASSUME NEW t \in Thread, LoggedData(t)
      PROVE  Typed'
  <2>1. args[t] \in Args
    BY <1>7 DEF LoggedData, Typed, Framed, InLogged
  <2>2. UNCHANGED <<tgid, vector, fdt, mem>> /\ content' \in [File -> Log]
    BY <1>7, <2>1, WriteEffects DEF LoggedData, Args
  <2>3. /\ pc' = [pc EXCEPT ![t] = "user"] /\ args' = [args EXCEPT ![t] = NoArgs]
        /\ UNCHANGED table
    BY <1>7 DEF LoggedData, Answers, Goes
  <2>4. /\ pc' \in [Thread -> Place] /\ args' \in [Thread -> Args \cup {NoArgs}]
        /\ Framed'
    BY <2>3, Reframed DEF InLogged, Place
  <2> QED
    BY <2>2, <2>3, <2>4 DEF Typed, TypeOK, Log, Place
<1>8. CASE UNCHANGED vars
  BY <1>8 DEF vars, shared, Typed, TypeOK, Framed
<1>9. ASSUME NEW t \in Thread, OverrideCrashes(t)
      PROVE  Typed'
  <2>1. pc[t] = "user" /\ pc' = [pc EXCEPT ![t] = "oops"] /\ UNCHANGED <<shared, args>>
    BY <1>9, CrashEffects
  <2>2. table' \in BOOLEAN
    BY <1>9 DEF OverrideCrashes, Typed, TypeOK
  <2>3. args' = [args EXCEPT ![t] = NoArgs]
    BY <2>1 DEF Typed, TypeOK, Framed, InLogged
  <2>4. pc' \in [Thread -> Place] /\ Framed'
    BY <2>1, <2>3, Reframed DEF InLogged, Place
  <2> QED
    BY <2>1, <2>2, <2>4 DEF shared, Typed, TypeOK, Place
<1> QED
  BY <1>1, <1>2, <1>3, <1>4, <1>5, <1>6, <1>7, <1>8, <1>9 DEF Next, loggedWrite

LEMMA InitTyped == Init => Typed
<1> SUFFICES ASSUME Init
             PROVE  Typed
  OBVIOUS
<1>1. content \in [File -> UNION {[1 .. n -> Record] : n \in 0 .. 2}]
  <2>1. <<>> \in [1 .. 0 -> Record]
    OBVIOUS
  <2> QED
    BY <2>1 DEF Init
<1>2. Framed
  BY DEF Init, Framed, InLogged
<1>3. fdt \in [Process -> [Fd -> File \cup {NoFile}]]
  BY DEF Init
<1>4. mem \in Memory
  BY DEF Init, Intact, Text, Memory
<1> QED
  BY <1>1, <1>2, <1>3, <1>4 DEF Init, Typed, TypeOK, Memory

(* The types of all that the calls use and change, whatever programs do.     *)
THEOREM TypeCorrect == Spec => []TypeOK
<1>1. Spec => []Typed
  BY InitTyped, StepTyped, PTL DEF Spec
<1>2. Typed => TypeOK
  BY DEF Typed
<1> QED
  BY <1>1, <1>2, PTL

LEMMA TypedAlways == Spec => []Typed
BY InitTyped, StepTyped, PTL DEF Spec

-------------------------------------------------------------------------------
(* The other calls leave the buffers of a loggedWrite alone. *)
LEMMA FreeBuffer ==
  ASSUME Typed, "OwnBuffers" \in Env, NEW t \in Thread, NEW b \in Buffer,
         BufferFree(t, b), NEW u \in Thread \ {t}, tgid[u] = tgid[t], pc[u] \in InLogged
  PROVE  args[u].buf # b
BY CallingThreads DEF Typed, BufferFree, Assuming, Siblings

LEMMA StepBuffers ==
  ASSUME {"OwnBuffers", "WholeBuffers"} \subseteq Env, Typed, BuffersInv, [Next]_vars
  PROVE  BuffersInv'
<1>1. ASSUME NEW t \in Thread, Wrapped(t)
      PROVE  BuffersInv'
  <2>1. pc[t] = "user" /\ UNCHANGED <<tgid, pc, args>>
    BY <1>1, WrappedEffects
  <2>2. CASE UNCHANGED mem
    BY <2>1, <2>2 DEF BuffersInv, BuffersApart
  <2>3. ASSUME NEW b \in Buffer, BufferFree(t, b), mem' = Put(mem, tgid[t], b, "text")
        PROVE  BuffersInv'
    <3>1. mem \in Memory /\ tgid[t] \in Process /\ "text" \in Text
      BY DEF Typed, TypeOK, Memory, Text
    <3>2. /\ mem'[tgid[t]][b].data = "text"
          /\ \A q \in Process, c \in Buffer : q # tgid[t] \/ c # b => mem'[q][c] = mem[q][c]
      BY <2>3, <3>1, Putting
    <3>3. \A u \in Thread : pc[u] \in {"comment", "restore"} =>
            mem'[tgid[u]][args[u].buf] = mem[tgid[u]][args[u].buf]
      <4> SUFFICES ASSUME NEW u \in Thread, pc[u] \in {"comment", "restore"}
                   PROVE  mem'[tgid[u]][args[u].buf] = mem[tgid[u]][args[u].buf]
        OBVIOUS
      <4>1. u # t /\ pc[u] \in InLogged
        BY <2>1 DEF InLogged
      <4>2. args[u].buf \in Buffer /\ tgid[u] \in Process
        BY <4>1 DEF Typed, TypeOK, Framed, Args
      <4> QED
        BY <2>3, <3>2, <4>1, <4>2, FreeBuffer
    <3> QED
      BY <2>1, <3>2, <3>3 DEF BuffersInv, BuffersApart
  <2> QED
    BY <1>1, <2>2, <2>3, WrappedEffects, WriteEffects
<1>2. ASSUME NEW t \in Thread, NEW fd \in Fd, NEW b \in Buffer,
             NEW short \in BOOLEAN, LoggedBegin(t, fd, b, short)
      PROVE  BuffersInv'
  <2>1. pc[t] = "user" /\ UNCHANGED <<tgid, mem>>
    BY <1>2, BeginEffects DEF shared
  <2>2. CASE UNCHANGED <<pc, args>>
    BY <2>1, <2>2 DEF BuffersInv, BuffersApart
  <2>3. CASE ~ UNCHANGED <<pc, args>>
    <3>1. /\ BufferFree(t, b)
          /\ args' = [args EXCEPT ![t] = [fd |-> fd, buf |-> b, short |-> short,
                                          kbuf |-> "text"]]
          /\ \E where \in {"save", "write"} : pc' = [pc EXCEPT ![t] = where]
      BY <1>2, <2>3, BeginEffects
    <3>2. /\ args'[t].buf = b /\ args'[t].kbuf = "text"
          /\ pc'[t] \in {"save", "write"}
          /\ \A u \in Thread \ {t} : args'[u] = args[u] /\ pc'[u] = pc[u]
      BY <3>1 DEF Typed, TypeOK
    <3>3. \A u \in Thread \ {t} : tgid[u] = tgid[t] /\ pc[u] \in InLogged => args[u].buf # b
      BY <3>1, FreeBuffer
    <3> QED
      BY <2>1, <3>2, <3>3 DEF BuffersInv, BuffersApart
  <2> QED
    BY <2>2, <2>3
<1>3. ASSUME NEW t \in Thread, LoggedSave(t)
      PROVE  BuffersInv'
  <2>1. pc[t] = "save" /\ UNCHANGED <<tgid, mem>> /\ args[t] \in Args /\ tgid[t] \in Process
    BY <1>3 DEF LoggedSave, shared, Typed, TypeOK, Framed, InLogged
  <2>2. mem[tgid[t]][args[t].buf].data = "text"
    <3>1. args[t].buf \in Buffer
      BY <2>1 DEF Args
    <3>2. \A u \in Thread : tgid[u] = tgid[t] /\ pc[u] \in {"comment", "restore"} =>
            args[u].buf # args[t].buf
      BY <2>1 DEF BuffersInv, BuffersApart, InLogged
    <3> QED
      BY <2>1, <3>1, <3>2 DEF BuffersInv
  <2>3. CASE Goes(t, "mark") /\ args' = [args EXCEPT ![t].kbuf = mem[tgid[t]][args[t].buf].data]
    <3>1. /\ args'[t].buf = args[t].buf /\ args'[t].kbuf = "text" /\ pc'[t] = "mark"
          /\ \A u \in Thread \ {t} : args'[u] = args[u] /\ pc'[u] = pc[u]
      BY <2>1, <2>2, <2>3 DEF Goes, Typed, TypeOK, Args
    <3> QED
      BY <2>1, <3>1 DEF BuffersInv, BuffersApart, InLogged
  <2>4. CASE (Goes(t, "oops") \/ Goes(t, "user")) /\ args' = [args EXCEPT ![t] = NoArgs]
    <3>1. /\ pc'[t] \in {"oops", "user"}
          /\ \A u \in Thread \ {t} : args'[u] = args[u] /\ pc'[u] = pc[u]
      BY <2>4 DEF Goes, Typed, TypeOK
    <3> QED
      BY <2>1, <3>1 DEF BuffersInv, BuffersApart, InLogged
  <2> QED
    BY <1>3, <2>3, <2>4 DEF LoggedSave, Answers
<1>4. ASSUME NEW t \in Thread, LoggedMark(t)
      PROVE  BuffersInv'
  <2>1. pc[t] = "mark" /\ tgid' = tgid /\ args[t].buf \in Buffer /\ tgid[t] \in Process
    BY <1>4, MarkEffects DEF Args
  <2>2. \A u \in Thread \ {t} : pc'[u] = pc[u] /\ args'[u] = args[u]
    <3>1. pc \in [Thread -> Place] /\ args \in [Thread -> Args \cup {NoArgs}]
      BY DEF Typed, TypeOK, Place
    <3>2. \/ /\ pc' = [pc EXCEPT ![t] = "user"]
             /\ args' = [args EXCEPT ![t] = NoArgs]
          \/ pc' = [pc EXCEPT ![t] = "comment"] /\ UNCHANGED args
      BY <1>4, MarkEffects
    <3> QED
      BY <3>1, <3>2
  <2>3. CASE UNCHANGED mem /\ pc'[t] = "user"
    BY <2>1, <2>2, <2>3 DEF BuffersInv, BuffersApart, InLogged
  <2>4. CASE /\ UNCHANGED args /\ pc'[t] = "comment"
             /\ mem'[tgid[t]][args[t].buf].data = "comment"
             /\ \A q \in Process, c \in Buffer :
                  q # tgid[t] \/ c # args[t].buf => mem'[q][c] = mem[q][c]
    <3>1. \A u \in Thread \ {t} : pc[u] \in {"comment", "restore"} =>
            mem'[tgid[u]][args[u].buf].data = "comment"
      <4> SUFFICES ASSUME NEW u \in Thread \ {t}, pc[u] \in {"comment", "restore"}
                   PROVE  mem'[tgid[u]][args[u].buf].data = "comment"
        OBVIOUS
      <4>1. args[u].buf \in Buffer /\ tgid[u] \in Process
        BY DEF Typed, TypeOK, Framed, InLogged, Args
      <4>2. tgid[u] = tgid[t] => args[u].buf # args[t].buf
        BY <2>1 DEF BuffersInv, BuffersApart, InLogged
      <4> QED
        BY <2>4, <4>1, <4>2 DEF BuffersInv
    <3>2. \A p \in Process, b \in Buffer :
            \/ mem'[p][b].data = "text"
            \/ \E u \in Thread : /\ tgid[u] = p /\ args[u].buf = b
                                 /\ pc'[u] \in {"comment", "restore"}
      <4> SUFFICES ASSUME NEW p \in Process, NEW b \in Buffer, mem'[p][b].data # "text"
                   PROVE  \E u \in Thread : /\ tgid[u] = p /\ args[u].buf = b
                                            /\ pc'[u] \in {"comment", "restore"}
        OBVIOUS
      <4>1. CASE p = tgid[t] /\ b = args[t].buf
        BY <2>4, <4>1
      <4>2. CASE ~ (p = tgid[t] /\ b = args[t].buf)
        <5>1. PICK u \in Thread : /\ tgid[u] = p /\ args[u].buf = b
                                  /\ pc[u] \in {"comment", "restore"}
          BY <2>4, <4>2 DEF BuffersInv
        <5> QED
          BY <2>2, <4>2, <5>1
      <4> QED
        BY <4>1, <4>2
    <3>3. BuffersApart' /\ \A u \in Thread : pc'[u] \in InLogged => args'[u].kbuf = "text"
      BY <2>1, <2>2, <2>4 DEF BuffersInv, BuffersApart, InLogged
    <3> QED
      BY <2>1, <2>2, <2>4, <3>1, <3>2, <3>3 DEF BuffersInv
  <2> QED
    BY <1>4, <2>3, <2>4, MarkEffects DEF Typed, TypeOK
<1>5. ASSUME NEW t \in Thread, LoggedComment(t)
      PROVE  BuffersInv'
  <2>1. pc[t] = "comment" /\ args[t] \in Args /\ UNCHANGED args
    BY <1>5 DEF LoggedComment, Typed, Framed, InLogged
  <2>2. UNCHANGED <<tgid, mem>>
    BY <1>5, <2>1, WriteEffects DEF LoggedComment, Args
  <2>3. pc'[t] = "restore" /\ \A u \in Thread \ {t} : pc'[u] = pc[u]
    BY <1>5 DEF LoggedComment, Goes, Typed, TypeOK
  <2> QED
    BY <2>1, <2>2, <2>3 DEF BuffersInv, BuffersApart, InLogged
<1>6. ASSUME NEW t \in Thread, LoggedRestore(t)
      PROVE  BuffersInv'
  <2>1. /\ pc[t] = "restore" /\ UNCHANGED <<tgid, args>>
        /\ args[t].buf \in Buffer /\ tgid[t] \in Process
    BY <1>6, RestoreEffects DEF Args
  <2>2. pc'[t] = "write" /\ \A u \in Thread \ {t} : pc'[u] = pc[u]
    BY <1>6, RestoreEffects DEF Typed, TypeOK
  <2>3. mem'[tgid[t]][args[t].buf].data = "text"
    BY <1>6, <2>1, RestoreEffects DEF BuffersInv, InLogged
  <2>4. \A q \in Process, c \in Buffer :
          q # tgid[t] \/ c # args[t].buf => mem'[q][c] = mem[q][c]
    BY <1>6, RestoreEffects
  <2>5. \A u \in Thread \ {t} : pc[u] \in {"comment", "restore"} =>
          mem'[tgid[u]][args[u].buf].data = "comment"
    <3> SUFFICES ASSUME NEW u \in Thread \ {t}, pc[u] \in {"comment", "restore"}
                 PROVE  mem'[tgid[u]][args[u].buf].data = "comment"
      OBVIOUS
    <3>1. args[u].buf \in Buffer /\ tgid[u] \in Process
      BY DEF Typed, TypeOK, Framed, InLogged, Args
    <3>2. tgid[u] = tgid[t] => args[u].buf # args[t].buf
      BY <2>1 DEF BuffersInv, BuffersApart, InLogged
    <3> QED
      BY <2>4, <3>1, <3>2 DEF BuffersInv
  <2>6. BuffersApart' /\ \A u \in Thread : pc'[u] \in InLogged => args'[u].kbuf = "text"
    BY <2>1, <2>2 DEF BuffersInv, BuffersApart, InLogged
  <2>7. \A p \in Process, b \in Buffer :
          \/ mem'[p][b].data = "text"
          \/ \E u \in Thread : /\ tgid[u] = p /\ args[u].buf = b
                               /\ pc'[u] \in {"comment", "restore"}
    BY <2>1, <2>2, <2>3, <2>4 DEF BuffersInv
  <2> QED
    BY <2>1, <2>2, <2>5, <2>6, <2>7 DEF BuffersInv
<1>7. ASSUME NEW t \in Thread, LoggedData(t)
      PROVE  BuffersInv'
  <2>1. pc[t] = "write" /\ args[t] \in Args
    BY <1>7 DEF LoggedData, Typed, Framed, InLogged
  <2>2. UNCHANGED <<tgid, mem>>
    BY <1>7, <2>1, WriteEffects DEF LoggedData, Args
  <2>3. pc'[t] = "user" /\ \A u \in Thread \ {t} : pc'[u] = pc[u] /\ args'[u] = args[u]
    BY <1>7 DEF LoggedData, Answers, Goes, Typed, TypeOK
  <2> QED
    BY <2>1, <2>2, <2>3 DEF BuffersInv, BuffersApart, InLogged
<1>8. CASE UNCHANGED vars
  BY <1>8 DEF vars, shared, BuffersInv, BuffersApart
<1>9. ASSUME NEW t \in Thread, OverrideCrashes(t)
      PROVE  BuffersInv'
  <2>1. pc[t] = "user" /\ pc' = [pc EXCEPT ![t] = "oops"] /\ UNCHANGED <<shared, args>>
    BY <1>9, CrashEffects
  <2>2. pc'[t] = "oops" /\ \A u \in Thread \ {t} : pc'[u] = pc[u]
    BY <2>1 DEF Typed, TypeOK
  <2> QED
    BY <2>1, <2>2 DEF shared, BuffersInv, BuffersApart, InLogged
<1> QED
  BY <1>1, <1>2, <1>3, <1>4, <1>5, <1>6, <1>7, <1>8, <1>9 DEF Next, loggedWrite

(* What is written from a buffer that no call has its comment in is data.     *)
LEMMA DataInBuffer ==
  ASSUME Typed, BuffersInv, NEW t \in Thread, NEW b \in Buffer,
         \A u \in Thread : tgid[u] = tgid[t] /\ pc[u] \in {"comment", "restore"} =>
           args[u].buf # b
  PROVE  mem[tgid[t]][b].data = "text"
<1>1. tgid[t] \in Process
  BY DEF Typed, TypeOK
<1> QED
  BY <1>1 DEF BuffersInv

LEMMA StepDataFromCaller ==
  ASSUME "OwnBuffers" \in Env, Typed, BuffersInv, DataFromCaller, [Next]_vars
  PROVE  DataFromCaller'
<1>1. ASSUME NEW t \in Thread, NEW fd \in Fd, NEW b \in Buffer,
             NEW as \in {"comment", "logged", "plain"},
             original_write(t, fd, b, as),
             mem[tgid[t]][b].data = "comment" <=> as = "comment"
      PROVE  DataFromCaller'
  <2>1. CASE Writes(t, fd, b, as)
    <3>1. NewRecord(t, b, as).text = "comment" <=> NewRecord(t, b, as).as = "comment"
      BY <1>1 DEF NewRecord
    <3>2. RecordsWritten(t, fd, b, as)
      BY <2>1, WrittenRecords
    <3> SUFFICES ASSUME NEW f \in File, NEW i \in DOMAIN content'[f]
                 PROVE  content'[f][i].text = "comment" <=> content'[f][i].as = "comment"
      BY DEF DataFromCaller
    <3>3. CASE \E j \in DOMAIN content[f] : content'[f][i] = content[f][j]
      BY <3>3 DEF DataFromCaller
    <3>4. CASE content'[f][i] = NewRecord(t, b, as)
      BY <3>1, <3>4
    <3> QED
      BY <3>2, <3>3, <3>4 DEF RecordsWritten
  <2>2. CASE UNCHANGED content
    BY <2>2 DEF DataFromCaller
  <2> QED
    BY <1>1, <2>1, <2>2, WriteEffects
<1>2. ASSUME NEW t \in Thread, Wrapped(t)
      PROVE  DataFromCaller'
  <2>1. pc[t] = "user"
    BY <1>2, WrappedEffects
  <2>2. CASE UNCHANGED content
    BY <2>2 DEF DataFromCaller
  <2>3. ASSUME NEW fd \in Fd, NEW b \in Buffer,
               BufferFree(t, b), original_write(t, fd, b, "plain")
        PROVE  DataFromCaller'
    <3>1. \A u \in Thread : tgid[u] = tgid[t] /\ pc[u] \in {"comment", "restore"} =>
            args[u].buf # b
      BY <2>1, <2>3, FreeBuffer DEF InLogged
    <3>2. mem[tgid[t]][b].data = "text"
      BY <3>1, DataInBuffer
    <3> QED
      BY <1>1, <2>3, <3>2
  <2> QED
    BY <1>2, <2>2, <2>3, WrappedEffects
<1>3. ASSUME NEW t \in Thread, LoggedComment(t)
      PROVE  DataFromCaller'
  <2>1. pc[t] = "comment" /\ args[t] \in Args
    BY <1>3 DEF LoggedComment, Typed, Framed, InLogged
  <2>2. mem[tgid[t]][args[t].buf].data = "comment"
    BY <2>1 DEF BuffersInv
  <2> QED
    BY <1>1, <1>3, <2>1, <2>2 DEF LoggedComment, Args
<1>4. ASSUME NEW t \in Thread, LoggedData(t)
      PROVE  DataFromCaller'
  <2>1. pc[t] = "write" /\ args[t] \in Args
    BY <1>4 DEF LoggedData, Typed, Framed, InLogged
  <2>2. \A u \in Thread : tgid[u] = tgid[t] /\ pc[u] \in {"comment", "restore"} =>
          args[u].buf # args[t].buf
    BY <2>1 DEF BuffersInv, BuffersApart, InLogged
  <2>3. mem[tgid[t]][args[t].buf].data = "text"
    BY <2>1, <2>2, DataInBuffer DEF Args
  <2> QED
    BY <1>1, <1>4, <2>1, <2>3 DEF LoggedData, Args
<1>5. ASSUME NEW t \in Thread, NEW fd \in Fd, NEW b \in Buffer,
             NEW short \in BOOLEAN, LoggedBegin(t, fd, b, short)
      PROVE  DataFromCaller'
  BY <1>5, BeginEffects DEF shared, DataFromCaller
<1>6. ASSUME NEW t \in Thread, LoggedSave(t) \/ LoggedMark(t) \/ LoggedRestore(t)
      PROVE  DataFromCaller'
  BY <1>6 DEF LoggedSave, LoggedMark, LoggedRestore, shared, DataFromCaller
<1>7. CASE UNCHANGED vars
  BY <1>7 DEF vars, shared, DataFromCaller
<1>8. ASSUME NEW t \in Thread, OverrideCrashes(t)
      PROVE  DataFromCaller'
  BY <1>8, CrashEffects DEF shared, DataFromCaller
<1> QED
  BY <1>2, <1>3, <1>4, <1>5, <1>6, <1>7, <1>8 DEF Next, loggedWrite

LEMMA InitBuffers == Init => BuffersInv /\ DataFromCaller
<1> SUFFICES ASSUME Init
             PROVE  BuffersInv /\ DataFromCaller
  OBVIOUS
<1>1. \A f \in File : DOMAIN content[f] = {}
  BY DEF Init
<1> QED
  BY <1>1 DEF Init, BuffersInv, BuffersApart, InLogged, DataFromCaller, Intact

LEMMA BuffersAlways == {"OwnBuffers", "WholeBuffers"} \subseteq Env /\ Spec => []BuffersInv
<1> SUFFICES ASSUME {"OwnBuffers", "WholeBuffers"} \subseteq Env
             PROVE  Spec => []BuffersInv
  OBVIOUS
<1>1. Typed /\ BuffersInv /\ [Next]_vars => BuffersInv'
  BY StepBuffers
<1> QED
  BY <1>1, TypedAlways, InitBuffers, PTL DEF Spec

(* If no two calls of a process use one buffer at a time, and no copy to a   *)
(* buffer stops halfway, write and loggedWrite put into the files what their *)
(* callers passed and no comment of another call, however the calls of the   *)
(* threads interleave.                                                       *)
THEOREM WritesCallersData ==
  {"OwnBuffers", "WholeBuffers"} \subseteq Env /\ Spec => []DataFromCaller
<1> SUFFICES ASSUME {"OwnBuffers", "WholeBuffers"} \subseteq Env
             PROVE  Spec => []DataFromCaller
  OBVIOUS
<1>1. Typed /\ BuffersInv /\ DataFromCaller /\ [Next]_vars => DataFromCaller'
  BY StepDataFromCaller
<1>2. Spec => []BuffersInv
  BY BuffersAlways
<1> QED
  BY <1>1, <1>2, TypedAlways, InitBuffers, PTL DEF Spec

-------------------------------------------------------------------------------
LEMMA StepBehind ==
  ASSUME {"LongData", "WholeBuffers"} \subseteq Env, Typed, BehindInv, [Next]_vars
  PROVE  BehindInv'
<1>1. ASSUME NEW t \in Thread, Wrapped(t)
      PROVE  BehindInv'
  <2>1. UNCHANGED <<pc, args>>
    BY <1>1, WrappedEffects
  <2>2. CASE UNCHANGED mem
    BY <2>1, <2>2 DEF BehindInv
  <2>3. ASSUME NEW b \in Buffer, mem' = Put(mem, tgid[t], b, "text")
        PROVE  BehindInv'
    <3>1. mem \in Memory /\ tgid[t] \in Process /\ "text" \in Text
      BY DEF Typed, TypeOK, Memory, Text
    <3>2. \A q \in Process, c \in Buffer : mem'[q][c].after = mem[q][c].after
      BY <2>3, <3>1, Putting
    <3> QED
      BY <2>1, <3>2 DEF BehindInv
  <2> QED
    BY <1>1, <2>2, <2>3, WrappedEffects, WriteEffects
<1>2. ASSUME NEW t \in Thread, NEW fd \in Fd, NEW b \in Buffer,
             NEW short \in BOOLEAN, LoggedBegin(t, fd, b, short)
      PROVE  BehindInv'
  <2>1. UNCHANGED mem
    BY <1>2, BeginEffects DEF shared
  <2>2. CASE UNCHANGED <<pc, args>>
    BY <2>1, <2>2 DEF BehindInv
  <2>3. CASE ~ UNCHANGED <<pc, args>>
    <3>1. /\ Assuming("LongData", ~ short)
          /\ args' = [args EXCEPT ![t] = [fd |-> fd, buf |-> b, short |-> short,
                                          kbuf |-> "text"]]
          /\ \E where \in {"save", "write"} : pc' = [pc EXCEPT ![t] = where]
      BY <1>2, <2>3, BeginEffects
    <3>2. /\ ~ args'[t].short
          /\ \A u \in Thread \ {t} : args'[u] = args[u] /\ pc'[u] = pc[u]
      BY <3>1 DEF Assuming, Typed, TypeOK
    <3> QED
      BY <2>1, <3>2 DEF BehindInv
  <2> QED
    BY <2>2, <2>3
<1>3. ASSUME NEW t \in Thread, LoggedSave(t)
      PROVE  BehindInv'
  <2>1. pc[t] = "save" /\ UNCHANGED mem /\ args[t] \in Args
    BY <1>3 DEF LoggedSave, shared, Typed, Framed, InLogged
  <2>2. \A u \in Thread \ {t} : args'[u] = args[u] /\ pc'[u] = pc[u]
    BY <1>3 DEF LoggedSave, Answers, Goes, Typed, TypeOK
  <2>3. CASE Goes(t, "mark") /\ args' = [args EXCEPT ![t].kbuf = mem[tgid[t]][args[t].buf].data]
    <3>1. args'[t].short = args[t].short
      BY <2>1, <2>3 DEF Typed, TypeOK, Args
    <3> QED
      BY <2>1, <2>2, <3>1 DEF BehindInv, InLogged
  <2>4. CASE Goes(t, "oops") \/ Goes(t, "user")
    <3>1. pc'[t] \in {"oops", "user"}
      BY <2>4 DEF Goes, Typed, TypeOK
    <3> QED
      BY <2>1, <2>2, <3>1 DEF BehindInv, InLogged
  <2> QED
    BY <1>3, <2>3, <2>4 DEF LoggedSave, Answers
<1>4. ASSUME NEW t \in Thread, LoggedMark(t)
      PROVE  BehindInv'
  <2>1. /\ pc[t] = "mark" /\ args[t].buf \in Buffer /\ tgid[t] \in Process
        /\ ~ args[t].short
    BY <1>4, MarkEffects DEF Args, BehindInv, InLogged
  <2>2. /\ \A u \in Thread \ {t} : pc'[u] = pc[u] /\ args'[u] = args[u]
        /\ pc'[t] = "user" \/ args'[t] = args[t]
    BY <1>4, MarkEffects DEF Typed, TypeOK
  <2>3. \A q \in Process, c \in Buffer : mem'[q][c].after = mem[q][c].after
    BY <1>4, <2>1, MarkEffects
  <2> QED
    BY <2>1, <2>2, <2>3 DEF BehindInv, InLogged
<1>5. ASSUME NEW t \in Thread, LoggedComment(t)
      PROVE  BehindInv'
  <2>1. pc[t] = "comment" /\ args[t] \in Args /\ UNCHANGED args
    BY <1>5 DEF LoggedComment, Typed, Framed, InLogged
  <2>2. UNCHANGED mem
    BY <1>5, <2>1, WriteEffects DEF LoggedComment, Args
  <2>3. \A u \in Thread \ {t} : pc'[u] = pc[u]
    BY <1>5 DEF LoggedComment, Goes, Typed, TypeOK
  <2> QED
    BY <2>1, <2>2, <2>3 DEF BehindInv, InLogged
<1>6. ASSUME NEW t \in Thread, LoggedRestore(t)
      PROVE  BehindInv'
  <2>1. /\ pc[t] = "restore" /\ UNCHANGED args
        /\ \A q \in Process, c \in Buffer : mem'[q][c].after = mem[q][c].after
    BY <1>6, RestoreEffects
  <2>2. \A u \in Thread \ {t} : pc'[u] = pc[u]
    BY <1>6, RestoreEffects DEF Typed, TypeOK
  <2> QED
    BY <2>1, <2>2 DEF BehindInv, InLogged
<1>7. ASSUME NEW t \in Thread, LoggedData(t)
      PROVE  BehindInv'
  <2>1. pc[t] = "write" /\ args[t] \in Args
    BY <1>7 DEF LoggedData, Typed, Framed, InLogged
  <2>2. UNCHANGED mem
    BY <1>7, <2>1, WriteEffects DEF LoggedData, Args
  <2>3. pc'[t] = "user" /\ \A u \in Thread \ {t} : pc'[u] = pc[u] /\ args'[u] = args[u]
    BY <1>7 DEF LoggedData, Answers, Goes, Typed, TypeOK
  <2> QED
    BY <2>2, <2>3 DEF BehindInv, InLogged
<1>8. CASE UNCHANGED vars
  BY <1>8 DEF vars, shared, BehindInv
<1>9. ASSUME NEW t \in Thread, OverrideCrashes(t)
      PROVE  BehindInv'
  <2>1. pc[t] = "user" /\ pc' = [pc EXCEPT ![t] = "oops"] /\ UNCHANGED <<shared, args>>
    BY <1>9, CrashEffects
  <2>2. pc'[t] = "oops" /\ \A u \in Thread \ {t} : pc'[u] = pc[u]
    BY <2>1 DEF Typed, TypeOK
  <2> QED
    BY <2>1, <2>2 DEF shared, BehindInv, InLogged
<1> QED
  BY <1>1, <1>2, <1>3, <1>4, <1>5, <1>6, <1>7, <1>8, <1>9 DEF Next, loggedWrite

(* If no two calls of a process use one buffer at a time, none passes less   *)
(* data than the comment is long and no copy to a buffer stops halfway, a    *)
(* loggedWrite leaves the memory of its caller as it found it, whichever way *)
(* it returns.                                                               *)
THEOREM CallersMemoryKept ==
  {"OwnBuffers", "LongData", "WholeBuffers"} \subseteq Env /\ Spec => []BufferKept
<1> SUFFICES ASSUME {"OwnBuffers", "LongData", "WholeBuffers"} \subseteq Env
             PROVE  Spec => []BufferKept
  OBVIOUS
<1>1. Init => BehindInv
  BY DEF Init, BehindInv, InLogged, Intact
<1>2. Typed /\ BehindInv /\ [Next]_vars => BehindInv'
  BY StepBehind
<1>3. Spec => []BuffersInv
  BY BuffersAlways
<1>4. Typed /\ BuffersInv /\ BehindInv => BufferKept
  <2> SUFFICES ASSUME Typed, BuffersInv, BehindInv, NEW p \in Process, NEW b \in Buffer
               PROVE  \/ mem[p][b] = Intact
                      \/ \E t \in Thread : tgid[t] = p /\ Calling(t) /\ args[t].buf = b
    BY DEF BufferKept
  <2>1. CASE mem[p][b].data = "text"
    <3>1. mem[p][b] \in [data: Text, after: Text] /\ mem[p][b].after = "text"
      BY DEF Typed, TypeOK, BehindInv
    <3> QED
      BY <2>1, <3>1 DEF Intact
  <2>2. CASE mem[p][b].data # "text"
    BY <2>2, CallingThreads DEF Typed, BuffersInv, InLogged
  <2> QED
    BY <2>1, <2>2
<1> QED
  BY <1>1, <1>2, <1>3, <1>4, TypedAlways, PTL DEF Spec

-------------------------------------------------------------------------------
(* A step takes one thread into loggedWrite, and by LoggedBegin. *)
LEMMA Entering ==
  ASSUME Typed, Next, NEW u \in Thread, pc[u] \notin InLogged, pc'[u] \in InLogged
  PROVE  \E fd \in Fd, b \in Buffer, short \in BOOLEAN :
           LoggedBegin(u, fd, b, short) /\ ~ UNCHANGED <<pc, args>>
<1>1. PICK t \in Thread : Wrapped(t) \/ loggedWrite(t) \/ OverrideCrashes(t)
  BY DEF Next
<1>2. CASE Wrapped(t)
  BY <1>2, WrappedEffects
<1>3. ASSUME NEW fd \in Fd, NEW b \in Buffer, NEW short \in BOOLEAN,
             LoggedBegin(t, fd, b, short)
      PROVE  u = t /\ ~ UNCHANGED <<pc, args>>
  <2>1. ~ UNCHANGED <<pc, args>>
    OBVIOUS
  <2>2. \E where \in {"save", "write"} : pc' = [pc EXCEPT ![t] = where]
    BY <1>3, <2>1, BeginEffects
  <2> QED
    BY <2>1, <2>2 DEF Typed, TypeOK
<1>4. CASE LoggedSave(t) \/ LoggedMark(t) \/ LoggedComment(t) \/ LoggedRestore(t)
             \/ LoggedData(t)
  BY <1>4 DEF LoggedSave, LoggedMark, LoggedComment, LoggedRestore, LoggedData, Goes,
              Answers, Typed, TypeOK, InLogged
<1>5. CASE OverrideCrashes(t)
  BY <1>5, CrashEffects DEF Typed, TypeOK, InLogged
<1> QED
  BY <1>1, <1>2, <1>3, <1>4, <1>5 DEF loggedWrite

(* StableFds: what a loggedWrite has learnt of its fd stays so. *)
LEMMA FilesStay ==
  ASSUME "StableFds" \in Env, Typed, Next, NEW u \in Thread,
         pc[u] \in InLogged, pc'[u] \in InLogged
  PROVE  /\ args'[u].fd = args[u].fd /\ args[u].fd \in Fd
         /\ FileOf(u, args[u].fd)' = FileOf(u, args[u].fd)
<1>1. PICK t \in Thread : Wrapped(t) \/ loggedWrite(t) \/ OverrideCrashes(t)
  BY DEF Next
<1>2. args[u] \in Args /\ args[u].fd \in Fd /\ tgid[u] \in Process
  BY DEF Typed, TypeOK, Framed, Args
<1>3. CASE Wrapped(t)
  <2>1. pc[t] = "user" /\ UNCHANGED <<tgid, args>> /\ u # t
    BY <1>3, WrappedEffects DEF InLogged
  <2>2. CASE UNCHANGED fdt
    BY <1>2, <2>1, <2>2 DEF FileOf
  <2>3. ASSUME NEW fd \in Fd, NEW f, FdFree(t, fd),
               fdt' = [fdt EXCEPT ![tgid[t]][fd] = f]
        PROVE  FileOf(u, args[u].fd)' = FileOf(u, args[u].fd)
    <3>1. tgid[u] = tgid[t] => args[u].fd # fd
      BY <2>1, <2>3, CallingThreads DEF FdFree, Assuming, Siblings, Typed
    <3> QED
      BY <1>2, <2>1, <2>3, <3>1 DEF FileOf, Typed, TypeOK
  <2> QED
    BY <1>2, <1>3, <2>1, <2>2, <2>3, WrappedEffects, WriteEffects
<1>4. ASSUME NEW fd \in Fd, NEW b \in Buffer, NEW short \in BOOLEAN,
             LoggedBegin(t, fd, b, short)
      PROVE  args'[u].fd = args[u].fd /\ FileOf(u, args[u].fd)' = FileOf(u, args[u].fd)
  <2>1. pc[t] = "user" /\ UNCHANGED <<tgid, fdt>>
    BY <1>4, BeginEffects DEF shared
  <2>2. u # t
    BY <2>1 DEF InLogged
  <2>3. UNCHANGED args \/ \E a : args' = [args EXCEPT ![t] = a]
    BY <1>4, BeginEffects
  <2>4. args'[u] = args[u]
    BY <2>2, <2>3 DEF Typed, TypeOK
  <2> QED
    BY <2>1, <2>4 DEF FileOf
<1>5. CASE LoggedSave(t)
  <2>1. UNCHANGED <<tgid, fdt>> /\ pc[t] = "save"
    BY <1>5 DEF LoggedSave, shared
  <2>2. \/ args' = [args EXCEPT ![t].kbuf = mem[tgid[t]][args[t].buf].data]
        \/ pc'[t] \in {"oops", "user"} /\ args' = [args EXCEPT ![t] = NoArgs]
    BY <1>5 DEF LoggedSave, Answers, Goes, Typed, TypeOK
  <2>3. CASE u # t
    BY <1>2, <2>1, <2>2, <2>3 DEF Typed, TypeOK, FileOf
  <2>4. CASE u = t
    <3>1. args' = [args EXCEPT ![t] = [args[t] EXCEPT
                     !.kbuf = mem[tgid[t]][args[t].buf].data]]
      BY <2>2, <2>4 DEF InLogged
    <3>2. args'[t] = [args[t] EXCEPT !.kbuf = mem[tgid[t]][args[t].buf].data]
      BY <3>1 DEF Typed, TypeOK
    <3>3. args'[t].fd = args[t].fd
      BY <1>2, <2>4, <3>2 DEF Args
    <3> QED
      BY <1>2, <2>1, <2>4, <3>3 DEF FileOf
  <2> QED
    BY <2>3, <2>4
<1>6. CASE LoggedMark(t)
  <2>1. UNCHANGED <<tgid, fdt>> /\ args'[u] = args[u]
    BY <1>6, MarkEffects DEF Typed, TypeOK, InLogged
  <2> QED
    BY <1>2, <2>1 DEF FileOf
<1>7. CASE LoggedComment(t) \/ LoggedRestore(t)
  <2>1. UNCHANGED <<tgid, fdt>>
    BY <1>7, RestoreTypes DEF LoggedComment, original_write
  <2>2. args'[u] = args[u]
    BY <1>7, RestoreTypes DEF LoggedComment, Typed, TypeOK, InLogged
  <2> QED
    BY <1>2, <2>1, <2>2 DEF FileOf
<1>8. CASE LoggedData(t)
  <2>1. UNCHANGED <<tgid, fdt>>
    BY <1>8 DEF LoggedData, original_write
  <2>2. pc'[t] = "user" /\ \A v \in Thread \ {t} : args'[v] = args[v]
    BY <1>8 DEF LoggedData, Answers, Goes, Typed, TypeOK
  <2>3. u # t
    BY <2>2 DEF InLogged
  <2> QED
    BY <1>2, <2>1, <2>2, <2>3 DEF FileOf
<1>9. CASE OverrideCrashes(t)
  BY <1>2, <1>9, CrashEffects DEF shared, FileOf
<1> QED
  BY <1>1, <1>2, <1>3, <1>4, <1>5, <1>6, <1>7, <1>8, <1>9 DEF loggedWrite

(* A call that skips the comment does not come back to it. *)
LEMMA OnceCommented ==
  ASSUME Typed, Next, NEW u \in Thread, pc[u] \in InLogged,
         pc'[u] \in {"save", "mark", "comment", "restore"}
  PROVE  pc[u] \in {"save", "mark", "comment", "restore"}
<1>1. PICK t \in Thread : Wrapped(t) \/ loggedWrite(t) \/ OverrideCrashes(t)
  BY DEF Next
<1>2. CASE Wrapped(t)
  BY <1>2, WrappedEffects DEF InLogged
<1>3. ASSUME NEW fd \in Fd, NEW b \in Buffer, NEW short \in BOOLEAN,
             LoggedBegin(t, fd, b, short)
      PROVE  pc'[u] = pc[u]
  <2>1. u # t
    BY <1>3, BeginEffects DEF InLogged
  <2>2. \/ UNCHANGED pc
        \/ \E where \in Place : pc' = [pc EXCEPT ![t] = where]
    BY <1>3, BeginEffects DEF Place
  <2> QED
    BY <2>1, <2>2 DEF Typed, TypeOK
<1>4. CASE LoggedSave(t) \/ LoggedMark(t) \/ LoggedComment(t) \/ LoggedRestore(t)
             \/ LoggedData(t)
  BY <1>4 DEF LoggedSave, LoggedMark, LoggedComment, LoggedRestore, LoggedData, Goes,
              Answers, Typed, TypeOK, InLogged
<1>5. CASE OverrideCrashes(t)
  BY <1>5, CrashEffects DEF Typed, TypeOK, InLogged
<1> QED
  BY <1>1, <1>2, <1>3, <1>4, <1>5 DEF loggedWrite

LEMMA StepFile ==
  ASSUME "StableFds" \in Env, Typed, FileInv, [Next]_vars
  PROVE  FileInv'
<1>1. CASE UNCHANGED vars
  BY <1>1 DEF vars, shared, FileInv, FdIsFile, FileOf
<1>2. CASE Next
  <2> SUFFICES ASSUME NEW u \in Thread, pc'[u] \in {"save", "mark", "comment", "restore"}
               PROVE  /\ ~ Standard(args'[u].fd)
                      /\ FileOf(u, args[u].fd)' # NoFile
                      /\ IsC(FileOf(u, args[u].fd)')
    BY DEF FileInv, FdIsFile, FileOf
  <2>1. CASE pc[u] \in InLogged
    BY <1>2, <2>1, FilesStay, OnceCommented DEF FileInv, FdIsFile, InLogged
  <2>2. CASE pc[u] \notin InLogged
    <3>1. PICK fd \in Fd, b \in Buffer, short \in BOOLEAN :
            LoggedBegin(u, fd, b, short) /\ ~ UNCHANGED <<pc, args>>
      BY <1>2, <2>2, Entering DEF InLogged
    <3>2. /\ UNCHANGED <<tgid, fdt>>
          /\ args' = [args EXCEPT ![u] = [fd |-> fd, buf |-> b, short |-> short,
                                          kbuf |-> "text"]]
          /\ \/ FdIsFile(u, fd) /\ IsC(FileOf(u, fd))
             \/ pc' = [pc EXCEPT ![u] = "write"]
      BY <3>1, BeginEffects DEF shared
    <3>3. FdIsFile(u, fd) /\ IsC(FileOf(u, fd)) /\ args'[u].fd = fd
      BY <3>2 DEF Typed, TypeOK
    <3> QED
      BY <3>2, <3>3 DEF FdIsFile, FileOf
  <2> QED
    BY <2>1, <2>2
<1> QED
  BY <1>1, <1>2

LEMMA FileAlways == "StableFds" \in Env /\ Spec => []FileInv
<1> SUFFICES ASSUME "StableFds" \in Env
             PROVE  Spec => []FileInv
  OBVIOUS
<1>1. Init => FileInv
  BY DEF Init, FileInv
<1>2. Typed /\ FileInv /\ [Next]_vars => FileInv'
  BY StepFile
<1> QED
  BY <1>1, <1>2, TypedAlways, PTL DEF Spec

LEMMA StepOnlyC ==
  ASSUME Typed, FileInv, OnlyCFilesLogged, [Next]_vars
  PROVE  OnlyCFilesLogged'
<1>1. ASSUME NEW t \in Thread, NEW fd \in Fd, NEW b \in Buffer,
             NEW as \in {"comment", "logged", "plain"},
             original_write(t, fd, b, as),
             as # "comment" \/ IsC(FileOf(t, fd))
      PROVE  OnlyCFilesLogged'
  <2>1. CASE Writes(t, fd, b, as)
    <3>1. NewRecord(t, b, as).as = as
      BY DEF NewRecord
    <3>2. RecordsWritten(t, fd, b, as)
      BY <2>1, WrittenRecords
    <3> SUFFICES ASSUME NEW f \in File \ CFile, NEW i \in DOMAIN content'[f]
                 PROVE  content'[f][i].as # "comment"
      BY DEF OnlyCFilesLogged
    <3>3. CASE \E j \in DOMAIN content[f] : content'[f][i] = content[f][j]
      BY <3>3 DEF OnlyCFilesLogged
    <3>4. CASE f = FileOf(t, fd) /\ content'[f][i] = NewRecord(t, b, as)
      BY <1>1, <3>1, <3>4 DEF IsC
    <3> QED
      BY <3>2, <3>3, <3>4 DEF RecordsWritten
  <2>2. CASE UNCHANGED content
    BY <2>2 DEF OnlyCFilesLogged
  <2> QED
    BY <1>1, <2>1, <2>2, WriteEffects
<1>2. ASSUME NEW t \in Thread, Wrapped(t)
      PROVE  OnlyCFilesLogged'
  <2>1. CASE UNCHANGED content
    BY <2>1 DEF OnlyCFilesLogged
  <2> QED
    BY <1>1, <1>2, <2>1, WrappedEffects
<1>3. ASSUME NEW t \in Thread, LoggedComment(t)
      PROVE  OnlyCFilesLogged'
  <2>1. pc[t] = "comment" /\ args[t] \in Args
    BY <1>3 DEF LoggedComment, Typed, Framed, InLogged
  <2> QED
    BY <1>1, <1>3, <2>1 DEF LoggedComment, Args, FileInv
<1>4. ASSUME NEW t \in Thread, LoggedData(t)
      PROVE  OnlyCFilesLogged'
  <2>1. args[t] \in Args
    BY <1>4 DEF LoggedData, Typed, Framed, InLogged
  <2> QED
    BY <1>1, <1>4, <2>1 DEF LoggedData, Args
<1>5. ASSUME NEW t \in Thread, NEW fd \in Fd, NEW b \in Buffer,
             NEW short \in BOOLEAN, LoggedBegin(t, fd, b, short)
      PROVE  OnlyCFilesLogged'
  BY <1>5, BeginEffects DEF shared, OnlyCFilesLogged
<1>6. ASSUME NEW t \in Thread, LoggedSave(t) \/ LoggedMark(t) \/ LoggedRestore(t)
      PROVE  OnlyCFilesLogged'
  BY <1>6 DEF LoggedSave, LoggedMark, LoggedRestore, shared, OnlyCFilesLogged
<1>7. CASE UNCHANGED vars
  BY <1>7 DEF vars, shared, OnlyCFilesLogged
<1>8. ASSUME NEW t \in Thread, OverrideCrashes(t)
      PROVE  OnlyCFilesLogged'
  BY <1>8, CrashEffects DEF shared, OnlyCFilesLogged
<1> QED
  BY <1>2, <1>3, <1>4, <1>5, <1>6, <1>7, <1>8 DEF Next, loggedWrite

(* If a descriptor is not opened or closed while a call uses it, loggedWrite *)
(* puts its comments into .c files only: what d_path told it of fd still      *)
(* holds when it writes.                                                     *)
THEOREM CommentsInCFilesOnly == "StableFds" \in Env /\ Spec => []OnlyCFilesLogged
<1> SUFFICES ASSUME "StableFds" \in Env
             PROVE  Spec => []OnlyCFilesLogged
  OBVIOUS
<1>1. Init => OnlyCFilesLogged
  BY DEF Init, OnlyCFilesLogged
<1>2. Typed /\ FileInv /\ OnlyCFilesLogged /\ [Next]_vars => OnlyCFilesLogged'
  BY StepOnlyC
<1>3. Spec => []FileInv
  BY FileAlways
<1> QED
  BY <1>1, <1>2, <1>3, TypedAlways, PTL DEF Spec

-------------------------------------------------------------------------------
(* A loggedWrite that starts has its file to itself. *)
LEMMA StepFilesApart ==
  ASSUME {"StableFds", "OwnFiles"} \subseteq Env, Typed, FilesApart, [Next]_vars
  PROVE  FilesApart'
<1>1. CASE UNCHANGED vars
  BY <1>1 DEF vars, shared, FilesApart, FileOf
<1>2. CASE Next
  <2>1. ASSUME NEW u \in Thread, NEW v \in Thread, u # v,
               pc[u] \notin InLogged, pc'[u] \in InLogged, pc'[v] \in InLogged
        PROVE  FileOf(u, args[u].fd)' # FileOf(v, args[v].fd)'
    <3>1. PICK fd \in Fd, b \in Buffer, short \in BOOLEAN :
            LoggedBegin(u, fd, b, short) /\ ~ UNCHANGED <<pc, args>>
      BY <1>2, <2>1, Entering
    <3>2. /\ UNCHANGED <<tgid, fdt>> /\ FileFree(u, FileOf(u, fd))
          /\ args' = [args EXCEPT ![u] = [fd |-> fd, buf |-> b, short |-> short,
                                          kbuf |-> "text"]]
          /\ \E where \in {"save", "write"} : pc' = [pc EXCEPT ![u] = where]
      BY <3>1, BeginEffects DEF shared
    <3>3. pc'[v] = pc[v] /\ args'[v] = args[v] /\ args'[u].fd = fd
      BY <2>1, <3>2 DEF Typed, TypeOK
    <3>4. Calling(v)
      BY <2>1, <3>3, CallingThreads DEF Typed
    <3>5. FileOf(v, args[v].fd) # FileOf(u, fd)
      BY <2>1, <3>2, <3>4 DEF FileFree, Assuming
    <3> QED
      BY <3>2, <3>3, <3>5 DEF FileOf
  <2>2. ASSUME NEW u \in Thread, NEW v \in Thread, u # v,
               pc'[u] \in InLogged, pc'[v] \in InLogged
        PROVE  FileOf(u, args[u].fd)' # FileOf(v, args[v].fd)'
    <3>1. CASE pc[u] \notin InLogged \/ pc[v] \notin InLogged
      BY <2>1, <2>2, <3>1
    <3>2. CASE pc[u] \in InLogged /\ pc[v] \in InLogged
      BY <1>2, <2>2, <3>2, FilesStay DEF FilesApart
    <3> QED
      BY <3>1, <3>2
  <2> QED
    BY <2>2 DEF FilesApart
<1> QED
  BY <1>1, <1>2

LEMMA FilesApartAlways == {"StableFds", "OwnFiles"} \subseteq Env /\ Spec => []FilesApart
<1> SUFFICES ASSUME {"StableFds", "OwnFiles"} \subseteq Env
             PROVE  Spec => []FilesApart
  OBVIOUS
<1>1. Init => FilesApart
  BY DEF Init, FilesApart, InLogged
<1>2. Typed /\ FilesApart /\ [Next]_vars => FilesApart'
  BY StepFilesApart
<1> QED
  BY <1>1, <1>2, TypedAlways, PTL DEF Spec

-------------------------------------------------------------------------------
(* The body of LoggedChanges for one file: a log has two records at most. *)
Alternates(log) ==
  /\ Len(log) > 0 /\ log[Len(log)].as = "logged" =>
       /\ Len(log) = 2
       /\ log[1].as = "comment" /\ log[1].user = log[2].user
  /\ Len(log) = 2 /\ log[1].as = "comment" =>
       log[2].as = "logged" /\ log[1].user = log[2].user

LEMMA Alternation ==
  ASSUME NEW log \in Log
  PROVE  Alternates(log) <=>
           \A i \in DOMAIN log :
             /\ i = Len(log) /\ log[i].as = "logged" =>
                  /\ i - 1 \in DOMAIN log
                  /\ log[i - 1].as = "comment" /\ log[i - 1].user = log[i].user
             /\ i < Len(log) /\ log[i].as = "comment" =>
                  /\ i + 1 \in DOMAIN log
                  /\ log[i + 1].as = "logged" /\ log[i + 1].user = log[i].user
<1>1. Len(log) \in 0 .. 2 /\ DOMAIN log = 1 .. Len(log)
  BY Logs
<1>2. CASE Len(log) = 0
  BY <1>1, <1>2 DEF Alternates
<1>3. CASE Len(log) = 1
  <2>1. DOMAIN log = {1}
    BY <1>1, <1>3
  <2> QED
    BY <1>3, <2>1 DEF Alternates
<1>4. CASE Len(log) = 2
  <2>1. DOMAIN log = {1, 2}
    BY <1>1, <1>4
  <2> QED
    BY <1>4, <2>1 DEF Alternates
<1> QED
  BY <1>1, <1>2, <1>3, <1>4

(* LoggedChanges, file by file. *)
LEMMA PairsByFile ==
  ASSUME content \in [File -> Log]
  PROVE  LoggedChanges <=> \A f \in CFile : Alternates(content[f])
<1>1. \A f \in CFile : content[f] \in Log
  BY FileAssumption
<1> QED
  BY <1>1, Alternation DEF LoggedChanges

(* What a call owes changes only when it starts or ends owing. *)
LEMMA OwesKept ==
  ASSUME "StableFds" \in Env, Typed, Next, NEW u \in Thread,
         pc[u] \in {"restore", "write"} <=> pc'[u] \in {"restore", "write"}
  PROVE  \A f \in File : Owes(u, f)' <=> Owes(u, f)
<1>1. CASE pc[u] \in {"restore", "write"}
  <2>1. pc[u] \in InLogged /\ pc'[u] \in InLogged
    BY <1>1 DEF InLogged
  <2>2. args'[u].fd = args[u].fd /\ FileOf(u, args[u].fd)' = FileOf(u, args[u].fd)
    BY <2>1, FilesStay
  <2> QED
    BY <1>1, <2>2 DEF Owes, Standard, FileOf
<1>2. CASE pc[u] \notin {"restore", "write"}
  BY <1>2 DEF Owes
<1> QED
  BY <1>1, <1>2

(* A log after a write: a comment behind no comment, data behind the comment  *)
(* of its call, or any other data behind no comment.                         *)
LEMMA PushAlternates ==
  ASSUME NEW log \in Log, NEW new \in Record, Alternates(log),
         new.as = "logged" => EndsInCommentOf(log, new.user),
         new.as # "logged" => \A p \in Process : ~ EndsInCommentOf(log, p)
  PROVE  /\ Alternates(Pushed(log, new))
         /\ \A p \in Process : EndsInCommentOf(Pushed(log, new), p) <=>
                                 new.as = "comment" /\ new.user = p
<1> DEFINE pushed == Pushed(log, new)
<1>1. /\ pushed \in Log
      /\ Len(pushed) = IF Len(log) = 0 THEN 1 ELSE 2
      /\ pushed[Len(pushed)] = new
      /\ Len(log) > 0 => pushed[1] = log[Len(log)]
  BY Pushing
<1>2. /\ Len(log) \in 0 .. 2 /\ \A i \in 1 .. Len(log) : log[i] \in Record
  BY Logs
<1>3. new.user \in Process /\ new.as \in {"comment", "logged", "plain"}
  BY DEF Record
<1> HIDE DEF pushed
<1>4. Len(pushed) > 0 /\ \A p \in Process : EndsInCommentOf(pushed, p) <=>
                           new.as = "comment" /\ new.user = p
  BY <1>1, <1>2 DEF EndsInCommentOf
<1>5. CASE Len(log) = 0
  <2>1. Len(pushed) = 1 /\ pushed[1] = new /\ new.as # "logged"
    BY <1>1, <1>3, <1>5 DEF EndsInCommentOf
  <2> QED
    BY <1>4, <2>1 DEF Alternates, pushed
<1>6. CASE Len(log) > 0
  <2>1. Len(pushed) = 2 /\ pushed[2] = new /\ pushed[1] = log[Len(log)]
    BY <1>1, <1>6
  <2>2. log[Len(log)].user \in Process
    BY <1>2, <1>6 DEF Record
  <2>3. CASE new.as = "logged"
    BY <1>4, <2>1, <2>3 DEF Alternates, EndsInCommentOf, pushed
  <2>4. CASE new.as # "logged"
    <3>1. log[Len(log)].as # "comment"
      BY <1>6, <2>2, <2>4 DEF EndsInCommentOf
    <3> QED
      BY <1>4, <2>1, <2>4, <3>1 DEF Alternates, pushed
  <2> QED
    BY <2>3, <2>4
<1> QED
  BY <1>2, <1>5, <1>6

(* A write keeps the pairs, if no other call owes its file a change, it is    *)
(* the data of a call that does or nobody does, and a comment makes its call  *)
(* owe the data.                                                             *)
LEMMA WriteKeepsPairs ==
  ASSUME Typed, PairsInv, NEW t \in Thread, NEW fd \in Fd, NEW b \in Buffer,
         NEW as \in {"comment", "logged", "plain"}, Writes(t, fd, b, as),
         UNCHANGED tgid,
         \A u \in Thread, f \in CFile :
           Owes(u, f)' <=> IF f = FileOf(t, fd) THEN as = "comment" /\ u = t
                                                ELSE Owes(u, f),
         FileOf(t, fd) \in CFile /\ as = "logged" => Owes(t, FileOf(t, fd)),
         FileOf(t, fd) \in CFile /\ as # "logged" =>
           \A u \in Thread : ~ Owes(u, FileOf(t, fd))
  PROVE  PairsInv'
<1> DEFINE new == NewRecord(t, b, as)
           file == FileOf(t, fd)
<1>1. content \in [File -> Log] /\ new \in Record /\ new.user = tgid[t] /\ new.as = as
  BY DEF Typed, TypeOK, NewRecord, Record, Log
<1>2. /\ file \in File /\ tgid[t] \in Process
      /\ content' = [content EXCEPT ![file] = Pushed(content[file], new)]
  BY DEF Typed, TypeOK, Writes, FileOf
<1> HIDE DEF new, file
<1>3. content' \in [File -> Log]
  BY <1>1, <1>2, Pushing
<1>4. ASSUME NEW f \in CFile
      PROVE  /\ Alternates(content'[f])
             /\ \A p \in Process : EndsInCommentOf(content'[f], p) =>
                  \E u \in Thread : tgid[u] = p /\ Owes(u, f)'
             /\ \A u \in Thread : Owes(u, f)' => EndsInCommentOf(content'[f], tgid[u])
  <2>1. f \in File /\ content[f] \in Log /\ Alternates(content[f])
    BY <1>1, FileAssumption, PairsByFile DEF PairsInv
  <2>2. CASE f # file
    <3>1. content'[f] = content[f] /\ \A u \in Thread : Owes(u, f)' <=> Owes(u, f)
      BY <1>1, <1>2, <2>1, <2>2 DEF file
    <3> QED
      BY <2>1, <3>1 DEF PairsInv
  <2>3. CASE f = file
    <3>1. content'[f] = Pushed(content[f], new)
      BY <1>1, <1>2, <2>1, <2>3
    <3>2. /\ as = "logged" => EndsInCommentOf(content[f], tgid[t])
          /\ as # "logged" => \A p \in Process : ~ EndsInCommentOf(content[f], p)
      BY <2>3 DEF PairsInv, file
    <3>3. /\ Alternates(content'[f])
          /\ \A p \in Process : EndsInCommentOf(content'[f], p) <=>
                                  as = "comment" /\ tgid[t] = p
      <4>1. /\ new.as = "logged" => EndsInCommentOf(content[f], new.user)
            /\ new.as # "logged" => \A p \in Process : ~ EndsInCommentOf(content[f], p)
        BY <1>1, <3>2
      <4>2. /\ Alternates(Pushed(content[f], new))
            /\ \A p \in Process : EndsInCommentOf(Pushed(content[f], new), p) <=>
                                    new.as = "comment" /\ new.user = p
        BY <1>1, <2>1, <4>1, PushAlternates
      <4> QED
        BY <1>1, <3>1, <4>2
    <3>4. \A u \in Thread : Owes(u, f)' <=> as = "comment" /\ u = t
      BY <2>3 DEF file
    <3> QED
      BY <1>2, <3>3, <3>4
  <2> QED
    BY <2>2, <2>3
<1>5. LoggedChanges' <=> \A f \in CFile : Alternates(content'[f])
  <2>1. \A f \in CFile : content'[f] \in Log
    BY <1>3, FileAssumption
  <2> QED
    BY <2>1, Alternation DEF LoggedChanges
<1> QED
  BY <1>4, <1>5 DEF PairsInv, EndsInCommentOf

LEMMA StepPairs ==
  ASSUME {"StableFds", "OwnFiles", "WholeBuffers", "WritesSucceed"} \subseteq Env,
         Typed, FileInv, FilesApart, PairsInv, [Next]_vars
  PROVE  PairsInv'
<1>1. CASE UNCHANGED vars
  BY <1>1 DEF vars, shared, PairsInv, LoggedChanges, EndsInCommentOf, Owes, Standard, FileOf
<1>2. ASSUME UNCHANGED <<content, tgid>>,
             \A u \in Thread, f \in CFile : Owes(u, f)' <=> Owes(u, f)
      PROVE  PairsInv'
  BY <1>2 DEF PairsInv, LoggedChanges, EndsInCommentOf
<1>3. CASE Next
  <2>1. PICK t \in Thread : Wrapped(t) \/ loggedWrite(t) \/ OverrideCrashes(t)
    BY <1>3 DEF Next
  <2>2. ASSUME NEW u \in Thread, pc[u] \in {"restore", "write"}
                                   <=> pc'[u] \in {"restore", "write"}
        PROVE  \A f \in CFile : Owes(u, f)' <=> Owes(u, f)
    BY <1>3, <2>2, OwesKept, FileAssumption
  <2>3. CASE Wrapped(t)
    <3>1. pc[t] = "user" /\ UNCHANGED <<pc, tgid>>
      BY <2>3, WrappedEffects
    <3>2. \A u \in Thread, f \in CFile : Owes(u, f)' <=> Owes(u, f)
      BY <2>2, <3>1
    <3>3. CASE UNCHANGED content
      BY <1>2, <3>1, <3>2, <3>3
    <3>4. ASSUME NEW fd \in Fd, NEW b \in Buffer,
                 FileFree(t, FileOf(t, fd)), original_write(t, fd, b, "plain")
          PROVE  PairsInv'
      <4>1. \A u \in Thread : ~ Owes(u, FileOf(t, fd))
        BY <3>1, <3>4, CallingThreads DEF FileFree, Assuming, Owes, InLogged, Typed
      <4>2. CASE Writes(t, fd, b, "plain")
        BY <3>1, <3>2, <4>1, <4>2, WriteKeepsPairs
      <4> QED
        BY <3>3, <3>4, <4>2, WriteEffects
    <3> QED
      BY <2>3, <3>3, <3>4, WrappedEffects
  <2>4. ASSUME NEW fd \in Fd, NEW b \in Buffer, NEW short \in BOOLEAN,
               LoggedBegin(t, fd, b, short)
        PROVE  PairsInv'
    <3>1. pc[t] = "user" /\ UNCHANGED shared
      BY <2>4, BeginEffects
    <3>2. CASE UNCHANGED <<pc, args>>
      BY <1>2, <2>2, <3>1, <3>2 DEF shared
    <3>3. CASE ~ UNCHANGED <<pc, args>>
      <4>1. /\ args' = [args EXCEPT ![t] = [fd |-> fd, buf |-> b, short |-> short,
                                            kbuf |-> "text"]]
            /\ \/ pc' = [pc EXCEPT ![t] = "save"]
               \/ /\ Standard(fd) \/ ~ IsC(FileOf(t, fd))
                  /\ pc' = [pc EXCEPT ![t] = "write"]
        BY <2>4, <3>3, BeginEffects
      <4>2. \A u \in Thread \ {t} : pc'[u] = pc[u]
        BY <4>1 DEF Typed, TypeOK
      <4>3. args'[t].fd = fd /\ tgid' = tgid /\ fdt' = fdt
        BY <3>1, <4>1 DEF shared, Typed, TypeOK
      <4>4. pc'[t] = "save" \/ Standard(fd) \/ ~ IsC(FileOf(t, fd))
        BY <4>1 DEF Typed, TypeOK
      <4>5. \A f \in CFile : ~ Owes(t, f)' /\ ~ Owes(t, f)
        BY <3>1, <4>3, <4>4 DEF Owes, Standard, IsC, FileOf
      <4> QED
        BY <1>2, <2>2, <3>1, <4>2, <4>5 DEF shared
    <3> QED
      BY <3>2, <3>3
  <2>5. CASE LoggedSave(t) \/ LoggedMark(t) \/ LoggedRestore(t)
    <3>1. UNCHANGED <<content, tgid>>
      BY <2>5 DEF LoggedSave, LoggedMark, LoggedRestore, shared
    <3>2. \A u \in Thread : pc[u] \in {"restore", "write"} <=> pc'[u] \in {"restore", "write"}
      <4>1. CASE LoggedSave(t)
        BY <4>1 DEF LoggedSave, Goes, Answers, Typed, TypeOK
      <4>2. CASE LoggedMark(t)
        BY <4>2 DEF LoggedMark, Goes, Answers, Typed, TypeOK
      <4>3. CASE LoggedRestore(t)
        BY <4>3, RestoreEffects DEF Typed, TypeOK
      <4> QED
        BY <2>5, <4>1, <4>2, <4>3
    <3> QED
      BY <1>2, <2>2, <3>1, <3>2
  <2>6. CASE LoggedComment(t)
    <3> DEFINE fd == args[t].fd
               file == FileOf(t, fd)
    <3>1. pc[t] = "comment" /\ args[t] \in Args /\ UNCHANGED args
      BY <2>6 DEF LoggedComment, Typed, Framed, InLogged
    <3>2. fd \in Fd /\ args[t].buf \in Buffer /\ ~ Standard(fd) /\ file \in CFile /\ file # NoFile
      BY <3>1 DEF Args, FileInv, FdIsFile, IsC
    <3>3. UNCHANGED <<tgid, fdt>> /\ Writes(t, fd, args[t].buf, "comment")
      BY <2>6, <3>2, WriteEffects DEF LoggedComment
    <3>4. pc'[t] = "restore" /\ \A u \in Thread \ {t} : pc'[u] = pc[u]
      BY <2>6 DEF LoggedComment, Goes, Typed, TypeOK
    <3>5. \A u \in Thread : ~ Owes(u, file)
      BY <3>1 DEF Owes, FilesApart, InLogged
    <3>6. \A f \in CFile : Owes(t, f)' <=> f = file
      BY <3>1, <3>2, <3>3, <3>4 DEF Owes, FileOf, Standard
    <3>7. \A u \in Thread \ {t}, f \in CFile : Owes(u, f)' <=> Owes(u, f)
      BY <2>2, <3>4
    <3>8. \A f \in CFile : ~ Owes(t, f)
      BY <3>1 DEF Owes
    <3>9. \A u \in Thread, f \in CFile :
            Owes(u, f)' <=> IF f = file THEN "comment" = "comment" /\ u = t ELSE Owes(u, f)
      BY <3>5, <3>6, <3>7, <3>8
    <3> HIDE DEF fd
    <3> QED
      BY <3>2, <3>3, <3>5, <3>9, WriteKeepsPairs
  <2>7. CASE LoggedData(t)
    <3> DEFINE fd == args[t].fd
               file == FileOf(t, fd)
    <3> PICK as \in {"logged", "plain"} : as = IF fd < 3 THEN "plain" ELSE "logged"
      OBVIOUS
    <3>1. pc[t] = "write" /\ args[t] \in Args
      BY <2>7 DEF LoggedData, Typed, Framed, InLogged
    <3>2. fd \in Fd /\ args[t].buf \in Buffer
      BY <3>1 DEF Args
    <3>3. /\ UNCHANGED <<tgid, fdt>>
          /\ \/ Writes(t, fd, args[t].buf, as)
             \/ UNCHANGED content /\ file = NoFile
      BY <2>7, <3>2, WriteEffects DEF LoggedData
    <3>4. pc'[t] = "user" /\ \A u \in Thread \ {t} : pc'[u] = pc[u]
      BY <2>7 DEF LoggedData, Answers, Goes, Typed, TypeOK
    <3>5. \A f \in CFile : ~ Owes(t, f)' /\ (Owes(t, f) <=> f = file /\ as = "logged")
      BY <3>1, <3>4 DEF Owes, Standard
    <3>6. \A u \in Thread \ {t}, f \in CFile : Owes(u, f)' <=> Owes(u, f)
      BY <2>2, <3>4
    <3>7. \A u \in Thread \ {t} : ~ Owes(u, file)
      BY <3>1 DEF Owes, FilesApart, InLogged
    <3>8. CASE Writes(t, fd, args[t].buf, as)
      <4>1. as \in {"comment", "logged", "plain"} /\ as # "comment"
        OBVIOUS
      <4>2. \A u \in Thread, f \in CFile :
              Owes(u, f)' <=> IF f = file THEN as = "comment" /\ u = t ELSE Owes(u, f)
        BY <3>5, <3>6, <3>7, <4>1
      <4>3. /\ file \in CFile /\ as = "logged" => Owes(t, file)
            /\ file \in CFile /\ as # "logged" => \A u \in Thread : ~ Owes(u, file)
        BY <3>5, <3>7
      <4> HIDE DEF fd
      <4>4. UNCHANGED tgid
        BY <3>3
      <4> QED
        BY <3>2, <3>8, <4>1, <4>2, <4>3, <4>4, WriteKeepsPairs
    <3>9. CASE UNCHANGED content /\ file = NoFile
      <4>1. \A f \in CFile : f # file
        BY <3>9, FileAssumption
      <4> QED
        BY <1>2, <3>3, <3>5, <3>6, <3>9, <4>1
    <3> QED
      BY <3>3, <3>8, <3>9
  <2>8. CASE OverrideCrashes(t)
    <3>1. pc[t] = "user" /\ pc' = [pc EXCEPT ![t] = "oops"] /\ UNCHANGED shared
      BY <2>8, CrashEffects
    <3>2. \A u \in Thread : pc[u] \in {"restore", "write"} <=> pc'[u] \in {"restore", "write"}
      BY <3>1 DEF Typed, TypeOK
    <3> QED
      BY <1>2, <2>2, <3>1, <3>2 DEF shared
  <2> QED
    BY <2>1, <2>3, <2>4, <2>5, <2>6, <2>7, <2>8 DEF loggedWrite
<1> QED
  BY <1>1, <1>3

(* If no two writes go to one file at a time, descriptors are not opened or  *)
(* closed while a call uses them, copies to buffers do not stop halfway and  *)
(* writes succeed, then in a .c file each change of loggedWrite follows a    *)
(* comment with its user's id, and each comment is followed by a change of   *)
(* its user.                                                                 *)
THEOREM ChangesAreLogged ==
  {"StableFds", "OwnFiles", "WholeBuffers", "WritesSucceed"} \subseteq Env /\ Spec
    => []LoggedChanges
<1> SUFFICES ASSUME {"StableFds", "OwnFiles", "WholeBuffers", "WritesSucceed"} \subseteq Env
             PROVE  Spec => []LoggedChanges
  OBVIOUS
<1>1. Init => PairsInv
  <2> SUFFICES ASSUME Init
               PROVE  PairsInv
    OBVIOUS
  <2>1. \A f \in CFile : content[f] = <<>>
    BY FileAssumption DEF Init
  <2> QED
    BY <2>1 DEF Init, PairsInv, LoggedChanges, EndsInCommentOf, Owes
<1>2. Typed /\ FileInv /\ FilesApart /\ PairsInv /\ [Next]_vars => PairsInv'
  BY StepPairs
<1>3. Spec => []FileInv /\ []FilesApart
  <2>1. Spec => []FileInv
    BY FileAlways
  <2>2. Spec => []FilesApart
    BY FilesApartAlways
  <2> QED
    BY <2>1, <2>2, PTL
<1>4. PairsInv => LoggedChanges
  BY DEF PairsInv
<1> QED
  BY <1>1, <1>2, <1>3, <1>4, TypedAlways, PTL DEF Spec
===============================================================================
