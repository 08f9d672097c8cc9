----------------------------- MODULE PipeSteps ------------------------------
(***************************************************************************)
(* The inductive invariant of Pipe, and what its steps do to it: types,    *)
(* the ends of a pipe (who stands for an open end, when pipeclose() closes *)
(* it, that a process inside a pipe holds it open), pi->lock, the sleepers, *)
(* the counters, and the bytes between them.                               *)
(***************************************************************************)
EXTENDS Pipe, Lemmas

-----------------------------------------------------------------------------
(* The inductive invariant.                                                *)

Creating == {"pipe_file1", "pipe_page"}
Closing == {"fileclose", "pipeclose"}
Locked == {"writing", "write_sleep", "read_sleep", "reading", "read_done"}

\* The files in hand: none in user space and inside a pipe; while pipealloc() runs, the
\* ones it has allocated, to which nobody else refers and which are not pipes yet.
Created(f) == f \in Files /\ ftable[f].ref = 1 /\ ftable[f].pipe = NoPage
HandInv(p) ==
    /\ pc[p] \notin Creating \cup Closing => hand[p] = NoFiles
    /\ pc[p] = "pipe_file1" => /\ Created(hand[p][0])
                               /\ \A fd \in FDs \ {0} : hand[p][fd] = NoFile
    /\ pc[p] = "pipe_page" => /\ Created(hand[p][0]) /\ Created(hand[p][1])
                              /\ hand[p][0] # hand[p][1]
                              /\ \A fd \in FDs \ {0, 1} : hand[p][fd] = NoFile
    /\ exiting[p] => pc[p] \in Closing /\ ofile[p] = NoFiles
    /\ pc[p] = "unused" => ofile[p] = NoFiles

\* A free file is no pipe; descriptors refer to pipes.
FilesInv ==
    /\ \A f \in Files : ftable[f].ref = 0 => ftable[f].pipe = NoPage
    /\ \A p \in P, fd \in FDs : ofile[p][fd] # NoFile => ftable[ofile[p][fd]].pipe # NoPage
RefInv == RefsCounted /\ FilesInv /\ \A p \in P : HandInv(p)

\* One file, or one process on its way to pipeclose(), stands for each open end.
OneHolder ==
    \A g \in Pages, w \in BOOLEAN :
        /\ \A e, f \in Files : FileHolds(e, g, w) /\ FileHolds(f, g, w) => e = f
        /\ \A p, q \in P : ProcHolds(p, g, w) /\ ProcHolds(q, g, w) => p = q
        /\ \A p \in P, f \in Files : ~(ProcHolds(p, g, w) /\ FileHolds(f, g, w))

\* A process inside a pipe got there through a descriptor that it keeps.
Through(p, w) ==
    \E fd \in FDs : ofile[p][fd] # NoFile /\ FileHolds(ofile[p][fd], call[p].pi, w)
CallInv(p) ==
    /\ pc[p] \in InRead => Through(p, FALSE)
    /\ pc[p] \in InWrite => Through(p, TRUE)
    /\ pc[p] = "pipeclose" => call[p].pi # NoPage
EndInv == OneHolder /\ EndsAgree /\ \A p \in P : CallInv(p)

\* pi->lock is held by the process that is between acquire() and release().
LockInv == \A p \in P, g \in Pages : lock[g] = p <=> pc[p] \in Locked /\ call[p].pi = g

\* What a process found out before it called sleep() still holds.
SleepInv(p) ==
    LET pi == call[p].pi IN
    /\ pc[p] = "read_sleep" => Empty(pi) /\ pipe[pi].writeopen
    /\ pc[p] = "write_sleep" => Full(pi) /\ pipe[pi].readopen

\* The writer that owes a sleeping reader its wakeup() has written a byte.
ReaderInv(p) ==
    LET pi == call[p].pi IN
    pc[p] = "read_asleep" /\ (~Empty(pi) \/ ~pipe[pi].writeopen) =>
        \/ \E q \in P : lock[pi] = q /\ pc[q] = "writing" /\ call[q].i > 0
        \/ unwoken[pi]
WriterInv(p) ==
    LET pi == call[p].pi IN
    pc[p] = "write_asleep" /\ (~Full(pi) \/ ~pipe[pi].readopen) =>
        \E q \in P : lock[pi] = q /\ pc[q] \in {"reading", "read_done"}
WaitInv == LockInv /\ \A p \in P : SleepInv(p) /\ ReaderInv(p) /\ WriterInv(p)
CountInv == \A g \in Pages : (pipe[g].nwrite - pipe[g].nread) % W <= PIPESIZE
PipeInv == TypeOK /\ RefInv /\ EndInv /\ WaitInv /\ CountInv

-----------------------------------------------------------------------------
(* The steps on files, with what they choose as parameters.                *)

Alloc0(p, f) == /\ Call(p) /\ ftable[f].ref = 0
                /\ FileAlloc(p, 0, f) /\ Goto(p, "pipe_file1")
Alloc1(p, f) == /\ pc[p] = "pipe_file1" /\ ftable[f].ref = 0
                /\ FileAlloc(p, 1, f) /\ Goto(p, "pipe_page")
GiveUp(p) == /\ pc[p] \in Creating /\ Goto(p, "fileclose")
             /\ UNCHANGED <<ftable, data, killed, ofile, exiting, hand, call>>
OpenPipe(p, g, fd0, fd1) ==
    /\ pc[p] = "pipe_page" /\ PipeAlloc(p, g) /\ PipeFds(p, fd0, fd1)
    /\ fd0 # fd1 /\ ofile[p][fd0] = NoFile /\ ofile[p][fd1] = NoFile
    /\ UNCHANGED <<lock, unwoken, killed, exiting>>
DropPipe(p, g) ==
    /\ pc[p] = "pipe_page" /\ PipeAlloc(p, g) /\ Goto(p, "fileclose")
    /\ UNCHANGED <<lock, unwoken, killed, ofile, exiting, hand, call>>
DupFile(p, f, e, fd) == /\ Call(p) /\ ofile[p][e] = f /\ ofile[p][fd] = NoFile
                        /\ FileDup(p, f, fd)
CloseFd(p, f, fd) ==
    /\ Call(p) /\ ofile[p][fd] = f
    /\ hand' = [hand EXCEPT ![p][fd] = f]
    /\ ofile' = [ofile EXCEPT ![p][fd] = NoFile]
    /\ Goto(p, "fileclose")
    /\ UNCHANGED <<ftable, data, killed, exiting, call>>
PutFile(p, f, k) ==
    /\ pc[p] = "fileclose" /\ hand[p][k] = f
    /\ hand' = [hand EXCEPT ![p][k] = NoFile]
    /\ UNCHANGED <<data, killed, ofile, exiting>>
DropFile(p, f, k) ==
    /\ PutFile(p, f, k) /\ ftable[f].ref > 1
    /\ ftable' = [ftable EXCEPT ![f].ref = @ - 1]
    /\ UNCHANGED <<pc, call>>
LastFile(p, f, k) ==
    /\ PutFile(p, f, k) /\ ftable[f].ref = 1 /\ ftable[f].pipe = NoPage
    /\ ftable' = [ftable EXCEPT ![f] = FreeFile]
    /\ UNCHANGED <<pc, call>>
LastEnd(p, f, k) ==
    /\ PutFile(p, f, k) /\ ftable[f].ref = 1 /\ ftable[f].pipe # NoPage
    /\ ftable' = [ftable EXCEPT ![f] = FreeFile]
    /\ Goto(p, "pipeclose")
    /\ SetCall(p, Locals(ftable[f].pipe, ftable[f].writable, 0))
ForkTo(p, q) ==
    /\ Call(p) /\ pc[q] = "unused" /\ Goto(q, "user")
    /\ ofile' = [ofile EXCEPT ![q] = ofile[p]]
    /\ ftable' = [f \in Files |->
          [ftable[f] EXCEPT !.ref = @ + Cardinality({fd \in FDs : ofile[p][fd] = f})]]
    /\ UNCHANGED <<data, killed, exiting, hand, call>>
FileStep(p) ==
    \/ GiveUp(p) \/ Closed(p) \/ Exit(p)
    \/ \E f \in Files : Alloc0(p, f) \/ Alloc1(p, f)
    \/ \E g \in Pages : DropPipe(p, g) \/ \E fd0, fd1 \in FDs : OpenPipe(p, g, fd0, fd1)
    \/ \E f \in Files, k \in FDs : \/ CloseFd(p, f, k) \/ DropFile(p, f, k)
                                   \/ LastFile(p, f, k) \/ LastEnd(p, f, k)
                                   \/ \E fd \in FDs : DupFile(p, f, k, fd)
    \/ \E q \in P : ForkTo(p, q)
PipeStep(p) ==
    \/ PipeClose(p) \/ Write(p) \/ Read(p) \/ Kill(p)
    \/ WriteLock(p) \/ WriteFails(p) \/ WriteFull(p) \/ WriteByte(p) \/ WriteDone(p)
    \/ WriteSleep(p) \/ ReadLock(p) \/ ReadSleep(p) \/ ReadByte(p) \/ ReadDone(p)

-----------------------------------------------------------------------------
(* Types.                                                                  *)

\* The values that the code starts from have their types.
LEMMA ConstantTypes ==
    /\ FreePipe \in PipeType /\ NewPipe \in PipeType /\ FreeFile \in FileType
    /\ NoCall \in CallType /\ NoCall.i <= NoCall.n /\ NoFiles \in FileRefs
    /\ Position = {"unused", "user", "pipe_file1", "pipe_page", "fileclose", "pipeclose",
                   "read", "read_sleep", "read_asleep", "reading", "read_done",
                   "write", "writing", "write_sleep", "write_asleep"}
  BY PipeAssumption DEF FreePipe, NewPipe, Blank, PipeType, FreeFile, FileType, NoCall, Locals,
     CallType, NoFiles, FileRefs, Position, InRead, InWrite

\* A byte and a counter can be stored into a pipe of the right type.
LEMMA BufferTypes ==
    ASSUME NEW f \in [Pages -> PipeType], NEW g \in Pages, NEW y \in 0..(W - 1)
    PROVE  /\ [f EXCEPT ![g].nread = y] \in [Pages -> PipeType]
           /\ \A x \in 0..(PIPESIZE - 1), ch \in Byte :
                [f EXCEPT ![g].data[x] = ch, ![g].nwrite = y] \in [Pages -> PipeType]
<1>1. ASSUME NEW r \in PipeType PROVE [f EXCEPT ![g] = r] \in [Pages -> PipeType]
    BY Zenon
<1>2. [f[g] EXCEPT !.nread = y] \in PipeType
    BY Zenon DEF PipeType
<1>3. ASSUME NEW x \in 0..(PIPESIZE - 1), NEW ch \in Byte
      PROVE  [f EXCEPT ![g].data[x] = ch, ![g].nwrite = y] \in [Pages -> PipeType]
    <2>1. [f[g].data EXCEPT ![x] = ch] \in [0..(PIPESIZE - 1) -> Byte \cup {Junk}]
        BY Zenon DEF PipeType
    <2>2. ASSUME NEW d \in [0..(PIPESIZE - 1) -> Byte \cup {Junk}]
          PROVE  [f[g] EXCEPT !.data = d, !.nwrite = y] \in PipeType
        <3>1. PICK r \in PipeType : r = [f[g] EXCEPT !.data = d]
            BY <2>2, Zenon DEF PipeType
        <3>2. [r EXCEPT !.nwrite = y] \in PipeType
            BY Zenon DEF PipeType
        <3> QED BY <3>1, <3>2, Zenon
    <2>3. [f[g] EXCEPT !.data[x] = ch, !.nwrite = y] \in PipeType
        BY <2>1, <2>2, Zenon
    <2> QED BY <1>1, <2>3
<1> QED BY <1>1, <1>2, <1>3, Zenon

\* An end can be closed in a pipe of the right type.
LEMMA EndTypes ==
    ASSUME NEW f \in [Pages -> PipeType], NEW g
    PROVE  /\ [f EXCEPT ![g].readopen = FALSE] \in [Pages -> PipeType]
           /\ [f EXCEPT ![g].writeopen = FALSE] \in [Pages -> PipeType]
<1>1. ASSUME NEW h \in Pages
      PROVE  /\ [f[h] EXCEPT !.readopen = FALSE] \in PipeType
             /\ [f[h] EXCEPT !.writeopen = FALSE] \in PipeType
    <2>1. f[h] \in PipeType
        OBVIOUS
    <2> QED BY <2>1, Zenon DEF PipeType
<1> QED BY <1>1, Zenon

\* The count of a file can be set.
LEMMA RefTypes ==
    ASSUME NEW ft \in [Files -> FileType], NEW f \in Files, NEW n \in Nat
    PROVE  [ft EXCEPT ![f].ref = n] \in [Files -> FileType]
  BY DEF FileType

\* The types hold at the start.
LEMMA TypesInit == Init => TypeOK
  BY ConstantTypes DEF Init, TypeOK

\* The steps on pipes keep the types.
LEMMA TypesPipeStep ==
    ASSUME TypeOK, NEW p \in P, PipeStep(p)
    PROVE  TypeOK'
<1> USE DEF TypeOK
<1>1. CASE PipeClose(p)
    <2>1. pipe' \in [Pages -> PipeType]
        <3> DEFINE g == call[p].pi
        <3>1. \/ pipe' = [pipe EXCEPT ![g] = FreePipe]
              \/ pipe' = [pipe EXCEPT ![g].writeopen = FALSE]
              \/ pipe' = [pipe EXCEPT ![g].readopen = FALSE]
            BY <1>1 DEF PipeClose
        <3> HIDE DEF g
        <3>2. CASE pipe' = [pipe EXCEPT ![g] = FreePipe]
            BY <3>2, ConstantTypes, Zenon
        <3>3. CASE pipe' = [pipe EXCEPT ![g].writeopen = FALSE]
            BY <3>3, EndTypes, Zenon
        <3>4. CASE pipe' = [pipe EXCEPT ![g].readopen = FALSE]
            BY <3>4, EndTypes, Zenon
        <3> QED BY <3>1, <3>2, <3>3, <3>4, Zenon
    <2>2. pc' \in [P -> Position]
        BY <1>1, ConstantTypes DEF PipeClose, WakeReaders, WakeWriters, Wakeup
    <2>3. unwoken' \in [Pages -> BOOLEAN]
        BY <1>1, Zenon DEF PipeClose
    <2> QED BY <1>1, ConstantTypes, <2>1, <2>2, <2>3, Zenon DEF PipeClose, SetCall, files
<1>2. CASE Write(p)
    BY <1>2, ConstantTypes, PipeAssumption
       DEF Write, Goto, SetCall, Locals, Open, data, files, FileType, FileRefs, CallType
<1>3. CASE Read(p)
    BY <1>3, ConstantTypes, PipeAssumption
       DEF Read, Goto, SetCall, Locals, Open, data, files, FileType, FileRefs, CallType
<1>4. CASE Kill(p)
    BY <1>4, ConstantTypes DEF Kill, Goto, files, data
<1>5. CASE WriteLock(p)
    BY <1>5, ConstantTypes, Zenon DEF WriteLock, Acquire, Goto, files
<1>6. CASE WriteFails(p)
    BY <1>6, ConstantTypes, Zenon DEF WriteFails, Release, Return, Goto, SetCall, files
<1>7. CASE WriteFull(p)
    BY <1>7, ConstantTypes, Zenon DEF WriteFull, WakeReaders, Wakeup, files
<1>8. CASE WriteByte(p)
    <2>1. call' \in [P -> CallType] /\ \A q \in P : call'[q].i <= call'[q].n
        <3>1. call[p].i \in Nat /\ call[p].n \in Nat /\ call[p].i < call[p].n
            BY <1>8 DEF WriteByte, WriteGoesOn, CallType
        <3>2. call[p].i + 1 \in Nat /\ call[p].i + 1 <= call[p].n
            BY <3>1
        <3>3. [call[p] EXCEPT !.i = call[p].i + 1] \in CallType
            BY <3>2, Zenon DEF CallType
        <3>4. call' = [call EXCEPT ![p] = [call[p] EXCEPT !.i = call[p].i + 1]]
            BY <1>8 DEF WriteByte
        <3>5. call' \in [P -> CallType]
            BY <3>3, <3>4
        <3>6. call'[p].i = call[p].i + 1 /\ call'[p].n = call[p].n /\ \A q \in P : q # p => call'[q] = call[q]
            BY <3>4 DEF CallType
        <3>7. \A q \in P : call'[q].i <= call'[q].n
            BY <3>2, <3>6
        <3> QED BY <3>5, <3>7, Zenon
    <2>2. pipe' \in [Pages -> PipeType]
        <3> DEFINE g == call[p].pi
                   x == pipe[g].nwrite % PIPESIZE
                   y == (pipe[g].nwrite + 1) % W
        <3>1. PICK ch \in Byte : pipe' = [pipe EXCEPT ![g].data[x] = ch, ![g].nwrite = y]
            BY <1>8, Zenon DEF WriteByte
        <3>2. CASE g \in Pages
            <4>1. pipe[g].nwrite \in 0..(W - 1)
                BY <3>2, Zenon DEF PipeType
            <4>2. x \in 0..(PIPESIZE - 1) /\ y \in 0..(W - 1)
                BY <4>1, PipeAssumption
            <4> HIDE DEF g, x, y
            <4> QED BY <3>1, <3>2, <4>2, BufferTypes, Zenon
        <3> HIDE DEF g, x, y
        <3> QED BY <3>1, <3>2, Zenon
    <2> QED BY <1>8, <2>1, <2>2, Zenon DEF WriteByte, files
<1>9. CASE WriteDone(p)
    BY <1>9, ConstantTypes, Zenon DEF WriteDone, Release, WakeReaders, Wakeup, SetCall, files
<1>10. CASE WriteSleep(p)
    BY <1>10, ConstantTypes, Zenon DEF WriteSleep, Sleep, Release, Goto, files
<1>11. CASE ReadLock(p)
    BY <1>11, ConstantTypes DEF ReadLock, Acquire, Return, Goto, SetCall, files
<1>12. CASE ReadSleep(p)
    BY <1>12, ConstantTypes, Zenon DEF ReadSleep, Sleep, Release, Goto, files
<1>13. CASE ReadByte(p)
    <2>1. call' \in [P -> CallType] /\ \A q \in P : call'[q].i <= call'[q].n
        <3>1. CASE UNCHANGED call
            BY <3>1
        <3>2. CASE call' = [call EXCEPT ![p].i = @ + 1]
            BY <1>13, <3>2 DEF ReadByte, CallType
        <3> QED BY <1>13, <3>1, <3>2 DEF ReadByte
    <2>2. pipe' \in [Pages -> PipeType]
        <3> DEFINE g == call[p].pi
                   y == (pipe[g].nread + 1) % W
        <3>1. pipe' = [pipe EXCEPT ![g].nread = y]
            BY <1>13 DEF ReadByte
        <3>2. CASE g \in Pages
            <4>1. pipe[g].nread \in 0..(W - 1)
                BY <3>2 DEF PipeType
            <4>2. y \in 0..(W - 1)
                BY <4>1, PipeAssumption
            <4> HIDE DEF g, y
            <4> QED BY <3>1, <3>2, <4>2, BufferTypes, Zenon
        <3> HIDE DEF g, y
        <3> QED BY <3>1, <3>2, Zenon
    <2>3. pc' \in [P -> Position]
        BY <1>13, ConstantTypes DEF ReadByte, Goto
    <2> QED BY <1>13, <2>1, <2>2, <2>3 DEF ReadByte, files
<1>14. CASE ReadDone(p)
    BY <1>14, ConstantTypes, Zenon DEF ReadDone, Release, WakeWriters, Wakeup, SetCall, files
<1> HIDE DEF TypeOK
<1> QED
    BY <1>1, <1>2, <1>3, <1>4, <1>5, <1>6, <1>7, <1>8, <1>9, <1>10, <1>11, <1>12, <1>13, <1>14, Zenon
    DEF PipeStep

-----------------------------------------------------------------------------
(* References to files.                                                    *)

\* The others stay where they are and keep their files, but for the child of fork().
Same(q) == /\ pc'[q] = pc[q] /\ ofile'[q] = ofile[q] /\ hand'[q] = hand[q]
           /\ exiting'[q] = exiting[q] /\ call'[q] = call[q]
Born(q, p) == /\ pc[q] = "unused" /\ pc'[q] = "user" /\ ofile'[q] = ofile[p] /\ hand'[q] = hand[q]
              /\ exiting'[q] = exiting[q] /\ call'[q] = call[q]

\* A step on files changes, of another process, at most that it is the child.
LEMMA FileStepOthers ==
    ASSUME TypeOK, NEW p \in P, FileStep(p), NEW q \in P \ {p}
    PROVE  Same(q) \/ Born(q, p)
<1> USE DEF TypeOK, Same
<1>1. CASE GiveUp(p) \/ Closed(p) \/ Exit(p)
    BY <1>1 DEF GiveUp, Closed, Exit, Return, Goto, SetCall
<1>2. ASSUME NEW f \in Files, Alloc0(p, f) \/ Alloc1(p, f) PROVE Same(q)
    BY <1>2 DEF Alloc0, Alloc1, FileAlloc, Goto
<1>3. ASSUME NEW g \in Pages, DropPipe(p, g) PROVE Same(q)
    BY <1>3 DEF DropPipe, Goto
<1>4. ASSUME NEW g \in Pages, NEW fd0 \in FDs, NEW fd1 \in FDs, OpenPipe(p, g, fd0, fd1) PROVE Same(q)
    BY <1>4 DEF OpenPipe, PipeFds, Return, Goto, SetCall
<1>5. ASSUME NEW f \in Files, NEW k \in FDs, CloseFd(p, f, k) PROVE Same(q)
    BY <1>5 DEF CloseFd, Goto
<1>6. ASSUME NEW f \in Files, NEW k \in FDs, DropFile(p, f, k) \/ LastFile(p, f, k) \/ LastEnd(p, f, k)
      PROVE  Same(q)
    BY <1>6 DEF DropFile, LastFile, LastEnd, PutFile, Goto, SetCall
<1>7. ASSUME NEW f \in Files, NEW k \in FDs, NEW fd \in FDs, DupFile(p, f, k, fd) PROVE Same(q)
    BY <1>7 DEF DupFile, FileDup
<1>8. ASSUME NEW r \in P, ForkTo(p, r) PROVE Same(q) \/ Born(q, p)
    BY <1>8, Zenon DEF ForkTo, Goto, Born
<1> HIDE DEF TypeOK, Same
<1> QED BY <1>1, <1>2, <1>3, <1>4, <1>5, <1>6, <1>7, <1>8, Zenon DEF FileStep

\* A step on a pipe leaves the files alone.
Within == {"user"} \cup InRead \cup InWrite

\* A step on a pipe changes no file; a process leaves pipeclose() for fileclose() only.
LEMMA PipeStepMoves ==
    ASSUME TypeOK, NEW p \in P, PipeStep(p)
    PROVE  /\ UNCHANGED files
           /\ \A q \in P : \/ pc'[q] = pc[q]
                           \/ pc[q] = "pipeclose" /\ pc'[q] = "fileclose"
                           \/ pc[q] \in Within /\ pc'[q] \in Within
<1> USE DEF TypeOK, Within, InRead, InWrite, Goto
<1>1. CASE PipeClose(p)
    BY <1>1 DEF PipeClose, WakeReaders, WakeWriters, Wakeup
<1>2. CASE Write(p) \/ Read(p)
    BY <1>2, Zenon DEF Write, Read, Call
<1>3. CASE Kill(p)
    BY <1>3 DEF Kill
<1>4. CASE WriteLock(p) \/ WriteFails(p) \/ WriteByte(p) \/ WriteSleep(p)
    BY <1>4, Zenon DEF WriteLock, WriteFails, WriteByte, WriteGoesOn, WriteSleep, Sleep, Return
<1>5. CASE WriteFull(p) \/ WriteDone(p)
    BY <1>5 DEF WriteFull, WriteDone, WriteGoesOn, WakeReaders, Wakeup
<1>6. CASE ReadLock(p) \/ ReadSleep(p) \/ ReadByte(p)
    BY <1>6 DEF ReadLock, ReadSleep, Sleep, ReadByte, Return
<1>7. CASE ReadDone(p)
    BY <1>7, Zenon DEF ReadDone, WakeWriters, Wakeup
<1> HIDE DEF TypeOK, Within, InRead, InWrite, Goto
<1> QED BY <1>1, <1>2, <1>3, <1>4, <1>5, <1>6, <1>7, Zenon DEF PipeStep

-----------------------------------------------------------------------------
(* The ends of a pipe.                                                     *)

\* The steps on files happen outside the pipes; one of them leads to pipeclose().
Outside == {"unused", "user", "pipe_file1", "pipe_page", "fileclose", "pipeclose"}

\* What a step on files does to the process that takes it.
LEMMA FileStepOwn ==
    ASSUME TypeOK, NEW p \in P, FileStep(p)
    PROVE  /\ pc[p] \in Outside \ {"unused", "pipeclose"} /\ pc'[p] \in Outside
           /\ \/ pc'[p] # "pipeclose"
              \/ \E f \in Files, k \in FDs : LastEnd(p, f, k)
<1> USE DEF TypeOK, Outside, Goto, Call
<1>1. CASE GiveUp(p) \/ Closed(p) \/ Exit(p)
    BY <1>1 DEF GiveUp, Closed, Exit, Return, Creating
<1>2. ASSUME NEW f \in Files, Alloc0(p, f) \/ Alloc1(p, f)
      PROVE  pc[p] \in {"user", "pipe_file1"} /\ pc'[p] \in {"pipe_file1", "pipe_page"}
    BY <1>2 DEF Alloc0, Alloc1
<1>3. ASSUME NEW g \in Pages, DropPipe(p, g) PROVE pc[p] = "pipe_page" /\ pc'[p] = "fileclose"
    BY <1>3 DEF DropPipe
<1>4. ASSUME NEW g \in Pages, NEW fd0 \in FDs, NEW fd1 \in FDs, OpenPipe(p, g, fd0, fd1)
      PROVE  pc[p] = "pipe_page" /\ pc'[p] = "user"
    BY <1>4 DEF OpenPipe, PipeFds, Return
<1>5. ASSUME NEW f \in Files, NEW k \in FDs, CloseFd(p, f, k)
      PROVE  pc[p] = "user" /\ pc'[p] = "fileclose"
    BY <1>5 DEF CloseFd
<1>6. ASSUME NEW f \in Files, NEW k \in FDs, DropFile(p, f, k) \/ LastFile(p, f, k)
      PROVE  pc[p] = "fileclose" /\ pc'[p] = "fileclose"
    BY <1>6 DEF DropFile, LastFile, PutFile
<1>7. ASSUME NEW f \in Files, NEW k \in FDs, LastEnd(p, f, k)
      PROVE  pc[p] = "fileclose" /\ pc'[p] = "pipeclose"
    BY <1>7 DEF LastEnd, PutFile
<1>8. ASSUME NEW f \in Files, NEW k \in FDs, NEW fd \in FDs, DupFile(p, f, k, fd)
      PROVE  pc[p] = "user" /\ pc'[p] = "user"
    BY <1>8 DEF DupFile, FileDup
<1>9. ASSUME NEW q \in P, ForkTo(p, q) PROVE pc[p] = "user" /\ pc'[p] = "user"
    BY <1>9 DEF ForkTo
<1> HIDE DEF TypeOK, Goto, Call
<1> QED BY <1>1, <1>2, <1>3, <1>4, <1>5, <1>6, <1>7, <1>8, <1>9, Zenon DEF FileStep

\* A process inside a pipe before or after a step on files has no part in it.
LEMMA FileStepInside ==
    ASSUME TypeOK, NEW p \in P, FileStep(p), NEW q \in P,
           pc[q] \notin Outside \/ pc'[q] \notin Outside
    PROVE  q # p /\ Same(q)
  BY FileStepOwn, FileStepOthers DEF Same, Born, Outside

\* What a step on a pipe, pipeclose() apart, leaves alone.
LEMMA PipeStepKeeps ==
    ASSUME TypeOK, NEW p \in P, PipeStep(p), ~PipeClose(p)
    PROVE  /\ \A g \in Pages : /\ pipe'[g].readopen = pipe[g].readopen
                               /\ pipe'[g].writeopen = pipe[g].writeopen
                               /\ pipe'[g].alloc = pipe[g].alloc
           /\ \A q \in P : /\ pc'[q] = "pipeclose" <=> pc[q] = "pipeclose"
                           /\ pc[q] = "pipeclose" => call'[q] = call[q]
<1> USE DEF TypeOK, Goto, SetCall
<1>2. CASE Write(p) \/ Read(p)
    BY <1>2, Zenon DEF Write, Read, Call, data
<1>3. CASE Kill(p)
    BY <1>3 DEF Kill, data
<1>4. CASE WriteLock(p) \/ WriteFails(p) \/ WriteSleep(p)
    BY <1>4 DEF WriteLock, WriteFails, WriteSleep, Sleep, Return
<1>5. CASE WriteByte(p)
    <2> DEFINE pi == call[p].pi
    <2>1. PICK ch \in Byte :
             pipe' = [pipe EXCEPT ![pi].data[pipe[pi].nwrite % PIPESIZE] = ch,
                                  ![pi].nwrite = (pipe[pi].nwrite + 1) % W]
        BY <1>5, Zenon DEF WriteByte
    <2>2. pc' = pc /\ \A q \in P : pc[q] = "pipeclose" => call'[q] = call[q]
        BY <1>5, Zenon DEF WriteByte, WriteGoesOn
    <2> QED BY <2>1, <2>2 DEF PipeType
<1>6. CASE WriteFull(p) \/ WriteDone(p)
    BY <1>6 DEF WriteFull, WriteDone, WriteGoesOn, WakeReaders, Wakeup
<1>7. CASE ReadLock(p) \/ ReadSleep(p)
    BY <1>7 DEF ReadLock, ReadSleep, Sleep, Return
<1>8. CASE ReadByte(p)
    BY <1>8 DEF ReadByte, PipeType
<1>9. CASE ReadDone(p)
    BY <1>9, Zenon DEF ReadDone, WakeWriters, Wakeup
<1> HIDE DEF TypeOK, Goto, SetCall
<1> QED BY <1>2, <1>3, <1>4, <1>5, <1>6, <1>7, <1>8, <1>9, Zenon DEF PipeStep

\* A process is inside a pipe after a step on a pipe because it was there before, with
\* the same pipe, or because the step is its read() or write().
LEMMA PipeStepCalls ==
    ASSUME TypeOK, NEW p \in P, PipeStep(p), NEW q \in P
    PROVE  /\ pc'[q] \in InRead => \/ pc[q] \in InRead /\ call'[q].pi = call[q].pi
                                   \/ q = p /\ Read(p)
           /\ pc'[q] \in InWrite => \/ pc[q] \in InWrite /\ call'[q].pi = call[q].pi
                                    \/ q = p /\ Write(p)
<1> USE DEF TypeOK, Goto, SetCall, InRead, InWrite
<1>1. CASE PipeClose(p)
    BY <1>1 DEF PipeClose, WakeReaders, WakeWriters, Wakeup
<1>2. CASE Write(p)
    BY <1>2, Zenon DEF Write
<1>10. CASE Read(p)
    BY <1>10, Zenon DEF Read
<1>3. CASE Kill(p)
    BY <1>3 DEF Kill
<1>4. CASE WriteLock(p) \/ WriteFails(p) \/ WriteSleep(p)
    BY <1>4 DEF WriteLock, WriteFails, WriteSleep, Sleep, Return
<1>5. CASE WriteByte(p) \/ ReadByte(p)
    <2>1. call' = call \/ call' = [call EXCEPT ![p].i = call[p].i + 1]
        BY <1>5, Zenon DEF WriteByte, ReadByte
    <2>2. call'[q].pi = call[q].pi
        BY <2>1 DEF CallType
    <2>3. pc'[q] = pc[q] \/ (pc[q] = "reading" /\ pc'[q] = "read_done")
        <3>1. CASE WriteByte(p)
            BY <3>1 DEF WriteByte
        <3>2. CASE ReadByte(p)
            BY <3>2, Zenon DEF ReadByte
        <3> QED BY <1>5, <3>1, <3>2
    <2> QED BY <2>2, <2>3
<1>6. CASE WriteFull(p) \/ WriteDone(p)
    BY <1>6 DEF WriteFull, WriteDone, WriteGoesOn, WakeReaders, Wakeup
<1>7. CASE ReadLock(p) \/ ReadSleep(p)
    BY <1>7 DEF ReadLock, ReadSleep, Sleep, Return
<1>9. CASE ReadDone(p)
    BY <1>9 DEF ReadDone, WakeWriters, Wakeup
<1> HIDE DEF TypeOK, Goto, SetCall, InRead, InWrite
<1> QED BY <1>1, <1>2, <1>3, <1>4, <1>5, <1>6, <1>7, <1>9, <1>10, Zenon DEF PipeStep

\* The steps on pipes keep every process inside a pipe behind a file that it keeps open.
LEMMA CallsPipeStep ==
    ASSUME TypeOK, EndInv, NEW p \in P, PipeStep(p)
    PROVE  \A q \in P : CallInv(q)'
<1>0. UNCHANGED <<ftable, ofile>>
    BY PipeStepMoves DEF files
<1>1. ASSUME NEW q \in P PROVE CallInv(q)'
    <2>0. CallInv(q)
        BY DEF EndInv
    <2>1. ASSUME NEW w \in BOOLEAN, Through(q, w), call'[q].pi = call[q].pi PROVE Through(q, w)'
        BY <1>0, <2>1, Zenon DEF Through, FileHolds
    <2>2. ASSUME NEW f \in Open(p), NEW n, SetCall(p, Locals(ftable[f].pipe, FALSE, n))
          PROVE  Through(p, ftable[f].writable)'
        BY <2>2, <1>0 DEF Open, SetCall, Locals, TypeOK, Through, FileHolds
    <2>3. pc'[q] \in InRead => Through(q, FALSE)'
        <3>1. CASE pc[q] \in InRead /\ call'[q].pi = call[q].pi
            BY <2>0, <2>1, <3>1, Zenon DEF CallInv
        <3>2. CASE q = p /\ Read(p)
            <4>1. PICK f \in Open(p), n \in ReadLens :
                     ~ftable[f].writable /\ SetCall(p, Locals(ftable[f].pipe, FALSE, n))
                BY <3>2, Zenon DEF Read
            <4>2. ftable[f].writable = FALSE
                BY <4>1 DEF Open, TypeOK, FileRefs, FileType
            <4>3. Through(p, ftable[f].writable)'
                BY <4>1, <2>2, Zenon
            <4>4. ftable' = ftable
                BY <1>0
            <4> QED BY <3>2, <4>2, <4>3, <4>4, Zenon DEF Through
        <3> QED BY <3>1, <3>2, PipeStepCalls, Zenon
    <2>4. pc'[q] \in InWrite => Through(q, TRUE)'
        <3>1. CASE pc[q] \in InWrite /\ call'[q].pi = call[q].pi
            BY <2>0, <2>1, <3>1, Zenon DEF CallInv
        <3>2. CASE q = p /\ Write(p)
            <4>1. PICK f \in Open(p), n \in WriteLens :
                     ftable[f].writable /\ SetCall(p, Locals(ftable[f].pipe, FALSE, n))
                BY <3>2, Zenon DEF Write
            <4>2. ftable[f].writable = TRUE
                <5>1. f \in Files
                    BY DEF Open, TypeOK, FileRefs
                <5> QED BY <4>1, <5>1 DEF TypeOK, FileType
            <4>3. Through(p, ftable[f].writable)'
                BY <4>1, <2>2, Zenon
            <4>4. ftable' = ftable
                BY <1>0
            <4> QED BY <3>2, <4>2, <4>3, <4>4, Zenon DEF Through
        <3> QED BY <3>1, <3>2, PipeStepCalls, Zenon
    <2>5. pc'[q] = "pipeclose" => call'[q].pi # NoPage
        <3>1. CASE PipeClose(p)
            BY <3>1, <2>0, Zenon DEF PipeClose, WakeReaders, WakeWriters, Wakeup, TypeOK, SetCall,
                   CallInv
        <3>2. CASE ~PipeClose(p)
            BY <2>0, <3>2, PipeStepKeeps, Zenon DEF CallInv
        <3> QED BY <3>1, <3>2, Zenon
    <2> QED BY <2>3, <2>4, <2>5, Zenon DEF CallInv
<1> QED BY <1>1

\* A step that neither opens nor closes an end.
LEMMA EndsFrame ==
    ASSUME OneHolder, EndsAgree,
           \A f \in Files, g \in Pages, w \in BOOLEAN : FileHolds(f, g, w)' <=> FileHolds(f, g, w),
           \A q \in P, g \in Pages, w \in BOOLEAN : ProcHolds(q, g, w)' <=> ProcHolds(q, g, w),
           \A g \in Pages : /\ pipe'[g].readopen = pipe[g].readopen
                            /\ pipe'[g].writeopen = pipe[g].writeopen
                            /\ pipe'[g].alloc = pipe[g].alloc
    PROVE  OneHolder' /\ EndsAgree'
<1>1. OneHolder'
    BY DEF OneHolder
<1>2. \A g \in Pages, w \in BOOLEAN : EndHeld(g, w)' <=> EndHeld(g, w)
    BY DEF EndHeld
<1>3. EndsAgree'
    BY <1>2, Zenon DEF EndsAgree
<1> QED BY <1>1, <1>3, Zenon

\* Nobody stands for the end of a page that is not allocated.
LEMMA Unheld ==
    ASSUME EndsAgree, TypeOK, NEW g \in Pages, ~pipe[g].alloc, NEW w \in BOOLEAN
    PROVE  /\ \A f \in Files : ~FileHolds(f, g, w)
           /\ \A q \in P : ~ProcHolds(q, g, w)
<1>1. ~EndHeld(g, w)
    BY Zenon DEF EndsAgree
<1> QED BY <1>1 DEF EndHeld

\* The processes that stand for an end do not change, but for the one that takes the step.
LEMMA ProcHoldsFileStep ==
    ASSUME TypeOK, NEW p \in P, FileStep(p)
    PROVE  /\ \A q \in P \ {p}, g \in Pages, w \in BOOLEAN : ProcHolds(q, g, w)' <=> ProcHolds(q, g, w)
           /\ \A g \in Pages, w \in BOOLEAN : ~ProcHolds(p, g, w)
           /\ pc'[p] # "pipeclose" => \A g \in Pages, w \in BOOLEAN : ~ProcHolds(p, g, w)'
  BY FileStepOthers, FileStepOwn DEF ProcHolds, Same, Born

\* pipealloc() opens both ends of a page that nobody used.
LEMMA EndsAlloc ==
    ASSUME TypeOK, RefInv, EndInv, NEW p \in P, FileStep(p), pc'[p] # "pipeclose",
           NEW g \in Pages, pc[p] = "pipe_page", PipeAlloc(p, g)
    PROVE  OneHolder' /\ EndsAgree'
<1>0. OneHolder /\ EndsAgree
    BY Zenon DEF EndInv
<1>1. PICK rf, wf \in Files : rf = hand[p][0] /\ wf = hand[p][1] /\ rf # wf /\ Created(rf) /\ Created(wf)
    BY Zenon DEF RefInv, HandInv, Created
<1>2. /\ ftable'[rf].pipe = g /\ ftable'[rf].writable = FALSE
      /\ ftable'[wf].pipe = g /\ ftable'[wf].writable = TRUE
      /\ \A f \in Files \ {rf, wf} : ftable'[f] = ftable[f]
    BY <1>1, Zenon DEF PipeAlloc, TypeOK
<1>3. /\ pipe'[g].readopen = TRUE /\ pipe'[g].writeopen = TRUE /\ pipe'[g].alloc = TRUE
      /\ \A h \in Pages \ {g} : pipe'[h] = pipe[h]
    BY Zenon DEF PipeAlloc, NewPipe, TypeOK
<1>4. \A w \in BOOLEAN : /\ \A f \in Files : ~FileHolds(f, g, w)
                         /\ \A q \in P : ~ProcHolds(q, g, w)
    BY <1>0, Unheld, Zenon DEF PipeAlloc
<1>5. \A q \in P, h \in Pages, w \in BOOLEAN : ProcHolds(q, h, w)' <=> ProcHolds(q, h, w)
    BY ProcHoldsFileStep, Zenon
<1>6. \A f \in Files, w \in BOOLEAN : FileHolds(f, g, w)' <=> f = IF w THEN wf ELSE rf
    <2>1. \A f \in Files \ {rf, wf}, w \in BOOLEAN : ~FileHolds(f, g, w)'
        BY <1>2, <1>4 DEF FileHolds
    <2>2. \A w \in BOOLEAN : FileHolds(rf, g, w)' <=> ~w
        BY <1>2, Zenon DEF FileHolds
    <2>3. \A w \in BOOLEAN : FileHolds(wf, g, w)' <=> w
        BY <1>2, Zenon DEF FileHolds
    <2> QED BY <1>1, <2>1, <2>2, <2>3, Zenon
<1>7. \A f \in Files, h \in Pages \ {g}, w \in BOOLEAN : FileHolds(f, h, w)' <=> FileHolds(f, h, w)
    BY <1>1, <1>2, PipeAssumption DEF FileHolds, Created
<1>8. OneHolder'
    BY <1>0, <1>4, <1>5, <1>6, <1>7 DEF OneHolder
<1>9. /\ \A w \in BOOLEAN : EndHeld(g, w)'
      /\ \A h \in Pages \ {g}, w \in BOOLEAN : EndHeld(h, w)' <=> EndHeld(h, w)
    BY <1>1, <1>5, <1>6, <1>7 DEF EndHeld
<1>10. EndsAgree'
    BY <1>0, <1>3, <1>9, Zenon DEF EndsAgree
<1> QED BY <1>8, <1>10

\* fileclose() of the last reference hands an end over to the process.
LEMMA EndsLast ==
    ASSUME TypeOK, RefInv, EndInv, NEW p \in P, FileStep(p),
           NEW f \in Files, NEW k \in FDs, LastEnd(p, f, k)
    PROVE  OneHolder' /\ EndsAgree'
<1>0. OneHolder /\ EndsAgree
    BY DEF EndInv
<1>1. PICK g \in Pages, w \in BOOLEAN : FileHolds(f, g, w)
    BY Zenon DEF LastEnd, TypeOK, FileType, FileHolds
<1>2. /\ ftable'[f].pipe = NoPage /\ \A e \in Files \ {f} : ftable'[e] = ftable[e]
      /\ pc'[p] = "pipeclose" /\ call'[p].pi = g /\ call'[p].writable = w
      /\ pipe' = pipe
    BY <1>1, Zenon DEF LastEnd, PutFile, FreeFile, Goto, SetCall, Locals, FileHolds, TypeOK, data
<1>3. \A e \in Files, h \in Pages, v \in BOOLEAN : FileHolds(e, h, v)' <=> FileHolds(e, h, v) /\ e # f
    BY <1>2, PipeAssumption, Zenon DEF FileHolds
<1>4. \A h \in Pages, v \in BOOLEAN : FileHolds(f, h, v) <=> h = g /\ v = w
    BY <1>1, Zenon DEF FileHolds
<1>5. \A q \in P, h \in Pages, v \in BOOLEAN : ProcHolds(q, h, v)' <=>
         ProcHolds(q, h, v) \/ (q = p /\ h = g /\ v = w)
    BY <1>2, ProcHoldsFileStep DEF ProcHolds
<1>6. \A h \in Pages, v \in BOOLEAN : ~ProcHolds(p, h, v)
    BY ProcHoldsFileStep, Zenon
<1>7. OneHolder'
    BY <1>0, <1>1, <1>3, <1>4, <1>5, <1>6 DEF OneHolder
<1>8. \A h \in Pages, v \in BOOLEAN : EndHeld(h, v)' <=> EndHeld(h, v)
    BY <1>0, <1>1, <1>3, <1>4, <1>5 DEF EndHeld
<1>9. EndsAgree'
    BY <1>0, <1>2, <1>8, Zenon DEF EndsAgree
<1> QED BY <1>7, <1>9

\* The steps on files keep readopen, writeopen and the holders of the ends in agreement.
LEMMA EndsFileStep ==
    ASSUME TypeOK, RefInv, EndInv, NEW p \in P, FileStep(p)
    PROVE  OneHolder' /\ EndsAgree'
<1>0. OneHolder /\ EndsAgree
    BY Zenon DEF EndInv
<1> DEFINE Kept == \A f \in Files : \/ /\ ftable'[f].pipe = ftable[f].pipe
                                       /\ ftable'[f].writable = ftable[f].writable
                                    \/ ftable'[f].pipe = NoPage /\ ftable[f].pipe = NoPage
<1>1. ASSUME Kept, pipe' = pipe, pc'[p] # "pipeclose"
      PROVE  OneHolder' /\ EndsAgree'
    BY <1>1, PipeAssumption, ProcHoldsFileStep, <1>0, EndsFrame DEF FileHolds
<1>2. ASSUME ftable' = ftable \/ \E f \in Files : \E n \in Nat : ftable' = [ftable EXCEPT ![f].ref = n]
      PROVE  Kept
    BY <1>2 DEF TypeOK, FileType
<1>3. CASE GiveUp(p) \/ Closed(p) \/ Exit(p)
    BY <1>3, <1>1, <1>2 DEF GiveUp, Closed, Exit, data, Goto, Return, TypeOK
<1>4. ASSUME NEW f \in Files, Alloc0(p, f) \/ Alloc1(p, f) PROVE OneHolder' /\ EndsAgree'
    <2>1. ftable' = [ftable EXCEPT ![f].ref = 1] /\ pipe' = pipe
        BY <1>4, Zenon DEF Alloc0, Alloc1, FileAlloc, data
    <2>2. pc'[p] # "pipeclose"
        BY <1>4, Zenon DEF Alloc0, Alloc1, Goto, TypeOK
    <2> QED BY <1>1, <1>2, <2>1, <2>2, Zenon
<1>5. ASSUME NEW g \in Pages, DropPipe(p, g) PROVE OneHolder' /\ EndsAgree'
    BY <1>5, EndsAlloc, Zenon DEF DropPipe, Goto, TypeOK
<1>6. ASSUME NEW g \in Pages, NEW fd0 \in FDs, NEW fd1 \in FDs, OpenPipe(p, g, fd0, fd1)
      PROVE  OneHolder' /\ EndsAgree'
    BY <1>6, EndsAlloc, Zenon DEF OpenPipe, PipeFds, Return, Goto, TypeOK
<1>7. ASSUME NEW f \in Files, NEW k \in FDs, CloseFd(p, f, k) PROVE OneHolder' /\ EndsAgree'
    BY <1>7, <1>1, <1>2, Zenon DEF CloseFd, Goto, TypeOK, data
<1>8. ASSUME NEW f \in Files, NEW k \in FDs, DropFile(p, f, k) PROVE OneHolder' /\ EndsAgree'
    BY <1>8, <1>1, <1>2 DEF DropFile, PutFile, TypeOK, FileType, data
<1>9. ASSUME NEW f \in Files, NEW k \in FDs, LastFile(p, f, k) PROVE OneHolder' /\ EndsAgree'
    <2>1. pipe' = pipe /\ pc'[p] # "pipeclose"
        BY <1>9 DEF LastFile, PutFile, TypeOK, data
    <2>2. Kept
        BY <1>9, Zenon DEF LastFile, FreeFile, TypeOK
    <2> QED BY <1>1, <2>1, <2>2, Zenon
<1>10. ASSUME NEW f \in Files, NEW k \in FDs, LastEnd(p, f, k) PROVE OneHolder' /\ EndsAgree'
    BY <1>10, EndsLast
<1>11. ASSUME NEW f \in Files, NEW k \in FDs, NEW fd \in FDs, DupFile(p, f, k, fd)
       PROVE  OneHolder' /\ EndsAgree'
    BY <1>11, <1>1, <1>2 DEF DupFile, FileDup, Call, TypeOK, FileType, data
<1>12. ASSUME NEW q \in P, ForkTo(p, q) PROVE OneHolder' /\ EndsAgree'
    BY <1>12, <1>1, Zenon DEF ForkTo, Call, Goto, TypeOK, data, FileType
<1> HIDE DEF Kept
<1> QED BY <1>3, <1>4, <1>5, <1>6, <1>7, <1>8, <1>9, <1>10, <1>11, <1>12, Zenon DEF FileStep

\* pipeclose() closes the end that the process stands for, and no other, and frees the
\* page with the second one.
LEMMA EndsPipeClose ==
    ASSUME TypeOK, EndInv, NEW p \in P, PipeClose(p)
    PROVE  OneHolder' /\ EndsAgree'
<1>0. OneHolder /\ EndsAgree /\ CallInv(p)
    BY DEF EndInv
<1>1. PICK g \in Pages, w \in BOOLEAN : g = call[p].pi /\ w = call[p].writable /\ ProcHolds(p, g, w)
    BY <1>0, Zenon DEF CallInv, PipeClose, TypeOK, CallType, ProcHolds
<1>2. /\ ftable' = ftable
      /\ \A q \in P : pc'[q] = "pipeclose" <=> pc[q] = "pipeclose" /\ q # p
      /\ \A q \in P \ {p} : call'[q] = call[q]
    BY DEF PipeClose, files, WakeReaders, WakeWriters, Wakeup, SetCall, TypeOK
<1>3. \A f \in Files, h \in Pages, v \in BOOLEAN : FileHolds(f, h, v)' <=> FileHolds(f, h, v)
    BY <1>2 DEF FileHolds
<1>4. \A q \in P, h \in Pages, v \in BOOLEAN : ProcHolds(q, h, v)' <=> ProcHolds(q, h, v) /\ q # p
    BY <1>2, Zenon DEF ProcHolds
<1>5. OneHolder'
    BY <1>0, <1>3, <1>4 DEF OneHolder
<1>6. \A h \in Pages, v \in BOOLEAN : ProcHolds(p, h, v) <=> h = g /\ v = w
    BY <1>1, Zenon DEF ProcHolds
<1>7. \A h \in Pages, v \in BOOLEAN : EndHeld(h, v)' <=> EndHeld(h, v) /\ ~(h = g /\ v = w)
    BY <1>0, <1>1, <1>3, <1>4, <1>6 DEF EndHeld, OneHolder
<1>8. \A h \in Pages \ {g} : pipe'[h] = pipe[h]
    BY <1>1, Zenon DEF PipeClose, TypeOK
<1>9. /\ pipe'[g].readopen = (pipe[g].readopen /\ w)
      /\ pipe'[g].writeopen = (pipe[g].writeopen /\ ~w)
      /\ pipe'[g].alloc = (pipe'[g].readopen \/ pipe'[g].writeopen)
    <2>0. /\ pipe[g].readopen \in BOOLEAN /\ pipe[g].writeopen \in BOOLEAN
          /\ pipe[g].alloc = (pipe[g].readopen \/ pipe[g].writeopen)
        BY <1>0, Zenon DEF TypeOK, PipeType, EndsAgree
    <2>1. CASE w /\ pipe[g].readopen
        <3>1. pipe' = [pipe EXCEPT ![g].writeopen = FALSE]
            BY <1>1, <2>1 DEF PipeClose
        <3> QED BY <2>0, <2>1, <3>1, Zenon DEF TypeOK, PipeType
    <2>2. CASE ~w /\ pipe[g].writeopen
        <3>1. pipe' = [pipe EXCEPT ![g].readopen = FALSE]
            BY <1>1, <2>2 DEF PipeClose
        <3> QED BY <2>0, <2>2, <3>1, Zenon DEF TypeOK, PipeType
    <2>3. CASE ~(IF w THEN pipe[g].readopen ELSE pipe[g].writeopen)
        <3>1. pipe' = [pipe EXCEPT ![g] = FreePipe]
            BY <1>1, <2>3 DEF PipeClose
        <3> QED BY <2>0, <2>3, <3>1, Zenon DEF TypeOK, FreePipe
    <2> QED BY <2>1, <2>2, <2>3
<1>10. EndsAgree'
    <2>1. ASSUME NEW h \in Pages
          PROVE  /\ pipe'[h].readopen <=> EndHeld(h, FALSE)'
                 /\ pipe'[h].writeopen <=> EndHeld(h, TRUE)'
                 /\ pipe'[h].alloc <=> pipe'[h].readopen \/ pipe'[h].writeopen
        BY <1>0, <1>1, <1>7, <1>8, <1>9, Zenon DEF EndsAgree
    <2> QED BY <2>1, Zenon DEF EndsAgree
<1> QED BY <1>5, <1>10

-----------------------------------------------------------------------------
(* The lock and the sleepers.                                              *)

\* A process inside a pipe, or on its way to close it, uses an allocated page through
\* an open end.
LEMMA InsideHeld ==
    ASSUME TypeOK, RefInv, EndInv, NEW q \in P
    PROVE  /\ pc[q] \in InRead => /\ call[q].pi \in Pages /\ EndHeld(call[q].pi, FALSE)
                                  /\ \E f \in Files : FileHolds(f, call[q].pi, FALSE)
                                  /\ pipe[call[q].pi].readopen /\ pipe[call[q].pi].alloc
           /\ pc[q] \in InWrite => /\ call[q].pi \in Pages /\ EndHeld(call[q].pi, TRUE)
                                   /\ \E f \in Files : FileHolds(f, call[q].pi, TRUE)
                                   /\ pipe[call[q].pi].writeopen /\ pipe[call[q].pi].alloc
           /\ pc[q] = "pipeclose" => /\ call[q].pi \in Pages
                                     /\ ProcHolds(q, call[q].pi, call[q].writable)
                                     /\ pipe[call[q].pi].alloc
<1>1. CallInv(q) /\ EndsAgree /\ FilesInv
    BY Zenon DEF EndInv, RefInv
<1>2. ASSUME NEW w \in BOOLEAN, Through(q, w)
      PROVE  call[q].pi \in Pages /\ \E f \in Files : FileHolds(f, call[q].pi, w)
    BY <1>2, <1>1 DEF Through, TypeOK, FileRefs, FilesInv, FileHolds, CallType
<1>3. pc[q] = "pipeclose" => call[q].pi \in Pages /\ call[q].writable \in BOOLEAN
    BY <1>1 DEF CallInv, TypeOK, CallType
<1>4. pc[q] = "pipeclose" => /\ ProcHolds(q, call[q].pi, call[q].writable)
                             /\ EndHeld(call[q].pi, call[q].writable)
    BY DEF ProcHolds, EndHeld
<1>5. pc[q] = "pipeclose" => pipe[call[q].pi].alloc
    BY <1>1, <1>3, <1>4, Zenon DEF EndsAgree
<1>6. pc[q] \in InRead => /\ call[q].pi \in Pages /\ EndHeld(call[q].pi, FALSE)
                          /\ \E f \in Files : FileHolds(f, call[q].pi, FALSE)
    BY <1>1, <1>2, Zenon DEF CallInv, EndHeld
<1>7. pc[q] \in InWrite => /\ call[q].pi \in Pages /\ EndHeld(call[q].pi, TRUE)
                           /\ \E f \in Files : FileHolds(f, call[q].pi, TRUE)
    BY <1>1, <1>2, Zenon DEF CallInv, EndHeld
<1> QED BY <1>1, <1>3, <1>4, <1>5, <1>6, <1>7, Zenon DEF EndsAgree

Waiting == {"read_sleep", "write_sleep", "read_asleep", "write_asleep"}
Asleep(q) == SleepInv(q) /\ ReaderInv(q) /\ WriterInv(q)

\* A step that changes neither the sleeper's pipe nor the process that has locked it.
LEMMA WaitFrame ==
    ASSUME NEW q \in P, Asleep(q),
           pc'[q] = pc[q] \/ pc'[q] \notin Waiting,
           pc'[q] \in Waiting => /\ call'[q].pi = call[q].pi
                                 /\ pipe'[call[q].pi] = pipe[call[q].pi]
                                 /\ lock'[call[q].pi] = lock[call[q].pi]
                                 /\ unwoken'[call[q].pi] = unwoken[call[q].pi]
                                 /\ \A r \in P : lock[call[q].pi] = r =>
                                        pc'[r] = pc[r] /\ call'[r].i = call[r].i
    PROVE  Asleep(q)'
  BY DEF Asleep, SleepInv, Waiting, Empty, Full, ReaderInv, WriterInv

\* The steps on files do not touch a page that is in use.
LEMMA FileStepPipes ==
    ASSUME TypeOK, NEW p \in P, FileStep(p)
    PROVE  /\ UNCHANGED <<lock, unwoken>>
           /\ \A g \in Pages : pipe'[g] = pipe[g] \/ (~pipe[g].alloc /\ pipe'[g] = NewPipe)
<1>1. CASE GiveUp(p) \/ Closed(p) \/ Exit(p)
    BY <1>1 DEF GiveUp, Closed, Exit, data
<1>2. ASSUME NEW f \in Files, Alloc0(p, f) \/ Alloc1(p, f) PROVE UNCHANGED data
    BY <1>2, Zenon DEF Alloc0, Alloc1, FileAlloc
<1>3. ASSUME NEW g \in Pages, DropPipe(p, g)
      PROVE  /\ UNCHANGED <<lock, unwoken>>
             /\ \A h \in Pages : pipe'[h] = pipe[h] \/ (~pipe[h].alloc /\ pipe'[h] = NewPipe)
    BY <1>3, Zenon DEF DropPipe, PipeAlloc, TypeOK
<1>4. ASSUME NEW g \in Pages, NEW fd0 \in FDs, NEW fd1 \in FDs, OpenPipe(p, g, fd0, fd1)
      PROVE  /\ UNCHANGED <<lock, unwoken>>
             /\ \A h \in Pages : pipe'[h] = pipe[h] \/ (~pipe[h].alloc /\ pipe'[h] = NewPipe)
    BY <1>4 DEF OpenPipe, PipeAlloc, TypeOK
<1>5. ASSUME NEW f \in Files, NEW k \in FDs, CloseFd(p, f, k) PROVE UNCHANGED data
    BY <1>5 DEF CloseFd
<1>6. ASSUME NEW f \in Files, NEW k \in FDs, DropFile(p, f, k) \/ LastFile(p, f, k) \/ LastEnd(p, f, k)
      PROVE  UNCHANGED data
    BY <1>6 DEF DropFile, LastFile, LastEnd, PutFile
<1>7. ASSUME NEW f \in Files, NEW k \in FDs, NEW fd \in FDs, DupFile(p, f, k, fd) PROVE UNCHANGED data
    BY <1>7 DEF DupFile, FileDup
<1>8. ASSUME NEW r \in P, ForkTo(p, r) PROVE UNCHANGED data
    BY <1>8 DEF ForkTo
<1> QED BY <1>1, <1>2, <1>3, <1>4, <1>5, <1>6, <1>7, <1>8, Zenon DEF FileStep, data

\* The steps on files disturb neither the locks nor the sleepers.
LEMMA WaitFileStep ==
    ASSUME TypeOK, RefInv, EndInv, WaitInv, NEW p \in P, FileStep(p)
    PROVE  WaitInv'
<1>0. LockInv /\ \A q \in P : Asleep(q)
    BY DEF WaitInv, Asleep
<1>1. LockInv'
    <2>1. ASSUME NEW q \in P, NEW g \in Pages
          PROVE  lock'[g] = q <=> pc'[q] \in Locked /\ call'[q].pi = g
        <3>1. lock'[g] = lock[g]
            BY FileStepPipes, Zenon
        <3>2. CASE pc[q] \in Locked \/ pc'[q] \in Locked
            <4>1. Same(q)
                BY <3>2, FileStepInside, Zenon DEF Locked, Outside
            <4> QED BY <1>0, <3>1, <4>1 DEF LockInv, Same
        <3>3. CASE ~(pc[q] \in Locked \/ pc'[q] \in Locked)
            BY <1>0, <3>1, <3>3 DEF LockInv
        <3> QED BY <3>2, <3>3, Zenon
    <2> QED BY <2>1, Zenon DEF LockInv
<1>2. ASSUME NEW q \in P PROVE Asleep(q)'
    <2>1. CASE pc'[q] \notin Waiting
        BY <2>1, Zenon DEF Asleep, SleepInv, ReaderInv, WriterInv, Waiting
    <2>2. CASE pc'[q] \in Waiting
        <3>1. Same(q)
            BY <2>2, FileStepInside DEF Waiting, Outside
        <3>2. call[q].pi \in Pages /\ pipe[call[q].pi].alloc
            BY <2>2, <3>1, InsideHeld, Zenon DEF Same, Waiting, InRead, InWrite
        <3>3. /\ pipe'[call[q].pi] = pipe[call[q].pi]
              /\ lock' = lock /\ unwoken' = unwoken
            BY <3>2, FileStepPipes, Zenon
        <3>4. ASSUME NEW r \in P, lock[call[q].pi] = r PROVE pc'[r] = pc[r] /\ call'[r] = call[r]
            BY <1>0, <3>2, <3>4, FileStepInside DEF LockInv, Locked, Outside, Same
        <3>5. pc'[q] = pc[q] /\ call'[q] = call[q]
            BY <3>1, Zenon DEF Same
        <3> QED BY <1>0, <2>2, <3>3, <3>4, <3>5, WaitFrame, Zenon
    <2> QED BY <2>1, <2>2, Zenon
<1> QED BY <1>1, <1>2 DEF WaitInv, Asleep

\* The others stay where they are, or wake up.
Woken(q) == \/ pc[q] = "read_asleep" /\ pc'[q] = "read"
            \/ pc[q] = "write_asleep" /\ pc'[q] = "write"

\* A step on a pipe changes, of another process, at most that it wakes up.
LEMMA PipeStepOthers ==
    ASSUME TypeOK, NEW p \in P, PipeStep(p), NEW q \in P \ {p}
    PROVE  call'[q] = call[q] /\ (pc'[q] = pc[q] \/ Woken(q))
<1> USE DEF TypeOK, Goto, SetCall, Woken
<1>1. CASE PipeClose(p)
    BY <1>1 DEF PipeClose, WakeReaders, WakeWriters, Wakeup
<1>2. CASE Write(p) \/ Read(p)
    BY <1>2, Zenon DEF Write, Read
<1>3. CASE Kill(p)
    BY <1>3, Zenon DEF Kill
<1>4. CASE WriteLock(p) \/ WriteFails(p) \/ WriteSleep(p)
    BY <1>4, Zenon DEF WriteLock, WriteFails, WriteSleep, Sleep, Return
<1>5. CASE WriteByte(p)
    BY <1>5 DEF WriteByte
<1>6. CASE ReadByte(p)
    BY <1>6, Zenon DEF ReadByte
<1>7. CASE WriteFull(p) \/ WriteDone(p)
    BY <1>7, Zenon DEF WriteFull, WriteDone, WriteGoesOn, WakeReaders, Wakeup
<1>8. CASE ReadLock(p) \/ ReadSleep(p)
    BY <1>8, Zenon DEF ReadLock, ReadSleep, Sleep, Return
<1>9. CASE ReadDone(p)
    BY <1>9 DEF ReadDone, WakeWriters, Wakeup
<1> HIDE DEF TypeOK, Goto, SetCall, Woken
<1> QED BY <1>1, <1>2, <1>3, <1>4, <1>5, <1>6, <1>7, <1>8, <1>9, Zenon DEF PipeStep

\* read(), write() and kill() change no pipe; the other steps change the one they are in.
LEMMA PipeStepElsewhere ==
    ASSUME TypeOK, NEW p \in P, PipeStep(p)
    PROVE  \/ (Write(p) \/ Read(p) \/ Kill(p)) /\ UNCHANGED data
           \/ /\ pc[p] \in InRead \cup InWrite \cup {"pipeclose"}
              /\ \A g \in Pages \ {call[p].pi} : /\ pipe'[g] = pipe[g] /\ lock'[g] = lock[g]
                                                 /\ unwoken'[g] = unwoken[g]
<1> USE DEF TypeOK, InRead, InWrite
<1>1. CASE PipeClose(p)
    BY <1>1 DEF PipeClose
<1>2. CASE Write(p) \/ Read(p) \/ Kill(p)
    BY <1>2, Zenon DEF Write, Read, Kill
<1>4. CASE WriteLock(p) \/ WriteFails(p) \/ WriteSleep(p)
    BY <1>4, Zenon DEF WriteLock, WriteFails, WriteSleep, Sleep, Acquire, Release
<1>5. CASE WriteByte(p)
    BY <1>5, Zenon DEF WriteByte, WriteGoesOn
<1>6. CASE ReadByte(p)
    BY <1>6, Zenon DEF ReadByte
<1>7. CASE WriteFull(p) \/ WriteDone(p)
    BY <1>7, Zenon DEF WriteFull, WriteDone, WriteGoesOn, Release
<1>8. CASE ReadLock(p) \/ ReadSleep(p)
    BY <1>8, Zenon DEF ReadLock, ReadSleep, Sleep, Acquire, Release
<1>9. CASE ReadDone(p)
    BY <1>9 DEF ReadDone, Release
<1> HIDE DEF TypeOK, InRead, InWrite
<1> QED BY <1>1, <1>2, <1>4, <1>5, <1>6, <1>7, <1>8, <1>9, Zenon DEF PipeStep

\* The lock of the pipe that process p is in: p takes it, gives it back, or keeps what it has.
LEMMA LockMoves ==
    ASSUME TypeOK, NEW p \in P, PipeStep(p), NEW g, g = call[p].pi, lock[g] = p <=> pc[p] \in Locked
    PROVE  \/ /\ pc[p] \notin Locked /\ pc'[p] \in Locked /\ call'[p].pi = g
              /\ lock[g] = Nobody /\ lock' = [lock EXCEPT ![g] = p]
           \/ pc[p] \in Locked /\ pc'[p] \notin Locked /\ lock' = [lock EXCEPT ![g] = Nobody]
           \/ pc[p] \in Locked /\ pc'[p] \in Locked /\ call'[p].pi = g /\ lock' = lock
           \/ pc[p] \notin Locked /\ pc'[p] \notin Locked /\ lock' = lock
<1> USE DEF TypeOK, Goto, SetCall, Locked
<1>1. CASE PipeClose(p)
    BY <1>1 DEF PipeClose, WakeReaders, WakeWriters, Wakeup
<1>2. CASE Write(p) \/ Read(p)
    BY <1>2, Zenon DEF Write, Read, Call, data
<1>3. CASE Kill(p)
    BY <1>3, Zenon DEF Kill, data
<1>4. CASE WriteLock(p) \/ WriteFails(p) \/ WriteSleep(p)
    BY <1>4 DEF WriteLock, WriteFails, WriteSleep, Sleep, Return, Acquire, Release
<1>5. CASE WriteByte(p)
    BY <1>5 DEF WriteByte, WriteGoesOn, CallType
<1>6. CASE ReadByte(p)
    BY <1>6 DEF ReadByte, CallType
<1>7. CASE WriteFull(p)
    BY <1>7, Zenon DEF WriteFull, WriteGoesOn, WakeReaders, Wakeup
<1>8. CASE WriteDone(p)
    BY <1>8, Zenon DEF WriteDone, WriteGoesOn, WakeReaders, Wakeup, Release
<1>9. CASE ReadLock(p)
    BY <1>9 DEF ReadLock, Return, Acquire
<1>10. CASE ReadSleep(p)
    BY <1>10, Zenon DEF ReadSleep, Sleep, Release
<1>11. CASE ReadDone(p)
    BY <1>11 DEF ReadDone, WakeWriters, Wakeup, Release
<1> HIDE DEF TypeOK, Goto, SetCall, Locked
<1> QED BY <1>1, <1>2, <1>3, <1>4, <1>5, <1>6, <1>7, <1>8, <1>9, <1>10, <1>11, Zenon DEF PipeStep

\* The steps on pipes keep pi->lock with the process between acquire() and release().
LEMMA LockPipeStep ==
    ASSUME TypeOK, RefInv, EndInv, LockInv, NEW p \in P, PipeStep(p)
    PROVE  LockInv'
<1>1. CASE call[p].pi \in Pages
    BY <1>1, PipeStepOthers, PipeAssumption, LockMoves DEF LockInv, Woken, Locked, TypeOK
<1>2. CASE call[p].pi \notin Pages
    <2>1. pc[p] \notin InRead \cup InWrite \cup {"pipeclose"}
        BY <1>2, InsideHeld, Zenon
    <2>2. UNCHANGED data /\ (Write(p) \/ Read(p) \/ Kill(p))
        BY <2>1, PipeStepElsewhere
    <2>3. lock' = lock /\ pc[p] \notin Locked /\ pc'[p] \notin Locked
        BY <2>1, <2>2, Zenon DEF data, Write, Read, Kill, Call, Goto, Locked, InRead, InWrite, TypeOK
    <2>4. \A q \in P \ {p} : /\ call'[q] = call[q] /\ (pc'[q] \in Locked <=> pc[q] \in Locked)
        BY PipeStepOthers DEF Woken, Locked
    <2> QED BY <2>3, <2>4 DEF LockInv
<1> QED BY <1>1, <1>2, Zenon

\* A reader asleep in the pipe that process p is in, and which p's step does not wake.
LEMMA ReaderStep ==
    ASSUME TypeOK, RefInv, EndInv, LockInv, NEW p \in P, PipeStep(p), NEW q \in P \ {p},
           NEW g \in Pages, call[p].pi = g, call[q].pi = g, ReaderInv(q),
           pc[p] \in InRead \cup InWrite \cup {"pipeclose"},
           pc[q] = "read_asleep", pc'[q] = "read_asleep"
    PROVE  ReaderInv(q)'
<1> DEFINE Due == ~Empty(g) \/ ~pipe[g].writeopen
           Due1 == ~Empty(g)' \/ ~pipe'[g].writeopen
<1>1. Due => \/ \E r \in P : lock[g] = r /\ pc[r] = "writing" /\ call[r].i > 0
             \/ unwoken[g]
    BY Zenon DEF ReaderInv
<1>2. SUFFICES ASSUME Due1
               PROVE  \/ \E r \in P : lock'[g] = r /\ pc'[r] = "writing" /\ call'[r].i > 0
                      \/ unwoken'[g]
    BY PipeStepOthers, Zenon DEF ReaderInv
<1>3. lock[g] = p <=> pc[p] \in Locked
    BY Zenon DEF LockInv
<1>4. Nobody \notin P
    BY PipeAssumption, Zenon
<1>5. ASSUME pipe' = pipe, unwoken' = unwoken, pc[p] # "writing", lock[g] \in {p, Nobody}
      PROVE  unwoken'[g]
    BY <1>1, <1>2, <1>4, <1>5, Zenon DEF Empty
<1> USE DEF TypeOK, Goto, SetCall, InRead, InWrite
<1>6. CASE PipeClose(p)
    <2>1. call[p].writable = FALSE
        BY <1>6 DEF PipeClose, WakeReaders, Wakeup, CallType
    <2>2. ProcHolds(p, g, FALSE) /\ \E f \in Files : FileHolds(f, g, FALSE)
        BY <1>6, <2>1, InsideHeld, Zenon DEF PipeClose, ProcHolds
    <2> QED BY <2>2, Zenon DEF EndInv, OneHolder
<1>7. CASE Write(p) \/ Read(p)
    BY <1>7, Zenon DEF Write, Read, Call
<1>8. CASE Kill(p)
    BY <1>1, <1>2, <1>8, Zenon DEF Kill, data, Empty
<1>9. CASE WriteLock(p)
    BY <1>9, <1>5 DEF WriteLock, Acquire
<1>10. CASE WriteFails(p)
    <2>1. pipe' = pipe /\ pc[p] = "writing"
        BY <1>10, Zenon DEF WriteFails
    <2>2. Due
        BY <1>2, <2>1, Zenon DEF Empty
    <2>3. lock[g] = p
        BY <1>3, <2>1, Zenon DEF Locked
    <2>4. unwoken'[g] = (unwoken[g] \/ call[p].i > 0)
        BY <1>10, Zenon DEF WriteFails
    <2> QED BY <1>1, <2>2, <2>3, <2>4, Zenon
<1>11. CASE WriteFull(p)
    BY <1>11, Zenon DEF WriteFull, WriteGoesOn, WakeReaders, Wakeup
<1>12. CASE WriteByte(p)
    BY <1>12, <1>3 DEF WriteByte, WriteGoesOn, CallType, Locked
<1>13. CASE WriteDone(p)
    BY <1>13, Zenon DEF WriteDone, WriteGoesOn, WakeReaders, Wakeup
<1>14. CASE WriteSleep(p) \/ ReadSleep(p)
    BY <1>14, <1>3, <1>5, Zenon DEF WriteSleep, ReadSleep, Sleep, Locked
<1>15. CASE ReadLock(p)
    BY <1>15, <1>5, Zenon DEF ReadLock
<1>16. CASE ReadByte(p)
    BY <1>16, <1>3, <1>1, Zenon DEF ReadByte, Locked
<1>17. CASE ReadDone(p)
    BY <1>17, <1>3, <1>5, Zenon DEF ReadDone, Locked
<1> HIDE DEF TypeOK, Goto, SetCall, InRead, InWrite
<1> QED BY <1>6, <1>7, <1>8, <1>9, <1>10, <1>11, <1>12, <1>13, <1>14, <1>15, <1>16, <1>17, Zenon DEF PipeStep

\* A writer asleep in the pipe that process p is in, and which p's step does not wake.
LEMMA WriterStep ==
    ASSUME TypeOK, RefInv, EndInv, LockInv, NEW p \in P, PipeStep(p), NEW q \in P \ {p},
           NEW g \in Pages, call[p].pi = g, call[q].pi = g, WriterInv(q),
           pc[p] \in InRead \cup InWrite \cup {"pipeclose"},
           pc[q] = "write_asleep", pc'[q] = "write_asleep"
    PROVE  WriterInv(q)'
<1> DEFINE Due == ~Full(g) \/ ~pipe[g].readopen
           Due1 == ~Full(g)' \/ ~pipe'[g].readopen
           Reads(r) == pc[r] \in {"reading", "read_done"}
<1>1. Due => \E r \in P : lock[g] = r /\ Reads(r)
    BY Zenon DEF WriterInv
<1>2. SUFFICES ASSUME Due1
               PROVE  \E r \in P : lock'[g] = r /\ pc'[r] \in {"reading", "read_done"}
    BY PipeStepOthers, Zenon DEF WriterInv
<1>3. lock[g] = p <=> pc[p] \in Locked
    BY Zenon DEF LockInv
<1>4. Nobody \notin P
    BY PipeAssumption, Zenon
<1>5. ASSUME pipe' = pipe, lock[g] = Nobody \/ (lock[g] = p /\ ~Reads(p))
      PROVE  FALSE
    BY <1>2, <1>5, <1>1, <1>4, Zenon DEF Full
<1> USE DEF TypeOK, Goto, SetCall, InRead, InWrite
<1>6. CASE PipeClose(p)
    <2>1. call[p].writable = TRUE
        BY <1>6 DEF PipeClose, WakeWriters, Wakeup, CallType
    <2>2. ProcHolds(p, g, TRUE) /\ \E f \in Files : FileHolds(f, g, TRUE)
        BY <1>6, <2>1, InsideHeld, Zenon DEF PipeClose, ProcHolds
    <2> QED BY <2>2, Zenon DEF EndInv, OneHolder
<1>7. CASE Write(p) \/ Read(p)
    BY <1>7, Zenon DEF Write, Read, Call
<1>8. CASE Kill(p)
    BY <1>8, <1>2, <1>1, Zenon DEF Kill, data, Full
<1>9. CASE WriteLock(p)
    BY <1>9, <1>5, Zenon DEF WriteLock, Acquire
<1>10. CASE WriteFails(p) \/ WriteFull(p) \/ WriteDone(p)
    BY <1>10, <1>3, <1>5, Zenon DEF WriteFails, WriteFull, WriteDone, WriteGoesOn, Locked
<1>12. CASE WriteByte(p)
    <2>1. pc[p] = "writing" /\ ~Full(g)
        BY <1>12, Zenon DEF WriteByte, WriteGoesOn
    <2>2. lock[g] = p
        BY <1>3, <2>1 DEF Locked
    <2> QED BY <1>1, <2>1, <2>2, Zenon
<1>14. CASE WriteSleep(p) \/ ReadSleep(p)
    BY <1>14, <1>3, <1>5, Zenon DEF WriteSleep, ReadSleep, Sleep, Locked
<1>15. CASE ReadLock(p)
    BY <1>15, <1>5 DEF ReadLock
<1>16. CASE ReadByte(p)
    BY <1>16, <1>3 DEF ReadByte, Locked
<1>17. CASE ReadDone(p)
    BY <1>17, Zenon DEF ReadDone, WakeWriters, Wakeup
<1> HIDE DEF TypeOK, Goto, SetCall, InRead, InWrite
<1> QED BY <1>6, <1>7, <1>8, <1>9, <1>10, <1>12, <1>14, <1>15, <1>16, <1>17, Zenon DEF PipeStep

\* A process goes to sleep on what it found out while it held the lock.
LEMMA OwnWait ==
    ASSUME TypeOK, NEW p \in P, PipeStep(p), ~Kill(p), Asleep(p), pc'[p] \in Waiting
    PROVE  Asleep(p)'
<1> DEFINE g == call[p].pi
<1>1. ASSUME pipe' = pipe, call'[p].pi = g, Full(g), pipe[g].readopen,
             pc'[p] \in {"write_sleep", "write_asleep"}
      PROVE  Asleep(p)'
    BY <1>1, Zenon DEF Asleep, SleepInv, ReaderInv, WriterInv, Full
<1>2. ASSUME pipe' = pipe, call'[p].pi = g, Empty(g), pipe[g].writeopen,
             pc'[p] \in {"read_sleep", "read_asleep"}
      PROVE  Asleep(p)'
    BY <1>2, Zenon DEF Asleep, SleepInv, ReaderInv, WriterInv, Empty
<1> USE DEF TypeOK, Goto, SetCall, Waiting
<1>3. CASE WriteFull(p)
    BY <1>3, <1>1, Zenon DEF WriteFull, WriteGoesOn, WakeReaders, Wakeup
<1>4. CASE WriteSleep(p)
    BY <1>4, <1>1, Zenon DEF WriteSleep, Sleep, Asleep, SleepInv
<1>5. CASE ReadSleep(p)
    BY <1>5, <1>2, Zenon DEF ReadSleep, Sleep, Asleep, SleepInv
<1>6. CASE ReadLock(p)
    BY <1>6, <1>2, Zenon DEF ReadLock, Return
<1>7. CASE WriteByte(p) \/ ReadByte(p)
    <2>1. pc'[p] \in {"writing", "reading", "read_done"}
        BY <1>7, Zenon DEF WriteByte, WriteGoesOn, ReadByte
    <2> QED BY <2>1
<1>8. CASE PipeClose(p) \/ WriteDone(p) \/ ReadDone(p)
    BY <1>8 DEF PipeClose, WriteDone, ReadDone, WakeReaders, WakeWriters, Wakeup
<1>9. CASE Write(p) \/ Read(p) \/ WriteLock(p) \/ WriteFails(p)
    BY <1>9, Zenon DEF Write, Read, WriteLock, WriteFails, Return
<1> HIDE DEF TypeOK, Goto, SetCall, Waiting
<1> QED BY <1>3, <1>4, <1>5, <1>6, <1>7, <1>8, <1>9, Zenon DEF PipeStep

\* The steps on pipes keep what the sleepers rely on.
LEMMA WaitPipeStep ==
    ASSUME TypeOK, RefInv, EndInv, WaitInv, NEW p \in P, PipeStep(p)
    PROVE  WaitInv'
<1>0. LockInv /\ \A q \in P : Asleep(q)
    BY DEF WaitInv, Asleep
<1>h. ASSUME NEW r \in P \ {p}, NEW g \in Pages, lock[g] = r
      PROVE  pc'[r] = pc[r] /\ call'[r] = call[r]
    BY <1>0, <1>h, PipeStepOthers DEF LockInv, Woken, Locked
<1>1. ASSUME NEW q \in P, pc'[q] \notin Waiting PROVE Asleep(q)'
    BY <1>1 DEF Asleep, SleepInv, ReaderInv, WriterInv, Waiting
<1>2. ASSUME NEW q \in P \ {p}, pc'[q] \in Waiting
      PROVE  /\ pc'[q] = pc[q] /\ call'[q] = call[q]
             /\ call[q].pi \in Pages
    <2>1. pc'[q] = pc[q] /\ call'[q] = call[q]
        BY <1>2, PipeStepOthers, Zenon DEF Woken, Waiting
    <2> QED BY <1>2, <2>1, InsideHeld, Zenon DEF Waiting, InRead, InWrite
<1>3. CASE (Write(p) \/ Read(p) \/ Kill(p)) /\ UNCHANGED data
    <2>1. pc[p] \in Locked \cup Waiting \/ pc'[p] \in Waiting =>
             Kill(p) /\ (pc'[p] = pc[p] \/ pc'[p] \notin Waiting) /\ (pc[p] \in Locked => pc'[p] = pc[p])
        BY <1>3, Zenon DEF Write, Read, Kill, Call, Goto, Locked, Waiting, TypeOK
    <2>2. Kill(p) => call' = call
        BY Zenon DEF Kill
    <2>3. ASSUME NEW q \in P, pc'[q] \in Waiting PROVE Asleep(q)'
        <3>1. pc'[q] = pc[q] /\ call'[q] = call[q] /\ call[q].pi \in Pages
            <4>1. CASE q = p
                <5>1. pc'[q] = pc[q] /\ call'[q] = call[q]
                    BY <2>1, <2>2, <2>3, <4>1, Zenon
                <5> QED BY <2>3, <5>1, InsideHeld, Zenon DEF Waiting, InRead, InWrite
            <4>2. CASE q # p
                BY <1>2, <2>3, <4>2, Zenon
            <4> QED BY <4>1, <4>2
        <3>2. ASSUME NEW r \in P, lock[call[q].pi] = r PROVE pc'[r] = pc[r] /\ call'[r] = call[r]
            BY <1>0, <3>1, <3>2, <2>1, <2>2, <1>h, Zenon DEF LockInv
        <3> QED BY <1>0, <1>3, <3>1, <3>2, WaitFrame, Zenon DEF data
    <2> QED BY <1>0, <1>1, <2>3, LockPipeStep, Zenon DEF WaitInv, Asleep
<1>4. CASE /\ pc[p] \in InRead \cup InWrite \cup {"pipeclose"} /\ ~Kill(p)
           /\ \A g \in Pages \ {call[p].pi} : /\ pipe'[g] = pipe[g] /\ lock'[g] = lock[g]
                                              /\ unwoken'[g] = unwoken[g]
    <2>0. PICK g \in Pages : g = call[p].pi
        BY <1>4, InsideHeld, Zenon
    <2>1. ASSUME NEW q \in P \ {p}, pc'[q] \in Waiting, call[q].pi # g PROVE Asleep(q)'
        <3>1. pc'[q] = pc[q] /\ call'[q] = call[q] /\ call[q].pi \in Pages
            BY <1>2, <2>1, Zenon
        <3>2. ASSUME NEW r \in P, lock[call[q].pi] = r PROVE pc'[r] = pc[r] /\ call'[r] = call[r]
            <4>1. r # p
                BY <1>0, <2>0, <2>1, <3>1, <3>2 DEF LockInv
            <4> QED BY <1>h, <3>1, <3>2, <4>1, Zenon
        <3> QED BY <1>0, <1>4, <2>0, <2>1, <3>1, <3>2, WaitFrame, Zenon
    <2>2. lock[g] = p \/ lock[g] = Nobody
        <3>1. pc[p] \in Locked => lock[g] = p
            BY <1>0, <2>0 DEF LockInv
        <3>2. pc[p] \notin Locked => PipeClose(p) \/ WriteLock(p) \/ ReadLock(p)
            BY <1>4, Zenon DEF PipeStep, Write, Read, Call, WriteFails, WriteFull, WriteByte, WriteDone,
               WriteGoesOn, WriteSleep, ReadSleep, Sleep, ReadByte, ReadDone, Locked, InRead, InWrite
        <3>3. PipeClose(p) \/ WriteLock(p) \/ ReadLock(p) => lock[g] = Nobody
            BY <2>0, Zenon DEF PipeClose, WriteLock, ReadLock, Acquire
        <3> QED BY <3>1, <3>2, <3>3, Zenon
    <2>3. ASSUME NEW q \in P \ {p}, pc'[q] \in Waiting, call[q].pi = g PROVE Asleep(q)'
        <3>1. pc'[q] = pc[q] /\ call'[q] = call[q]
            BY <1>2, <2>3, Zenon
        <3>2. pc[q] \notin Locked
            BY <1>0, <2>2, <2>3, PipeAssumption DEF LockInv
        <3>3. CASE pc[q] = "read_asleep"
            <4>1. ReaderInv(q)'
                BY <1>0, <1>4, <2>0, <2>3, <3>1, <3>3, ReaderStep, Zenon DEF Asleep
            <4> QED BY <3>1, <3>3, <4>1, Zenon DEF Asleep, SleepInv, WriterInv
        <3>4. CASE pc[q] = "write_asleep"
            BY <1>0, <1>4, <2>0, <2>3, <3>1, <3>4, WriterStep, Zenon DEF Asleep, SleepInv, ReaderInv
        <3> QED BY <2>3, <3>1, <3>2, <3>3, <3>4, Zenon DEF Waiting, Locked
    <2>4. ASSUME pc'[p] \in Waiting PROVE Asleep(p)'
        BY <1>0, <1>4, <2>4, OwnWait, Zenon
    <2> QED BY <1>0, <1>1, <2>1, <2>3, <2>4, LockPipeStep, Zenon DEF WaitInv, Asleep
<1> QED
    BY <1>3, <1>4, PipeStepElsewhere, Zenon DEF Kill

-----------------------------------------------------------------------------
(* The counters, which wrap around.                                        *)

\* One byte more, unless the buffer is full, and one byte less, unless it is empty.
LEMMA Counters ==
    ASSUME NEW a \in 0..(W - 1), NEW b \in 0..(W - 1), (a - b) % W <= PIPESIZE
    PROVE  /\ (a - b) % W \in Nat
           /\ a # (b + PIPESIZE) % W => /\ (a - b) % W < PIPESIZE
                                        /\ (((a + 1) % W) - b) % W = ((a - b) % W) + 1
           /\ a # b => /\ (a - b) % W > 0
                       /\ (a - ((b + 1) % W)) % W = ((a - b) % W) - 1
<1>0. W \in Nat /\ PIPESIZE \in Nat /\ 0 < PIPESIZE /\ PIPESIZE < W
    BY PipeAssumption
<1>1. \A x, y \in 0..(W - 1) : (x - y) % W = IF x >= y THEN x - y ELSE x - y + W
    BY <1>0
<1>2. \A x \in 0..(W - 1) : /\ (x + 1) % W = IF x = W - 1 THEN 0 ELSE x + 1
                            /\ (x + 1) % W \in 0..(W - 1)
    BY <1>0
<1>3. (b + PIPESIZE) % W = IF b + PIPESIZE < W THEN b + PIPESIZE ELSE b + PIPESIZE - W
    BY <1>0
<1>4. PICK c, d \in 0..(W - 1) : c = (a + 1) % W /\ d = (b + 1) % W
    BY <1>2, Zenon
<1>5. /\ (c - b) % W = (IF c >= b THEN c - b ELSE c - b + W)
      /\ (a - d) % W = (IF a >= d THEN a - d ELSE a - d + W)
      /\ (a - b) % W = (IF a >= b THEN a - b ELSE a - b + W)
    BY <1>1, Zenon
<1>6. /\ c = IF a = W - 1 THEN 0 ELSE a + 1
      /\ d = IF b = W - 1 THEN 0 ELSE b + 1
    BY <1>2, <1>4, Zenon
<1>7. PICK n, m, k, e \in Int : n = (a - b) % W /\ m = (c - b) % W /\ k = (a - d) % W /\ e = (b + PIPESIZE) % W
    BY <1>0, <1>3, <1>5, <1>6
<1>8. /\ n \in Nat
      /\ a # e => n < PIPESIZE /\ m = n + 1
      /\ a # b => n > 0 /\ k = n - 1
    BY <1>0, <1>7, <1>3, <1>5, <1>6
<1> QED BY <1>0, <1>4, <1>7, <1>8, Zenon

\* What a step does to the bytes of page g: nothing, or it puts one, or takes one, or
\* throws all of them away.
Idle(g) == /\ pipe'[g].nread = pipe[g].nread /\ pipe'[g].nwrite = pipe[g].nwrite
           /\ pipe'[g].data = pipe[g].data
Puts(g, ch) ==
    /\ ~Full(g)
    /\ pipe'[g].data = [pipe[g].data EXCEPT ![pipe[g].nwrite % PIPESIZE] = ch]
    /\ pipe'[g].nwrite = (pipe[g].nwrite + 1) % W /\ pipe'[g].nread = pipe[g].nread
Gets(g) ==
    /\ ~Empty(g)
    /\ pipe'[g].nread = (pipe[g].nread + 1) % W
    /\ pipe'[g].nwrite = pipe[g].nwrite /\ pipe'[g].data = pipe[g].data
Frees(g) == pipe'[g].nread = 0 /\ pipe'[g].nwrite = 0

\* At most one page changes its bytes in a step, in one of four ways.
LEMMA Effect ==
    ASSUME TypeOK, RefInv, EndInv, NEW p \in P, FileStep(p) \/ PipeStep(p)
    PROVE  \/ \A g \in Pages : Idle(g)
           \/ \E g \in Pages : /\ \A h \in Pages \ {g} : pipe'[h] = pipe[h]
                               /\ Frees(g) \/ Gets(g) \/ \E ch \in Byte : Puts(g, ch)
<1>u. ASSUME pipe' = pipe PROVE \A g \in Pages : Idle(g)
    BY <1>u, Zenon DEF Idle
<1>1. CASE FileStep(p)
    <2>1. ASSUME NEW g \in Pages, PipeAlloc(p, g)
          PROVE  Frees(g) /\ \A h \in Pages \ {g} : pipe'[h] = pipe[h]
        BY <2>1 DEF PipeAlloc, NewPipe, Frees, TypeOK
    <2>2. pipe' = pipe \/ \E g \in Pages : PipeAlloc(p, g)
        BY <1>1, Zenon DEF FileStep, GiveUp, Closed, Exit, Alloc0, Alloc1, FileAlloc, DropPipe, OpenPipe,
           CloseFd, DropFile, LastFile, LastEnd, PutFile, DupFile, FileDup, ForkTo, data
    <2> QED BY <1>u, <2>1, <2>2, Zenon
<1>2. CASE PipeClose(p)
    <2>1. PICK g \in Pages : g = call[p].pi
        BY <1>2, InsideHeld, Zenon DEF PipeClose
    <2>2. \/ pipe' = [pipe EXCEPT ![g] = FreePipe]
          \/ pipe' = [pipe EXCEPT ![g].writeopen = FALSE]
          \/ pipe' = [pipe EXCEPT ![g].readopen = FALSE]
        BY <1>2, <2>1, Zenon DEF PipeClose
    <2>3. CASE pipe' = [pipe EXCEPT ![g] = FreePipe]
        BY <2>3 DEF Frees, FreePipe, TypeOK
    <2>4. CASE pipe' = [pipe EXCEPT ![g].writeopen = FALSE]
        BY <2>4 DEF Idle, TypeOK, PipeType
    <2>5. CASE pipe' = [pipe EXCEPT ![g].readopen = FALSE]
        BY <2>5 DEF Idle, TypeOK, PipeType
    <2> QED BY <2>2, <2>3, <2>4, <2>5
<1>3. CASE WriteByte(p)
    <2>1. PICK g \in Pages : g = call[p].pi
        BY <1>3, InsideHeld, Zenon DEF WriteByte, WriteGoesOn, InWrite
    <2>2. PICK ch \in Byte :
             pipe' = [pipe EXCEPT ![g].data[pipe[g].nwrite % PIPESIZE] = ch,
                                  ![g].nwrite = (pipe[g].nwrite + 1) % W]
        BY <1>3, <2>1, Zenon DEF WriteByte
    <2>3. ~Full(g)
        BY <1>3, <2>1, Zenon DEF WriteByte
    <2>4. Puts(g, ch)
        BY <2>2, <2>3 DEF Puts, TypeOK, PipeType
    <2>5. \A h \in Pages \ {g} : pipe'[h] = pipe[h]
        BY <2>2, Zenon DEF TypeOK
    <2> QED BY <2>4, <2>5
<1>4. CASE ReadByte(p)
    <2>1. PICK g \in Pages : g = call[p].pi
        BY <1>4, InsideHeld, Zenon DEF ReadByte, InRead
    <2>2. pipe' = [pipe EXCEPT ![g].nread = (pipe[g].nread + 1) % W] /\ ~Empty(g)
        BY <1>4, <2>1, Zenon DEF ReadByte, TypeOK, PipeType
    <2>3. Gets(g)
        BY <2>2 DEF Gets, TypeOK, PipeType
    <2>4. \A h \in Pages \ {g} : pipe'[h] = pipe[h]
        BY <2>2, Zenon DEF TypeOK
    <2> QED BY <2>3, <2>4
<1>5. CASE \/ Write(p) \/ Read(p) \/ Kill(p) \/ WriteLock(p) \/ WriteFails(p) \/ WriteFull(p) \/ WriteDone(p)
           \/ WriteSleep(p) \/ ReadLock(p) \/ ReadSleep(p) \/ ReadDone(p)
    <2>1. pipe' = pipe
        BY <1>5, Zenon DEF Write, Read, Kill, WriteLock, WriteFails, WriteFull, WriteDone, WriteSleep, Sleep,
           ReadLock, ReadSleep, ReadDone, data
    <2> QED BY <1>u, <2>1
<1> QED BY <1>1, <1>2, <1>3, <1>4, <1>5, Zenon DEF PipeStep

\* There are never more than PIPESIZE bytes between the counters.
LEMMA CountStep ==
    ASSUME TypeOK, RefInv, EndInv, CountInv, NEW p \in P, FileStep(p) \/ PipeStep(p)
    PROVE  CountInv'
<1>1. ASSUME NEW g \in Pages, Idle(g) PROVE (pipe'[g].nwrite - pipe'[g].nread) % W <= PIPESIZE
    BY <1>1, Zenon DEF Idle, CountInv
<1>2. ASSUME NEW g \in Pages, Frees(g) PROVE (pipe'[g].nwrite - pipe'[g].nread) % W <= PIPESIZE
    BY <1>2, PipeAssumption DEF Frees
<1>t. \A g \in Pages : pipe[g].nread \in 0..(W - 1) /\ pipe[g].nwrite \in 0..(W - 1)
    BY DEF TypeOK, PipeType
<1>3. ASSUME NEW g \in Pages, Gets(g) PROVE (pipe'[g].nwrite - pipe'[g].nread) % W <= PIPESIZE
    <2>1. PICK a, b \in 0..(W - 1) : a = pipe[g].nwrite /\ b = pipe[g].nread
        BY <1>t
    <2>2. (a - b) % W <= PIPESIZE /\ a # b
        BY <1>3, <2>1, Zenon DEF CountInv, Gets, Empty
    <2>3. (a - b) % W \in Nat /\ (a - ((b + 1) % W)) % W = ((a - b) % W) - 1
        BY <2>2, Counters, Zenon
    <2>4. PICK n \in Nat : n = (a - b) % W
        BY <2>3, Zenon
    <2>5. n <= PIPESIZE /\ (a - ((b + 1) % W)) % W = n - 1
        BY <2>2, <2>3, <2>4, Zenon
    <2>6. pipe'[g].nwrite = a /\ pipe'[g].nread = (b + 1) % W
        BY <1>3, <2>1, Zenon DEF Gets
    <2>7. n - 1 <= PIPESIZE
        BY <2>5, PipeAssumption
    <2>8. (pipe'[g].nwrite - pipe'[g].nread) % W = n - 1
        BY <2>5, <2>6, Zenon
    <2> QED BY <2>7, <2>8, Zenon
<1>4. ASSUME NEW g \in Pages, NEW ch \in Byte, Puts(g, ch)
      PROVE  (pipe'[g].nwrite - pipe'[g].nread) % W <= PIPESIZE
    <2>1. PICK a, b \in 0..(W - 1) : a = pipe[g].nwrite /\ b = pipe[g].nread
        BY <1>t, Zenon
    <2>2. (a - b) % W <= PIPESIZE /\ a # (b + PIPESIZE) % W
        BY <1>4, <2>1, Zenon DEF CountInv, Puts, Full
    <2>3. (a - b) % W < PIPESIZE /\ (a - b) % W \in Nat /\ (((a + 1) % W) - b) % W = ((a - b) % W) + 1
        BY <2>2, Counters, Zenon
    <2>4. PICK n \in Nat : n = (a - b) % W
        BY <2>3, Zenon
    <2>5. n < PIPESIZE /\ (((a + 1) % W) - b) % W = n + 1
        BY <2>3, <2>4, Zenon
    <2>6. pipe'[g].nwrite = (a + 1) % W /\ pipe'[g].nread = b
        BY <1>4, <2>1, Zenon DEF Puts
    <2>7. n + 1 <= PIPESIZE
        BY <2>5, PipeAssumption
    <2> QED BY <2>5, <2>6, <2>7, Zenon
<1>5. ASSUME NEW g \in Pages, pipe'[g] = pipe[g] PROVE (pipe'[g].nwrite - pipe'[g].nread) % W <= PIPESIZE
    BY <1>5 DEF CountInv
<1> QED BY <1>1, <1>2, <1>3, <1>4, <1>5, Effect, Zenon DEF CountInv

-----------------------------------------------------------------------------
(* Arithmetic of the ring buffer.                                          *)

\* The counters wrap around at a multiple of PIPESIZE.
LEMMA WrapKeepsIndex ==
    ASSUME NEW x \in 0..(2 * W - 1)
    PROVE  (x % W) % PIPESIZE = x % PIPESIZE
<1>0. W \in Nat \ {0} /\ PIPESIZE \in Nat \ {0} /\ W % PIPESIZE = 0
    BY PipeAssumption
<1> QED BY <1>0, WrapKeepsPlace, Zenon

\* Fewer than PIPESIZE bytes apart, two bytes have different places in the buffer.
LEMMA BytesApart ==
    ASSUME NEW b \in 0..(W - 1), NEW j \in Nat, NEW n \in Nat, j < n, n < PIPESIZE
    PROVE  ((b + j) % W) % PIPESIZE # ((b + n) % W) % PIPESIZE
<1>0. W \in Nat \ {0} /\ PIPESIZE \in Nat \ {0} /\ PIPESIZE < W
    BY PipeAssumption
<1>1. PICK x, y \in 0..(2 * W - 1) : x = b + j /\ y = b + n
    BY <1>0
<1>2. (x % W) % PIPESIZE = x % PIPESIZE /\ (y % W) % PIPESIZE = y % PIPESIZE
    BY WrapKeepsIndex
<1>3. x \in Int /\ y \in Int /\ x < y /\ y - x < PIPESIZE
    BY <1>0, <1>1
<1>4. x % PIPESIZE # y % PIPESIZE
    BY <1>0, <1>3, PlacesDiffer, Zenon
<1> QED BY <1>1, <1>2, <1>4, Zenon

-----------------------------------------------------------------------------
(* The bytes between the counters.                                         *)

Bytes(d, b, n) == [k \in 1..n |-> d[((b + k - 1) % W) % PIPESIZE]]
Store == [0..(PIPESIZE - 1) -> Byte \cup {Junk}]

\* The bytes between the counters are a sequence.
LEMMA BytesAre ==
    ASSUME NEW d \in Store, NEW b \in 0..(W - 1), NEW n \in Nat
    PROVE  Bytes(d, b, n) \in Seq(Byte \cup {Junk}) /\ Len(Bytes(d, b, n)) = n
  BY PipeAssumption DEF Store, Bytes

\* Two sequences are equal when they have the same elements.
LEMMA SameBytes ==
    ASSUME NEW S, NEW s \in Seq(S), NEW t \in Seq(S), Len(s) = Len(t), \A k \in 1..Len(s) : s[k] = t[k]
    PROVE  s = t
  OBVIOUS

\* Place i of the buffer is set.
Stored(d, i, ch) == [d EXCEPT ![i] = ch]

\* A byte put behind the last one overwrites none of them.
LEMMA PutBytes ==
    ASSUME NEW d \in Store, NEW b \in 0..(W - 1), NEW n \in Nat, n < PIPESIZE, NEW ch \in Byte,
           NEW e, e = Stored(d, ((b + n) % W) % PIPESIZE, ch)
    PROVE  Bytes(e, b, n + 1) = Append(Bytes(d, b, n), ch)
<1>0. W \in Nat \ {0} /\ PIPESIZE \in Nat \ {0} /\ n + 1 \in Nat
    BY PipeAssumption
<1>1. e \in Store
    BY Zenon DEF Store, Stored
<1>2. /\ Bytes(e, b, n + 1) \in Seq(Byte \cup {Junk}) /\ Len(Bytes(e, b, n + 1)) = n + 1
      /\ Bytes(d, b, n) \in Seq(Byte \cup {Junk}) /\ Len(Bytes(d, b, n)) = n
    BY <1>0, <1>1, BytesAre, Zenon
<1>3. ASSUME NEW k \in 1..n PROVE Bytes(e, b, n + 1)[k] = Bytes(d, b, n)[k]
    <2>1. PICK j \in Nat : j = k - 1 /\ j < n
        OBVIOUS
    <2>2. ((b + j) % W) % PIPESIZE # ((b + n) % W) % PIPESIZE
        BY <2>1, BytesApart, Zenon
    <2>3. b + k - 1 = b + j /\ k \in 1..(n + 1)
        BY <2>1
    <2>4. e[((b + j) % W) % PIPESIZE] = d[((b + j) % W) % PIPESIZE]
        BY <2>2 DEF Store, Stored
    <2>5. /\ Bytes(e, b, n + 1)[k] = e[((b + k - 1) % W) % PIPESIZE]
          /\ Bytes(d, b, n)[k] = d[((b + k - 1) % W) % PIPESIZE]
        BY <2>3, Zenon DEF Bytes
    <2> QED BY <2>3, <2>4, <2>5, Zenon
<1>4. Bytes(e, b, n + 1)[n + 1] = ch
    BY <1>0 DEF Store, Stored, Bytes
<1> DEFINE s == Bytes(e, b, n + 1)
           u == Bytes(d, b, n)
<1>5. s \in Seq(Byte \cup {Junk}) /\ Len(s) = n + 1 /\ u \in Seq(Byte \cup {Junk}) /\ Len(u) = n
    BY <1>2, Zenon
<1>6. s[n + 1] = ch /\ \A k \in 1..n : s[k] = u[k]
    BY <1>3, <1>4, Zenon
<1> HIDE DEF s, u
<1>7. /\ Append(u, ch) \in Seq(Byte \cup {Junk}) /\ Len(Append(u, ch)) = n + 1
      /\ Append(u, ch)[n + 1] = ch /\ \A k \in 1..n : Append(u, ch)[k] = u[k]
    BY <1>0, <1>5
<1>8. \A k \in 1..(n + 1) : k = n + 1 \/ k \in 1..n
    OBVIOUS
<1>9. s = Append(u, ch)
    BY <1>5, <1>6, <1>7, <1>8, SameBytes
<1> QED BY <1>9, Zenon DEF s, u

\* The next byte is the first one.
LEMMA GetBytes ==
    ASSUME NEW d \in Store, NEW b \in 0..(W - 1), NEW n \in Nat, 0 < n, n <= PIPESIZE
    PROVE  /\ Bytes(d, b, n) # <<>>
           /\ Bytes(d, (b + 1) % W, n - 1) = Tail(Bytes(d, b, n))
<1>0. W \in Nat \ {0} /\ PIPESIZE \in Nat \ {0} /\ n - 1 \in Nat /\ PIPESIZE < W
    BY PipeAssumption
<1>1. PICK c \in 0..(W - 1) : c = (b + 1) % W
    BY <1>0
<1>2. /\ Bytes(d, c, n - 1) \in Seq(Byte \cup {Junk}) /\ Len(Bytes(d, c, n - 1)) = n - 1
      /\ Bytes(d, b, n) \in Seq(Byte \cup {Junk}) /\ Len(Bytes(d, b, n)) = n
    BY <1>0, BytesAre, Zenon
<1>3. ASSUME NEW k \in 1..(n - 1) PROVE Bytes(d, c, n - 1)[k] = Bytes(d, b, n)[k + 1]
    <2>1. c = IF b = W - 1 THEN 0 ELSE b + 1
        BY <1>0, <1>1
    <2>2. (c + k - 1) % W = (b + (k + 1) - 1) % W
        BY <1>0, <2>1
    <2>3. k + 1 \in 1..n
        BY <1>0
    <2>4. /\ Bytes(d, c, n - 1)[k] = d[((c + k - 1) % W) % PIPESIZE]
          /\ Bytes(d, b, n)[k + 1] = d[((b + (k + 1) - 1) % W) % PIPESIZE]
        BY <2>3, Zenon DEF Bytes
    <2> QED BY <2>2, <2>4, Zenon
<1> DEFINE s == Bytes(d, c, n - 1)
           u == Bytes(d, b, n)
<1>4. u # <<>>
    BY <1>2
<1>5. s \in Seq(Byte \cup {Junk}) /\ Len(s) = n - 1 /\ u \in Seq(Byte \cup {Junk}) /\ Len(u) = n
    BY <1>2, Zenon
<1>6. \A k \in 1..(n - 1) : s[k] = u[k + 1]
    BY <1>3, Zenon
<1> HIDE DEF s, u
<1>7. Tail(u) \in Seq(Byte \cup {Junk}) /\ Len(Tail(u)) = n - 1 /\ \A k \in 1..(n - 1) : Tail(u)[k] = u[k + 1]
    BY <1>0, <1>4, <1>5
<1>8. s = Tail(u)
    BY <1>5, <1>6, <1>7, SameBytes, Zenon
<1> QED BY <1>1, <1>4, <1>8, Zenon DEF s, u

\* The counters are as far apart as there are bytes.
LEMMA CounterAt ==
    ASSUME NEW a \in 0..(W - 1), NEW b \in 0..(W - 1)
    PROVE  (b + ((a - b) % W)) % W = a
  BY PipeAssumption

-----------------------------------------------------------------------------
(* Pipe implements Fifo.                                                   *)

\* Contents in terms of the buffer and the counters.
LEMMA ContentsAre ==
    ASSUME TypeOK, NEW g \in Pages
    PROVE  /\ pipe[g].data \in Store /\ pipe[g].nread \in 0..(W - 1) /\ pipe[g].nwrite \in 0..(W - 1)
           /\ (pipe[g].nwrite - pipe[g].nread) % W \in Nat
           /\ Contents(g) = Bytes(pipe[g].data, pipe[g].nread, (pipe[g].nwrite - pipe[g].nread) % W)
<1>1. pipe[g].data \in Store /\ pipe[g].nread \in 0..(W - 1) /\ pipe[g].nwrite \in 0..(W - 1)
    BY Zenon DEF TypeOK, PipeType, Store
<1>2. (pipe[g].nwrite - pipe[g].nread) % W \in Nat
    BY PipeAssumption, <1>1
<1>3. Contents(g) = Bytes(pipe[g].data, pipe[g].nread, (pipe[g].nwrite - pipe[g].nread) % W)
    BY Zenon DEF Contents, Bytes
<1> QED BY <1>1, <1>2, <1>3, Zenon

\* A pipe whose counters are equal has no bytes.
LEMMA NoBytes ==
    ASSUME NEW d \in Store, NEW b \in 0..(W - 1)
    PROVE  Bytes(d, b, (b - b) % W) = <<>>
  BY PipeAssumption, BytesAre

\* Storing a byte is the queue's Put.
LEMMA ContentsPut ==
    ASSUME TypeOK, TypeOK', CountInv, NEW g \in Pages, NEW ch \in Byte, Puts(g, ch)
    PROVE  Len(Contents(g)) < PIPESIZE /\ Contents(g)' = Append(Contents(g), ch)
<1>1. PICK a, b \in 0..(W - 1), d \in Store : a = pipe[g].nwrite /\ b = pipe[g].nread /\ d = pipe[g].data
    BY ContentsAre, Zenon
<1>2. (a - b) % W <= PIPESIZE /\ a # (b + PIPESIZE) % W
    BY <1>1, Zenon DEF CountInv, Puts, Full
<1>3. /\ (a - b) % W < PIPESIZE /\ (a - b) % W \in Nat
      /\ (((a + 1) % W) - b) % W = ((a - b) % W) + 1
    BY <1>2, Counters, Zenon
<1>4. PICK n \in Nat : n = (a - b) % W
    BY <1>3, Zenon
<1>5. n < PIPESIZE /\ (((a + 1) % W) - b) % W = n + 1 /\ (b + n) % W = a
    BY <1>3, <1>4, CounterAt, Zenon
<1>6. Contents(g) = Bytes(d, b, n) /\ Len(Contents(g)) = n
    BY <1>1, <1>4, ContentsAre, BytesAre
<1>7. PICK e : e = pipe'[g].data /\ e = Stored(d, ((b + n) % W) % PIPESIZE, ch)
    BY <1>1, <1>5, Zenon DEF Puts, Stored
<1>8. pipe'[g].nwrite = (a + 1) % W /\ pipe'[g].nread = b
    BY <1>1, Zenon DEF Puts
<1>9. Contents(g)' = Bytes(e, b, n + 1)
    BY <1>5, <1>8, <1>7, Zenon DEF Contents, Bytes
<1>10. Bytes(e, b, n + 1) = Append(Bytes(d, b, n), ch)
    BY <1>5, <1>7, PutBytes
<1> QED BY <1>5, <1>6, <1>9, <1>10, Zenon

\* Taking a byte is the queue's Get.
LEMMA ContentsGet ==
    ASSUME TypeOK, TypeOK', CountInv, NEW g \in Pages, Gets(g)
    PROVE  Contents(g) # <<>> /\ Contents(g)' = Tail(Contents(g))
<1>1. PICK a, b \in 0..(W - 1), d \in Store : a = pipe[g].nwrite /\ b = pipe[g].nread /\ d = pipe[g].data
    BY ContentsAre, Zenon
<1>2. (a - b) % W <= PIPESIZE /\ a # b
    BY <1>1, Zenon DEF CountInv, Gets, Empty
<1>3. (a - b) % W > 0 /\ (a - b) % W \in Nat /\ (a - ((b + 1) % W)) % W = ((a - b) % W) - 1
    BY <1>2, Counters, Zenon
<1>4. PICK n \in Nat : n = (a - b) % W
    BY <1>3, Zenon
<1>5. 0 < n /\ n <= PIPESIZE /\ (a - ((b + 1) % W)) % W = n - 1
    BY <1>2, <1>3, <1>4, Zenon
<1>6. Contents(g) = Bytes(d, b, n)
    BY <1>1, <1>4, ContentsAre, Zenon
<1>7. pipe'[g].nwrite = a /\ pipe'[g].nread = (b + 1) % W /\ pipe'[g].data = d
    BY <1>1, Zenon DEF Gets
<1>8. Contents(g)' = Bytes(d, (b + 1) % W, n - 1)
    BY <1>5, <1>7, Zenon DEF Contents, Bytes
<1>9. Bytes(d, b, n) # <<>> /\ Bytes(d, (b + 1) % W, n - 1) = Tail(Bytes(d, b, n))
    BY <1>5, GetBytes
<1> QED BY <1>6, <1>8, <1>9, Zenon

=============================================================================
