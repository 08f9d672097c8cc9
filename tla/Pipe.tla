-------------------------------- MODULE Pipe --------------------------------
(***************************************************************************)
(* Pipes (kernel/pipe.c) behind the file table (kernel/file.c) and the     *)
(* descriptors of processes (kernel/sysfile.c, and fork() and exit() in    *)
(* kernel/proc.c).                                                         *)
(*                                                                         *)
(* Processes create pipes, duplicate, close, inherit, read and write them, *)
(* exit, and are killed at any time.  One step is one critical section of  *)
(* ftable.lock, or of pi->lock; the copy loops of pipewrite() and          *)
(* piperead(), which hold pi->lock, take one step per byte because kill()  *)
(* does not need that lock.                                                *)
(***************************************************************************)
EXTENDS Integers, Sequences, FiniteSets

CONSTANTS
    P,                  \* process slots
    NFILE, NOFILE,      \* entries of the file table, descriptors of a process
    Pages,              \* memory for pipes
    PIPESIZE,
    W,                  \* nread and nwrite are counted modulo W (2^32)
    Byte,
    Junk,               \* what kalloc() leaves in a page
    ReadLens, WriteLens,    \* lengths of the reads and writes
    NoFile, NoPage, Nobody

\* param.h gives a process 16 descriptors: sys_pipe() needs two.
ASSUME PipeAssumption ==
    /\ PIPESIZE \in Nat \ {0} /\ W \in Nat /\ W % PIPESIZE = 0 /\ W > PIPESIZE
    /\ IsFiniteSet(P) /\ NFILE \in Nat /\ NOFILE \in Nat /\ NOFILE >= 2
    /\ ReadLens \subseteq Nat /\ WriteLens \subseteq Nat
    /\ NoFile \notin 1..NFILE /\ NoPage \notin Pages /\ Nobody \notin P

Files == 1..NFILE
FDs == 0..(NOFILE - 1)

VARIABLES
    ftable,             \* ref, pipe (NoPage: the type is not FD_PIPE), writable
    pipe,               \* page -> pipe; alloc: the page has been kalloc()ed
    lock,               \* page -> who holds pi->lock
    pc, killed, ofile,  \* process -> position, p->killed, p->ofile
    exiting,            \* process -> it is in exit()
    hand,               \* process -> files it will close, unless they become descriptors
    call,               \* process -> arguments and locals of its system call
    unwoken             \* page -> a killed writer left bytes without waking the readers

data == <<pipe, lock, unwoken>>
vars == <<ftable, data, pc, killed, ofile, exiting, hand, call>>

FreeFile == [ref |-> 0, pipe |-> NoPage, writable |-> FALSE]

Blank == [i \in 0..(PIPESIZE - 1) |-> Junk]
FreePipe == [alloc |-> FALSE, data |-> Blank, nread |-> 0, nwrite |-> 0,
             readopen |-> FALSE, writeopen |-> FALSE]
NewPipe == [alloc |-> TRUE, data |-> Blank, nread |-> 0, nwrite |-> 0,
            readopen |-> TRUE, writeopen |-> TRUE]

Locals(pi, w, n) == [pi |-> pi, writable |-> w, n |-> n, i |-> 0]
NoCall == Locals(NoPage, FALSE, 0)
NoFiles == [fd \in FDs |-> NoFile]

Init ==
    /\ ftable = [f \in Files |-> FreeFile]
    /\ pipe = [g \in Pages |-> FreePipe]
    /\ lock = [g \in Pages |-> Nobody]
    /\ \E p \in P : pc = [q \in P |-> IF q = p THEN "user" ELSE "unused"]
    /\ killed = [p \in P |-> FALSE]
    /\ ofile = [p \in P |-> NoFiles]
    /\ exiting = [p \in P |-> FALSE]
    /\ hand = [p \in P |-> NoFiles]
    /\ call = [p \in P |-> NoCall]
    /\ unwoken = [g \in Pages |-> FALSE]

-----------------------------------------------------------------------------
(* The file table.                                                         *)

Goto(p, l) == pc' = [pc EXCEPT ![p] = l]
SetCall(p, c) == call' = [call EXCEPT ![p] = c]

\* The process returns to user space; usertrap() sends a killed one to exit().
Return(p) == Goto(p, "user") /\ SetCall(p, NoCall)

\* System calls start in user space; Open is what argfd() can return.
Call(p) == pc[p] = "user" /\ ~killed[p]
Open(p) == {ofile[p][fd] : fd \in FDs} \ {NoFile}
FreeFds(p) == {fd \in FDs : ofile[p][fd] = NoFile}
InHand(p) == {fd \in FDs : hand[p][fd] # NoFile}
Lowest(S) == CHOOSE x \in S : \A y \in S : x <= y

Unused == {f \in Files : ftable[f].ref = 0}

\* filealloc() returns f, for place k of the hand.
FileAlloc(p, k, f) ==
    /\ ftable' = [ftable EXCEPT ![f].ref = 1]
    /\ hand' = [hand EXCEPT ![p][k] = f]
    /\ UNCHANGED <<data, killed, ofile, exiting, call>>

\* pipealloc(): filealloc() of the read end, ...
PipeFile0(p) ==
    /\ Call(p)
    /\ Unused # {}
    /\ FileAlloc(p, 0, Lowest(Unused))
    /\ Goto(p, "pipe_file1")

\* ... of the write end, ...
PipeFile1(p) ==
    /\ pc[p] = "pipe_file1"
    /\ \/ Unused # {} /\ FileAlloc(p, 1, Lowest(Unused)) /\ Goto(p, "pipe_page")
       \/ /\ Unused = {}
          /\ Goto(p, "fileclose")
          /\ UNCHANGED <<ftable, data, killed, ofile, exiting, hand, call>>

\* ... kalloc() of page g, to which the two files refer from now on, ...
PipeAlloc(p, g) ==
    LET rf == hand[p][0]
        wf == hand[p][1] IN
    /\ ~pipe[g].alloc
    /\ pipe' = [pipe EXCEPT ![g] = NewPipe]
    /\ ftable' = [ftable EXCEPT
          ![rf] = [ref |-> ftable[rf].ref, pipe |-> g, writable |-> FALSE],
          ![wf] = [ref |-> ftable[wf].ref, pipe |-> g, writable |-> TRUE]]

\* ... and the descriptors of sys_pipe(), ...
PipeFds(p, fd0, fd1) ==
    /\ ofile' = [ofile EXCEPT ![p][fd0] = hand[p][0], ![p][fd1] = hand[p][1]]
    /\ hand' = [hand EXCEPT ![p] = NoFiles]
    /\ Return(p)

\* ... unless there is no page, or no descriptor, or copyout() fails.
PipePage(p) ==
    LET fd0 == Lowest(FreeFds(p))
        rest == FreeFds(p) \ {fd0} IN
    /\ pc[p] = "pipe_page"
    /\ \/ /\ \A g \in Pages : pipe[g].alloc
          /\ Goto(p, "fileclose")
          /\ UNCHANGED <<ftable, pipe, ofile, hand, call>>
       \/ /\ \E g \in Pages : PipeAlloc(p, g)
          /\ \/ FreeFds(p) # {} /\ rest # {} /\ PipeFds(p, fd0, Lowest(rest))
             \/ Goto(p, "fileclose") /\ UNCHANGED <<ofile, hand, call>>
    /\ UNCHANGED <<lock, unwoken, killed, exiting>>

\* filedup() of f, for descriptor fd.
FileDup(p, f, fd) ==
    /\ ftable' = [ftable EXCEPT ![f].ref = @ + 1]
    /\ ofile' = [ofile EXCEPT ![p][fd] = f]
    /\ UNCHANGED <<data, pc, killed, exiting, hand, call>>

\* fdalloc() and filedup(): nobody else changes the caller's descriptors.
Dup(p) ==
    /\ Call(p)
    /\ FreeFds(p) # {}
    /\ \E f \in Open(p) : FileDup(p, f, Lowest(FreeFds(p)))

Close(p) ==
    /\ Call(p)
    /\ \E fd \in FDs :
        /\ ofile[p][fd] # NoFile
        /\ hand' = [hand EXCEPT ![p][fd] = ofile[p][fd]]
        /\ ofile' = [ofile EXCEPT ![p][fd] = NoFile]
    /\ Goto(p, "fileclose")
    /\ UNCHANGED <<ftable, data, killed, exiting, call>>

\* fileclose() of the file in place k of the hand: there are more references, ...
FileDrop(p, k) ==
    LET f == hand[p][k] IN
    /\ ftable[f].ref > 1
    /\ ftable' = [ftable EXCEPT ![f].ref = @ - 1]
    /\ UNCHANGED <<pc, call>>

\* ... or this is the last one, and pipeclose() follows if the file is a pipe.
FileLast(p, k) ==
    LET f == hand[p][k] IN
    /\ ftable[f].ref = 1
    /\ ftable' = [ftable EXCEPT ![f] = FreeFile]
    /\ \/ ftable[f].pipe = NoPage /\ UNCHANGED <<pc, call>>
       \/ /\ ftable[f].pipe # NoPage
          /\ Goto(p, "pipeclose")
          /\ SetCall(p, Locals(ftable[f].pipe, ftable[f].writable, 0))

\* The files in hand are closed in order.
FileClose(p) ==
    LET k == Lowest(InHand(p)) IN
    /\ pc[p] = "fileclose"
    /\ InHand(p) # {}
    /\ hand' = [hand EXCEPT ![p][k] = NoFile]
    /\ FileDrop(p, k) \/ FileLast(p, k)
    /\ UNCHANGED <<data, killed, ofile, exiting>>

\* Nothing is left to close: the system call, or the process, ends.
Closed(p) ==
    /\ pc[p] = "fileclose"
    /\ InHand(p) = {}
    /\ \/ ~exiting[p] /\ Return(p) /\ UNCHANGED <<killed, exiting>>
       \/ /\ exiting[p]
          /\ Goto(p, "unused")
          /\ killed' = [killed EXCEPT ![p] = FALSE]
          /\ exiting' = [exiting EXCEPT ![p] = FALSE]
          /\ UNCHANGED call
    /\ UNCHANGED <<ftable, data, ofile, hand>>

\* fork(): the child gets the descriptors.  The parent's references keep the files
\* open, so that the filedup()s are one step.
Fork(p) ==
    /\ Call(p)
    /\ \E q \in P :
        /\ pc[q] = "unused"
        /\ Goto(q, "user")
        /\ ofile' = [ofile EXCEPT ![q] = ofile[p]]
    /\ ftable' = [f \in Files |->
          [ftable[f] EXCEPT !.ref = @ + Cardinality({fd \in FDs : ofile[p][fd] = f})]]
    /\ UNCHANGED <<data, killed, exiting, hand, call>>

\* exit(), called by the process or, when it is killed, by usertrap().  It closes
\* the descriptors in order.
Exit(p) ==
    /\ pc[p] = "user"
    /\ Goto(p, "fileclose")
    /\ exiting' = [exiting EXCEPT ![p] = TRUE]
    /\ hand' = [hand EXCEPT ![p] = ofile[p]]
    /\ ofile' = [ofile EXCEPT ![p] = NoFiles]
    /\ UNCHANGED <<ftable, data, killed, call>>

-----------------------------------------------------------------------------
(* The pipe.                                                               *)

files == <<ftable, ofile, exiting, hand>>

\* wakeup(): the sleepers at position "asleep" contend for pi->lock again.
Wakeup(l, pi, asleep, awake) ==
    [q \in P |-> IF l[q] = asleep /\ call[q].pi = pi THEN awake ELSE l[q]]
WakeReaders(l, pi) == Wakeup(l, pi, "read_asleep", "read")
WakeWriters(l, pi) == Wakeup(l, pi, "write_asleep", "write")

Empty(pi) == pipe[pi].nread = pipe[pi].nwrite
Full(pi) == pipe[pi].nwrite = (pipe[pi].nread + PIPESIZE) % W

Acquire(p, pi) == lock[pi] = Nobody /\ lock' = [lock EXCEPT ![pi] = p]
Release(pi) == lock' = [lock EXCEPT ![pi] = Nobody]

\* Mutant: the page is freed with the first end.
MutPipeCloseFirst(p) ==
    LET pi == call[p].pi
        w == call[p].writable
        here == [pc EXCEPT ![p] = "fileclose"] IN
    /\ pc[p] = "pipeclose"
    /\ lock[pi] = Nobody
    /\ pipe' = [pipe EXCEPT ![pi] = FreePipe]
    /\ unwoken' = [unwoken EXCEPT ![pi] = FALSE]
    /\ pc' = IF w THEN WakeReaders(here, pi) ELSE WakeWriters(here, pi)
    /\ SetCall(p, NoCall)
    /\ UNCHANGED <<files, lock, killed>>

PipeClose(p) ==
    LET pi == call[p].pi
        w == call[p].writable
        here == [pc EXCEPT ![p] = "fileclose"]
        other == IF w THEN pipe[pi].readopen ELSE pipe[pi].writeopen IN
    /\ pc[p] = "pipeclose"
    /\ lock[pi] = Nobody
    /\ pipe' = IF ~other THEN [pipe EXCEPT ![pi] = FreePipe]
               ELSE IF w THEN [pipe EXCEPT ![pi].writeopen = FALSE]
                         ELSE [pipe EXCEPT ![pi].readopen = FALSE]
    /\ unwoken' = [unwoken EXCEPT ![pi] = @ /\ other /\ ~w]
    /\ pc' = IF w THEN WakeReaders(here, pi) ELSE WakeWriters(here, pi)
    /\ SetCall(p, NoCall)
    /\ UNCHANGED <<files, lock, killed>>

\* filewrite() and fileread(): the file must have been opened for it.
Write(p) ==
    /\ Call(p)
    /\ \E f \in Open(p), n \in WriteLens :
        /\ ftable[f].writable
        /\ SetCall(p, Locals(ftable[f].pipe, FALSE, n))
    /\ Goto(p, "write")
    /\ UNCHANGED <<files, data, killed>>

Read(p) ==
    /\ Call(p)
    /\ \E f \in Open(p), n \in ReadLens :
        /\ ~ftable[f].writable
        /\ SetCall(p, Locals(ftable[f].pipe, FALSE, n))
    /\ Goto(p, "read")
    /\ UNCHANGED <<files, data, killed>>

\* pipewrite(): acquire(), at the start and when sleep() returns.
WriteLock(p) ==
    /\ pc[p] = "write"
    /\ Acquire(p, call[p].pi)
    /\ Goto(p, "writing")
    /\ UNCHANGED <<files, pipe, unwoken, killed, call>>

\* The reader's end is closed, or the writer is killed.
WriteFails(p) ==
    LET pi == call[p].pi IN
    /\ pc[p] = "writing"
    /\ call[p].i < call[p].n
    /\ ~pipe[pi].readopen \/ killed[p]
    /\ Release(pi)
    /\ unwoken' = [unwoken EXCEPT ![pi] = @ \/ call[p].i > 0]
    /\ Return(p)
    /\ UNCHANGED <<files, pipe, killed>>

WriteGoesOn(p) ==
    /\ pc[p] = "writing"
    /\ call[p].i < call[p].n
    /\ pipe[call[p].pi].readopen /\ ~killed[p]

WriteFull(p) ==
    LET pi == call[p].pi IN
    /\ WriteGoesOn(p)
    /\ Full(pi)
    /\ unwoken' = [unwoken EXCEPT ![pi] = FALSE]
    /\ pc' = WakeReaders([pc EXCEPT ![p] = "write_sleep"], pi)
    /\ UNCHANGED <<files, pipe, lock, killed, call>>

\* Mutant: ++nwrite for nwrite++.
MutWriteByteAhead(p) ==
    LET pi == call[p].pi
        next == (pipe[pi].nwrite + 1) % W IN
    /\ WriteGoesOn(p)
    /\ ~Full(pi)
    /\ \E ch \in Byte :
        pipe' = [pipe EXCEPT ![pi].data[next % PIPESIZE] = ch, ![pi].nwrite = next]
    /\ call' = [call EXCEPT ![p].i = @ + 1]
    /\ UNCHANGED <<files, lock, unwoken, pc, killed>>

WriteByte(p) ==
    LET pi == call[p].pi
        next == (pipe[pi].nwrite + 1) % W IN
    /\ WriteGoesOn(p)
    /\ ~Full(pi)
    /\ \E ch \in Byte :
        pipe' = [pipe EXCEPT ![pi].data[pipe[pi].nwrite % PIPESIZE] = ch, ![pi].nwrite = next]
    /\ call' = [call EXCEPT ![p].i = @ + 1]
    /\ UNCHANGED <<files, lock, unwoken, pc, killed>>

\* Everything is written, or copyin() fails.
WriteDone(p) ==
    LET pi == call[p].pi IN
    /\ \/ pc[p] = "writing" /\ call[p].i = call[p].n
       \/ WriteGoesOn(p) /\ ~Full(pi)
    /\ Release(pi)
    /\ unwoken' = [unwoken EXCEPT ![pi] = FALSE]
    /\ pc' = WakeReaders([pc EXCEPT ![p] = "user"], pi)
    /\ SetCall(p, NoCall)
    /\ UNCHANGED <<files, pipe, killed>>

\* sleep() sets the state and releases pi->lock under p->lock, which wakeup() and
\* kill() take.
Sleep(p, l, asleep) ==
    /\ pc[p] = l
    /\ Release(call[p].pi)
    /\ Goto(p, asleep)
    /\ UNCHANGED <<files, pipe, unwoken, killed, call>>
WriteSleep(p) == Sleep(p, "write_sleep", "write_asleep")

\* piperead(): acquire(), at the start and when sleep() returns, and the loop test.
ReadLock(p) ==
    LET pi == call[p].pi
        wait == Empty(pi) /\ pipe[pi].writeopen IN
    /\ pc[p] = "read"
    /\ lock[pi] = Nobody
    /\ \/ wait /\ killed[p] /\ Return(p) /\ UNCHANGED lock
       \/ /\ ~(wait /\ killed[p])
          /\ Acquire(p, pi)
          /\ Goto(p, IF wait THEN "read_sleep" ELSE "reading")
          /\ UNCHANGED call
    /\ UNCHANGED <<files, pipe, unwoken, killed>>

ReadSleep(p) == Sleep(p, "read_sleep", "read_asleep")

\* A byte is taken before copyout() delivers it; when that fails the loop ends.
ReadByte(p) ==
    LET pi == call[p].pi IN
    /\ pc[p] = "reading"
    /\ call[p].i < call[p].n
    /\ ~Empty(pi)
    /\ pipe' = [pipe EXCEPT ![pi].nread = (@ + 1) % W]
    /\ \/ call' = [call EXCEPT ![p].i = @ + 1] /\ UNCHANGED pc
       \/ Goto(p, "read_done") /\ UNCHANGED call
    /\ UNCHANGED <<files, lock, unwoken, killed>>

\* Mutant: without the wakeup().
MutReadDoneNoWakeup(p) ==
    LET pi == call[p].pi IN
    /\ \/ pc[p] = "reading" /\ (call[p].i = call[p].n \/ Empty(pi))
       \/ pc[p] = "read_done"
    /\ Release(pi)
    /\ Return(p)
    /\ UNCHANGED <<files, pipe, unwoken, killed>>

ReadDone(p) ==
    LET pi == call[p].pi IN
    /\ \/ pc[p] = "reading" /\ (call[p].i = call[p].n \/ Empty(pi))
       \/ pc[p] = "read_done"
    /\ Release(pi)
    /\ pc' = WakeWriters([pc EXCEPT ![p] = "user"], pi)
    /\ SetCall(p, NoCall)
    /\ UNCHANGED <<files, pipe, unwoken, killed>>

\* kill() marks the process, and wakes it if it is asleep.
Kill(p) ==
    /\ pc[p] # "unused"
    /\ ~killed[p]
    /\ killed' = [killed EXCEPT ![p] = TRUE]
    /\ Goto(p, CASE pc[p] = "read_asleep" -> "read"
                 [] pc[p] = "write_asleep" -> "write"
                 [] OTHER -> pc[p])
    /\ UNCHANGED <<files, data, call>>

-----------------------------------------------------------------------------
KernelStep(p) ==
    \/ PipeFile1(p) \/ PipePage(p) \/ FileClose(p) \/ Closed(p) \/ PipeClose(p)
    \/ WriteLock(p) \/ WriteFails(p) \/ WriteFull(p) \/ WriteByte(p) \/ WriteDone(p)
    \/ WriteSleep(p) \/ ReadLock(p) \/ ReadSleep(p) \/ ReadByte(p) \/ ReadDone(p)

Next ==
    \E p \in P :
        \/ PipeFile0(p) \/ Dup(p) \/ Close(p) \/ Fork(p) \/ Exit(p)
        \/ Write(p) \/ Read(p) \/ Kill(p)
        \/ KernelStep(p)

Spec == Init /\ [][Next]_vars

-----------------------------------------------------------------------------
(* Properties.                                                             *)

InRead == {"read", "read_sleep", "read_asleep", "reading", "read_done"}
InWrite == {"write", "writing", "write_sleep", "write_asleep"}
Position == {"unused", "user", "pipe_file1", "pipe_page", "fileclose", "pipeclose"}
            \cup InRead \cup InWrite

FileType == [ref : Nat, pipe : Pages \cup {NoPage}, writable : BOOLEAN]
PipeType == [alloc : BOOLEAN, data : [0..(PIPESIZE - 1) -> Byte \cup {Junk}],
             nread : 0..(W - 1), nwrite : 0..(W - 1),
             readopen : BOOLEAN, writeopen : BOOLEAN]
CallType == [pi : Pages \cup {NoPage}, writable : BOOLEAN, n : Nat, i : Nat]
FileRefs == [FDs -> Files \cup {NoFile}]

TypeOK ==
    /\ ftable \in [Files -> FileType]
    /\ pipe \in [Pages -> PipeType]
    /\ lock \in [Pages -> P \cup {Nobody}]
    /\ unwoken \in [Pages -> BOOLEAN]
    /\ pc \in [P -> Position]
    /\ killed \in [P -> BOOLEAN] /\ exiting \in [P -> BOOLEAN]
    /\ ofile \in [P -> FileRefs] /\ hand \in [P -> FileRefs]
    /\ call \in [P -> CallType]
    /\ \A p \in P : call[p].i <= call[p].n

\* The places that refer to file f, in the descriptors (ofile) or in the hands.
Held(o, f) == {r \in P \X FDs : o[r[1]][r[2]] = f}

\* ref counts the descriptors of all processes and the references a system call or
\* exit() still has to give back, whatever filealloc(), filedup(), fileclose() and
\* fork() interleave: no file is closed early and none leaks.
RefsCounted ==
    \A f \in Files : ftable[f].ref = Cardinality(Held(ofile, f)) + Cardinality(Held(hand, f))

\* readopen and writeopen say which ends are open: an end is open until the process
\* that dropped its last reference has been through pipeclose(), and the page is
\* freed with the second end, neither earlier nor never.
FileHolds(f, g, w) == ftable[f].pipe = g /\ ftable[f].writable = w
ProcHolds(p, g, w) == pc[p] = "pipeclose" /\ call[p].pi = g /\ call[p].writable = w
EndHeld(g, w) == (\E f \in Files : FileHolds(f, g, w)) \/ (\E p \in P : ProcHolds(p, g, w))
EndsAgree ==
    \A g \in Pages : /\ pipe[g].readopen <=> EndHeld(g, FALSE)
                     /\ pipe[g].writeopen <=> EndHeld(g, TRUE)
                     /\ pipe[g].alloc <=> pipe[g].readopen \/ pipe[g].writeopen

\* A process inside pipewrite(), piperead() or pipeclose(), asleep or not, uses a
\* pipe that is still allocated, through an end that is still open.
PipeHeld ==
    \A p \in P :
        /\ pc[p] \in InRead => pipe[call[p].pi].readopen
        /\ pc[p] \in InWrite => pipe[call[p].pi].writeopen
        /\ pc[p] = "pipeclose" => pipe[call[p].pi].alloc

\* No lost wakeup for a reader: it is not asleep while there are bytes, or no
\* writer, unless the pipe is locked by a process that will wake it up.  The one
\* exception the code has: a writer killed after it wrote some bytes returns -1
\* without the wakeup() at the end of pipewrite().
ReaderWoken ==
    \A p \in P : LET pi == call[p].pi IN
        pc[p] = "read_asleep" /\ (~Empty(pi) \/ ~pipe[pi].writeopen) =>
            \/ \E q \in P : lock[pi] = q /\ pc[q] = "writing"
            \/ unwoken[pi]

\* No lost wakeup for a writer: it is not asleep while there is room, or no reader,
\* unless the pipe is locked by a reader that will wake it up.
WriterWoken ==
    \A p \in P : LET pi == call[p].pi IN
        pc[p] = "write_asleep" /\ (~Full(pi) \/ ~pipe[pi].readopen) =>
            \E q \in P : lock[pi] = q /\ pc[q] \in {"reading", "read_done"}

\* The bytes of a pipe, in the order they will be read.
Contents(pi) ==
    [k \in 1..((pipe[pi].nwrite - pipe[pi].nread) % W) |->
        pipe[pi].data[((pipe[pi].nread + k - 1) % W) % PIPESIZE]]

queues == [pi \in Pages |-> Contents(pi)]

Queue == INSTANCE Fifo WITH Pipes <- Pages, Size <- PIPESIZE, q <- queues

\* Through the ring buffer and the counters that wrap around, with any number of
\* readers and writers, a pipe is a first-in first-out queue of at most PIPESIZE
\* bytes that loses, repeats and reorders none.
IsFifo == Queue!Spec

\* Files and pipes live exactly as long as they are used: ref counts the descriptors
\* and references in hand, an end is open while a file refers to it, the page is freed
\* with the second end, and nobody is inside a pipe whose end is closed.
EndsCounted == TypeOK /\ RefsCounted /\ EndsAgree /\ PipeHeld

\* Neither a reader nor a writer sleeps through the wakeup() that is meant for it, by
\* pipewrite(), piperead(), pipeclose() or kill().
NoLostWakeup == ReaderWoken /\ WriterWoken

=============================================================================
