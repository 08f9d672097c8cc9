-------------------------------- MODULE Shell --------------------------------
(***************************************************************************)
(* The shell, user/sh.c: main() reads a line, and processes run the parsed *)
(* command with runcmd(), forking, opening, closing and duplicating file   *)
(* descriptors, and waiting.  The programs are filters: they read standard *)
(* input to its end and may write to standard output.  fork(), pipe(),     *)
(* open() and exec() may fail.  A step is a system call with the code up   *)
(* to the next one that another process can notice.                        *)
(***************************************************************************)
EXTENDS Parse

CONSTANTS
    Pids,               \* processes besides the shell
    Sh, Init1,          \* the shell; init, the parent of orphans
    NOFILE,
    Pipes,              \* numbers of pipes
    Lines,              \* input, sequences of characters
    MaxLines            \* bound: lines that the shell reads

VARIABLES
    proc,               \* process -> position, command, parent, descriptors; history:
                        \*   the files its program must have, and in the background
    bytes,              \* pipe -> bytes in it: 0 or 1
    lines,              \* lines read
    failed              \* a call has failed (bound: one in a behaviour)

vars == <<proc, bytes, lines, failed>>

File(kind, n) == [kind |-> kind, n |-> n]
Closed == File("closed", 0)
Console == File("console", 0)
ReadEnd(k) == File("read", k)
WriteEnd(k) == File("write", k)

Fds == 0..(NOFILE - 1)
Console3 == [fd \in Fds |-> IF fd < 3 THEN Console ELSE Closed]
None == [type |-> "NONE"]
Dead == [pc |-> "free", cmd |-> None, parent |-> Init1, fds |-> [fd \in Fds |-> Closed],
         want |-> [in |-> Console, out |-> Console], back |-> FALSE]

Init ==
    /\ proc = [p \in Pids \cup {Sh} |-> IF p = Sh THEN [Dead EXCEPT !.pc = "prompt", !.fds = Console3]
                                       ELSE Dead]
    /\ bytes = [k \in Pipes |-> 0]
    /\ lines = 0
    /\ failed = FALSE

Alive(p) == proc[p].pc \notin {"free", "zombie"}
IsOpen(file) == \E p \in DOMAIN proc : \E fd \in Fds : proc[p].fds[fd] = file

\* The lowest closed descriptor.
fdalloc(fds) == CHOOSE fd \in Fds : fds[fd] = Closed /\ \A g \in 0..(fd - 1) : fds[g] # Closed
open(fds, file) == [fds EXCEPT ![fdalloc(fds)] = file]
close(fds, fd) == [fds EXCEPT ![fd] = Closed]

-----------------------------------------------------------------------------
(* exit(), wait() and fork1().                                             *)

\* Children of a process that exits go to init, which waits for them at once.
exit(p, pr) ==
    [q \in DOMAIN pr |->
        IF q = p THEN IF pr[p].parent = Init1 THEN Dead
                      ELSE [Dead EXCEPT !.pc = "zombie", !.parent = pr[p].parent]
        ELSE IF pr[q].parent # p THEN pr[q]
        ELSE IF pr[q].pc = "zombie" THEN Dead
        ELSE [pr[q] EXCEPT !.parent = Init1]]

\* Process p exits because a call has failed.
Fails(p) ==
    /\ ~failed /\ failed' = TRUE
    /\ proc' = exit(p, proc)
    /\ UNCHANGED <<bytes, lines>>

\* The number that a new process gets.
Unused == {q \in Pids : proc[q].pc = "free" /\ \A r \in Pids : r < q => proc[r].pc # "free"}

\* fork1(): child is what the new process is, next what the parent becomes.
fork1(p, child, next) ==
    \/ Fails(p)
    \/ \E q \in Unused :
        /\ proc' = [proc EXCEPT ![q] = [child EXCEPT !.parent = p], ![p] = next]
        /\ UNCHANGED <<bytes, lines, failed>>

\* wait(0): a child that has exited; at once if there is no child.
wait(p, next) ==
    LET children == {q \in Pids : proc[q].pc # "free" /\ proc[q].parent = p} IN
    /\ \/ \E q \in children : proc[q].pc = "zombie" /\ proc' = [proc EXCEPT ![q] = Dead, ![p] = next]
       \/ children = {} /\ proc' = [proc EXCEPT ![p] = next]
    /\ UNCHANGED <<bytes, lines, failed>>

-----------------------------------------------------------------------------
(* runcmd().                                                               *)

At(p, l, type) == proc[p].pc = l /\ proc[p].cmd.type = type

runExec(p) ==
    /\ At(p, "run", "EXEC")
    /\ \/ proc[p].cmd.argc = 0 /\ proc' = exit(p, proc)
       \/ proc[p].cmd.argc > 0 /\ proc' = [proc EXCEPT ![p].pc = "program", ![p].cmd = None]
    /\ UNCHANGED <<bytes, lines, failed>>
\* exec() fails.
execFails(p) == At(p, "run", "EXEC") /\ proc[p].cmd.argc > 0 /\ Fails(p)

\* close(rcmd->fd), then open() gets the same descriptor.
runRedir(p) ==
    LET mode == proc[p].cmd.mode
        fd == IF mode = "<" THEN 0 ELSE 1
        file == File("file", fd) IN
    /\ At(p, "run", "REDIR")
    /\ \/ Fails(p)
       \/ /\ proc' = [proc EXCEPT ![p].fds = open(close(@, fd), file),
                                  ![p].cmd = @.cmd,
                                  ![p].want = IF fd = 0 THEN [@ EXCEPT !.in = file]
                                              ELSE [@ EXCEPT !.out = file]]
          /\ UNCHANGED <<bytes, lines, failed>>

runList(p) ==
    /\ At(p, "run", "LIST")
    /\ fork1(p, [proc[p] EXCEPT !.cmd = @.left], [proc[p] EXCEPT !.pc = "listwait"])
listWait(p) ==
    /\ At(p, "listwait", "LIST")
    /\ wait(p, [proc[p] EXCEPT !.pc = "run", !.cmd = @.right])

runBack(p) ==
    /\ At(p, "run", "BACK")
    /\ fork1(p, [proc[p] EXCEPT !.cmd = @.cmd, !.back = TRUE], [proc[p] EXCEPT !.pc = "exit"])

\* pipe(): two descriptors.
runPipe(p) ==
    /\ At(p, "run", "PIPE")
    /\ \/ Fails(p)
       \/ \E k \in Pipes :
            /\ ~IsOpen(ReadEnd(k)) /\ ~IsOpen(WriteEnd(k))
            /\ \A j \in Pipes : j < k => IsOpen(ReadEnd(j)) \/ IsOpen(WriteEnd(j))
            /\ proc' = [proc EXCEPT ![p].fds = open(open(@, ReadEnd(k)), WriteEnd(k)),
                                    ![p].pc = "left"]
            /\ bytes' = [bytes EXCEPT ![k] = 0]
            /\ UNCHANGED <<lines, failed>>

\* p[0] and p[1], where pipe() put them.
p0(p) == CHOOSE fd \in 3..(NOFILE - 1) : proc[p].fds[fd].kind = "read"
p1(p) == CHOOSE fd \in 3..(NOFILE - 1) : proc[p].fds[fd].kind = "write"

pipeLeft(p) ==
    /\ At(p, "left", "PIPE")
    /\ fork1(p, [proc[p] EXCEPT !.pc = "leftfds"], [proc[p] EXCEPT !.pc = "right"])
pipeRight(p) ==
    /\ At(p, "right", "PIPE")
    /\ fork1(p, [proc[p] EXCEPT !.pc = "rightfds"], [proc[p] EXCEPT !.pc = "close"])

\* Mutant: the reading end stays open on the left.
MutLeftFdsKeeps(p) ==
    LET file == proc[p].fds[p1(p)] IN
    /\ At(p, "leftfds", "PIPE")
    /\ proc' = [proc EXCEPT ![p].fds = close(open(close(@, 1), file), p1(p)),
                            ![p].cmd = @.left, ![p].pc = "run", ![p].want.out = file]
    /\ UNCHANGED <<bytes, lines, failed>>

\* In the children: close(1); dup(p[1]); or close(0); dup(p[0]); then both are closed.
leftFds(p) ==
    LET file == proc[p].fds[p1(p)] IN
    /\ At(p, "leftfds", "PIPE")
    /\ proc' = [proc EXCEPT ![p].fds = close(close(open(close(@, 1), file), p0(p)), p1(p)),
                            ![p].cmd = @.left, ![p].pc = "run", ![p].want.out = file]
    /\ UNCHANGED <<bytes, lines, failed>>
rightFds(p) ==
    LET file == proc[p].fds[p0(p)] IN
    /\ At(p, "rightfds", "PIPE")
    /\ proc' = [proc EXCEPT ![p].fds = close(close(open(close(@, 0), file), p0(p)), p1(p)),
                            ![p].cmd = @.right, ![p].pc = "run", ![p].want.in = file]
    /\ UNCHANGED <<bytes, lines, failed>>

\* Mutant: the parent keeps both ends while it waits.
MutPipeCloseKeeps(p) ==
    /\ At(p, "close", "PIPE")
    /\ proc' = [proc EXCEPT ![p].pc = "wait1"]
    /\ UNCHANGED <<bytes, lines, failed>>

\* The parent closes both ends and waits twice.
pipeClose(p) ==
    /\ At(p, "close", "PIPE")
    /\ proc' = [proc EXCEPT ![p].fds = close(close(@, p0(p)), p1(p)), ![p].pc = "wait1"]
    /\ UNCHANGED <<bytes, lines, failed>>
pipeWait1(p) == At(p, "wait1", "PIPE") /\ wait(p, [proc[p] EXCEPT !.pc = "wait2"])
pipeWait2(p) == At(p, "wait2", "PIPE") /\ wait(p, [proc[p] EXCEPT !.pc = "exit"])

runExit(p) ==
    /\ proc[p].pc = "exit"
    /\ proc' = exit(p, proc)
    /\ UNCHANGED <<bytes, lines, failed>>

runcmd(p) ==
    \/ runExec(p) \/ execFails(p) \/ runRedir(p) \/ runList(p) \/ listWait(p) \/ runBack(p)
    \/ runPipe(p) \/ pipeLeft(p) \/ pipeRight(p) \/ leftFds(p) \/ rightFds(p) \/ pipeClose(p)
    \/ pipeWait1(p) \/ pipeWait2(p) \/ runExit(p)

-----------------------------------------------------------------------------
(* A program.                                                              *)

\* A byte is read, or the end of file: the program exits.
programRead(p) ==
    LET in == proc[p].fds[0] IN
    /\ proc[p].pc = "program"
    /\ \/ /\ in.kind = "read" /\ bytes[in.n] > 0
          /\ bytes' = [bytes EXCEPT ![in.n] = 0]
          /\ UNCHANGED proc
       \/ /\ in.kind = "read" => bytes[in.n] = 0 /\ ~IsOpen(WriteEnd(in.n))
          /\ proc' = exit(p, proc)
          /\ UNCHANGED bytes
    /\ UNCHANGED <<lines, failed>>

\* A byte is written to a pipe; if nobody can read it, the program exits.
programWrite(p) ==
    LET out == proc[p].fds[1] IN
    /\ proc[p].pc = "program"
    /\ out.kind = "write"
    /\ IF ~IsOpen(ReadEnd(out.n)) THEN proc' = exit(p, proc) /\ UNCHANGED bytes
       ELSE bytes[out.n] = 0 /\ bytes' = [bytes EXCEPT ![out.n] = 1] /\ UNCHANGED proc
    /\ UNCHANGED <<lines, failed>>

-----------------------------------------------------------------------------
(* main().                                                                 *)

\* A line is read, and a child parses it, which may panic, and runs it.
shellRead(line) ==
    /\ proc[Sh].pc = "prompt"
    /\ lines < MaxLines /\ lines' = lines + 1
    /\ \E q \in Unused :
        /\ proc' = [proc EXCEPT
                ![Sh].pc = "wait",
                ![q] = [proc[Sh] EXCEPT
                          !.parent = Sh,
                          !.pc = IF parsecmd(line).ok THEN "run" ELSE "exit",
                          !.cmd = IF parsecmd(line).ok THEN parsecmd(line).cmd ELSE None]]
    /\ UNCHANGED <<bytes, failed>>
\* fork1() fails in main(): init starts another shell.
shellFails ==
    /\ proc[Sh].pc = "prompt"
    /\ lines < MaxLines /\ lines' = lines + 1
    /\ ~failed /\ failed' = TRUE
    /\ UNCHANGED <<proc, bytes>>
shellWait == proc[Sh].pc = "wait" /\ wait(Sh, [proc[Sh] EXCEPT !.pc = "prompt"])

Next ==
    \/ \E line \in Lines : shellRead(line)
    \/ shellFails \/ shellWait
    \/ \E p \in Pids : runcmd(p) \/ programRead(p) \/ programWrite(p)

\* Every process runs, and programs read on.
Fairness ==
    /\ WF_vars(shellWait)
    /\ \A p \in Pids : WF_vars(runcmd(p)) /\ SF_vars(programRead(p))
Spec == Init /\ [][Next]_vars /\ Fairness

-----------------------------------------------------------------------------
(* Properties.                                                             *)

TypeOK ==
    /\ bytes \in [Pipes -> 0..1]
    /\ lines \in 0..MaxLines /\ failed \in BOOLEAN
    /\ \A p \in DOMAIN proc : proc[p].parent \in Pids \cup {Sh, Init1}

\* Every program has the standard input and output that the command line says, and no
\* other file: an end of a pipe left open would keep a reader from its end of file.
Wired ==
    \A p \in Pids : proc[p].pc = "program" =>
        /\ proc[p].fds[0] = proc[p].want.in
        /\ proc[p].fds[1] = proc[p].want.out
        /\ proc[p].fds[2] = Console
        /\ \A fd \in 3..(NOFILE - 1) : proc[p].fds[fd] = Closed

\* The prompt comes back when every process of the line has exited except those after
\* which there was an &, whatever the order in which they exit (wait(0) takes any).
Foreground ==
    proc[Sh].pc = "prompt" /\ ~failed => \A p \in Pids : Alive(p) => proc[p].back

\* The prompt always comes back, also when a fork(), pipe(), open() or exec() has
\* failed: no process waits for one that waits for it.
Prompts == proc[Sh].pc = "wait" ~> proc[Sh].pc = "prompt"

\* The programs of a line have exactly its files, and the prompt waits for exactly the
\* processes in the foreground.
LinesRun == TypeOK /\ Wired /\ Foreground

=============================================================================
