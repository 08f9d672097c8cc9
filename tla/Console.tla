------------------------------ MODULE Console ------------------------------
(***************************************************************************)
(* The consoles of kernel/console.c: input, line editing, reading and      *)
(* switching.                                                              *)
(*                                                                         *)
(* The interrupt handler of the UART calls consoleintr() for every         *)
(* character typed; consoleread() waits on a console for a line.  Every    *)
(* access to a console is made under its lock, and the steps below are the *)
(* parts of the handler and of the loop of consoleread() between two reads *)
(* of conscur, which no lock protects: the system call consw changes it    *)
(* while the handler runs.                                                 *)
(***************************************************************************)
EXTENDS Integers, Sequences

CONSTANTS
    NCONS,
    INPUT_BUF_SIZE,
    W,                  \* the indexes r, w and e are counted modulo W (2^32)
    Readers,            \* processes that read a console
    ReadFrom,           \* bound: the consoles they read
    MaxRead,            \* bound: bytes asked for in one read()
    ConswAnyTime,       \* consw is called also while the handler runs, see NoPanic
    Nobody, Intr        \* a console's lock is free; is held by the handler

ASSUME ConsoleAssumption ==
    /\ NCONS \in Nat \ {0} /\ INPUT_BUF_SIZE \in Nat \ {0}
    /\ W \in Nat /\ W % INPUT_BUF_SIZE = 0 /\ W > INPUT_BUF_SIZE
    /\ MaxRead \in Nat /\ ConswAnyTime \in BOOLEAN
    /\ Nobody \notin Readers /\ Intr \notin Readers /\ Nobody # Intr

Cons == 0..(NCONS - 1)
\* '\n' (and '\r', which is stored as '\n'), ^D, and a character that is none of these.
NL == "nl"
EOF == "eof"
Stored == {"a", NL, EOF}
\* ^T, ^U, and ^H or delete; ^P and ^O only print.
Typed == Stored \cup {"switch", "kill", "erase"}

VARIABLES
    cons,               \* buf, r, w, e and lock of each console
    conscur,
    intr,               \* the handler: position and character
    reader,             \* process -> position, console, n, target
    killed,
    unread, edit        \* history: the lines arrived and not read, the line being edited

vars == <<cons, conscur, intr, reader, killed, unread, edit>>

Idle == [pc |-> "user", c |-> 0, n |-> 0, target |-> 0]

Init ==
    /\ cons = [i \in Cons |-> [buf |-> [k \in 0..(INPUT_BUF_SIZE - 1) |-> "a"],
                               r |-> 0, w |-> 0, e |-> 0, lock |-> Nobody]]
    /\ conscur = 0
    /\ intr = [pc |-> "idle", c |-> "a"]
    /\ reader = [p \in Readers |-> Idle]
    /\ killed = {}
    /\ unread = [i \in Cons |-> <<>>]
    /\ edit = [i \in Cons |-> <<>>]

Held(i) == (cons[i].e - cons[i].r) % W

-----------------------------------------------------------------------------
(* consoleintr().                                                          *)

\* (The character is forgotten when it is of no more use.)
IntrGo(l) == intr' = [pc |-> l, c |-> IF intr.c = "kill" /\ l # "idle" THEN "kill" ELSE "a"]

\* acquire(&cons[conscur].lock).
IntrAcquire(c) ==
    /\ intr.pc = "idle"
    /\ cons[conscur].lock = Nobody
    /\ cons' = [cons EXCEPT ![conscur].lock = Intr]
    /\ intr' = [pc |-> CASE c = "switch" -> "switch" [] c \in {"kill", "erase"} -> "erase"
                         [] OTHER -> "store", c |-> c]
    /\ UNCHANGED <<conscur, reader, killed, unread, edit>>

\* release(&cons[conscur].lock), which panics when this CPU does not hold it.
IntrRelease(next) ==
    /\ IF cons[conscur].lock = Intr
       THEN cons' = [cons EXCEPT ![conscur].lock = Nobody] /\ IntrGo(next)
       ELSE UNCHANGED cons /\ IntrGo("panic")
    /\ UNCHANGED <<conscur, reader, killed, unread, edit>>
IntrReturn == intr.pc = "return" /\ IntrRelease("idle")

\* ^T: release, consolenext(), acquire.
IntrSwitch == intr.pc = "switch" /\ IntrRelease("next")
consolenext ==
    /\ intr.pc = "next"
    /\ conscur' = (conscur + 1) % NCONS
    /\ IntrGo("acquire")
    /\ UNCHANGED <<cons, reader, killed, unread, edit>>
IntrReacquire ==
    /\ intr.pc = "acquire"
    /\ cons[conscur].lock = Nobody
    /\ cons' = [cons EXCEPT ![conscur].lock = Intr]
    /\ IntrGo("return")
    /\ UNCHANGED <<conscur, reader, killed, unread, edit>>

\* ^H erases a character of the line being edited, ^U one after the other until the
\* line is empty or a '\n' is before it.  (An erased cell is reset, to leave no trace.)
IntrErase ==
    LET k == conscur
        last == (cons[k].e - 1) % W
        stop == \/ cons[k].e = cons[k].w
                \/ intr.c = "kill" /\ cons[k].buf[last % INPUT_BUF_SIZE] = NL IN
    /\ intr.pc = "erase"
    /\ IF stop THEN UNCHANGED <<cons, edit>>
       ELSE /\ cons' = [cons EXCEPT ![k].e = last, ![k].buf[last % INPUT_BUF_SIZE] = "a"]
            /\ edit' = [edit EXCEPT ![k] = SubSeq(@, 1, Len(@) - 1)]
    /\ IntrGo(IF stop \/ intr.c # "kill" THEN "return" ELSE "erase")
    /\ UNCHANGED <<conscur, reader, killed, unread>>

\* wakeup(&cons[k].r).
Wake(k) == [p \in Readers |-> IF reader[p].pc = "sleep" /\ reader[p].c = k
                              THEN [reader[p] EXCEPT !.pc = "acquire"] ELSE reader[p]]


\* A character is stored if there is room; a whole line, ^D or a full buffer becomes
\* readable.
IntrStore ==
    LET k == conscur
        c == intr.c
        line == Append(edit[k], c)
        e == (cons[k].e + 1) % W
        arrived == c \in {NL, EOF} \/ (e - cons[k].r) % W = INPUT_BUF_SIZE IN
    /\ intr.pc = "store"
    /\ IF Held(k) < INPUT_BUF_SIZE
       THEN /\ cons' = [cons EXCEPT ![k].buf[cons[k].e % INPUT_BUF_SIZE] = c, ![k].e = e,
                                    ![k].w = IF arrived THEN e ELSE @]
            /\ reader' = IF arrived THEN Wake(k) ELSE reader
            /\ IF c \in {NL, EOF} \/ Len(unread[k]) + Len(line) = INPUT_BUF_SIZE
               THEN /\ unread' = [unread EXCEPT ![k] = @ \o line]
                    /\ edit' = [edit EXCEPT ![k] = <<>>]
               ELSE edit' = [edit EXCEPT ![k] = line] /\ UNCHANGED unread
       ELSE UNCHANGED <<cons, reader, unread, edit>>
    /\ IntrGo("return")
    /\ UNCHANGED <<conscur, killed>>

consoleintr ==
    \/ \E c \in Typed : IntrAcquire(c)
    \/ IntrSwitch \/ consolenext \/ IntrReacquire \/ IntrErase \/ IntrStore \/ IntrReturn

\* The system call consw, on another CPU: no lock.
consw(k) ==
    /\ ConswAnyTime \/ intr.pc = "idle"
    /\ conscur' = k
    /\ UNCHANGED <<cons, intr, reader, killed, unread, edit>>

-----------------------------------------------------------------------------
(* consoleread().                                                          *)

Call(p, k, n) ==
    /\ reader[p].pc = "user" /\ p \notin killed
    /\ reader' = [reader EXCEPT ![p] = [pc |-> "acquire", c |-> k, n |-> n, target |-> n]]
    /\ UNCHANGED <<cons, conscur, intr, killed, unread, edit>>

ReadAcquire(p) ==
    /\ reader[p].pc = "acquire"
    /\ cons[reader[p].c].lock = Nobody
    /\ cons' = [cons EXCEPT ![reader[p].c].lock = p]
    /\ reader' = [reader EXCEPT ![p].pc = "loop"]
    /\ UNCHANGED <<conscur, intr, killed, unread, edit>>

\* The read is over; a killed process exits on its way to user space.
Return(p) == reader' = [reader EXCEPT ![p] = Idle]

\* Mutant: ^D is taken by the read that has some bytes already.
MutReadLoopEof(p) ==
    LET k == reader[p].c
        c == cons[k].buf[cons[k].r % INPUT_BUF_SIZE]
        taken == [cons EXCEPT ![k].r = (@ + 1) % W, ![k].buf[cons[k].r % INPUT_BUF_SIZE] = "a"]
        free(cs) == [cs EXCEPT ![k].lock = Nobody] IN
    /\ reader[p].pc = "loop"
    /\ IF reader[p].n = 0 \/ cons[k].r = cons[k].w
       THEN /\ cons' = free(cons) /\ UNCHANGED unread
            /\ IF reader[p].n > 0 /\ p \notin killed
               THEN reader' = [reader EXCEPT ![p].pc = "sleep"] ELSE Return(p)
       ELSE /\ unread' = [unread EXCEPT ![k] = Tail(@)]
            /\ IF c \in {NL, EOF} THEN Return(p) /\ cons' = free(taken)
               ELSE reader' = [reader EXCEPT ![p].n = @ - 1] /\ cons' = taken
    /\ UNCHANGED <<conscur, intr, killed, edit>>

ReadLoop(p) ==
    LET k == reader[p].c
        c == cons[k].buf[cons[k].r % INPUT_BUF_SIZE]
        taken == [cons EXCEPT ![k].r = (@ + 1) % W, ![k].buf[cons[k].r % INPUT_BUF_SIZE] = "a"]
        free(cs) == [cs EXCEPT ![k].lock = Nobody] IN
    /\ reader[p].pc = "loop"
    /\ \/ /\ reader[p].n = 0
          /\ Return(p) /\ cons' = free(cons) /\ UNCHANGED unread
       \/ /\ reader[p].n > 0 /\ cons[k].r = cons[k].w
          /\ IF p \in killed THEN Return(p) ELSE reader' = [reader EXCEPT ![p].pc = "sleep"]
          /\ cons' = free(cons) /\ UNCHANGED unread
       \/ /\ reader[p].n > 0 /\ cons[k].r # cons[k].w /\ c = EOF
          /\ IF reader[p].n < reader[p].target      \* kept for the next read
             THEN cons' = free(cons) /\ UNCHANGED unread
             ELSE cons' = free(taken) /\ unread' = [unread EXCEPT ![k] = Tail(@)]
          /\ Return(p)
       \/ /\ reader[p].n > 0 /\ cons[k].r # cons[k].w /\ c # EOF
          /\ unread' = [unread EXCEPT ![k] = Tail(@)]
          /\ \/ Return(p) /\ cons' = free(taken)    \* a line, or either_copyout() fails
             \/ /\ c # NL
                /\ reader' = [reader EXCEPT ![p].n = @ - 1]
                /\ cons' = taken
    /\ UNCHANGED <<conscur, intr, killed, edit>>

\* kill(): a sleeping process is woken up.
Kill(p) ==
    /\ p \notin killed
    /\ killed' = killed \cup {p}
    /\ reader' = IF reader[p].pc = "sleep" THEN [reader EXCEPT ![p].pc = "acquire"] ELSE reader
    /\ UNCHANGED <<cons, conscur, intr, unread, edit>>

\* A new process takes the place of one that was killed.
Renew(p) ==
    /\ p \in killed /\ reader[p].pc = "user"
    /\ killed' = killed \ {p}
    /\ UNCHANGED <<cons, conscur, intr, reader, unread, edit>>

Read(p) == ReadAcquire(p) \/ ReadLoop(p)
User(p) == Kill(p) \/ Renew(p) \/ \E k \in ReadFrom, n \in 0..MaxRead : Call(p, k, n)

Next ==
    \/ consoleintr
    \/ \E k \in Cons : consw(k)
    \/ \E p \in Readers : User(p) \/ Read(p)

Spec == Init /\ [][Next]_vars

-----------------------------------------------------------------------------
(* Properties.                                                             *)

TypeOK ==
    /\ \A i \in Cons : /\ {cons[i].r, cons[i].w, cons[i].e} \subseteq 0..(W - 1)
                       /\ cons[i].lock \in Readers \cup {Nobody, Intr}
    /\ conscur \in Cons
    /\ killed \subseteq Readers
    /\ reader \in [Readers -> [pc : {"user", "acquire", "loop", "sleep"}, c : Cons,
                               n : 0..MaxRead, target : 0..MaxRead]]

\* The buffer between r and w holds the lines that have arrived, in order, and that
\* between w and e the line being edited, across every wrap of the three indexes:
\* nothing typed is lost, read twice, or erased after it has become readable.  ^U
\* leaves nothing of the line being edited.
Slice(i, from, to) ==
    [k \in 1..((to - from) % W) |-> cons[i].buf[(from + k - 1) % INPUT_BUF_SIZE]]
LinesKept ==
    \A i \in Cons : /\ Slice(i, cons[i].r, cons[i].w) = unread[i]
                    /\ Slice(i, cons[i].w, cons[i].e) = edit[i]
                    /\ intr.pc = "return" /\ intr.c = "kill" => edit[conscur] = <<>>

\* A full buffer can always be read: a line too long for it does not lock the
\* console up, waiting for a '\n' that there is no room for.
FullIsReadable == \A i \in Cons : Held(i) = INPUT_BUF_SIZE => cons[i].w = cons[i].e

\* No process sleeps on a console that has a line for it, or after it was killed.
ReaderWoken ==
    \A p \in Readers : reader[p].pc = "sleep" =>
        p \notin killed /\ cons[reader[p].c].r = cons[reader[p].c].w

\* Every ^D is the end of file of exactly one read: it is removed from the input only
\* by a read that returns 0 bytes.
EofRead ==
    [][\A i \in Cons : unread[i] # <<>> /\ Head(unread[i]) = EOF /\ unread'[i] # unread[i]
        => \/ Len(unread'[i]) > Len(unread[i])
           \/ \E p \in Readers : /\ reader[p].pc = "loop" /\ reader[p].c = i
                                 /\ reader[p].n = reader[p].target]_vars

\* release() is called by the CPU that holds the lock (panic("release") in spinlock.c).
\* This and LinesKept hold only without ConswAnyTime: consoleintr() reads conscur
\* several times, and a consw() on another CPU in between makes it work on, and
\* release, a console whose lock it does not hold.
NoPanic == intr.pc # "panic"


=============================================================================
