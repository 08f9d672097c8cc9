-------------------------------- MODULE Trap --------------------------------
(***************************************************************************)
(* Interrupts, spinlocks and the clock: kernel/spinlock.c, the traps of    *)
(* kernel/trap.c, and sleep() on ticks in kernel/sysproc.c.                *)
(*                                                                         *)
(* A CPU runs the scheduler or a process; a timer interrupt comes whenever *)
(* interrupts are on, in user space, in a system call or in the scheduler. *)
(* The clock's handler takes locks that the interrupted code may hold, so  *)
(* that a lock is held only with interrupts off: push_off() and pop_off()  *)
(* count, and sched() carries the saved flag to the next CPU.  A step is   *)
(* the code up to the next point where another CPU or an interrupt can     *)
(* tell the difference.                                                    *)
(***************************************************************************)
EXTENDS Integers, FiniteSets

CONSTANTS
    CPU, Boot,          \* harts; hart 0, the one that counts ticks
    T,                  \* processes
    W,                  \* ticks is counted modulo W (2^32)
    Naps,               \* arguments of sleep()
    TickLock, Nobody

Assumption ==
    /\ Boot \in CPU /\ CPU \cap T = {} /\ W \in Nat \ {0}
    /\ Naps \subseteq Int
    /\ TickLock \notin T /\ Nobody \notin CPU

VARIABLES
    cpu,                \* hart -> what it runs, interrupts on, noff, intena
    lock,               \* tickslock and each p->lock -> the hart that holds it
    ctx,                \* process or scheduler (named by its hart) -> where it is,
                        \*   where its trap returns to, intena saved by sched()
    state,              \* process -> its state
    ticks,
    nap,                \* process -> n and ticks0 of its sleep()
    killed,
    elapsed,            \* history: ticks since the call of sleep()
    panicked

vars == <<cpu, lock, ctx, state, ticks, nap, killed, elapsed, panicked>>

Awake == [n |-> 0, ticks0 |-> 0]

\* Every scheduler is in its loop; every process is new and runnable.
Init ==
    /\ cpu = [c \in CPU |-> [run |-> c, intr |-> TRUE, noff |-> 0, intena |-> FALSE]]
    /\ lock = [l \in T \cup {TickLock} |-> Nobody]
    /\ ctx = [e \in T \cup CPU |-> [pc |-> IF e \in T THEN "forkret" ELSE "idle",
                                    ret |-> "none", intena |-> FALSE]]
    /\ state = [t \in T |-> "runnable"]
    /\ ticks = 0
    /\ nap = [t \in T |-> Awake]
    /\ killed = {}
    /\ elapsed = [t \in T |-> 0]
    /\ panicked = FALSE

-----------------------------------------------------------------------------
(* spinlock.c.  The functions of a hart k.                                 *)

\* Mutant: intena is saved at every level.
MutPushOffNested(k) == [k EXCEPT !.intr = FALSE, !.noff = @ + 1, !.intena = k.intr]

push_off(k) == [k EXCEPT !.intr = FALSE, !.noff = @ + 1,
                         !.intena = IF k.noff = 0 THEN k.intr ELSE @]
pop_off(k) == [k EXCEPT !.noff = @ - 1, !.intr = @ \/ (k.noff = 1 /\ k.intena)]
pop_offPanics(k) == k.intr \/ k.noff < 1

\* acquire(): waits for another hart, panics if this one holds the lock.
CanAcquire(c, l) == lock[l] \in {Nobody, c}
AcquirePanics(c, l) == lock[l] = c

\* release() panics if this hart does not hold the lock.
ReleasePanics(c, l) == lock[l] # c \/ pop_offPanics(cpu[c])

\* sched() wants p->lock and no other, and interrupts off.
SchedPanics(k) == k.noff # 1 \/ k.intr

Goto(e, l) == [ctx EXCEPT ![e].pc = l]
Panic == panicked' = TRUE /\ UNCHANGED <<cpu, lock, ctx, state, ticks, nap, killed, elapsed>>

-----------------------------------------------------------------------------
(* The scheduler and sched().                                              *)

\* sched() in process t, which holds p->lock on hart c, its record being k: the hart
\* goes on in its scheduler, and the process remembers intena.
Sched(c, t, k, st, pc) ==
    /\ cpu' = [cpu EXCEPT ![c] = [k EXCEPT !.run = c]]
    /\ ctx' = [ctx EXCEPT ![t].pc = pc, ![t].intena = k.intena, ![c].pc = "after"]
    /\ state' = [state EXCEPT ![t] = st]

\* scheduler(): intr_on(), then acquire(&p->lock) and swtch() to a runnable process.
\* A process that was in sched() restores its intena.
Pick(c, t) ==
    LET on == [cpu[c] EXCEPT !.intr = TRUE]
        k == push_off(on) IN
    /\ cpu[c].run = c /\ ctx[c].pc = "idle"
    /\ lock[t] = Nobody
    /\ state[t] = "runnable"
    /\ lock' = [lock EXCEPT ![t] = c]
    /\ cpu' = [cpu EXCEPT ![c] = [k EXCEPT !.run = t,
                                           !.intena = IF ctx[t].pc = "forkret" THEN @ ELSE ctx[t].intena]]
    /\ ctx' = [ctx EXCEPT ![t].intena = FALSE]
    /\ state' = [state EXCEPT ![t] = "running"]
    /\ UNCHANGED <<ticks, nap, killed, elapsed, panicked>>

\* Back in the scheduler: release(&p->lock), and interrupts on at the top of the loop.
SchedulerReleases(c, t) ==
    /\ cpu[c].run = c /\ ctx[c].pc = "after" /\ lock[t] = c
    /\ IF ReleasePanics(c, t) THEN Panic
       ELSE /\ cpu' = [cpu EXCEPT ![c] = [pop_off(@) EXCEPT !.intr = TRUE]]
            /\ lock' = [lock EXCEPT ![t] = Nobody]
            /\ ctx' = Goto(c, "idle")
            /\ UNCHANGED <<state, ticks, nap, killed, elapsed, panicked>>

-----------------------------------------------------------------------------
(* Traps.                                                                  *)

\* usertrapret() and sret, or the return of kerneltrap(): interrupts on, as they were.
TrapReturn(c, e, k) ==
    /\ cpu' = [cpu EXCEPT ![c] = [k EXCEPT !.intr = TRUE]]
    /\ ctx' = [ctx EXCEPT ![e].pc = ctx[e].ret, ![e].ret = "none"]

\* A timer interrupt turns interrupts off and enters usertrap() or kerneltrap().
Timer(c) ==
    LET e == cpu[c].run IN
    /\ cpu[c].intr
    /\ cpu' = [cpu EXCEPT ![c].intr = FALSE]
    /\ ctx' = [ctx EXCEPT ![e].ret = ctx[e].pc, ![e].pc = IF c = Boot THEN "clock" ELSE "ticked"]
    /\ UNCHANGED <<lock, state, ticks, nap, killed, elapsed, panicked>>

\* clockintr() on hart 0: under tickslock, ticks++ and wakeup(&ticks), which takes the
\* lock of every other process.  (Bound: 2^32 ticks do not pass before a process that
\* was woken up looks.)
wakeup(st) == [t \in T |-> IF st[t] = "sleeping" THEN "runnable" ELSE st[t]]
clockintr(c) ==
    LET e == cpu[c].run
        needed == {TickLock} \cup (T \ {e}) IN
    /\ ctx[e].pc = "clock"
    /\ \A l \in needed : CanAcquire(c, l)
    /\ \A t \in T : elapsed[t] < W - 1
    /\ IF \E l \in needed : AcquirePanics(c, l) THEN Panic
       ELSE /\ ticks' = (ticks + 1) % W
            /\ state' = wakeup(state)
            /\ ctx' = Goto(e, "ticked")
            /\ elapsed' = [t \in T |-> IF nap[t] = Awake THEN 0 ELSE elapsed[t] + 1]
            /\ UNCHANGED <<cpu, lock, nap, killed, panicked>>

\* devintr() has returned 2: yield() if a process runs here.
Ticked(c) ==
    LET e == cpu[c].run
        k == push_off(cpu[c]) IN
    /\ ctx[e].pc = "ticked"
    /\ IF e \in T
       THEN /\ CanAcquire(c, e)
            /\ IF AcquirePanics(c, e) \/ SchedPanics(k) THEN Panic
               ELSE /\ lock' = [lock EXCEPT ![e] = c]
                    /\ Sched(c, e, k, "runnable", "yielded")
                    /\ UNCHANGED <<ticks, nap, killed, elapsed, panicked>>
       ELSE TrapReturn(c, e, cpu[c]) /\ UNCHANGED <<lock, state, ticks, nap, killed, elapsed, panicked>>

\* yield() releases p->lock after sched(), and the trap returns.
Yielded(c, t) ==
    /\ cpu[c].run = t /\ ctx[t].pc = "yielded"
    /\ IF ReleasePanics(c, t) THEN Panic
       ELSE /\ lock' = [lock EXCEPT ![t] = Nobody]
            /\ TrapReturn(c, t, pop_off(cpu[c]))
            /\ UNCHANGED <<state, ticks, nap, killed, elapsed, panicked>>

\* forkret(): release(&p->lock), then to user space.
forkret(c, t) ==
    /\ cpu[c].run = t /\ ctx[t].pc = "forkret"
    /\ IF ReleasePanics(c, t) THEN Panic
       ELSE /\ lock' = [lock EXCEPT ![t] = Nobody]
            /\ cpu' = [cpu EXCEPT ![c] = [pop_off(@) EXCEPT !.intr = TRUE]]
            /\ ctx' = Goto(t, "user")
            /\ UNCHANGED <<state, ticks, nap, killed, elapsed, panicked>>

-----------------------------------------------------------------------------
(* The system call sleep(n).                                               *)

\* usertrap() turns interrupts on before syscall().  A killed process exits instead,
\* and another one takes its place.
Ecall(c, t) ==
    /\ cpu[c].run = t /\ ctx[t].pc = "user"
    /\ IF t \in killed
       THEN killed' = killed \ {t} /\ UNCHANGED <<ctx, nap>>
       ELSE /\ \E n \in Naps : nap' = [nap EXCEPT ![t] = [n |-> n, ticks0 |-> -1]]
            /\ ctx' = Goto(t, "sleep")
            /\ UNCHANGED killed
    /\ UNCHANGED <<cpu, lock, state, ticks, elapsed, panicked>>

\* acquire(&tickslock), at the call and again after every wakeup.
SleepAcquire(c, t) ==
    /\ cpu[c].run = t /\ ctx[t].pc = "sleep"
    /\ CanAcquire(c, TickLock)
    /\ IF AcquirePanics(c, TickLock) THEN Panic
       ELSE /\ cpu' = [cpu EXCEPT ![c] = push_off(@)]
            /\ lock' = [lock EXCEPT ![TickLock] = c]
            /\ ctx' = Goto(t, "check")
            /\ IF nap[t].ticks0 = -1
               THEN nap' = [nap EXCEPT ![t].ticks0 = ticks] /\ elapsed' = [elapsed EXCEPT ![t] = 0]
               ELSE UNCHANGED <<nap, elapsed>>
            /\ UNCHANGED <<state, ticks, killed, panicked>>


\* ticks - ticks0 < n, in which n is converted to unsigned.
TooEarly(t) == (ticks - nap[t].ticks0) % W < nap[t].n % W

\* Too early and not killed: sleep(&ticks, &tickslock), which takes p->lock before it
\* releases tickslock.  If not: release(&tickslock) and return.
SleepCheck(c, t) ==
    LET k == pop_off(push_off(cpu[c])) IN
    /\ cpu[c].run = t /\ ctx[t].pc = "check"
    /\ IF TooEarly(t) /\ t \notin killed
       THEN /\ CanAcquire(c, t)
            /\ IF AcquirePanics(c, t) \/ ReleasePanics(c, TickLock) \/ SchedPanics(k) THEN Panic
               ELSE /\ lock' = [lock EXCEPT ![t] = c, ![TickLock] = Nobody]
                    /\ Sched(c, t, k, "sleeping", "woken")
                    /\ UNCHANGED <<ticks, nap, killed, elapsed, panicked>>
       ELSE IF ReleasePanics(c, TickLock) THEN Panic
       ELSE /\ cpu' = [cpu EXCEPT ![c] = pop_off(@)]
            /\ lock' = [lock EXCEPT ![TickLock] = Nobody]
            /\ ctx' = Goto(t, "return")
            /\ UNCHANGED <<state, ticks, nap, killed, elapsed, panicked>>

\* sleep() releases p->lock after sched(), and takes tickslock again.
SleepWoken(c, t) ==
    /\ cpu[c].run = t /\ ctx[t].pc = "woken"
    /\ IF ReleasePanics(c, t) THEN Panic
       ELSE /\ lock' = [lock EXCEPT ![t] = Nobody]
            /\ cpu' = [cpu EXCEPT ![c] = pop_off(@)]
            /\ ctx' = Goto(t, "sleep")
            /\ UNCHANGED <<state, ticks, nap, killed, elapsed, panicked>>

\* Back to user space: a killed process exits, and another one takes its place.
SleepReturn(c, t) ==
    /\ cpu[c].run = t /\ ctx[t].pc = "return"
    /\ ctx' = Goto(t, "user")
    /\ nap' = [nap EXCEPT ![t] = Awake]
    /\ elapsed' = [elapsed EXCEPT ![t] = 0]
    /\ killed' = killed \ {t}
    /\ UNCHANGED <<cpu, lock, state, ticks, panicked>>

\* kill(), called on a hart: under p->lock.
Kill(t) ==
    /\ t \notin killed /\ lock[t] = Nobody
    /\ killed' = killed \cup {t}
    /\ state' = [state EXCEPT ![t] = IF @ = "sleeping" THEN "runnable" ELSE @]
    /\ UNCHANGED <<cpu, lock, ctx, ticks, nap, elapsed, panicked>>

-----------------------------------------------------------------------------
Step(c) ==
    \/ clockintr(c) \/ Ticked(c)
    \/ \E t \in T : \/ SchedulerReleases(c, t) \/ Yielded(c, t) \/ forkret(c, t)
                    \/ SleepAcquire(c, t) \/ SleepCheck(c, t) \/ SleepWoken(c, t)
                    \/ SleepReturn(c, t)

Next ==
    \/ \E c \in CPU : Timer(c) \/ Step(c) \/ \E t \in T : Pick(c, t) \/ Ecall(c, t)
    \/ \E t \in T : Kill(t)

Spec == Init /\ [][Next]_vars

-----------------------------------------------------------------------------
(* Properties.                                                             *)

TypeOK ==
    /\ cpu \in [CPU -> [run : CPU \cup T, intr : BOOLEAN, noff : 0..2, intena : BOOLEAN]]
    /\ lock \in [T \cup {TickLock} -> CPU \cup {Nobody}]
    /\ state \in [T -> {"runnable", "running", "sleeping"}]
    /\ ticks \in 0..(W - 1)
    /\ killed \subseteq T

\* None of the panics of acquire(), release(), pop_off() and sched() happens: no
\* handler needs a lock that the code it interrupts holds.
NoPanic == ~panicked

\* A hart has interrupts off exactly as often as it holds locks, and a process finds
\* them on again outside of them, on whatever hart it goes on.
IntrMatched ==
    \A c \in CPU :
        /\ cpu[c].noff = Cardinality({l \in DOMAIN lock : lock[l] = c})
        /\ cpu[c].noff > 0 => ~cpu[c].intr
        /\ ctx[cpu[c].run].pc \in {"user", "sleep", "return", "idle"} => cpu[c].intr

\* sleep(n) returns 0 only when n ticks have passed, also across the wrap of ticks.
SleepsEnough ==
    \A t \in T : ctx[t].pc = "return" /\ t \notin killed => elapsed[t] >= nap[t].n

\* No process is asleep whose time has come, or that was killed.
WokenInTime ==
    \A t \in T : state[t] = "sleeping" => TooEarly(t) /\ t \notin killed

=============================================================================
