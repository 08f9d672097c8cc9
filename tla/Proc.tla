-------------------------------- MODULE Proc --------------------------------
(***************************************************************************)
(* Processes, containers and the per-CPU scheduler (kernel/proc.c).        *)
(*                                                                         *)
(* One step is one critical section: the code from an acquire() to the     *)
(* matching release(), or to the next acquire() while an outer lock stays  *)
(* held.  p->lock, c->lock and wait_lock are explicit because they are     *)
(* held across steps; unused_lock, cont_unused_lock and cont_run_lock only *)
(* ever protect one step.  A lock holds the CPU that locked it             *)
(* (spinlock.c: lk->cpu), or Free.                                         *)
(*                                                                         *)
(* The kernel thread of p runs on the CPU k with cpu[k].proc = p; it may   *)
(* move to another CPU wherever it holds no lock (Yield).                  *)
(***************************************************************************)
EXTENDS Integers, Sequences, FiniteSets

CONSTANTS
    NPROC,          \* slots of the process table
    NCONT,          \* slots of the container table
    CPUs,           \* harts that run scheduler()
    Free,           \* the owner of an unlocked spinlock
    Served,         \* containers whose run_list scheduler() reads: {cont_root}
    MaxPid,         \* bound: no fork once a container's nextpid exceeds it
    KillPids,       \* arguments user programs pass to kill()
    KallocFails,    \* may kalloc() fail in allocproc()?
    UvmcopyFails,   \* may uvmcopy() run out of memory in fork()?
    NameiFails,     \* may cfork() be given a directory that does not exist?
    BeginOpSleeps,  \* may begin_op() have to wait for the log in alloccont()?
    InitExits       \* may init call exit(), as it does when its fork() fails?

Procs == 1..NPROC
Conts == 0..(NCONT - 1)
initproc == 1
cont_root == 0
NoProc == 0         \* the null struct proc *
NoCont == -1        \* the null struct cont *
HackPid == -2       \* reparent()'s pid for a container's orphan

ASSUME ConstAssumption ==
    /\ NPROC \in Nat \ {0}
    /\ NCONT \in Nat \ {0}
    /\ Free \notin CPUs
    /\ Served \subseteq Conts
    /\ MaxPid \in Nat
    /\ KillPids \subseteq Int
    /\ {KallocFails, UvmcopyFails, NameiFails, BeginOpSleeps, InitExits} \subseteq BOOLEAN

VARIABLES
    proc,               \* the process table
    cont,               \* the container table; rootdir is null, held, put (the
                        \* reference is dropped) or leaked (forgotten)
    unused_list, cont_unused_list, cont_run_list, wait_lock,
    cpu,                \* per CPU: position in scheduler(), c->proc, e
    thr                 \* per kernel thread: position, position to resume after
                        \* yield(), and the locals np, contp, loop index, pid

lists == <<unused_list, cont_unused_list, cont_run_list>>
vars == <<proc, cont, lists, wait_lock, cpu, thr>>

-----------------------------------------------------------------------------
\* Thread locals when no system call is under way.
AtRest(l) == [pc |-> l, ret |-> "user", np |-> NoProc, cp |-> NoCont,
              idx |-> 0, kpid |-> 0]

UnusedProc == [state |-> "UNUSED", pid |-> 0, parent |-> NoProc,
               chan |-> NoProc, killed |-> FALSE, contp |-> NoCont,
               lock |-> Free]

IdleCpu == [pc |-> "idle", proc |-> NoProc, next |-> NoProc]

\* What main() leaves behind: procinit() and userinit().
Init ==
    /\ proc = [p \in Procs |->
                 IF p = initproc
                 THEN [UnusedProc EXCEPT !.state = "RUNNABLE", !.pid = 1,
                                         !.contp = cont_root]
                 ELSE UnusedProc]
    /\ cont = [c \in Conts |->
                 [state |-> IF c = cont_root THEN "USED" ELSE "UNUSED",
                  nextpid |-> IF c = cont_root THEN 2 ELSE 0,
                  proc_list |-> IF c = cont_root THEN {initproc} ELSE {},
                  run_list |-> IF c = cont_root THEN <<initproc>> ELSE <<>>,
                  rootdir |-> "null",
                  lock |-> Free]]
    /\ unused_list = [i \in 1..(NPROC - 1) |-> i + 1]
    /\ cont_unused_list = [i \in 1..(NCONT - 1) |-> i]
    /\ cont_run_list = {cont_root}
    /\ wait_lock = Free
    /\ cpu = [k \in CPUs |-> IdleCpu]
    /\ thr = [p \in Procs |-> AtRest("forkret")]

-----------------------------------------------------------------------------
\* CPU k executes process p, whose kernel thread has reached position l.
At(k, p, l) == cpu[k].pc = "run" /\ cpu[k].proc = p /\ thr[p].pc = l

\* usertrap() sends a killed process to exit() before any system call.
EnterKernel(k, p) == At(k, p, "user") /\ ~proc[p].killed

Goto(p, l) == thr' = [thr EXCEPT ![p].pc = l]

\* The system call returns to user space; its locals die.
Return(p) == thr' = [thr EXCEPT ![p] = AtRest("user")]

\* panic() spins for ever on the CPU that calls it, whatever it has locked.
Panics == {"ASSERT", "sched locks", "kerneltrap", "init exiting"}
Panic(k, why) == cpu' = [cpu EXCEPT ![k].pc = why]
PanicLoop(k) == cpu[k].pc \in Panics /\ UNCHANGED vars

\* Mutant: the process is queued at the front.
MutEnqueueFront(q) ==
    LET c == proc[q].contp IN
    /\ cont[c].lock = Free
    /\ cont' = [cont EXCEPT ![c].run_list = <<q>> \o @]

\* q goes to the end of its container's run list.
Enqueue(q) ==
    LET c == proc[q].contp IN
    /\ cont[c].lock = Free
    /\ cont' = [cont EXCEPT ![c].run_list = Append(@, q)]


\* A sleeping q becomes runnable, as in wakeup() and kill().
Wake(q) == proc' = [proc EXCEPT ![q].state = "RUNNABLE"] /\ Enqueue(q)

\* sched(), with p->lock held: no other spinlock may be (noff == 1).
Sched(k, p) ==
    cpu' = [cpu EXCEPT ![k].pc =
              IF \/ wait_lock' = k
                 \/ \E q \in Procs \ {p} : proc[q].lock = k
                 \/ \E c \in Conts : cont[c].lock = k
              THEN "sched locks" ELSE "back"]

-----------------------------------------------------------------------------
(* scheduler(), yield(), forkret() and the tail of sleep().                *)

PickProc(k) ==
    \E c \in Served :
        /\ cpu[k].pc = "idle"
        /\ cont[c].lock = Free
        /\ cont[c].run_list # <<>>
        /\ cpu' = [cpu EXCEPT ![k] = [pc |-> "picked", proc |-> NoProc,
                                      next |-> Head(cont[c].run_list)]]
        /\ cont' = [cont EXCEPT ![c].run_list = Tail(@)]
        /\ UNCHANGED <<proc, lists, wait_lock, thr>>

\* An empty run list: wfi, then look again.
Idle(k) ==
    /\ cpu[k].pc = "idle"
    /\ \A c \in Served : cont[c].run_list = <<>>
    /\ UNCHANGED vars

Dispatch(k) ==
    LET p == cpu[k].next IN
    /\ cpu[k].pc = "picked"
    /\ proc[p].lock = Free
    /\ IF proc[p].state = "RUNNABLE"
       THEN /\ proc' = [proc EXCEPT ![p].lock = k, ![p].state = "RUNNING"]
            /\ cpu' = [cpu EXCEPT ![k] = [pc |-> "run", proc |-> p, next |-> NoProc]]
       ELSE proc' = [proc EXCEPT ![p].lock = k] /\ Panic(k, "ASSERT")
    /\ UNCHANGED <<cont, lists, wait_lock, thr>>

\* swtch() has returned to scheduler(): the process is off its kernel stack.
SwtchBack(k) ==
    /\ cpu[k].pc = "back"
    /\ cpu' = [cpu EXCEPT ![k] = IdleCpu]
    /\ proc' = [proc EXCEPT ![cpu[k].proc].lock = Free]
    /\ UNCHANGED <<cont, lists, wait_lock, thr>>

\* The process side of swtch(), still holding p->lock: in forkret(), in
\* yield(), or in the sleep() of wait(), which has to reacquire wait_lock.
Resume(k) ==
    LET p == cpu[k].proc IN
    /\ cpu[k].pc = "run"
    /\ \/ /\ thr[p].pc = "forkret"
          /\ proc' = [proc EXCEPT ![p].lock = Free]
          /\ Goto(p, "user")
       \/ /\ thr[p].pc = "yielded"
          /\ proc' = [proc EXCEPT ![p].lock = Free]
          /\ thr' = [thr EXCEPT ![p].pc = thr[p].ret, ![p].ret = "user"]
       \/ /\ thr[p].pc = "slept"
          /\ proc' = [proc EXCEPT ![p].lock = Free, ![p].chan = NoProc]
          /\ Goto(p, "wait_acquire")
    /\ UNCHANGED <<cont, lists, wait_lock, cpu>>

\* Positions where the thread holds no spinlock, so that a timer interrupt
\* can be taken: usertrap() or kerneltrap() then calls yield().
Preemptible == {"user", "fork_alloc", "fork_parent", "fork_run", "fork_push",
    "exit_count", "exit_iput", "exit_wait", "wait_acquire", "kill_scan",
    "cont_init", "cfork_list", "cfork_fork"}

\* Mutant: p->lock is released before sched().
MutYieldUnlocked(k) ==
    LET p == cpu[k].proc IN
    /\ cpu[k].pc = "run"
    /\ thr[p].pc \in Preemptible
    /\ proc[p].lock = Free
    /\ proc' = [proc EXCEPT ![p].state = "RUNNABLE"]
    /\ Enqueue(p)
    /\ thr' = [thr EXCEPT ![p].pc = "yielded", ![p].ret = thr[p].pc]
    /\ UNCHANGED <<lists, wait_lock>>
    /\ Sched(k, p)

Yield(k) ==
    LET p == cpu[k].proc IN
    /\ cpu[k].pc = "run"
    /\ thr[p].pc \in Preemptible
    /\ proc[p].lock = Free
    /\ proc' = [proc EXCEPT ![p].lock = k, ![p].state = "RUNNABLE"]
    /\ Enqueue(p)
    /\ thr' = [thr EXCEPT ![p].pc = "yielded", ![p].ret = thr[p].pc]
    /\ UNCHANGED <<lists, wait_lock>>
    /\ Sched(k, p)

-----------------------------------------------------------------------------
(* fork() and allocproc(): cp is the container argument, np the new slot.  *)

\* sys_fork() forks into mycont(), cfork() into the new container.
ForkPop(k, p, c) ==
    /\ \/ EnterKernel(k, p) /\ c = proc[p].contp
       \/ At(k, p, "cfork_fork") /\ c = thr[p].cp
    /\ cont[c].nextpid <= MaxPid
    /\ unused_list # <<>>
    /\ unused_list' = Tail(unused_list)
    /\ thr' = [thr EXCEPT ![p].pc = "fork_alloc", ![p].cp = c,
                          ![p].np = Head(unused_list)]
    /\ UNCHANGED <<proc, cont, cont_unused_list, cont_run_list, wait_lock, cpu>>

\* No unused slot: fork() fails, and cfork() leaves its new container behind.
CforkNoProc(k, p) ==
    /\ At(k, p, "cfork_fork")
    /\ unused_list = <<>>
    /\ Return(p)
    /\ UNCHANGED <<proc, cont, lists, wait_lock, cpu>>

\* allocproc() locks the slot and takes a pid; killed and chan are not reset.
ForkAlloc(k, p) ==
    LET q == thr[p].np  c == thr[p].cp IN
    /\ At(k, p, "fork_alloc")
    /\ proc[q].lock = Free
    /\ cont[c].lock = Free
    /\ proc' = [proc EXCEPT ![q].lock = k, ![q].state = "USED",
                            ![q].pid = cont[c].nextpid]
    /\ cont' = [cont EXCEPT ![c].nextpid = @ + 1]
    /\ Goto(p, "fork_pages")
    /\ UNCHANGED <<lists, wait_lock, cpu>>

\* The pages are there: context, container and the container's proc_list.
ForkPages(k, p) ==
    LET q == thr[p].np  c == thr[p].cp IN
    /\ At(k, p, "fork_pages")
    /\ cont[c].lock = Free
    /\ proc' = [proc EXCEPT ![q].contp = c]
    /\ cont' = [cont EXCEPT ![c].proc_list = @ \cup {q}]
    /\ thr' = [thr EXCEPT ![p].pc = "fork_copy", ![q] = AtRest("forkret")]
    /\ UNCHANGED <<lists, wait_lock, cpu>>

\* kalloc() or proc_pagetable() fails: freeproc() resets the slot and puts it
\* back, then locks p->contp->lock although p->contp is still null.
ForkNoPages(k, p) ==
    LET q == thr[p].np IN
    /\ KallocFails
    /\ At(k, p, "fork_pages")
    /\ proc' = [proc EXCEPT ![q] = [UnusedProc EXCEPT !.lock = k]]
    /\ unused_list' = Append(unused_list, q)
    /\ Goto(p, "fork_fault")
    /\ Panic(k, "kerneltrap")
    /\ UNCHANGED <<cont, cont_unused_list, cont_run_list, wait_lock>>

\* uvmcopy() succeeds and the child is unlocked, or freeproc() undoes it.
ForkCopy(k, p) ==
    /\ At(k, p, "fork_copy")
    /\ \/ Goto(p, "fork_parent") /\ proc' = [proc EXCEPT ![thr[p].np].lock = Free]
       \/ UvmcopyFails /\ Goto(p, "free_slot") /\ UNCHANGED proc
    /\ UNCHANGED <<cont, lists, wait_lock, cpu>>

ForkParent(k, p) ==
    /\ At(k, p, "fork_parent")
    /\ wait_lock = Free
    /\ proc' = [proc EXCEPT ![thr[p].np].parent = p]
    /\ Goto(p, "fork_run")
    /\ UNCHANGED <<cont, lists, wait_lock, cpu>>

ForkRun(k, p) ==
    /\ At(k, p, "fork_run")
    /\ proc[thr[p].np].lock = Free
    /\ proc' = [proc EXCEPT ![thr[p].np].state = "RUNNABLE"]
    /\ Goto(p, "fork_push")
    /\ UNCHANGED <<cont, lists, wait_lock, cpu>>

ForkPush(k, p) ==
    /\ At(k, p, "fork_push")
    /\ cont[thr[p].cp].lock = Free
    /\ cont' = [cont EXCEPT ![thr[p].cp].run_list = Append(@, thr[p].np)]
    /\ Return(p)
    /\ UNCHANGED <<proc, lists, wait_lock, cpu>>

-----------------------------------------------------------------------------
(* freeproc() of the slot np, whose lock the caller holds.                 *)

FreeSlot(k, p) ==
    LET q == thr[p].np  c == proc[q].contp IN
    /\ At(k, p, "free_slot")
    /\ cont[c].lock = Free
    /\ proc' = [proc EXCEPT ![q] = [UnusedProc EXCEPT !.lock = k, !.contp = c]]
    /\ unused_list' = Append(unused_list, q)
    /\ cont' = [cont EXCEPT ![c].proc_list = @ \ {q}]
    /\ Goto(p, IF cont[c].proc_list \ {q} = {} THEN "free_cont" ELSE "free_done")
    /\ UNCHANGED <<cont_unused_list, cont_run_list, wait_lock, cpu>>

\* The last process of the container is gone: freecont() and back to the list.
FreeCont(k, p) ==
    LET c == proc[thr[p].np].contp IN
    /\ At(k, p, "free_cont")
    /\ cont_run_list' = cont_run_list \ {c}
    /\ cont' = [cont EXCEPT ![c].state = "UNUSED", ![c].nextpid = 1,
                  ![c].rootdir = IF @ = "held" THEN "leaked" ELSE "null"]
    /\ cont_unused_list' = Append(cont_unused_list, c)
    /\ Goto(p, "free_done")
    /\ UNCHANGED <<proc, unused_list, wait_lock, cpu>>

\* Back in fork() or wait(): unlock the slot, and wait_lock when in wait().
FreeDone(k, p) ==
    /\ At(k, p, "free_done")
    /\ proc' = [proc EXCEPT ![thr[p].np].contp = NoCont, ![thr[p].np].lock = Free]
    /\ wait_lock' = IF wait_lock = k THEN Free ELSE wait_lock
    /\ Return(p)
    /\ UNCHANGED <<cont, lists, cpu>>

-----------------------------------------------------------------------------
(* exit(), reparent() and wakeup().  Closing the files and dropping p->cwd *)
(* belong to the file system.                                              *)

\* exit() as a system call, or forced on a killed process by usertrap().
ExitBegin(k, p) ==
    /\ At(k, p, "user")
    /\ p = initproc => InitExits \/ proc[p].killed
    /\ IF p = initproc
       THEN Panic(k, "init exiting") /\ UNCHANGED thr
       ELSE Goto(p, "exit_count") /\ UNCHANGED cpu
    /\ UNCHANGED <<proc, cont, lists, wait_lock>>

\* Mutant: off by one in the test of nprocs.
MutExitCountTwo(k, p) ==
    LET c == proc[p].contp IN
    /\ At(k, p, "exit_count")
    /\ cont[c].lock = Free
    /\ Goto(p, IF Cardinality(cont[c].proc_list) <= 2 THEN "exit_iput" ELSE "exit_wait")
    /\ UNCHANGED <<proc, cont, lists, wait_lock, cpu>>

\* nprocs = list_size(&p->contp->proc_list)
ExitCount(k, p) ==
    LET c == proc[p].contp IN
    /\ At(k, p, "exit_count")
    /\ cont[c].lock = Free
    /\ Goto(p, IF Cardinality(cont[c].proc_list) = 1 THEN "exit_iput" ELSE "exit_wait")
    /\ UNCHANGED <<proc, cont, lists, wait_lock, cpu>>

\* iput(p->contp->rootdir); iput() of a null inode faults.
ExitIput(k, p) ==
    LET c == proc[p].contp IN
    /\ At(k, p, "exit_iput")
    /\ IF cont[c].rootdir = "held"
       THEN /\ cont' = [cont EXCEPT ![c].rootdir = "put"]
            /\ Goto(p, "exit_wait")
            /\ UNCHANGED cpu
       ELSE Panic(k, "kerneltrap") /\ UNCHANGED <<cont, thr>>
    /\ UNCHANGED <<proc, lists, wait_lock>>

ExitWait(k, p) ==
    /\ At(k, p, "exit_wait")
    /\ wait_lock = Free
    /\ wait_lock' = k
    /\ Goto(p, "exit_reparent")
    /\ UNCHANGED <<proc, cont, lists, cpu>>

Children(p) == {q \in Procs : proc[q].parent = p}

\* A loop over the table meets q before the rest of S.
First(q, S) == q \in S /\ \A r \in S : q <= r

\* Mutant: exit() does not call reparent().
MutExitNoReparent(k, p) ==
    /\ At(k, p, "exit_reparent")
    /\ thr' = [thr EXCEPT ![p].pc = "exit_wakeup", ![p].idx = 1]
    /\ UNCHANGED <<proc, cont, lists, wait_lock, cpu>>

\* reparent() hands the next child to init and wakes init; with none left
\* exit() wakes the parent.  reparent() writes pp->pid without pp->lock.
ExitReparent(k, p) ==
    /\ At(k, p, "exit_reparent")
    /\ \/ /\ Children(p) = {}
          /\ thr' = [thr EXCEPT ![p].pc = "exit_wakeup", ![p].idx = 1]
          /\ UNCHANGED proc
       \/ \E q \in Procs :
            /\ First(q, Children(p))
            /\ thr' = [thr EXCEPT ![p].pc = "exit_wakeinit", ![p].idx = 1]
            /\ proc' = [proc EXCEPT ![q].parent = initproc,
                  ![q].pid = IF proc[q].contp # cont_root THEN HackPid ELSE @]
    /\ UNCHANGED <<cont, lists, wait_lock, cpu>>

\* Mutant: exit() wakes its parent only if it is init.
MutWakeupInitOnly(p, q, ch) ==
    /\ q # p => proc[q].lock = Free
    /\ IF q = initproc /\ proc[q].state = "SLEEPING" /\ proc[q].chan = ch
       THEN Wake(q)
       ELSE UNCHANGED <<proc, cont>>

\* One iteration of wakeup(ch)'s loop, for the slot q.
WakeupVisit(p, q, ch) ==
    /\ q # p => proc[q].lock = Free
    /\ IF q # p /\ proc[q].state = "SLEEPING" /\ proc[q].chan = ch
       THEN Wake(q)
       ELSE UNCHANGED <<proc, cont>>

\* wakeup(initproc) in reparent(), wakeup(p->parent) in exit().
ExitWakeup(k, p) ==
    LET q == thr[p].idx
        last == thr[p].pc = "exit_wakeup" IN
    /\ At(k, p, "exit_wakeinit") \/ At(k, p, "exit_wakeup")
    /\ \/ /\ q \in Procs
          /\ WakeupVisit(p, q, IF last THEN proc[p].parent ELSE initproc)
          /\ thr' = [thr EXCEPT ![p].idx = q + 1]
       \/ /\ q \notin Procs
          /\ thr' = [thr EXCEPT ![p].idx = 0,
                       ![p].pc = IF last THEN "exit_zombie" ELSE "exit_reparent"]
          /\ UNCHANGED <<proc, cont>>
    /\ UNCHANGED <<lists, wait_lock, cpu>>

ExitZombie(k, p) ==
    /\ At(k, p, "exit_zombie")
    /\ proc[p].lock = Free
    /\ proc' = [proc EXCEPT ![p].lock = k, ![p].state = "ZOMBIE"]
    /\ wait_lock' = Free
    /\ Goto(p, "zombie")
    /\ Sched(k, p)
    /\ UNCHANGED <<cont, lists>>

-----------------------------------------------------------------------------
(* wait() and its sleep().                                                 *)

WaitAcquire(k, p) ==
    /\ EnterKernel(k, p) \/ At(k, p, "wait_acquire")
    /\ wait_lock = Free
    /\ wait_lock' = k
    /\ thr' = [thr EXCEPT ![p].pc = "wait_scan", ![p].idx = 1]
    /\ UNCHANGED <<proc, cont, lists, cpu>>

\* Mutant: wait() takes any zombie.
MutUnscannedAll(p) == {q \in Procs \ {p} : q >= thr[p].idx}

\* The children the scan has not met; parent is stable under wait_lock.
Unscanned(p) == {q \in Children(p) : q >= thr[p].idx}

\* Mutant: the failing copyout() path forgets wait_lock.
MutWaitScanLocked(k, p, q) ==
    /\ At(k, p, "wait_scan")
    /\ First(q, Unscanned(p))
    /\ proc[q].lock = Free
    /\ \/ /\ proc[q].state # "ZOMBIE"
          /\ thr' = [thr EXCEPT ![p].idx = q + 1]
          /\ UNCHANGED proc
       \/ /\ proc[q].state = "ZOMBIE"
          /\ proc' = [proc EXCEPT ![q].lock = k]
          /\ thr' = [thr EXCEPT ![p].pc = "free_slot", ![p].np = q]
       \/ /\ proc[q].state = "ZOMBIE" /\ p # initproc
          /\ Return(p)
          /\ UNCHANGED proc
    /\ UNCHANGED <<cont, lists, wait_lock, cpu>>

\* The next child: passed over, or locked and reaped if it is a zombie, unless
\* its status cannot be copied out (init passes no address).
WaitScan(k, p, q) ==
    /\ At(k, p, "wait_scan")
    /\ First(q, Unscanned(p))
    /\ proc[q].lock = Free
    /\ \/ /\ proc[q].state # "ZOMBIE"
          /\ thr' = [thr EXCEPT ![p].idx = q + 1]
          /\ UNCHANGED <<proc, wait_lock>>
       \/ /\ proc[q].state = "ZOMBIE"
          /\ proc' = [proc EXCEPT ![q].lock = k]
          /\ thr' = [thr EXCEPT ![p].pc = "free_slot", ![p].np = q]
          /\ UNCHANGED wait_lock
       \/ /\ proc[q].state = "ZOMBIE" /\ p # initproc
          /\ wait_lock' = Free
          /\ Return(p)
          /\ UNCHANGED proc
    /\ UNCHANGED <<cont, lists, cpu>>

\* No zombie: give up without children or when killed(p), else go to sleep.
WaitKilled(k, p) ==
    /\ At(k, p, "wait_scan")
    /\ Unscanned(p) = {}
    /\ \/ /\ Children(p) = {} \/ (proc[p].killed /\ proc[p].lock = Free)
          /\ wait_lock' = Free
          /\ Return(p)
       \/ /\ Children(p) # {} /\ ~proc[p].killed /\ proc[p].lock = Free
          /\ Goto(p, "wait_sleep")
          /\ UNCHANGED wait_lock
    /\ UNCHANGED <<proc, cont, lists, cpu>>

\* sleep(p, &wait_lock) as far as sched()
WaitSleep(k, p) ==
    /\ At(k, p, "wait_sleep")
    /\ proc[p].lock = Free
    /\ proc' = [proc EXCEPT ![p].lock = k, ![p].state = "SLEEPING", ![p].chan = p]
    /\ wait_lock' = Free
    /\ thr' = [thr EXCEPT ![p].pc = "slept", ![p].idx = 0]
    /\ Sched(k, p)
    /\ UNCHANGED <<cont, lists>>

-----------------------------------------------------------------------------
(* kill()                                                                  *)

KillBegin(k, p, n) ==
    /\ EnterKernel(k, p)
    /\ thr' = [thr EXCEPT ![p].pc = "kill_scan", ![p].idx = 1, ![p].kpid = n]
    /\ UNCHANGED <<proc, cont, lists, wait_lock, cpu>>

KillScan(k, p) ==
    LET q == thr[p].idx IN
    /\ At(k, p, "kill_scan")
    /\ \/ /\ q \in Procs /\ proc[q].lock = Free /\ proc[q].pid # thr[p].kpid
          /\ thr' = [thr EXCEPT ![p].idx = q + 1]
          /\ UNCHANGED <<proc, cont>>
       \/ /\ q \in Procs /\ proc[q].lock = Free /\ proc[q].pid = thr[p].kpid
          /\ IF proc[q].state = "SLEEPING"
             THEN /\ proc' = [proc EXCEPT ![q].killed = TRUE, ![q].state = "RUNNABLE"]
                  /\ Enqueue(q)
             ELSE proc' = [proc EXCEPT ![q].killed = TRUE] /\ UNCHANGED cont
          /\ Return(p)
       \/ /\ q \notin Procs
          /\ Return(p)
          /\ UNCHANGED <<proc, cont>>
    /\ UNCHANGED <<lists, wait_lock, cpu>>

-----------------------------------------------------------------------------
(* cfork() and alloccont()                                                 *)

CforkBegin(k, p) ==
    /\ EnterKernel(k, p)
    /\ cont_unused_list # <<>>
    /\ cont_unused_list' = Tail(cont_unused_list)
    /\ thr' = [thr EXCEPT ![p].pc = "cont_init", ![p].cp = Head(cont_unused_list)]
    /\ UNCHANGED <<proc, cont, unused_list, cont_run_list, wait_lock, cpu>>

\* c->lock is taken here; a name that starts with "root" gets no rootdir.
ContInit(k, p) ==
    LET c == thr[p].cp IN
    /\ At(k, p, "cont_init")
    /\ cont[c].lock = Free
    /\ \E isroot \in BOOLEAN :
        /\ cont' = [cont EXCEPT ![c].state = "USED", ![c].nextpid = 1,
                      ![c].proc_list = {}, ![c].run_list = <<>>,
                      ![c].lock = IF isroot THEN Free ELSE k]
        /\ Goto(p, IF isroot THEN "cfork_list" ELSE "cont_namei")
    /\ UNCHANGED <<proc, lists, wait_lock, cpu>>

\* begin_op(); c->rootdir = namei(crootdir); end_op() with c->lock held: the
\* directory is found, is not found, or begin_op() has to sleep.
ContNamei(k, p) ==
    LET c == thr[p].cp IN
    /\ At(k, p, "cont_namei")
    /\ \/ /\ cont' = [cont EXCEPT ![c].rootdir = "held", ![c].lock = Free]
          /\ Goto(p, "cfork_list")
          /\ UNCHANGED <<proc, cpu>>
       \/ /\ NameiFails
          /\ cont' = [cont EXCEPT ![c].rootdir = "null"]
          /\ Return(p)
          /\ UNCHANGED <<proc, cpu>>
       \/ /\ BeginOpSleeps
          /\ proc[p].lock = Free
          /\ proc' = [proc EXCEPT ![p].lock = k, ![p].state = "SLEEPING"]
          /\ UNCHANGED <<cont, thr>>
          /\ wait_lock' = wait_lock
          /\ Sched(k, p)
    /\ UNCHANGED <<lists, wait_lock>>

CforkList(k, p) ==
    /\ At(k, p, "cfork_list")
    /\ cont_run_list' = cont_run_list \cup {thr[p].cp}
    /\ Goto(p, "cfork_fork")
    /\ UNCHANGED <<proc, cont, unused_list, cont_unused_list, wait_lock, cpu>>

-----------------------------------------------------------------------------
Scheduler(k) ==
    \/ PickProc(k) \/ Idle(k) \/ Dispatch(k) \/ SwtchBack(k) \/ Resume(k)
    \/ Yield(k) \/ PanicLoop(k)

Thread(k, p) ==
    \/ \E c \in Conts : ForkPop(k, p, c)
    \/ CforkNoProc(k, p) \/ ForkAlloc(k, p) \/ ForkPages(k, p) \/ ForkNoPages(k, p)
    \/ ForkCopy(k, p) \/ ForkParent(k, p) \/ ForkRun(k, p) \/ ForkPush(k, p)
    \/ FreeSlot(k, p) \/ FreeCont(k, p) \/ FreeDone(k, p)
    \/ ExitBegin(k, p) \/ ExitCount(k, p) \/ ExitIput(k, p) \/ ExitWait(k, p)
    \/ ExitReparent(k, p) \/ ExitWakeup(k, p) \/ ExitZombie(k, p)
    \/ WaitAcquire(k, p) \/ (\E q \in Procs : WaitScan(k, p, q))
    \/ WaitKilled(k, p) \/ WaitSleep(k, p)
    \/ (\E n \in KillPids : KillBegin(k, p, n)) \/ KillScan(k, p)
    \/ CforkBegin(k, p) \/ ContInit(k, p) \/ ContNamei(k, p) \/ CforkList(k, p)

Next == \E k \in CPUs : Scheduler(k) \/ \E p \in Procs : Thread(k, p)

Spec == Init /\ [][Next]_vars

\* The thread of p gets on with its system call.
KernelStep(p) == thr[p].pc # "user" /\ \E k \in CPUs : Thread(k, p)

\* CPUs keep running, a timer tick is long enough for the preempted thread to
\* get on, a pending timer interrupt is taken once interrupts are on, and
\* acquire() gets a lock that becomes free again and again.
Fairness ==
    /\ \A p \in Procs : SF_vars(KernelStep(p))
    /\ \A k \in CPUs :
        /\ WF_vars(PickProc(k)) /\ WF_vars(SwtchBack(k)) /\ WF_vars(Resume(k))
        /\ SF_vars(Dispatch(k)) /\ SF_vars(Yield(k))

FairSpec == Spec /\ Fairness

-----------------------------------------------------------------------------
(* Properties                                                              *)

ProcPcs == {"forkret", "yielded", "slept", "zombie", "fork_fault"}
HoldsWaitPcs == {"exit_reparent", "exit_wakeinit", "exit_wakeup", "exit_zombie",
    "wait_scan", "wait_sleep"}
ContPcs == {"cont_init", "cont_namei", "cfork_list", "cfork_fork"}
ForkPcs == {"fork_alloc", "fork_pages", "fork_copy", "fork_parent", "fork_run",
    "fork_push"}
FreePcs == {"free_slot", "free_cont", "free_done"}
Pcs == ProcPcs \cup HoldsWaitPcs \cup ContPcs \cup ForkPcs \cup FreePcs \cup Preemptible

\* The position in the system call, whether the thread runs or was preempted.
Where(p) == IF thr[p].pc = "yielded" THEN thr[p].ret ELSE thr[p].pc

ProcStates == {"UNUSED", "USED", "SLEEPING", "RUNNABLE", "RUNNING", "ZOMBIE"}
Locks == CPUs \cup {Free}
ProcRec == [state : ProcStates, pid : Nat \cup {HackPid},
            parent : Procs \cup {NoProc}, chan : Procs \cup {NoProc},
            killed : BOOLEAN, contp : Conts \cup {NoCont}, lock : Locks]
ContRec == [state : {"UNUSED", "USED"}, nextpid : Nat, proc_list : SUBSET Procs,
            run_list : Seq(Procs), rootdir : {"null", "held", "put", "leaked"},
            lock : Locks]
CpuRec == [pc : {"idle"}, proc : {NoProc}, next : {NoProc}]
    \cup [pc : {"picked", "ASSERT"}, proc : {NoProc}, next : Procs]
    \cup [pc : {"run", "back", "sched locks", "kerneltrap", "init exiting"},
          proc : Procs, next : {NoProc}]
ThrRec == [pc : Pcs, ret : Preemptible, np : Procs \cup {NoProc},
           cp : Conts \cup {NoCont}, idx : 0..(NPROC + 1), kpid : Int]

\* Locks belong to CPUs or nobody, a CPU has a process exactly between
\* scheduler()'s two swtch()es, and the locals a position uses are set.
TypeOK ==
    /\ proc \in [Procs -> ProcRec] /\ cont \in [Conts -> ContRec]
    /\ cpu \in [CPUs -> CpuRec] /\ thr \in [Procs -> ThrRec]
    /\ unused_list \in Seq(Procs) /\ cont_unused_list \in Seq(Conts)
    /\ cont_run_list \subseteq Conts
    /\ wait_lock \in Locks
    /\ \A p \in Procs :
        /\ Where(p) \in ForkPcs \cup FreePcs => thr[p].np \in Procs
        /\ Where(p) \in ForkPcs \cup ContPcs => thr[p].cp \in Conts

\* No process is on two CPUs: yield(), sleep() and exit() hand p->lock over to
\* scheduler(), so that nobody can pick p before it is off its kernel stack.
OneCPU ==
    \A k, l \in CPUs : cpu[k].proc = cpu[l].proc /\ cpu[k].proc # NoProc => k = l

\* scheduler()'s ASSERT(p->state == RUNNABLE) never fails.
AssertRunnable == \A k \in CPUs : cpu[k].pc # "ASSERT"

\* The places from which a runnable q will reach a CPU: run list entries, a
\* scheduler() that has picked it, a fork() about to push it.
RunPlaces(q) ==
    LET L == {x \in Conts \X (1..NPROC) : LET l == cont[x[1]].run_list IN
                 x[2] <= Len(l) /\ l[x[2]] = q}
        P == {k \in CPUs : cpu[k].next = q}
        F == {p \in Procs : Where(p) = "fork_push" /\ thr[p].np = q}
    IN Cardinality(L) + Cardinality(P) + Cardinality(F)


HoldsProc(k) == \E q \in Procs : proc[q].lock = k

\* The spinlocks are ordered: wait_lock is taken while holding nothing, a
\* p->lock while holding no other ("must be called without any p->lock",
\* wakeup()), so CPUs spinning in acquire() never form a cycle.  A thread that
\* can be interrupted holds neither, so a lock holder is never preempted.
LockOrder ==
    \A k \in CPUs :
        /\ cpu[k].pc \in {"idle", "picked"} => wait_lock # k /\ ~HoldsProc(k)
        /\ cpu[k].pc = "run" /\ thr[cpu[k].proc].pc \in Preemptible =>
               wait_lock # k /\ ~HoldsProc(k)
        /\ cpu[k].pc = "run" /\ thr[cpu[k].proc].pc \in HoldsWaitPcs =>
               wait_lock = k /\ ~HoldsProc(k)

\* A parent asleep in wait() has no zombie child, except while the exit() that
\* is about to wake it holds wait_lock: sleep() and exit() lose no wakeup.
NoLostExit ==
    wait_lock = Free =>
        \A p, q \in Procs : ~ /\ proc[p].state = "SLEEPING" /\ proc[p].chan = p
                              /\ proc[q].state = "ZOMBIE" /\ proc[q].parent = p

\* Outside exit() every started process but init has a parent that is neither
\* freed nor a zombie, so somebody can still wait() for it.
NoOrphan ==
    wait_lock = Free =>
        \A q \in Procs \ {initproc} : LET r == proc[q].parent IN
            /\ proc[q].state \notin {"UNUSED", "USED"} => r # NoProc
            /\ r # NoProc => proc[r].state \notin {"UNUSED", "ZOMBIE"}

\* Two live processes of one container never have the same pid, apart from the
\* orphans that reparent() has given HackPid.
PidUnique ==
    \A p, q \in Procs :
        /\ p # q /\ proc[p].state # "UNUSED" /\ proc[q].state # "UNUSED"
        /\ proc[p].contp # NoCont /\ proc[p].contp = proc[q].contp
        /\ proc[p].pid = proc[q].pid
        => proc[p].pid = HackPid

\* A container's proc_list is exactly its live processes, and its run list
\* holds only processes of that container.
ContainerLists ==
    \A c \in Conts :
        /\ cont[c].proc_list = {q \in Procs : proc[q].contp = c /\ proc[q].state # "UNUSED"}
        /\ \A i \in DOMAIN cont[c].run_list : cont[c].run_list[i] \in cont[c].proc_list

\* A container is back on cont_unused_list only with no process left, and at
\* most once: freeproc() frees it once, after its last process.
ContainerFreed ==
    \A i, j \in DOMAIN cont_unused_list : LET c == cont_unused_list[i] IN
        /\ c = cont_unused_list[j] => i = j
        /\ cont[c].proc_list = {}
        /\ c \notin cont_run_list

\* Once exit() has dropped the container's root directory, the exiting process
\* is the only one that can still belong to the container.
RootdirPutLast ==
    \A c \in Conts :
        cont[c].rootdir = "put" => \A p, q \in cont[c].proc_list : p = q

\* Containers and processes agree through cfork(), fork(), exit() and freeproc(): lists,
\* pids, the one freeing after the last process, and the root directory until then.
ContainersAgree == ContainerLists /\ PidUnique /\ ContainerFreed /\ RootdirPutLast

\* A zombie is freed only by the wait() of its own parent, under wait_lock.
OnlyParentReaps ==
    [][\A q \in Procs :
         proc[q].state = "ZOMBIE" /\ proc'[q].state # "ZOMBIE" =>
            /\ proc'[q].state = "UNUSED"
            /\ \E k \in CPUs : wait_lock = k /\ cpu[k].proc = proc[q].parent]_vars

\* A runnable process of the root container eventually runs: the run list is
\* served in order and every running process is preempted.
RootRuns ==
    \A p \in Procs : (proc[p].state = "RUNNABLE" /\ proc[p].contp = cont_root)
                      ~> (proc[p].state = "RUNNING")

\* A parent inside wait() that has a zombie child returns from wait().
WaitReturns ==
    \A p, q \in Procs :
        /\ Where(p) \in {"wait_acquire", "wait_scan", "wait_sleep", "slept"}
        /\ proc[q].state = "ZOMBIE" /\ proc[q].parent = p
        ~> Where(p) = "user"

-----------------------------------------------------------------------------
(* What comments and programs of the repository say of the kernel and the  *)
(* code does not do: the actions above, which follow the code, violate     *)
(* each of these (README, section 5).                                      *)

\* allocproc(): "if ... a memory allocation fails, return 0" (proc.c:287).
AllocFailureReturns == \A k \in CPUs : cpu[k].pc # "kerneltrap"

\* sched(): "Must hold only p->lock" (proc.c:784).
SchedHoldsOnlyPLock == \A k \in CPUs : cpu[k].pc # "sched locks"

\* alloccont() works "just like allocproc()" (proc.c:108), which unlocks the
\* slot before it fails: no c->lock stays held in user space.
UserHoldsNoLock ==
    \A k \in CPUs : cpu[k].pc = "run" /\ thr[cpu[k].proc].pc = "user" =>
        \A c \in Conts : cont[c].lock # k

\* "If this is the last process in a container we need to release our access
\* to the container root directory inode" (proc.c:645).
RootdirReleased == \A c \in Conts : cont[c].rootdir # "leaked"

\* "We do this when there are no more processes" (proc.c:358): an
\* empty container is being set up or torn down by some thread.
NoEmptyContainer ==
    \A c \in cont_run_list :
        cont[c].proc_list = {} =>
            \E p \in Procs :
                \/ thr[p].cp = c
                \/ (Where(p) = "free_cont" /\ proc[thr[p].np].contp = c)

\* cstart is to "start a process in a new container" (user/cstart.c:1): a
\* runnable process of a container eventually runs.
ContainerStarts ==
    \A p \in Procs : (proc[p].state = "RUNNABLE" /\ proc[p].contp \in Conts \ {cont_root})
                      ~> (proc[p].state = "RUNNING")
=============================================================================
