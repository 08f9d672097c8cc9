------------------------------ MODULE ProcInv -------------------------------
(***************************************************************************)
(* The inductive invariant behind OneCPU and AssertRunnable: who may touch *)
(* a process slot, told from the slot's state and lock, the CPUs that have *)
(* it and the positions of the threads that handle it.                     *)
(***************************************************************************)
EXTENDS Proc

\* Positions where the thread's local np names a slot it is responsible for.
OwnPcs == ForkPcs \cup {"free_slot"}

\* Positions where the thread holds the lock of the slot np.
LockedPcs == {"fork_pages", "fork_copy"} \cup FreePcs

OnRunList(q) ==
    \E c \in Conts : \E i \in 1..Len(cont[c].run_list) : cont[c].run_list[i] = q

\* A process a CPU has is running, or that CPU holds its lock.
CpuOwns ==
    \A k \in CPUs : cpu[k].proc # NoProc =>
        proc[cpu[k].proc].state = "RUNNING" \/ proc[cpu[k].proc].lock = k

\* The process that executes is in state RUNNING.
RunIsRunning ==
    \A k \in CPUs : cpu[k].pc = "run" => proc[cpu[k].proc].state = "RUNNING"

\* p->lock is handed over at swtch(), in both directions.
LockHandover ==
    \A k \in CPUs :
        \/ cpu[k].pc = "back"
        \/ cpu[k].pc = "run" /\ thr[cpu[k].proc].pc \in {"forkret", "yielded", "slept"}
        => proc[cpu[k].proc].lock = k

\* A thread that works on a locked slot is on a CPU, which owns that lock.
SlotLocked ==
    \A p \in Procs : thr[p].pc \in LockedPcs =>
        \E k \in CPUs : /\ cpu[k].pc = "run" /\ cpu[k].proc = p
                        /\ proc[thr[p].np].lock = k

\* The state s of the slot that a fork(), wait() or freeproc() at w is working on.
SlotOk(w, s) ==
    /\ w = "fork_alloc" => s = "UNUSED"
    /\ w \in {"fork_pages", "fork_copy", "fork_parent", "fork_run"} => s = "USED"
    /\ w = "fork_push" => s = "RUNNABLE"
    /\ w = "free_slot" => s \in {"USED", "ZOMBIE"}
    /\ w \in {"free_cont", "free_done"} => s = "UNUSED"
SlotState == \A p \in Procs : SlotOk(Where(p), proc[thr[p].np].state)

\* Started processes, and slots past allocproc(), belong to a container.
HasContainer ==
    /\ \A q \in Procs : proc[q].state \notin {"UNUSED", "USED"} => proc[q].contp \in Conts
    /\ \A p \in Procs :
        Where(p) \in {"fork_copy", "fork_parent", "fork_run", "free_slot", "free_cont"} =>
            proc[thr[p].np].contp \in Conts

\* No two threads are responsible for one slot.
SlotOwners ==
    \A p, r \in Procs :
        Where(p) \in OwnPcs /\ Where(r) \in OwnPcs /\ thr[p].np = thr[r].np => p = r

\* unused_list holds unused slots, each once, and none that fork() has taken.
UnusedList ==
    /\ \A i \in 1..Len(unused_list) : proc[unused_list[i]].state = "UNUSED"
    /\ \A i, j \in 1..Len(unused_list) : unused_list[i] = unused_list[j] => i = j
    /\ \A p \in Procs : \A i \in 1..Len(unused_list) :
        Where(p) = "fork_alloc" => unused_list[i] # thr[p].np

\* The run lists hold runnable processes.
QueuedRunnable == \A q \in Procs : OnRunList(q) => proc[q].state = "RUNNABLE"

\* No process is on the run lists twice.
QueuedOnce ==
    \A c, d \in Conts :
        \A i \in 1..Len(cont[c].run_list), j \in 1..Len(cont[d].run_list) :
            cont[c].run_list[i] = cont[d].run_list[j] => c = d /\ i = j

\* A process that scheduler() has picked is runnable, off the run lists and
\* picked by no other CPU.
Picked ==
    \A k \in CPUs : cpu[k].pc = "picked" =>
        /\ proc[cpu[k].next].state = "RUNNABLE"
        /\ ~OnRunList(cpu[k].next)
        /\ \A l \in CPUs : cpu[l].pc = "picked" /\ cpu[l].next = cpu[k].next => l = k

\* A process that fork() is about to push is neither queued nor picked.
Pushing ==
    \A p \in Procs : Where(p) = "fork_push" =>
        /\ ~OnRunList(thr[p].np)
        /\ \A k \in CPUs : cpu[k].pc = "picked" => cpu[k].next # thr[p].np

\* The inductive invariant: each slot has one owner, whichever of scheduler(),
\* fork(), wait() and the process itself that is.
SlotInv ==
    /\ TypeOK /\ OneCPU /\ AssertRunnable
    /\ CpuOwns /\ RunIsRunning /\ LockHandover /\ SlotLocked
    /\ SlotState /\ HasContainer /\ SlotOwners
    /\ UnusedList /\ QueuedRunnable /\ QueuedOnce /\ Picked /\ Pushing
=============================================================================
