----------------------------- MODULE ProcProofs -----------------------------
(***************************************************************************)
(* Every action of Proc keeps SlotInv; hence the kernel never breaks the   *)
(* type invariant, never runs a process on two CPUs and never fails        *)
(* scheduler()'s assertion, for any number of process slots, containers    *)
(* and CPUs, and whatever fails.                                           *)
(***************************************************************************)
EXTENDS ProcSteps

-----------------------------------------------------------------------------
(* Types.                                                                  *)

\* What a step of p's thread has to show for TypeOK'.
TypeStep(p) ==
    /\ proc' \in [Procs -> ProcRec] /\ cont' \in [Conts -> ContRec]
    /\ cpu' \in [CPUs -> CpuRec] /\ thr' \in [Procs -> ThrRec]
    /\ unused_list' \in Seq(Procs) /\ cont_unused_list' \in Seq(Conts)
    /\ cont_run_list' \subseteq Conts /\ wait_lock' \in Locks
    /\ \A r \in Procs : r # p => thr'[r] = thr[r] \/ thr'[r].pc = "forkret"
    /\ Where(p)' \in ForkPcs \cup FreePcs => thr'[p].np \in Procs
    /\ Where(p)' \in ForkPcs \cup ContPcs => thr'[p].cp \in Conts

\* A step with these effects keeps the type invariant.
LEMMA TypeKept ==
    ASSUME TypeOK, NEW p \in Procs, TypeStep(p)
    PROVE  TypeOK'
<1>1. \A r \in Procs : r # p => (thr'[r] = thr[r] /\ Where(r)' = Where(r)) \/ Where(r)' = "forkret"
   BY DEF TypeStep, Where
<1>2. ASSUME NEW r \in Procs
      PROVE  /\ Where(r)' \in ForkPcs \cup FreePcs => thr'[r].np \in Procs
             /\ Where(r)' \in ForkPcs \cup ContPcs => thr'[r].cp \in Conts
  <2>1. CASE r = p
     BY <2>1 DEF TypeStep
  <2>2. CASE r # p
     BY <2>2, <1>1 DEF TypeOK, ForkPcs, FreePcs, ContPcs
  <2> QED BY <2>1, <2>2
<1> QED BY <1>2 DEF TypeOK, TypeStep

\* Positions at which a thread works on no slot and is not at a swtch().
Harmless == Pcs \ (OwnPcs \cup FreePcs \cup HandoverPcs)

\* Exit, wait, kill, the container part of cfork and user space are harmless.
LEMMA HarmlessFacts ==
    /\ {"user", "zombie", "cfork_fork", "cfork_list", "cont_init", "cont_namei",
        "exit_count", "exit_iput", "exit_wait", "exit_reparent", "exit_wakeinit",
        "exit_wakeup", "exit_zombie", "wait_acquire", "wait_scan", "wait_sleep",
        "kill_scan"} \subseteq Harmless
    /\ Harmless \subseteq Pcs
    /\ Pcs \cap ContPcs \subseteq {"cont_init", "cont_namei", "cfork_list", "cfork_fork"}
    /\ \A l \in Harmless : /\ l \notin OwnPcs \cup FreePcs \cup HandoverPcs \cup LockedPcs
                           /\ l \notin ForkPcs /\ l # "yielded"
BY DEF Harmless, Pcs, OwnPcs, FreePcs, HandoverPcs, ForkPcs, ContPcs, ProcPcs,
       HoldsWaitPcs, Preemptible, LockedPcs

\* The thread of p moves to a harmless position.
ThrMoves(p) ==
    /\ thr' \in [Procs -> ThrRec] /\ SameThrBut(p)
    /\ thr'[p].pc \in Harmless
    /\ thr'[p].pc \in ContPcs => thr'[p].cp \in Conts

\* Going to a harmless position is a harmless move.
LEMMA GotoMoves ==
    ASSUME TypeOK, NEW p \in Procs, NEW l \in Harmless, Goto(p, l),
           l \in ContPcs => thr[p].cp \in Conts
    PROVE  ThrMoves(p)
  BY Typed, HarmlessFacts, SetThrPc DEF Goto, ThrMoves, SameThrBut

\* A thread with cleared locals is well typed.
LEMMA AtRestType == \A l \in Pcs : AtRest(l) \in ThrRec
BY ConstAssumption DEF AtRest, ThrRec, Preemptible, NoProc, NoCont

\* Returning to user space is a harmless move.
LEMMA ReturnMoves ==
    ASSUME TypeOK, NEW p \in Procs, Return(p)
    PROVE  ThrMoves(p)
<1>1. thr \in [Procs -> ThrRec] /\ "user" \in Pcs
   BY Typed, HarmlessFacts
<1>2. AtRest("user") \in ThrRec /\ AtRest("user").pc = "user"
   BY <1>1, AtRestType DEF AtRest
<1>3. thr' = [thr EXCEPT ![p] = AtRest("user")]
   BY DEF Return
<1> HIDE DEF AtRest
<1>4. thr' \in [Procs -> ThrRec] /\ thr'[p].pc = "user" /\ SameThrBut(p)
   BY <1>1, <1>2, <1>3 DEF SameThrBut
<1> QED BY <1>4, HarmlessFacts DEF ThrMoves, ContPcs

-----------------------------------------------------------------------------
(* Actions that leave every slot alone.                                    *)

QuietStep(k, p) ==
    /\ cpu[k].pc = "run" /\ cpu[k].proc = p
    /\ proc' \in [Procs -> ProcRec] /\ (\A r \in Procs : SameProc(r))
    /\ cont' \in [Conts -> ContRec] /\ ShrinkRunLists
    /\ ThrMoves(p)
    /\ \/ cpu' = cpu
       \/ \E x \in {"kerneltrap", "init exiting"} : cpu' = [cpu EXCEPT ![k].pc = x]
    /\ unused_list' = unused_list /\ cont_unused_list' \in Seq(Conts)
    /\ cont_run_list' \subseteq Conts /\ wait_lock' \in Locks

\* Setting the pc of a CPU that has a process.
LEMMA SetCpuPc ==
    ASSUME TypeOK, NEW k \in CPUs, cpu[k].pc = "run",
           NEW x \in {"run", "back", "sched locks", "kerneltrap", "init exiting"},
           cpu' = [cpu EXCEPT ![k].pc = x]
    PROVE  /\ cpu' \in [CPUs -> CpuRec] /\ SameCpuBut(k)
           /\ cpu'[k].pc = x /\ cpu'[k].proc = cpu[k].proc
<1> DEFINE R == [pc : {"run", "back", "sched locks", "kerneltrap", "init exiting"},
                 proc : Procs, next : {NoProc}]
<1>0. cpu \in [CPUs -> CpuRec]
   BY Typed, Zenon
<1>1. cpu[k] \in R
   BY <1>0, Zenon DEF CpuRec
<1>2. [cpu[k] EXCEPT !.pc = x] \in R
   BY <1>1, Zenon
<1>3. [cpu[k] EXCEPT !.pc = x] \in CpuRec
   BY <1>2, Zenon DEF CpuRec
<1>4. cpu' = [cpu EXCEPT ![k] = [cpu[k] EXCEPT !.pc = x]]
   BY <1>0, Zenon
<1>5. cpu' \in [CPUs -> CpuRec]
   BY <1>0, <1>3, <1>4, Zenon
<1> QED BY <1>0, <1>1, <1>5, Zenon DEF SameCpuBut

\* A quiet step keeps the slot invariant.
LEMMA Quiet ==
    ASSUME SlotInv, NEW k \in CPUs, NEW p \in Procs, QuietStep(k, p)
    PROVE  SlotInv'
<1>1. TypeOK /\ RunIsRunning
   BY DEF SlotInv
<1>2. /\ cpu' \in [CPUs -> CpuRec] /\ SameCpuBut(k) /\ cpu'[k].proc = p
      /\ cpu'[k].pc \in {"run", "kerneltrap", "init exiting"}
  <2>1. cpu \in [CPUs -> CpuRec] /\ cpu[k].pc = "run" /\ cpu[k].proc = p
     BY <1>1, Typed, Zenon DEF QuietStep
  <2>2. CASE cpu' = cpu
     BY <2>1, <2>2, Zenon DEF SameCpuBut
  <2>3. ASSUME NEW x \in {"kerneltrap", "init exiting"}, cpu' = [cpu EXCEPT ![k].pc = x]
        PROVE  /\ cpu' \in [CPUs -> CpuRec] /\ SameCpuBut(k) /\ cpu'[k].proc = p
               /\ cpu'[k].pc \in {"run", "kerneltrap", "init exiting"}
     BY <1>1, <2>1, <2>3, SetCpuPc, Zenon
  <2> QED BY <2>2, <2>3, Zenon DEF QuietStep
<1>3. /\ Where(p)' = thr'[p].pc /\ thr'[p].pc \notin OwnPcs \cup FreePcs
      /\ thr'[p].pc \notin LockedPcs /\ thr'[p].pc \notin HandoverPcs
      /\ thr'[p].pc \notin ForkPcs
   BY HarmlessFacts, Zenon DEF QuietStep, ThrMoves, Where
<1>4. TypeOK'
  <2>1. TypeStep(p)
     BY <1>1, <1>2, <1>3, Zenon DEF TypeStep, QuietStep, ThrMoves, SameThrBut, TypeOK
  <2> QED BY <1>1, <2>1, TypeKept, Zenon
<1>5. proc[p].state = "RUNNING"
   BY <1>1, Zenon DEF RunIsRunning, QuietStep
<1>6. MoveStep(k, p, p)
   BY <1>2, <1>3, <1>5, Zenon DEF QuietStep, ThrMoves, MoveStep, SameProcBut, SameProc
<1> QED BY <1>4, <1>6, Move

\* A step that leaves states, locks and run lists alone keeps what Quiet asks.
LEMMA Keeps ==
    ASSUME TypeOK
    PROVE  /\ proc' = proc => proc' \in [Procs -> ProcRec] /\ \A r \in Procs : SameProc(r)
           /\ cont' = cont => cont' \in [Conts -> ContRec] /\ ShrinkRunLists
           /\ cont_unused_list' = cont_unused_list => cont_unused_list' \in Seq(Conts)
           /\ cont_run_list' = cont_run_list => cont_run_list' \subseteq Conts
           /\ wait_lock' = wait_lock => wait_lock' \in Locks
           /\ wait_lock' \in CPUs \cup {Free} => wait_lock' \in Locks
           /\ thr \in [Procs -> ThrRec] /\ proc \in [Procs -> ProcRec]
           /\ cont \in [Conts -> ContRec]
BY DEF TypeOK, SameProc, ShrinkRunLists, Locks

\* A thread that keeps its position while its CPU panics.
LEMMA StayMoves ==
    ASSUME TypeOK, NEW p \in Procs, thr[p].pc \in Harmless, thr' = thr
    PROVE  ThrMoves(p)
  BY HarmlessFacts DEF TypeOK, Where, ThrMoves, SameThrBut

\* A thread that sets its loop index on the way.
LEMMA IdxMoves ==
    ASSUME TypeOK, NEW p \in Procs, NEW l \in Harmless \ ContPcs, NEW n \in 0..(NPROC + 1),
           thr' = [thr EXCEPT ![p].pc = l, ![p].idx = n]
    PROVE  ThrMoves(p)
<1>1. thr \in [Procs -> ThrRec] /\ l \in Pcs
   BY Typed, HarmlessFacts
<1>2. thr' \in [Procs -> ThrRec]
   BY <1>1, SetThrPc, SetThrIdx, Zenon
<1> QED BY <1>1, <1>2 DEF ThrMoves, SameThrBut

\* Going round a loop over the process table is a harmless move.
LEMMA NextIdxMoves ==
    ASSUME TypeOK, NEW p \in Procs, thr[p].pc \in Harmless \ ContPcs, NEW n \in 0..(NPROC + 1),
           thr' = [thr EXCEPT ![p].idx = n]
    PROVE  ThrMoves(p)
  BY Typed, SetThrIdx DEF ThrMoves, SameThrBut

\* exit() up to its wakeups: only parent, pid and the container change.
LEMMA ExitKept ==
    ASSUME SlotInv, NEW k \in CPUs, NEW p \in Procs,
           \/ ExitBegin(k, p) \/ ExitCount(k, p) \/ ExitIput(k, p) \/ ExitWait(k, p)
           \/ ExitReparent(k, p)
    PROVE  SlotInv'
<1>t. TypeOK /\ HasContainer /\ RunIsRunning
   BY DEF SlotInv
<1>h. /\ {"user", "exit_count", "exit_iput", "exit_wait", "exit_reparent", "exit_wakeinit",
          "exit_wakeup"} \subseteq Harmless \ ContPcs
   BY HarmlessFacts DEF ContPcs
<1>1. CASE ExitBegin(k, p)
  <2>1. ThrMoves(p)
     BY <1>t, <1>h, <1>1, GotoMoves, StayMoves, Zenon DEF ExitBegin, At
  <2>2. QuietStep(k, p)
     BY <2>1, <1>t, <1>1, Keeps, Zenon DEF QuietStep, ExitBegin, At, Panic, lists
  <2> QED BY <2>2, Quiet
<1>2. CASE ExitCount(k, p)
  BY <1>t, <1>h, <1>2, GotoMoves, Keeps, Quiet, Zenon DEF ExitCount, QuietStep, At, lists
<1>3. CASE ExitIput(k, p)
  <2> DEFINE c == proc[p].contp
  <2>0. c \in Conts /\ thr[p].pc = "exit_iput"
     BY <1>t, <1>3, Zenon DEF HasContainer, RunIsRunning, ExitIput, At
  <2>1. ThrMoves(p)
     BY <2>0, <1>t, <1>h, <1>3, GotoMoves, StayMoves, Zenon DEF ExitIput
  <2>2. cont' \in [Conts -> ContRec] /\ ShrinkRunLists
    <3>1. CASE cont' = cont
       BY <3>1, <1>t, Keeps, Zenon
    <3>2. CASE cont' = [cont EXCEPT ![c].rootdir = "put"]
      <4>1. cont \in [Conts -> ContRec] /\ "put" \in {"null", "held", "put", "leaked"}
         BY <1>t, Typed
      <4>2. cont' \in [Conts -> ContRec]
         BY <4>1, <3>2, <2>0, SetContRootdir, Zenon
      <4> QED BY <4>1, <4>2, <3>2, <2>0 DEF ShrinkRunLists
    <3> QED BY <3>1, <3>2, <1>3, Zenon DEF ExitIput
  <2>3. QuietStep(k, p)
     BY <2>1, <2>2, <1>t, <1>3, Keeps, Zenon DEF QuietStep, ExitIput, At, Panic, lists
  <2> QED BY <2>3, Quiet
<1>4. CASE ExitWait(k, p)
  BY <1>t, <1>h, <1>4, GotoMoves, Keeps, Quiet, Zenon DEF ExitWait, QuietStep, At, lists
<1>5. CASE ExitReparent(k, p)
  <2>0. 1 \in 0..(NPROC + 1)
     BY ConstAssumption
  <2>1. ThrMoves(p)
     BY <2>0, <1>t, <1>h, <1>5, IdxMoves, Zenon DEF ExitReparent
  <2>2. proc' \in [Procs -> ProcRec] /\ \A r \in Procs : SameProc(r)
    <3>1. CASE proc' = proc
       BY <3>1, <1>t, Keeps, Zenon
    <3>2. ASSUME NEW q \in Procs,
                 proc' = [proc EXCEPT ![q].parent = initproc,
                    ![q].pid = IF proc[q].contp # cont_root THEN HackPid ELSE @]
          PROVE  proc' \in [Procs -> ProcRec] /\ \A r \in Procs : SameProc(r)
      <4> DEFINE n == IF proc[q].contp # cont_root THEN HackPid ELSE proc[q].pid
      <4>1. proc \in [Procs -> ProcRec] /\ initproc \in Procs \cup {NoProc}
         BY <1>t, Typed, ConstAssumption DEF initproc, Procs
      <4>2. n \in Nat \cup {HackPid}
         BY <4>1 DEF ProcRec
      <4>3. proc' = [proc EXCEPT ![q].parent = initproc, ![q].pid = n]
         BY <3>2, <4>1
      <4> HIDE DEF n
      <4>4. proc' \in [Procs -> ProcRec]
         BY <4>1, <4>2, <4>3, SetProcParent, SetProcPid, Zenon
      <4> QED BY <4>1, <4>3, <4>4 DEF SameProc
    <3> QED BY <3>1, <3>2, <1>5, Zenon DEF ExitReparent
  <2>3. QuietStep(k, p)
     BY <2>1, <2>2, <1>t, <1>5, Keeps, Zenon DEF QuietStep, ExitReparent, At, lists
  <2> QED BY <2>3, Quiet
<1> QED BY <1>1, <1>2, <1>3, <1>4, <1>5, Zenon

-----------------------------------------------------------------------------
(* Waking up a sleeping process.                                           *)

WakeStep(k, p, q) ==
    /\ cpu[k].pc = "run" /\ cpu[k].proc = p /\ cpu' = cpu
    /\ proc[q].state = "SLEEPING" /\ proc[q].lock = Free
    /\ \/ proc' = [proc EXCEPT ![q].state = "RUNNABLE"]
       \/ proc' = [proc EXCEPT ![q].killed = TRUE, ![q].state = "RUNNABLE"]
    /\ cont' = [cont EXCEPT ![proc[q].contp].run_list = Append(@, q)]
    /\ ThrMoves(p) /\ UNCHANGED <<lists, wait_lock>>

\* An append to a run list, as the type and as PushesOn describe it.
LEMMA PushTyped ==
    ASSUME TypeOK, NEW c \in Conts, NEW q \in Procs,
           cont' = [cont EXCEPT ![c].run_list = Append(@, q)]
    PROVE  cont' \in [Conts -> ContRec] /\ PushesOn(c, q)
<1> DEFINE s == Append(cont[c].run_list, q)
<1>1. cont \in [Conts -> ContRec] /\ s \in Seq(Procs)
   BY Typed, RunListTyped, AppendFacts
<1>2. cont' = [cont EXCEPT ![c].run_list = s]
   BY <1>1
<1>3. PushesOn(c, q)
   BY <1>1, <1>2 DEF PushesOn
<1> HIDE DEF s
<1>4. cont' \in [Conts -> ContRec]
   BY <1>1, <1>2, SetContRunList
<1> QED BY <1>3, <1>4

\* A wakeup() keeps the slot invariant.
LEMMA WakeKept ==
    ASSUME SlotInv, NEW k \in CPUs, NEW p \in Procs, NEW q \in Procs, WakeStep(k, p, q)
    PROVE  SlotInv'
<1>1. TypeOK /\ RunIsRunning /\ HasContainer
   BY DEF SlotInv
<1>2. proc[p].state = "RUNNING" /\ proc[q].contp \in Conts /\ p # q
   BY <1>1 DEF RunIsRunning, WakeStep, HasContainer
<1>3. /\ Where(p)' = thr'[p].pc /\ thr'[p].pc \notin OwnPcs \cup FreePcs
      /\ thr'[p].pc \notin LockedPcs /\ thr'[p].pc \notin HandoverPcs
      /\ thr'[p].pc \notin ForkPcs
   BY HarmlessFacts DEF WakeStep, ThrMoves, Where
<1>4. cont' \in [Conts -> ContRec] /\ PushesOn(proc[q].contp, q)
   BY <1>1, <1>2, PushTyped, Zenon DEF WakeStep
<1>5. /\ proc' \in [Procs -> ProcRec] /\ SameProcBut(q) /\ proc'[q].state = "RUNNABLE"
      /\ proc'[q].lock = proc[q].lock /\ proc'[q].contp = proc[q].contp
  <2>1. proc \in [Procs -> ProcRec] /\ "RUNNABLE" \in ProcStates /\ TRUE \in BOOLEAN
     BY <1>1, Typed DEF ProcStates
  <2>2. CASE proc' = [proc EXCEPT ![q].state = "RUNNABLE"]
    BY <2>1, <2>2, SetProcState DEF SameProcBut, SameProc
  <2>3. CASE proc' = [proc EXCEPT ![q].killed = TRUE, ![q].state = "RUNNABLE"]
    <3>1. proc' \in [Procs -> ProcRec]
       BY <2>1, <2>3, SetProcState, SetProcKilled, Zenon
    <3> QED BY <2>1, <2>3, <3>1 DEF SameProcBut, SameProc
  <2> QED BY <2>2, <2>3, Zenon DEF WakeStep
<1>6. TypeOK'
  <2>1. TypeStep(p)
     BY <1>1, <1>3, <1>4, <1>5 DEF TypeStep, WakeStep, ThrMoves, SameThrBut, TypeOK, lists
  <2> QED BY <1>1, <2>1, TypeKept, Zenon
<1>7. proc'[p].state = "RUNNING"
   BY <1>2, <1>5, Zenon DEF SameProcBut, SameProc
<1>8. SameCpuBut(k) /\ SameThrBut(p) /\ unused_list' = unused_list
   BY DEF WakeStep, SameCpuBut, ThrMoves, lists
<1>9. MoveStep(k, p, q)
   BY <1>2, <1>3, <1>4, <1>5, <1>7, <1>8, Zenon DEF WakeStep, MoveStep
<1> QED BY <1>6, <1>9, Move

\* The wakeups of reparent() and exit() keep the slot invariant.
LEMMA ExitWakeupKept ==
    ASSUME SlotInv, NEW k \in CPUs, NEW p \in Procs, ExitWakeup(k, p)
    PROVE  SlotInv'
<1> DEFINE q == thr[p].idx
<1>t. TypeOK
   BY DEF SlotInv
<1>h. {"exit_wakeinit", "exit_wakeup", "exit_zombie", "exit_reparent"} \subseteq Harmless \ ContPcs
   BY HarmlessFacts DEF ContPcs
<1>a. /\ cpu[k].pc = "run" /\ cpu[k].proc = p /\ cpu' = cpu
      /\ thr[p].pc \in {"exit_wakeinit", "exit_wakeup"} /\ UNCHANGED <<lists, wait_lock>>
   BY DEF ExitWakeup, At
<1>1. CASE /\ q \in Procs
           /\ WakeupVisit(p, q, IF thr[p].pc = "exit_wakeup" THEN proc[p].parent ELSE initproc)
           /\ thr' = [thr EXCEPT ![p].idx = q + 1]
  <2>1. q + 1 \in 0..(NPROC + 1)
     BY <1>1, ConstAssumption DEF Procs
  <2>2. ThrMoves(p)
     BY <2>1, <1>1, <1>t, <1>h, <1>a, NextIdxMoves, Zenon
  <2>3. CASE proc' = proc /\ cont' = cont
    BY <2>2, <2>3, <1>t, <1>a, Keeps, Quiet, Zenon DEF QuietStep, lists
  <2>4. CASE q # p /\ proc[q].state = "SLEEPING" /\ proc[q].lock = Free /\ Wake(q)
    <3>1. WakeStep(k, p, q)
       BY <2>2, <2>4, <1>1, <1>a, Zenon DEF WakeStep, Wake, Enqueue
    <3> QED BY <3>1, <1>1, WakeKept
  <2> QED BY <2>3, <2>4, <1>1, Zenon DEF WakeupVisit
<1>2. CASE /\ thr' = [thr EXCEPT ![p].idx = 0,
                        ![p].pc = IF thr[p].pc = "exit_wakeup" THEN "exit_zombie" ELSE "exit_reparent"]
           /\ proc' = proc /\ cont' = cont
  <2> DEFINE l == IF thr[p].pc = "exit_wakeup" THEN "exit_zombie" ELSE "exit_reparent"
  <2>1. thr \in [Procs -> ThrRec] /\ l \in Pcs /\ l \in Harmless \ ContPcs /\ 0 \in 0..(NPROC + 1)
     BY <1>t, <1>h, Typed, HarmlessFacts, ConstAssumption
  <2>2. thr' = [thr EXCEPT ![p].idx = 0, ![p].pc = l]
     BY <1>2
  <2> HIDE DEF l
  <2>3. thr' \in [Procs -> ThrRec]
     BY <2>1, <2>2, SetThrPc, SetThrIdx, Zenon
  <2>4. ThrMoves(p)
     BY <2>1, <2>2, <2>3 DEF ThrMoves, SameThrBut
  <2>5. QuietStep(k, p)
     BY <2>4, <1>2, <1>t, <1>a, Keeps, Zenon DEF QuietStep, lists
  <2> QED BY <2>5, Quiet, Zenon
<1> QED BY <1>1, <1>2, Zenon DEF ExitWakeup

\* kill() marks a process and wakes it like wakeup() does.
LEMMA KillKept ==
    ASSUME SlotInv, NEW k \in CPUs, NEW p \in Procs,
           (\E n \in KillPids : KillBegin(k, p, n)) \/ KillScan(k, p)
    PROVE  SlotInv'
<1> DEFINE q == thr[p].idx
<1>t. TypeOK
   BY DEF SlotInv
<1>h. "kill_scan" \in Harmless \ ContPcs
   BY HarmlessFacts DEF ContPcs
<1>1. ASSUME NEW n \in KillPids, KillBegin(k, p, n) PROVE SlotInv'
  <2>1. /\ thr \in [Procs -> ThrRec] /\ "kill_scan" \in Pcs /\ 1 \in 0..(NPROC + 1) /\ n \in Int
        /\ thr' = [thr EXCEPT ![p].pc = "kill_scan", ![p].idx = 1, ![p].kpid = n]
    <3>1. "kill_scan" \in Pcs /\ 1 \in 0..(NPROC + 1) /\ n \in Int
       BY <1>h, HarmlessFacts, ConstAssumption
    <3> QED BY <3>1, <1>1, <1>t, Typed, Zenon DEF KillBegin
  <2>2. thr' \in [Procs -> ThrRec]
    <3>1. [thr EXCEPT ![p].pc = "kill_scan", ![p].idx = 1] \in [Procs -> ThrRec]
       BY <2>1, SetThrPc, SetThrIdx, Zenon
    <3> QED BY <3>1, <2>1, SetThrKpid, Zenon
  <2>3. ThrMoves(p)
     BY <2>1, <2>2, <1>h DEF ThrMoves, SameThrBut
  <2>4. QuietStep(k, p)
     BY <2>3, <1>1, <1>t, Keeps, Zenon DEF QuietStep, KillBegin, EnterKernel, At, lists
  <2> QED BY <2>4, Quiet
<1>2. CASE KillScan(k, p)
  <2>a. /\ cpu[k].pc = "run" /\ cpu[k].proc = p /\ cpu' = cpu
        /\ thr[p].pc = "kill_scan" /\ UNCHANGED <<lists, wait_lock>>
     BY <1>2 DEF KillScan, At
  <2>1. CASE q \in Procs /\ thr' = [thr EXCEPT ![p].idx = q + 1] /\ proc' = proc /\ cont' = cont
    <3>1. q + 1 \in 0..(NPROC + 1)
       BY <2>1, ConstAssumption DEF Procs
    <3>2. ThrMoves(p)
       BY <3>1, <2>1, <1>t, <1>h, <2>a, NextIdxMoves, Zenon
    <3>3. QuietStep(k, p)
       BY <3>2, <2>1, <1>t, <2>a, Keeps, Zenon DEF QuietStep, lists
    <3> QED BY <3>3, Quiet
  <2>2. CASE /\ q \in Procs /\ proc[q].lock = Free /\ Return(p)
             /\ proc[q].state = "SLEEPING" /\ Enqueue(q)
             /\ proc' = [proc EXCEPT ![q].killed = TRUE, ![q].state = "RUNNABLE"]
    <3>1. WakeStep(k, p, q)
       BY <2>2, <2>a, <1>t, ReturnMoves, Zenon DEF WakeStep, Enqueue
    <3> QED BY <3>1, <2>2, WakeKept
  <2>3. CASE /\ q \in Procs /\ Return(p)
             /\ proc' = [proc EXCEPT ![q].killed = TRUE] /\ cont' = cont
    <3>1. proc \in [Procs -> ProcRec] /\ TRUE \in BOOLEAN
       BY <1>t, Typed
    <3>2. proc' \in [Procs -> ProcRec]
       BY <3>1, <2>3, SetProcKilled, Zenon
    <3>3. \A r \in Procs : SameProc(r)
       BY <3>1, <2>3 DEF SameProc
    <3>4. QuietStep(k, p)
       BY <3>2, <3>3, <2>3, <2>a, <1>t, ReturnMoves, Keeps, Zenon DEF QuietStep, lists
    <3> QED BY <3>4, Quiet
  <2>4. CASE Return(p) /\ proc' = proc /\ cont' = cont
    BY <2>4, <2>a, <1>t, ReturnMoves, Keeps, Quiet, Zenon DEF QuietStep, lists
  <2> QED BY <2>1, <2>2, <2>3, <2>4, <1>2, Zenon DEF KillScan
<1> QED BY <1>1, <1>2

-----------------------------------------------------------------------------
(* wait() and cfork(), where they work on no slot.                         *)

\* wait() taking wait_lock, or giving up, keeps the slot invariant.
LEMMA WaitQuiet ==
    ASSUME SlotInv, NEW k \in CPUs, NEW p \in Procs, WaitAcquire(k, p) \/ WaitKilled(k, p)
    PROVE  SlotInv'
<1>t. TypeOK
   BY DEF SlotInv
<1>h. {"wait_scan", "wait_sleep"} \subseteq Harmless \ ContPcs
   BY HarmlessFacts DEF ContPcs
<1>1. CASE WaitAcquire(k, p)
  <2>1. 1 \in 0..(NPROC + 1)
     BY ConstAssumption
  <2>2. ThrMoves(p)
     BY <2>1, <1>1, <1>t, <1>h, IdxMoves, Zenon DEF WaitAcquire
  <2>3. QuietStep(k, p)
     BY <2>2, <1>1, <1>t, Keeps, Zenon DEF QuietStep, WaitAcquire, EnterKernel, At, lists
  <2> QED BY <2>3, Quiet
<1>2. CASE WaitKilled(k, p)
  BY <1>2, <1>t, <1>h, ReturnMoves, GotoMoves, Keeps, Quiet, Zenon DEF WaitKilled, QuietStep, At, lists
<1> QED BY <1>1, <1>2

\* cfork() outside its fork(): it only fills the new container.
LEMMA CforkKept ==
    ASSUME SlotInv, NEW k \in CPUs, NEW p \in Procs,
           CforkBegin(k, p) \/ ContInit(k, p) \/ CforkList(k, p) \/ CforkNoProc(k, p)
    PROVE  SlotInv'
<1>t. TypeOK
   BY DEF SlotInv
<1>h. /\ {"cont_init", "cont_namei", "cfork_list", "cfork_fork"} \subseteq Harmless
      /\ {"cont_init", "cont_namei", "cfork_list", "cfork_fork"} \subseteq Pcs
   BY HarmlessFacts
<1>c. thr[p].pc \in ContPcs => thr[p].cp \in Conts
   BY <1>t DEF TypeOK, Where, ContPcs
<1>1. CASE CforkBegin(k, p)
  <2> DEFINE c == Head(cont_unused_list)
  <2>1. c \in Conts \cup {NoCont} /\ c \in Conts /\ cont_unused_list' \in Seq(Conts)
    BY <1>1, <1>t, TailFacts, Zenon DEF CforkBegin, TypeOK
  <2>2. /\ thr \in [Procs -> ThrRec]
        /\ thr' = [thr EXCEPT ![p].pc = "cont_init", ![p].cp = c]
     BY <1>1, <1>t, Typed DEF CforkBegin
  <2> HIDE DEF c
  <2>3. thr' \in [Procs -> ThrRec]
    <3>1. "cont_init" \in Pcs
       BY <1>h
    <3> QED BY <3>1, <2>1, <2>2, SetThrPc, SetThrCp, Zenon
  <2>4. ThrMoves(p)
     BY <2>1, <2>2, <2>3, <1>h DEF ThrMoves, SameThrBut
  <2>5. QuietStep(k, p)
     BY <2>1, <2>4, <1>1, <1>t, Keeps, Zenon DEF QuietStep, CforkBegin, EnterKernel, At
  <2> QED BY <2>5, Quiet
<1>2. CASE ContInit(k, p)
  <2> DEFINE c == thr[p].cp
  <2>0. c \in Conts
     BY <1>2, <1>c, Zenon DEF ContInit, At, ContPcs
  <2>1. ThrMoves(p)
     BY <2>0, <1>2, <1>t, <1>h, GotoMoves, Zenon DEF ContInit
  <2>2. cont' \in [Conts -> ContRec] /\ ShrinkRunLists
    <3>1. PICK b \in BOOLEAN :
            cont' = [cont EXCEPT ![c].state = "USED", ![c].nextpid = 1,
                      ![c].proc_list = {}, ![c].run_list = <<>>,
                      ![c].lock = IF b THEN Free ELSE k]
       BY <1>2, Zenon DEF ContInit
    <3> DEFINE x == IF b THEN Free ELSE k
    <3>2. /\ cont \in [Conts -> ContRec] /\ "USED" \in {"UNUSED", "USED"} /\ 1 \in Nat
          /\ {} \in SUBSET Procs /\ <<>> \in Seq(Procs) /\ x \in Locks
       BY <1>t, Typed DEF Locks
    <3>3. cont' = [cont EXCEPT ![c].state = "USED", ![c].nextpid = 1,
                      ![c].proc_list = {}, ![c].run_list = <<>>, ![c].lock = x]
       BY <3>1, Zenon
    <3> HIDE DEF x
    <3> DEFINE f == [cont EXCEPT ![c].state = "USED", ![c].nextpid = 1]
    <3> DEFINE g == [f EXCEPT ![c].proc_list = {}]
    <3> DEFINE h == [g EXCEPT ![c].run_list = <<>>]
    <3>4. f \in [Conts -> ContRec] /\ \A d \in Conts : f[d].run_list = cont[d].run_list
      <4>1. f \in [Conts -> ContRec]
         BY <2>0, <3>2, SetContState, SetContNextpid, Zenon
      <4> QED BY <4>1, <2>0, <3>2
    <3>5. g \in [Conts -> ContRec] /\ \A d \in Conts : g[d].run_list = f[d].run_list
      <4> HIDE DEF f
      <4>1. g \in [Conts -> ContRec]
         BY <2>0, <3>2, <3>4, SetContProcList, Zenon
      <4> QED BY <4>1, <2>0, <3>4
    <3>6. /\ h \in [Conts -> ContRec] /\ h[c].run_list = <<>>
          /\ \A d \in Conts : d # c => h[d] = g[d]
      <4> HIDE DEF f, g
      <4>1. h \in [Conts -> ContRec]
         BY <2>0, <3>2, <3>5, SetContRunList, Zenon
      <4> QED BY <4>1, <2>0, <3>5
    <3>7. cont' = [h EXCEPT ![c].lock = x]
       BY <3>3, Zenon
    <3> HIDE DEF f, g, h
    <3>8. cont' \in [Conts -> ContRec]
       BY <2>0, <3>2, <3>6, <3>7, SetContLock, Zenon
    <3>9. \A d \in Conts : cont'[d].run_list = h[d].run_list
       BY <2>0, <3>6, <3>7
    <3>10. ShrinkRunLists
       BY <3>4, <3>5, <3>6, <3>9 DEF ShrinkRunLists
    <3> QED BY <3>8, <3>10
  <2>3. QuietStep(k, p)
     BY <2>1, <2>2, <1>2, <1>t, Keeps, Zenon DEF QuietStep, ContInit, At, lists
  <2> QED BY <2>3, Quiet
<1>3. CASE CforkList(k, p)
  <2>0. thr[p].cp \in Conts
     BY <1>3, <1>c, Zenon DEF CforkList, At, ContPcs
  <2>1. ThrMoves(p)
     BY <2>0, <1>3, <1>t, <1>h, GotoMoves, Zenon DEF CforkList
  <2>2. cont_run_list' \subseteq Conts
     BY <2>0, <1>3, <1>t, Zenon DEF CforkList, TypeOK
  <2>3. QuietStep(k, p)
     BY <2>1, <2>2, <1>3, <1>t, Keeps, Zenon DEF QuietStep, CforkList, At
  <2> QED BY <2>3, Quiet
<1>4. CASE CforkNoProc(k, p)
  BY <1>4, <1>t, ReturnMoves, Keeps, Quiet, Zenon DEF QuietStep, CforkNoProc, At, lists
<1> QED BY <1>1, <1>2, <1>3, <1>4, Zenon

-----------------------------------------------------------------------------
(* The two sides of swtch() that belong to the process.                    *)

\* Storing the return position of sched() keeps the thread well typed.
LEMMA SchedFacts ==
    ASSUME TypeOK, NEW k \in CPUs, NEW p, cpu[k].pc = "run", Sched(k, p)
    PROVE  /\ cpu' \in [CPUs -> CpuRec] /\ SameCpuBut(k)
           /\ cpu'[k].pc \in {"back", "sched locks"} /\ cpu'[k].proc = cpu[k].proc
<1>1. PICK x \in {"back", "sched locks"} : cpu' = [cpu EXCEPT ![k].pc = x]
   BY Zenon DEF Sched
<1> QED BY <1>1, SetCpuPc, Zenon

\* p gives up its CPU: it locks itself, changes its state and calls sched().
LeaveStep(k, p) ==
    /\ cpu[k].pc = "run" /\ cpu[k].proc = p /\ Sched(k, p)
    /\ proc' \in [Procs -> ProcRec] /\ SameProcBut(p)
    /\ proc'[p].lock = k /\ proc'[p].contp = proc[p].contp
    /\ \/ proc'[p].state \in {"SLEEPING", "ZOMBIE"} /\ cont' = cont
       \/ /\ proc'[p].state = "RUNNABLE"
          /\ cont' = [cont EXCEPT ![proc[p].contp].run_list = Append(@, p)]
    /\ thr' \in [Procs -> ThrRec] /\ SameThrBut(p) /\ thr'[p].pc \notin LockedPcs
    /\ \/ /\ Where(p)' \notin OwnPcs \cup FreePcs
          /\ Where(p)' \in ContPcs => thr'[p].cp \in Conts
       \/ Where(p)' = Where(p) /\ thr'[p].np = thr[p].np /\ thr'[p].cp = thr[p].cp
    /\ wait_lock' \in {wait_lock, Free} /\ UNCHANGED lists

\* Leaving the CPU through sched() keeps the slot invariant.
LEMMA LeaveKept ==
    ASSUME SlotInv, NEW k \in CPUs, NEW p \in Procs, LeaveStep(k, p)
    PROVE  SlotInv'
<1>1. TypeOK /\ RunIsRunning /\ HasContainer
   BY Zenon DEF SlotInv
<1>2. proc[p].state = "RUNNING" /\ proc[p].contp \in Conts
   BY <1>1 DEF RunIsRunning, LeaveStep, HasContainer
<1>3. /\ cpu' \in [CPUs -> CpuRec] /\ SameCpuBut(k)
      /\ cpu'[k].pc \in {"back", "sched locks"} /\ cpu'[k].proc = p
   BY <1>1, SchedFacts, Zenon DEF LeaveStep
<1>4. /\ cont' \in [Conts -> ContRec]
      /\ \/ ShrinkRunLists
         \/ proc'[p].state = "RUNNABLE" /\ PushesOn(proc[p].contp, p)
   BY <1>1, <1>2, PushTyped, Keeps DEF LeaveStep
<1>5. TypeOK'
  <2>1. /\ Where(p)' \in ForkPcs \cup FreePcs => thr'[p].np \in Procs
        /\ Where(p)' \in ForkPcs \cup ContPcs => thr'[p].cp \in Conts
     BY <1>1 DEF LeaveStep, TypeOK, OwnPcs
  <2>2. TypeStep(p)
     BY <1>1, <1>3, <1>4, <2>1, Zenon DEF TypeStep, LeaveStep, SameThrBut, TypeOK, lists, Locks
  <2> QED BY <1>1, <2>2, TypeKept, Zenon
<1>6. MoveStep(k, p, p)
   BY <1>2, <1>3, <1>4, Zenon DEF LeaveStep, MoveStep, lists
<1> QED BY <1>5, <1>6, Move

\* yield() keeps the slot invariant: p->lock stays held over the push.
LEMMA YieldKept ==
    ASSUME SlotInv, NEW k \in CPUs, Yield(k)
    PROVE  SlotInv'
<1>t. TypeOK
   BY DEF SlotInv
<1>p. PICK p \in Procs : cpu[k].pc = "run" /\ cpu[k].proc = p
   BY <1>t, CpuTyped, Zenon DEF Yield
<1>1. /\ proc \in [Procs -> ProcRec] /\ thr \in [Procs -> ThrRec]
      /\ k \in Locks /\ "RUNNABLE" \in ProcStates /\ "yielded" \in Pcs
      /\ thr[p].pc \in Preemptible
      /\ proc' = [proc EXCEPT ![p].lock = k, ![p].state = "RUNNABLE"]
      /\ thr' = [thr EXCEPT ![p].pc = "yielded", ![p].ret = thr[p].pc]
   BY <1>t, <1>p, Typed DEF Yield, Locks, ProcStates, Pcs, ProcPcs
<1>2. proc' \in [Procs -> ProcRec]
   BY <1>1, SetProcLock, SetProcState, Zenon
<1>3. thr' \in [Procs -> ThrRec]
   BY <1>1, SetThrPc, SetThrRet, Zenon
<1>4. /\ SameProcBut(p) /\ proc'[p].lock = k /\ proc'[p].state = "RUNNABLE"
      /\ proc'[p].contp = proc[p].contp
   BY <1>1 DEF SameProcBut, SameProc
<1>5. /\ SameThrBut(p) /\ thr'[p].pc = "yielded" /\ thr'[p].ret = thr[p].pc
      /\ thr'[p].np = thr[p].np /\ thr'[p].cp = thr[p].cp
   BY <1>1 DEF SameThrBut
<1>6. Where(p)' = Where(p) /\ thr'[p].pc \notin LockedPcs
   BY <1>1, <1>5, Zenon DEF Where, Preemptible, LockedPcs, FreePcs
<1>7. LeaveStep(k, p)
   BY <1>p, <1>2, <1>3, <1>4, <1>5, <1>6, Zenon DEF LeaveStep, Yield, Enqueue
<1> QED BY <1>7, LeaveKept

\* sleep() in wait() and the last sched() of exit() keep the slot invariant.
LEMMA SleepKept ==
    ASSUME SlotInv, NEW k \in CPUs, NEW p \in Procs, ExitZombie(k, p) \/ WaitSleep(k, p)
    PROVE  SlotInv'
<1>t. TypeOK
   BY DEF SlotInv
<1>0. /\ proc \in [Procs -> ProcRec] /\ thr \in [Procs -> ThrRec] /\ k \in Locks
      /\ "ZOMBIE" \in ProcStates /\ "SLEEPING" \in ProcStates
      /\ "zombie" \in Pcs /\ "slept" \in Pcs
      /\ p \in Procs \cup {NoProc} /\ 0 \in 0..(NPROC + 1)
   BY <1>t, Typed, ConstAssumption DEF Locks, ProcStates, Pcs, ProcPcs
<1>1. CASE ExitZombie(k, p)
  <2>1. /\ proc' = [proc EXCEPT ![p].lock = k, ![p].state = "ZOMBIE"]
        /\ thr' = [thr EXCEPT ![p].pc = "zombie"]
     BY <1>1 DEF ExitZombie, Goto
  <2>2. proc' \in [Procs -> ProcRec]
     BY <1>0, <2>1, SetProcLock, SetProcState, Zenon
  <2>3. thr' \in [Procs -> ThrRec]
     BY <1>0, <2>1, SetThrPc, Zenon
  <2>4. /\ SameProcBut(p) /\ proc'[p].lock = k /\ proc'[p].state = "ZOMBIE"
        /\ proc'[p].contp = proc[p].contp
     BY <1>0, <2>1 DEF SameProcBut, SameProc
  <2>5. SameThrBut(p) /\ thr'[p].pc = "zombie"
     BY <1>0, <2>1 DEF SameThrBut
  <2>6. Where(p)' \notin OwnPcs \cup FreePcs \cup ContPcs /\ thr'[p].pc \notin LockedPcs
     BY <2>5 DEF Where, OwnPcs, ForkPcs, FreePcs, ContPcs, LockedPcs
  <2>7. LeaveStep(k, p)
     BY <1>1, <2>2, <2>3, <2>4, <2>5, <2>6, Zenon DEF LeaveStep, ExitZombie, At
  <2> QED BY <2>7, LeaveKept
<1>2. CASE WaitSleep(k, p)
  <2>1. /\ proc' = [proc EXCEPT ![p].lock = k, ![p].state = "SLEEPING", ![p].chan = p]
        /\ thr' = [thr EXCEPT ![p].pc = "slept", ![p].idx = 0]
     BY <1>2 DEF WaitSleep
  <2>2. proc' \in [Procs -> ProcRec]
    <3>1. [proc EXCEPT ![p].lock = k, ![p].state = "SLEEPING"] \in [Procs -> ProcRec]
       BY <1>0, SetProcLock, SetProcState, Zenon
    <3> QED BY <1>0, <2>1, <3>1, SetProcChan, Zenon
  <2>3. thr' \in [Procs -> ThrRec]
     BY <1>0, <2>1, SetThrPc, SetThrIdx, Zenon
  <2>4. /\ SameProcBut(p) /\ proc'[p].lock = k /\ proc'[p].state = "SLEEPING"
        /\ proc'[p].contp = proc[p].contp
     BY <1>0, <2>1 DEF SameProcBut, SameProc
  <2>5. SameThrBut(p) /\ thr'[p].pc = "slept"
     BY <1>0, <2>1 DEF SameThrBut
  <2>6. Where(p)' \notin OwnPcs \cup FreePcs \cup ContPcs /\ thr'[p].pc \notin LockedPcs
     BY <2>5 DEF Where, OwnPcs, ForkPcs, FreePcs, ContPcs, LockedPcs
  <2>7. LeaveStep(k, p)
     BY <1>2, <2>2, <2>3, <2>4, <2>5, <2>6, Zenon DEF LeaveStep, WaitSleep, At
  <2> QED BY <2>7, LeaveKept
<1> QED BY <1>1, <1>2

\* alloccont()'s namei(), the sleep in begin_op() included.
LEMMA ContNameiKept ==
    ASSUME SlotInv, NEW k \in CPUs, NEW p \in Procs, ContNamei(k, p)
    PROVE  SlotInv'
<1> DEFINE c == thr[p].cp
<1>t. TypeOK
   BY DEF SlotInv
<1>h. {"cont_namei", "cfork_list", "user"} \subseteq Harmless
   BY HarmlessFacts, Zenon
<1>a. /\ cpu[k].pc = "run" /\ cpu[k].proc = p /\ thr[p].pc = "cont_namei"
      /\ UNCHANGED <<lists, wait_lock>>
   BY Zenon DEF ContNamei, At
<1>c. c \in Conts
   BY <1>t, <1>a, Zenon DEF TypeOK, Where, ContPcs
<1>0. /\ cont \in [Conts -> ContRec] /\ proc \in [Procs -> ProcRec]
      /\ "held" \in {"null", "held", "put", "leaked"} /\ "null" \in {"null", "held", "put", "leaked"}
      /\ Free \in Locks /\ k \in Locks /\ "SLEEPING" \in ProcStates
   BY <1>t, Typed, Zenon DEF Locks, ProcStates
<1>1. CASE /\ cont' = [cont EXCEPT ![c].rootdir = "held", ![c].lock = Free]
           /\ Goto(p, "cfork_list") /\ proc' = proc /\ cpu' = cpu
  <2>1. ThrMoves(p)
     BY <1>1, <1>t, <1>h, <1>c, GotoMoves, Zenon
  <2>2. cont' \in [Conts -> ContRec]
     BY <1>0, <1>1, <1>c, SetContRootdir, SetContLock, Zenon
  <2>3. ShrinkRunLists
     BY <1>0, <1>1, <1>c DEF ShrinkRunLists
  <2>4. QuietStep(k, p)
     BY <2>1, <2>2, <2>3, <1>1, <1>a, <1>t, Keeps, Zenon DEF QuietStep, lists
  <2> QED BY <2>4, Quiet
<1>2. CASE /\ cont' = [cont EXCEPT ![c].rootdir = "null"]
           /\ Return(p) /\ proc' = proc /\ cpu' = cpu
  <2>1. ThrMoves(p)
     BY <1>2, <1>t, ReturnMoves, Zenon
  <2>2. cont' \in [Conts -> ContRec]
     BY <1>0, <1>2, <1>c, SetContRootdir, Zenon
  <2>3. ShrinkRunLists
     BY <1>0, <1>2, <1>c DEF ShrinkRunLists
  <2>4. QuietStep(k, p)
     BY <2>1, <2>2, <2>3, <1>2, <1>a, <1>t, Keeps, Zenon DEF QuietStep, lists
  <2> QED BY <2>4, Quiet
<1>3. CASE /\ proc' = [proc EXCEPT ![p].lock = k, ![p].state = "SLEEPING"]
           /\ cont' = cont /\ thr' = thr /\ Sched(k, p)
  <2>1. proc' \in [Procs -> ProcRec]
     BY <1>0, <1>3, SetProcLock, SetProcState, Zenon
  <2>2. /\ SameProcBut(p) /\ proc'[p].lock = k /\ proc'[p].state = "SLEEPING"
        /\ proc'[p].contp = proc[p].contp
     BY <1>0, <1>3 DEF SameProcBut, SameProc
  <2>3. thr' \in [Procs -> ThrRec] /\ SameThrBut(p) /\ thr'[p].pc = "cont_namei"
     BY <1>3, <1>a, <1>t, Typed, Zenon DEF SameThrBut
  <2>4. Where(p)' = Where(p) /\ thr'[p].np = thr[p].np /\ thr'[p].cp = thr[p].cp
     BY <1>3 DEF Where
  <2>5. thr'[p].pc \notin LockedPcs
     BY <2>3 DEF LockedPcs, FreePcs
  <2>6. LeaveStep(k, p)
     BY <1>3, <1>a, <2>1, <2>2, <2>3, <2>4, <2>5, Zenon DEF LeaveStep
  <2> QED BY <2>6, LeaveKept
<1> QED BY <1>1, <1>2, <1>3, Zenon DEF ContNamei

\* Coming back from swtch() or starting in forkret() releases p->lock.
LEMMA ResumeKept ==
    ASSUME SlotInv, NEW k \in CPUs, Resume(k)
    PROVE  SlotInv'
<1>t. TypeOK /\ RunIsRunning
   BY DEF SlotInv
<1>p. PICK p \in Procs : cpu[k].pc = "run" /\ cpu[k].proc = p
   BY <1>t, CpuTyped, Zenon DEF Resume
<1>0. /\ proc \in [Procs -> ProcRec] /\ thr \in [Procs -> ThrRec]
      /\ Free \in Locks /\ NoProc \in Procs \cup {NoProc}
      /\ {"user", "wait_acquire"} \subseteq Pcs /\ "user" \in Preemptible
      /\ thr[p].ret \in Preemptible /\ Preemptible \subseteq Pcs
   BY <1>t, Typed, ThrTyped, HarmlessFacts, Zenon DEF Locks, Preemptible, Pcs
<1>1. /\ proc' \in [Procs -> ProcRec] /\ SameProcBut(p)
      /\ proc'[p].state = proc[p].state /\ proc'[p].contp = proc[p].contp
  <2>1. CASE proc' = [proc EXCEPT ![p].lock = Free]
    BY <1>0, <2>1, SetProcLock DEF SameProcBut, SameProc
  <2>2. CASE proc' = [proc EXCEPT ![p].lock = Free, ![p].chan = NoProc]
    <3>1. proc' \in [Procs -> ProcRec]
       BY <1>0, <2>2, SetProcLock, SetProcChan, Zenon
    <3> QED BY <3>1, <1>0, <2>2 DEF SameProcBut, SameProc
  <2> QED BY <1>p, <2>1, <2>2, Zenon DEF Resume
<1>2. /\ thr' \in [Procs -> ThrRec] /\ SameThrBut(p)
      /\ thr'[p].np = thr[p].np /\ thr'[p].cp = thr[p].cp
      /\ \/ thr'[p].pc \in {"user", "wait_acquire"}
         \/ thr[p].pc = "yielded" /\ thr'[p].pc = thr[p].ret
  <2>1. ASSUME NEW l \in {"user", "wait_acquire"}, thr' = [thr EXCEPT ![p].pc = l]
        PROVE  /\ thr' \in [Procs -> ThrRec] /\ SameThrBut(p)
               /\ thr'[p].np = thr[p].np /\ thr'[p].cp = thr[p].cp /\ thr'[p].pc = l
    BY <1>0, <2>1, SetThrPc DEF SameThrBut
  <2>2. ASSUME thr' = [thr EXCEPT ![p].pc = thr[p].ret, ![p].ret = "user"]
        PROVE  /\ thr' \in [Procs -> ThrRec] /\ SameThrBut(p)
               /\ thr'[p].np = thr[p].np /\ thr'[p].cp = thr[p].cp /\ thr'[p].pc = thr[p].ret
    <3>0. thr[p].ret \in Pcs
       BY <1>0
    <3>1. thr' \in [Procs -> ThrRec]
       BY <1>0, <3>0, <2>2, SetThrPc, SetThrRet, Zenon
    <3> QED BY <3>1, <2>2, <1>0 DEF SameThrBut
  <2> QED BY <1>p, <2>1, <2>2, Zenon DEF Resume, Goto
<1>3. /\ thr'[p].pc \notin LockedPcs /\ thr'[p].pc \notin HandoverPcs
      /\ \/ Where(p)' \notin OwnPcs \cup FreePcs \cup ContPcs
         \/ Where(p)' = Where(p)
   BY <1>0, <1>2, Zenon DEF Where, LockedPcs, HandoverPcs, OwnPcs, ForkPcs, FreePcs, ContPcs, Preemptible
<1>4. cpu' = cpu /\ cont' = cont /\ UNCHANGED <<lists, wait_lock>>
   BY DEF Resume
<1>5. TypeOK'
  <2>1. /\ Where(p)' \in ForkPcs \cup FreePcs => thr'[p].np \in Procs
        /\ Where(p)' \in ForkPcs \cup ContPcs => thr'[p].cp \in Conts
     BY <1>t, <1>2, <1>3, Zenon DEF TypeOK, OwnPcs
  <2>2. TypeStep(p)
     BY <1>t, <1>1, <1>2, <1>4, <2>1, Zenon DEF TypeStep, SameThrBut, TypeOK, lists
  <2> QED BY <1>t, <2>2, TypeKept, Zenon
<1>6. proc[p].state = "RUNNING"
   BY <1>p, <1>t, Zenon DEF RunIsRunning
<1>7. ShrinkRunLists /\ SameCpuBut(k) /\ unused_list' = unused_list
   BY <1>4 DEF ShrinkRunLists, SameCpuBut, lists
<1>8. MoveStep(k, p, p)
   BY <1>p, <1>1, <1>2, <1>3, <1>4, <1>6, <1>7, Zenon DEF MoveStep
<1> QED BY <1>5, <1>8, Move, Zenon

-----------------------------------------------------------------------------
(* scheduler().                                                            *)

\* The steps of scheduler() keep the type invariant.
LEMMA SchedulerTypes ==
    ASSUME SlotInv, NEW k \in CPUs, PickProc(k) \/ Dispatch(k) \/ SwtchBack(k)
    PROVE  TypeOK'
<1>i. TypeOK /\ Picked
   BY DEF SlotInv
<1>0. /\ proc \in [Procs -> ProcRec] /\ cont \in [Conts -> ContRec] /\ cpu \in [CPUs -> CpuRec]
      /\ k \in Locks /\ Free \in Locks /\ "RUNNING" \in ProcStates
   BY <1>i, Typed, Zenon DEF Locks, ProcStates
<1>1. CASE PickProc(k)
  <2>1. PICK c \in Served :
          /\ cont[c].run_list # <<>>
          /\ cpu' = [cpu EXCEPT ![k] = [pc |-> "picked", proc |-> NoProc,
                                        next |-> Head(cont[c].run_list)]]
          /\ cont' = [cont EXCEPT ![c].run_list = Tail(@)]
          /\ UNCHANGED <<proc, lists, wait_lock, thr>>
     BY <1>1, Zenon DEF PickProc
  <2>2. c \in Conts
     BY ConstAssumption
  <2> DEFINE h == Head(cont[c].run_list)
  <2> DEFINE s == Tail(cont[c].run_list)
  <2>3. h \in Procs /\ s \in Seq(Procs)
     BY <2>1, <2>2, <1>i, RunListTyped, TailFacts, Zenon
  <2>4. cont' = [cont EXCEPT ![c].run_list = s]
     BY <2>1, <2>2, <1>0, Zenon
  <2>5. cpu' = [cpu EXCEPT ![k] = [pc |-> "picked", proc |-> NoProc, next |-> h]]
     BY <2>1
  <2> HIDE DEF h, s
  <2>6. cont' \in [Conts -> ContRec]
     BY <1>0, <2>2, <2>3, <2>4, SetContRunList, Zenon
  <2>7. [pc |-> "picked", proc |-> NoProc, next |-> h] \in CpuRec
     BY <2>3 DEF CpuRec
  <2>8. cpu' \in [CPUs -> CpuRec]
     BY <1>0, <2>5, <2>7, Zenon
  <2> QED BY <1>i, <2>1, <2>6, <2>8, Zenon DEF TypeOK, lists, Where
<1>2. CASE Dispatch(k)
  <2> DEFINE q == cpu[k].next
  <2>1. q \in Procs /\ proc[q].state = "RUNNABLE"
     BY <1>2, <1>i, CpuTyped, Zenon DEF Dispatch, Picked
  <2>2. /\ proc' = [proc EXCEPT ![q].lock = k, ![q].state = "RUNNING"]
        /\ cpu' = [cpu EXCEPT ![k] = [pc |-> "run", proc |-> q, next |-> NoProc]]
        /\ UNCHANGED <<cont, lists, wait_lock, thr>>
     BY <1>2, <2>1 DEF Dispatch
  <2> HIDE DEF q
  <2>3. proc' \in [Procs -> ProcRec]
     BY <1>0, <2>1, <2>2, SetProcLock, SetProcState, Zenon
  <2>4. [pc |-> "run", proc |-> q, next |-> NoProc] \in CpuRec
     BY <2>1 DEF CpuRec
  <2>5. cpu' \in [CPUs -> CpuRec]
     BY <1>0, <2>2, <2>4, Zenon
  <2> QED BY <1>i, <2>2, <2>3, <2>5, Zenon DEF TypeOK, lists, Where
<1>3. CASE SwtchBack(k)
  <2>1. /\ cpu[k].proc \in Procs
        /\ proc' = [proc EXCEPT ![cpu[k].proc].lock = Free]
        /\ cpu' = [cpu EXCEPT ![k] = IdleCpu]
        /\ UNCHANGED <<cont, lists, wait_lock, thr>>
     BY <1>3, <1>i, CpuTyped, Zenon DEF SwtchBack
  <2>2. proc' \in [Procs -> ProcRec]
     BY <1>0, <2>1, SetProcLock, Zenon
  <2>3. IdleCpu \in CpuRec
     BY DEF IdleCpu, CpuRec
  <2>4. cpu' \in [CPUs -> CpuRec]
     BY <1>0, <2>1, <2>3
  <2> QED BY <1>i, <2>1, <2>2, <2>4, Zenon DEF TypeOK, lists, Where
<1> QED BY <1>1, <1>2, <1>3, Zenon

-----------------------------------------------------------------------------
(* fork(), wait() and freeproc() at work on a slot.                        *)

\* Goto changes the position of p and nothing else.
LEMMA GotoFacts ==
    ASSUME TypeOK, NEW p \in Procs, NEW l \in Pcs, l # "yielded", Goto(p, l)
    PROVE  /\ thr' \in [Procs -> ThrRec] /\ SameThrBut(p)
           /\ thr'[p].pc = l /\ Where(p)' = l
           /\ thr'[p].np = thr[p].np /\ thr'[p].cp = thr[p].cp
  BY Typed, SetThrPc DEF Goto, SameThrBut, Where

\* The slot and the container a thread works on.
LEMMA Locals ==
    ASSUME TypeOK, NEW p \in Procs
    PROVE  /\ thr[p].pc \in ForkPcs \cup FreePcs => thr[p].np \in Procs /\ Where(p) = thr[p].pc
           /\ thr[p].pc \in ForkPcs => thr[p].cp \in Conts
BY DEF TypeOK, Where, ForkPcs, FreePcs

\* The CPU that executes a thread at a locked position owns the slot's lock.
LEMMA OwnsLock ==
    ASSUME SlotInv, NEW k \in CPUs, NEW p \in Procs, cpu[k].proc = p, thr[p].pc \in LockedPcs
    PROVE  proc[thr[p].np].lock = k
  BY NullProc DEF SlotInv, SlotLocked, OneCPU

\* fork() taking a slot, failing in uvmcopy() or setting the parent; freecont().
LEMMA SlotPcKept ==
    ASSUME SlotInv, NEW k \in CPUs, NEW p \in Procs,
           \/ \E c \in Conts : ForkPop(k, p, c)
           \/ At(k, p, "fork_copy") /\ Goto(p, "free_slot") /\ UNCHANGED <<proc, cont, lists, wait_lock, cpu>>
           \/ ForkParent(k, p)
           \/ FreeCont(k, p)
    PROVE  SlotInv'
<1>t. TypeOK /\ HasContainer
   BY DEF SlotInv
<1>0. /\ thr \in [Procs -> ThrRec] /\ proc \in [Procs -> ProcRec] /\ cont \in [Conts -> ContRec]
      /\ "fork_alloc" \in Pcs /\ "free_slot" \in Pcs /\ "fork_run" \in Pcs /\ "free_done" \in Pcs
   BY <1>t, Typed, Zenon DEF Pcs, ForkPcs, FreePcs
<1>1. ASSUME NEW c \in Conts, ForkPop(k, p, c) PROVE SlotInv'
  <2>1. PICK q : q = Head(unused_list)
     OBVIOUS
  <2>2. /\ unused_list \in Seq(Procs) /\ unused_list # <<>> /\ unused_list' = Tail(unused_list)
     BY <1>1, <1>t, Typed, Zenon DEF ForkPop
  <2>3. q \in Procs /\ q \in Procs \cup {NoProc} /\ c \in Conts \cup {NoCont} /\ unused_list' \in Seq(Procs)
     BY <2>1, <2>2, TailFacts, Zenon
  <2>4. thr' = [thr EXCEPT ![p].pc = "fork_alloc", ![p].cp = c, ![p].np = q]
     BY <1>1, <2>1, Zenon DEF ForkPop
  <2>5. thr' \in [Procs -> ThrRec]
    <3>1. [thr EXCEPT ![p].pc = "fork_alloc", ![p].cp = c] \in [Procs -> ThrRec]
       BY <1>0, <2>3, SetThrPc, SetThrCp, Zenon
    <3> QED BY <3>1, <2>3, <2>4, SetThrNp, Zenon
  <2>6. SameThrBut(p) /\ thr'[p].pc = "fork_alloc" /\ thr'[p].np = q /\ thr'[p].cp = c
     BY <1>0, <2>4 DEF SameThrBut
  <2>7. /\ cpu[k].pc = "run" /\ cpu[k].proc = p /\ cpu' = cpu /\ proc' = proc /\ cont' = cont
        /\ UNCHANGED <<cont_unused_list, cont_run_list, wait_lock>>
     BY <1>1, Zenon DEF ForkPop, EnterKernel, At
  <2>8. TypeStep(p)
     BY <1>t, <2>3, <2>5, <2>6, <2>7, Zenon DEF TypeStep, SameThrBut, TypeOK
  <2>9. SlotPcStep(k, p, q)
     BY <2>1, <2>2, <2>6, <2>7, Zenon DEF SlotPcStep, SameProc
  <2> QED BY <1>t, <2>3, <2>8, <2>9, TypeKept, SlotPc, Zenon
<1>2. CASE At(k, p, "fork_copy") /\ Goto(p, "free_slot") /\ UNCHANGED <<proc, cont, lists, wait_lock, cpu>>
  <2>1. /\ thr' \in [Procs -> ThrRec] /\ SameThrBut(p) /\ thr'[p].pc = "free_slot"
        /\ Where(p)' = "free_slot" /\ thr'[p].np = thr[p].np
     BY <1>0, <1>2, <1>t, GotoFacts, Zenon
  <2>2. thr[p].np \in Procs
     BY <1>2, <1>t, Locals, Zenon DEF At, ForkPcs
  <2>3. TypeStep(p)
     BY <1>t, <1>2, <2>1, <2>2, Zenon DEF TypeStep, SameThrBut, TypeOK, lists, ForkPcs, ContPcs
  <2>4. SlotPcStep(k, p, thr[p].np)
     BY <1>2, <2>1, Zenon DEF SlotPcStep, SameProc, At, lists
  <2> QED BY <1>t, <2>2, <2>3, <2>4, TypeKept, SlotPc, Zenon
<1>3. CASE ForkParent(k, p)
  <2>1. /\ thr' \in [Procs -> ThrRec] /\ SameThrBut(p) /\ thr'[p].pc = "fork_run"
        /\ Where(p)' = "fork_run" /\ thr'[p].np = thr[p].np /\ thr'[p].cp = thr[p].cp
     BY <1>0, <1>3, <1>t, GotoFacts, Zenon DEF ForkParent
  <2>2. thr[p].np \in Procs /\ thr[p].cp \in Conts /\ p \in Procs \cup {NoProc}
     BY <1>3, <1>t, Locals, Zenon DEF ForkParent, At, ForkPcs
  <2>3. proc' = [proc EXCEPT ![thr[p].np].parent = p]
     BY <1>3 DEF ForkParent
  <2>4. proc' \in [Procs -> ProcRec]
     BY <1>0, <2>2, <2>3, SetProcParent, Zenon
  <2>5. \A r \in Procs : SameProc(r)
     BY <1>0, <2>2, <2>3 DEF SameProc
  <2>6. TypeStep(p)
     BY <1>t, <1>3, <2>1, <2>2, <2>4, Zenon DEF TypeStep, SameThrBut, TypeOK, lists, ForkParent
  <2>7. SlotPcStep(k, p, thr[p].np)
     BY <1>3, <2>1, <2>5, Zenon DEF SlotPcStep, At, lists, ForkParent
  <2> QED BY <1>t, <2>2, <2>6, <2>7, TypeKept, SlotPc, Zenon
<1>4. CASE FreeCont(k, p)
  <2> DEFINE c == proc[thr[p].np].contp
  <2>1. /\ thr' \in [Procs -> ThrRec] /\ SameThrBut(p) /\ thr'[p].pc = "free_done"
        /\ Where(p)' = "free_done" /\ thr'[p].np = thr[p].np
     BY <1>0, <1>4, <1>t, GotoFacts, Zenon DEF FreeCont
  <2>2. thr[p].np \in Procs /\ c \in Conts
     BY <1>4, <1>t, Locals, Zenon DEF FreeCont, At, FreePcs, HasContainer
  <2> DEFINE x == IF cont[c].rootdir = "held" THEN "leaked" ELSE "null"
  <2>3. /\ x \in {"null", "held", "put", "leaked"} /\ "UNUSED" \in {"UNUSED", "USED"} /\ 1 \in Nat
        /\ cont' = [cont EXCEPT ![c].state = "UNUSED", ![c].nextpid = 1, ![c].rootdir = x]
     BY <1>4, <1>0, <2>2, Zenon DEF FreeCont
  <2>4. cont_unused_list' \in Seq(Conts)
    <3>1. cont_unused_list \in Seq(Conts) /\ cont_unused_list' = Append(cont_unused_list, c)
       BY <1>4, <1>t, Zenon DEF FreeCont, TypeOK
    <3> QED BY <3>1, <2>2, AppendFacts, Zenon
  <2> HIDE DEF c, x
  <2>5. cont' \in [Conts -> ContRec]
    <3>1. [cont EXCEPT ![c].state = "UNUSED", ![c].nextpid = 1] \in [Conts -> ContRec]
       BY <1>0, <2>2, <2>3, SetContState, SetContNextpid, Zenon
    <3> QED BY <3>1, <2>2, <2>3, SetContRootdir, Zenon
  <2>6. \A d \in Conts : cont'[d].run_list = cont[d].run_list
     BY <1>0, <2>2, <2>3
  <2>7. TypeStep(p)
     BY <1>t, <1>4, <2>1, <2>2, <2>4, <2>5, Zenon
        DEF TypeStep, SameThrBut, TypeOK, FreeCont, ForkPcs, ContPcs
  <2>8. SlotPcStep(k, p, thr[p].np)
     BY <1>4, <2>1, <2>6, Zenon DEF SlotPcStep, SameProc, At, FreeCont
  <2> QED BY <1>t, <2>2, <2>7, <2>8, TypeKept, SlotPc, Zenon
<1> QED BY <1>1, <1>2, <1>3, <1>4, Zenon

\* The part of SlotStep that fork(), wait() and freeproc() share.
LEMMA SlotStepKept ==
    ASSUME SlotInv, NEW k \in CPUs, NEW p \in Procs, NEW q \in Procs,
           SlotStep(k, p, q), TypeStep(p)
    PROVE  SlotInv'
  BY TypeKept, SlotMove, Zenon DEF SlotInv

\* allocproc() and fork() on the slot they have taken.
LEMMA ForkKept ==
    ASSUME SlotInv, NEW k \in CPUs, NEW p \in Procs,
           \/ ForkAlloc(k, p) \/ ForkPages(k, p) \/ ForkNoPages(k, p)
           \/ ForkCopy(k, p) \/ ForkRun(k, p)
    PROVE  SlotInv'
<1> DEFINE q == thr[p].np
<1> DEFINE c == thr[p].cp
<1>i. TypeOK /\ SlotState /\ HasContainer /\ UnusedList /\ RunIsRunning
   BY DEF SlotInv
<1>0. /\ thr \in [Procs -> ThrRec] /\ proc \in [Procs -> ProcRec] /\ cont \in [Conts -> ContRec]
      /\ {"fork_pages", "fork_copy", "fork_fault", "fork_parent", "fork_push"} \subseteq Pcs
      /\ k \in Locks /\ Free \in Locks /\ "USED" \in ProcStates /\ "RUNNABLE" \in ProcStates
   BY <1>i, Typed DEF Pcs, ForkPcs, ProcPcs, Locks, ProcStates
<1>a. /\ cpu[k].pc = "run" /\ cpu[k].proc = p
      /\ thr[p].pc \in {"fork_alloc", "fork_pages", "fork_copy", "fork_run"}
   BY Zenon DEF ForkAlloc, ForkPages, ForkNoPages, ForkCopy, ForkRun, At
<1>b. q \in Procs /\ c \in Conts /\ Where(p) = thr[p].pc /\ Where(p) \in OwnPcs
   BY <1>a, <1>i, Locals, Zenon DEF ForkPcs, OwnPcs
<1>c. /\ thr[p].pc = "fork_alloc" => proc[q].state = "UNUSED"
      /\ thr[p].pc # "fork_alloc" => proc[q].state = "USED"
   BY <1>a, <1>b, <1>i, Zenon DEF SlotState, SlotOk
<1>d. p # q
   BY <1>a, <1>c, <1>i, Zenon DEF RunIsRunning
<1>1. CASE ForkAlloc(k, p)
  <2> DEFINE n == cont[c].nextpid
  <2>0. thr[p].pc = "fork_alloc" /\ proc[q].lock = Free /\ cpu' = cpu /\ UNCHANGED <<lists, wait_lock>>
     BY <1>1, Zenon DEF ForkAlloc, At
  <2>1. n \in Nat /\ n \in Nat \cup {HackPid} /\ n + 1 \in Nat
     BY <1>0, <1>b DEF ContRec
  <2>2. /\ thr' \in [Procs -> ThrRec] /\ SameThrBut(p) /\ thr'[p].pc = "fork_pages"
        /\ Where(p)' = "fork_pages" /\ thr'[p].np = q /\ thr'[p].cp = c
     BY <1>0, <1>1, <1>i, GotoFacts, Zenon DEF ForkAlloc
  <2>3. proc' = [proc EXCEPT ![q].lock = k, ![q].state = "USED", ![q].pid = n]
     BY <1>1, Zenon DEF ForkAlloc
  <2>4. cont' = [cont EXCEPT ![c].nextpid = n + 1]
     BY <1>0, <1>1, <1>b, Zenon DEF ForkAlloc
  <2> HIDE DEF q, c, n
  <2>5. proc' \in [Procs -> ProcRec]
    <3>1. [proc EXCEPT ![q].lock = k, ![q].state = "USED"] \in [Procs -> ProcRec]
       BY <1>0, <1>b, SetProcLock, SetProcState, Zenon
    <3> QED BY <3>1, <1>b, <2>1, <2>3, SetProcPid, Zenon
  <2>6. cont' \in [Conts -> ContRec]
     BY <1>0, <1>b, <2>1, <2>4, SetContNextpid, Zenon
  <2>7. \A d \in Conts : cont'[d].run_list = cont[d].run_list
     BY <1>0, <1>b, <2>4
  <2>8. /\ SameProcBut(q) /\ proc'[q].lock = k /\ proc'[q].state = "USED"
     BY <1>0, <1>b, <2>3 DEF SameProcBut, SameProc
  <2>9. TypeStep(p)
     BY <1>i, <1>b, <2>0, <2>2, <2>5, <2>6, Zenon DEF TypeStep, SameThrBut, TypeOK, lists
  <2>10. thr[p].np = q
     BY Zenon DEF q
  <2>11. SlotStep(k, p, q)
     BY <1>a, <1>b, <1>c, <2>0, <2>2, <2>7, <2>8, <2>10, Zenon
        DEF SlotStep, SameThrBut, SameCpuBut, lists, HandoverPcs
  <2> QED BY <1>b, <2>9, <2>11, SlotStepKept, Zenon
<1>2. CASE ForkPages(k, p)
  <2>0. /\ thr[p].pc = "fork_pages" /\ cpu' = cpu /\ UNCHANGED <<lists, wait_lock>>
        /\ proc' = [proc EXCEPT ![q].contp = c]
        /\ thr' = [thr EXCEPT ![p].pc = "fork_copy", ![q] = AtRest("forkret")]
     BY <1>2, Zenon DEF ForkPages, At
  <2>1. proc[q].lock = k /\ proc[q].state = "USED" /\ thr[p].np = q
     BY <1>a, <1>c, <2>0, OwnsLock, Zenon DEF LockedPcs
  <2>2. cont' = [cont EXCEPT ![c].proc_list = cont[c].proc_list \cup {q}]
     BY <1>0, <1>2, <1>b, Zenon DEF ForkPages
  <2>3. cont[c].proc_list \cup {q} \in SUBSET Procs
     BY <1>0, <1>b, Zenon DEF ContRec
  <2>4. AtRest("forkret") \in ThrRec /\ AtRest("forkret").pc = "forkret"
    BY AtRestType DEF Pcs, ProcPcs, AtRest
  <2> HIDE DEF q, c, AtRest
  <2>5. proc' \in [Procs -> ProcRec]
    BY <1>b, <1>0, <2>0, SetProcContp, Zenon
  <2>6. cont' \in [Conts -> ContRec]
     BY <1>0, <1>b, <2>2, <2>3, SetContProcList, Zenon
  <2>7. \A d \in Conts : cont'[d].run_list = cont[d].run_list
     BY <1>0, <1>b, <2>2
  <2>8. /\ SameProcBut(q) /\ proc'[q].lock = k /\ proc'[q].state = "USED" /\ proc'[q].contp = c
     BY <1>0, <1>b, <2>0, <2>1 DEF SameProcBut, SameProc
  <2>9. /\ thr' \in [Procs -> ThrRec]
        /\ thr'[p].pc = "fork_copy" /\ thr'[p].np = q /\ thr'[p].cp = thr[p].cp
        /\ \A r \in Procs : r # p => thr'[r] = thr[r] \/ (r = q /\ thr'[r].pc = "forkret")
    <3> DEFINE f == [thr EXCEPT ![p].pc = "fork_copy"]
    <3>1. f \in [Procs -> ThrRec]
       BY <1>0, SetThrPc, Zenon
    <3>2. /\ f[p].pc = "fork_copy" /\ f[p].np = q /\ f[p].cp = thr[p].cp
          /\ \A r \in Procs : r # p => f[r] = thr[r]
       BY <1>0, <2>1
    <3>3. thr' = [f EXCEPT ![q] = AtRest("forkret")]
       BY <2>0, Zenon
    <3> HIDE DEF f
    <3> QED BY <3>1, <3>2, <3>3, <2>4, <1>b, <1>d, Zenon
  <2>10. Where(p)' = "fork_copy"
     BY <2>9, Zenon DEF Where
  <2>11. TypeStep(p)
     BY <1>i, <1>b, <2>0, <2>5, <2>6, <2>9, <2>10, Zenon DEF TypeStep, TypeOK, lists, c
  <2>12. SlotStep(k, p, q)
     BY <1>a, <1>b, <2>0, <2>1, <2>7, <2>8, <2>9, Zenon DEF SlotStep, SameCpuBut, lists, HandoverPcs
  <2> QED BY <1>b, <2>11, <2>12, SlotStepKept
<1>3. CASE ForkNoPages(k, p)
  <2>0. /\ thr[p].pc = "fork_pages" /\ UNCHANGED <<cont, cont_unused_list, cont_run_list, wait_lock>>
        /\ proc' = [proc EXCEPT ![q] = [UnusedProc EXCEPT !.lock = k]]
        /\ unused_list' = Append(unused_list, q)
        /\ cpu' = [cpu EXCEPT ![k].pc = "kerneltrap"]
     BY <1>3, Zenon DEF ForkNoPages, At, Panic
  <2>1. proc[q].lock = k /\ proc[q].state = "USED" /\ thr[p].np = q
     BY <1>a, <1>c, <2>0, OwnsLock, Zenon DEF LockedPcs
  <2>2. /\ thr' \in [Procs -> ThrRec] /\ SameThrBut(p) /\ thr'[p].pc = "fork_fault"
        /\ Where(p)' = "fork_fault" /\ thr'[p].np = q
     BY <1>0, <1>3, <1>i, GotoFacts, Zenon DEF ForkNoPages
  <2>3. /\ cpu' \in [CPUs -> CpuRec] /\ SameCpuBut(k) /\ cpu'[k].pc = "kerneltrap"
        /\ cpu'[k].proc = cpu[k].proc
     BY <1>a, <1>i, <2>0, SetCpuPc, Zenon
  <2>4. [UnusedProc EXCEPT !.lock = k] \in ProcRec /\ [UnusedProc EXCEPT !.lock = k].state = "UNUSED"
     BY <1>0, Zenon DEF UnusedProc, ProcRec, ProcStates
  <2> HIDE DEF q, c
  <2>5. unused_list' \in Seq(Procs)
     BY <1>i, <1>b, <2>0, Typed, AppendFacts, Zenon
  <2>6. proc' \in [Procs -> ProcRec] /\ SameProcBut(q) /\ proc'[q].state = "UNUSED"
     BY <1>0, <1>b, <2>0, <2>4, Zenon DEF SameProcBut, SameProc
  <2>7. TypeStep(p)
     BY <1>i, <2>0, <2>2, <2>3, <2>5, <2>6, Zenon
        DEF TypeStep, SameThrBut, TypeOK, ForkPcs, FreePcs, ContPcs
  <2>8. SlotStep(k, p, q)
     BY <1>a, <1>b, <2>0, <2>1, <2>2, <2>3, <2>6, Zenon
        DEF SlotStep, SameThrBut, HandoverPcs, LockedPcs, FreePcs
  <2> QED BY <1>b, <2>7, <2>8, SlotStepKept
<1>4. CASE ForkCopy(k, p)
  <2>0. thr[p].pc = "fork_copy" /\ At(k, p, "fork_copy") /\ UNCHANGED <<cont, lists, wait_lock, cpu>>
     BY <1>4 DEF ForkCopy, At
  <2>1. CASE Goto(p, "free_slot") /\ proc' = proc
     BY <2>0, <2>1, SlotPcKept, Zenon
  <2>2. CASE Goto(p, "fork_parent") /\ proc' = [proc EXCEPT ![q].lock = Free]
    <3>1. proc[q].lock = k /\ proc[q].state = "USED" /\ thr[p].np = q /\ proc[q].contp \in Conts
       BY <1>a, <1>b, <1>c, <1>i, <2>0, OwnsLock, Zenon DEF LockedPcs, HasContainer
    <3>2. /\ thr' \in [Procs -> ThrRec] /\ SameThrBut(p) /\ thr'[p].pc = "fork_parent"
          /\ Where(p)' = "fork_parent" /\ thr'[p].np = q /\ thr'[p].cp = c
       BY <1>0, <2>2, <1>i, GotoFacts, Zenon
    <3> HIDE DEF q, c
    <3>3. proc' \in [Procs -> ProcRec]
       BY <1>0, <1>b, <2>2, SetProcLock, Zenon
    <3>4. SameProcBut(q) /\ proc'[q].state = "USED" /\ proc'[q].contp \in Conts
       BY <1>0, <1>b, <2>2, <3>1 DEF SameProcBut, SameProc
    <3>5. TypeStep(p)
       BY <1>i, <1>b, <2>0, <3>2, <3>3, Zenon DEF TypeStep, SameThrBut, TypeOK, lists
    <3>6. SlotStep(k, p, q)
       BY <1>a, <1>b, <2>0, <3>1, <3>2, <3>4, Zenon
          DEF SlotStep, SameThrBut, SameCpuBut, lists, HandoverPcs, LockedPcs, FreePcs
    <3> QED BY <1>b, <3>5, <3>6, SlotStepKept
  <2> QED BY <1>4, <2>1, <2>2, Zenon DEF ForkCopy
<1>5. CASE ForkRun(k, p)
  <2>0. /\ thr[p].pc = "fork_run" /\ proc[q].lock = Free /\ UNCHANGED <<cont, lists, wait_lock, cpu>>
        /\ proc' = [proc EXCEPT ![q].state = "RUNNABLE"]
     BY <1>5, Zenon DEF ForkRun, At
  <2>1. proc[q].state = "USED" /\ thr[p].np = q /\ proc[q].contp \in Conts
     BY <1>b, <1>c, <1>i, <2>0, Zenon DEF HasContainer
  <2>2. /\ thr' \in [Procs -> ThrRec] /\ SameThrBut(p) /\ thr'[p].pc = "fork_push"
        /\ Where(p)' = "fork_push" /\ thr'[p].np = q /\ thr'[p].cp = c
     BY <1>0, <1>5, <1>i, GotoFacts, Zenon DEF ForkRun
  <2> HIDE DEF q, c
  <2>3. proc' \in [Procs -> ProcRec]
     BY <1>0, <1>b, <2>0, SetProcState, Zenon
  <2>4. SameProcBut(q) /\ proc'[q].state = "RUNNABLE" /\ proc'[q].contp \in Conts
     BY <1>0, <1>b, <2>0, <2>1 DEF SameProcBut, SameProc
  <2>5. TypeStep(p)
     BY <1>i, <1>b, <2>0, <2>2, <2>3, Zenon DEF TypeStep, SameThrBut, TypeOK, lists
  <2>6. SlotStep(k, p, q)
     BY <1>a, <1>b, <2>0, <2>1, <2>2, <2>4, Zenon
        DEF SlotStep, SameThrBut, SameCpuBut, lists, HandoverPcs, LockedPcs, FreePcs
  <2> QED BY <1>b, <2>5, <2>6, SlotStepKept
<1> QED BY <1>1, <1>2, <1>3, <1>4, <1>5, Zenon

\* freeproc() puts the slot back on the unused list, under p->lock.
LEMMA FreeSlotKept ==
    ASSUME SlotInv, NEW k \in CPUs, NEW p \in Procs, FreeSlot(k, p)
    PROVE  SlotInv'
<1> DEFINE q == thr[p].np
<1> DEFINE c == proc[q].contp
<1>i. TypeOK /\ SlotState /\ HasContainer
   BY Zenon DEF SlotInv
<1>0. /\ proc \in [Procs -> ProcRec] /\ cont \in [Conts -> ContRec] /\ k \in Locks
      /\ {"free_cont", "free_done"} \subseteq Pcs
   BY <1>i, Typed, Zenon DEF Pcs, FreePcs, Locks
<1>a. /\ cpu[k].pc = "run" /\ cpu[k].proc = p /\ thr[p].pc = "free_slot"
      /\ UNCHANGED <<cont_unused_list, cont_run_list, wait_lock, cpu>>
      /\ proc' = [proc EXCEPT ![q] = [UnusedProc EXCEPT !.lock = k, !.contp = c]]
      /\ unused_list' = Append(unused_list, q)
   BY Zenon DEF FreeSlot, At
<1>b. q \in Procs /\ Where(p) = "free_slot" /\ thr[p].np = q /\ Where(p) \in OwnPcs
   BY <1>a, <1>i, Locals, Zenon DEF FreePcs, OwnPcs
<1>c. c \in Conts /\ proc[q].state \in {"USED", "ZOMBIE"} /\ proc[q].lock = k
   BY <1>a, <1>b, <1>i, OwnsLock, Zenon DEF HasContainer, SlotState, SlotOk, LockedPcs, FreePcs
<1>1. cont' = [cont EXCEPT ![c].proc_list = cont[c].proc_list \ {q}]
   BY <1>0, <1>c, Zenon DEF FreeSlot
<1>2. cont[c].proc_list \ {q} \in SUBSET Procs
   BY <1>0, <1>c DEF ContRec
<1>3. PICK l \in {"free_cont", "free_done"} : Goto(p, l)
   BY Zenon DEF FreeSlot
<1>4. /\ thr' \in [Procs -> ThrRec] /\ SameThrBut(p) /\ thr'[p].pc = l
      /\ Where(p)' = l /\ thr'[p].np = q
   BY <1>0, <1>3, <1>i, GotoFacts, Zenon
<1> HIDE DEF q, c
<1>5. LET u == [UnusedProc EXCEPT !.lock = k, !.contp = c] IN
        u \in ProcRec /\ u.state = "UNUSED" /\ u.lock = k /\ u.contp = c
   BY <1>0, <1>c, Zenon DEF UnusedProc, ProcRec, ProcStates
<1>6. /\ proc' \in [Procs -> ProcRec] /\ SameProcBut(q) /\ proc'[q].state = "UNUSED"
      /\ proc'[q].lock = k /\ proc'[q].contp = c
   BY <1>0, <1>a, <1>b, <1>5, Zenon DEF SameProcBut, SameProc
<1>7. cont' \in [Conts -> ContRec]
   BY <1>0, <1>c, <1>1, <1>2, SetContProcList, Zenon
<1>8. \A d \in Conts : cont'[d].run_list = cont[d].run_list
   BY <1>0, <1>c, <1>1
<1>9. unused_list' \in Seq(Procs)
   BY <1>i, <1>a, <1>b, Typed, AppendFacts, Zenon
<1>10. TypeStep(p)
   BY <1>i, <1>a, <1>b, <1>4, <1>6, <1>7, <1>9, Zenon
      DEF TypeStep, SameThrBut, TypeOK, ForkPcs, FreePcs, ContPcs
<1>11. SlotStep(k, p, q)
   BY <1>a, <1>b, <1>c, <1>4, <1>6, <1>8, Zenon DEF SlotStep, SameThrBut, SameCpuBut, HandoverPcs
<1> QED BY <1>b, <1>10, <1>11, SlotStepKept, Zenon

\* wait() looking at one child: skipped, reaped or returned.
LEMMA WaitScanKept ==
    ASSUME SlotInv, NEW k \in CPUs, NEW p \in Procs, NEW q \in Procs, WaitScan(k, p, q)
    PROVE  SlotInv'
<1>i. TypeOK /\ HasContainer
   BY DEF SlotInv
<1>a. /\ cpu[k].pc = "run" /\ cpu[k].proc = p /\ thr[p].pc = "wait_scan" /\ proc[q].lock = Free
      /\ UNCHANGED <<cont, lists, cpu>>
   BY DEF WaitScan, At
<1>h. "wait_scan" \in Harmless \ ContPcs
   BY HarmlessFacts DEF ContPcs
<1>1. CASE thr' = [thr EXCEPT ![p].idx = q + 1] /\ UNCHANGED <<proc, wait_lock>>
  <2>1. q + 1 \in 0..(NPROC + 1)
     BY ConstAssumption DEF Procs
  <2>2. ThrMoves(p)
     BY <2>1, <1>1, <1>i, <1>h, <1>a, NextIdxMoves, Zenon
  <2>3. QuietStep(k, p)
     BY <2>2, <1>1, <1>i, <1>a, Keeps, Zenon DEF QuietStep, lists
  <2> QED BY <2>3, Quiet, Zenon
<1>2. CASE wait_lock' = Free /\ Return(p) /\ UNCHANGED proc
  BY <1>2, <1>i, <1>a, ReturnMoves, Keeps, Quiet, Zenon DEF QuietStep, lists
<1>3. CASE /\ proc[q].state = "ZOMBIE"
           /\ proc' = [proc EXCEPT ![q].lock = k]
           /\ thr' = [thr EXCEPT ![p].pc = "free_slot", ![p].np = q]
           /\ UNCHANGED wait_lock
  <2>1. /\ thr \in [Procs -> ThrRec] /\ proc \in [Procs -> ProcRec] /\ "free_slot" \in Pcs
        /\ k \in Locks /\ q \in Procs \cup {NoProc} /\ proc[q].contp \in Conts
     BY <1>3, <1>i, Typed, Zenon DEF Pcs, FreePcs, Locks, HasContainer
  <2>2. thr' \in [Procs -> ThrRec]
     BY <1>3, <2>1, SetThrPc, SetThrNp, Zenon
  <2>3. SameThrBut(p) /\ thr'[p].pc = "free_slot" /\ thr'[p].np = q
     BY <1>3, <2>1 DEF SameThrBut
  <2>4. Where(p)' = "free_slot"
     BY <2>3 DEF Where
  <2>5. proc' \in [Procs -> ProcRec]
     BY <1>3, <2>1, SetProcLock, Zenon
  <2>6. /\ SameProcBut(q) /\ proc'[q].state = "ZOMBIE" /\ proc'[q].lock = k
        /\ proc'[q].contp \in Conts
     BY <1>3, <2>1 DEF SameProcBut, SameProc
  <2>7. TypeStep(p)
     BY <1>i, <1>3, <1>a, <2>2, <2>3, <2>4, <2>5, Zenon
        DEF TypeStep, SameThrBut, TypeOK, ForkPcs, FreePcs, ContPcs, lists
  <2>8. SlotStep(k, p, q)
     BY <1>3, <1>a, <2>3, <2>6, Zenon DEF SlotStep, SameThrBut, SameCpuBut, HandoverPcs, lists
  <2> QED BY <2>7, <2>8, SlotStepKept, Zenon
<1> QED BY <1>1, <1>2, <1>3, Zenon DEF WaitScan

\* The last step of fork(), and of freeproc(), gives the slot up.
LEMMA ReturnKept ==
    ASSUME SlotInv, NEW k \in CPUs, NEW p \in Procs, ForkPush(k, p) \/ FreeDone(k, p)
    PROVE  SlotInv'
<1>i. TypeOK
   BY DEF SlotInv
<1>0. proc \in [Procs -> ProcRec] /\ cont \in [Conts -> ContRec] /\ Free \in Locks
   BY <1>i, Typed, Zenon DEF Locks
<1>1. ThrMoves(p)
   BY <1>i, ReturnMoves, Zenon DEF ForkPush, FreeDone
<1>2. /\ thr' \in [Procs -> ThrRec]
      /\ \A r \in Procs : r # p => thr'[r] = thr[r]
      /\ Where(p)' \notin ForkPcs \cup FreePcs
      /\ Where(p)' \in ContPcs => thr'[p].cp \in Conts
   BY <1>1, HarmlessFacts, Zenon DEF ThrMoves, SameThrBut, Where
<1>3. CASE ForkPush(k, p)
  <2>1. thr[p].np \in Procs /\ thr[p].cp \in Conts
     BY <1>3, <1>i, Locals, Zenon DEF ForkPush, At, ForkPcs
  <2>2. cont' \in [Conts -> ContRec]
     BY <2>1, <1>3, <1>i, PushTyped, Zenon DEF ForkPush
  <2>3. TypeStep(p)
     BY <1>2, <1>3, <1>i, <2>2, Zenon DEF TypeStep, TypeOK, ForkPush, lists
  <2> QED BY <1>3, <1>i, <2>3, TypeKept, ForkPushStep, Zenon
<1>4. CASE FreeDone(k, p)
  <2>1. thr[p].np \in Procs /\ NoCont \in Conts \cup {NoCont}
     BY <1>4, <1>i, Locals, Zenon DEF FreeDone, At, FreePcs
  <2>2. proc' = [proc EXCEPT ![thr[p].np].contp = NoCont, ![thr[p].np].lock = Free]
     BY <1>4 DEF FreeDone
  <2>3. proc' \in [Procs -> ProcRec]
     BY <1>0, <2>1, <2>2, SetProcContp, SetProcLock, Zenon
  <2>4. wait_lock' \in Locks /\ UNCHANGED <<cont, lists, cpu>>
     BY <1>0, <1>4, <1>i, Zenon DEF FreeDone, TypeOK
  <2>5. TypeStep(p)
     BY <1>2, <1>i, <2>3, <2>4, Zenon DEF TypeStep, TypeOK, lists
  <2> QED BY <1>4, <1>i, <2>5, TypeKept, FreeDoneStep, Zenon
<1> QED BY <1>3, <1>4

-----------------------------------------------------------------------------
(* The theorems.                                                           *)

\* A table whose entries are numbered from 1 is a sequence.
LEMMA TableIsSeq ==
    ASSUME NEW S, NEW n \in Nat, NEW f \in [1..n -> S]
    PROVE  f \in Seq(S)
  OBVIOUS

\* After procinit() and userinit() the slot invariant holds.
LEMMA InitKept == Init => SlotInv
<1> SUFFICES ASSUME Init PROVE SlotInv
   OBVIOUS
<1>1. /\ \A q \in Procs : /\ proc[q].state = IF q = 1 THEN "RUNNABLE" ELSE "UNUSED"
                          /\ proc[q].lock = Free
                          /\ proc[q].contp = IF q = 1 THEN 0 ELSE NoCont
      /\ \A c \in Conts : cont[c].run_list = IF c = 0 THEN <<1>> ELSE <<>>
      /\ \A k \in CPUs : cpu[k] = IdleCpu
      /\ \A q \in Procs : thr[q] = AtRest("forkret")
   BY DEF Init, UnusedProc, initproc, cont_root
<1>2. 1 \in Procs /\ 0 \in Conts
   BY ConstAssumption DEF Procs, Conts
<1>3. /\ unused_list \in Seq(Procs) /\ Len(unused_list) = NPROC - 1
      /\ \A i \in 1..(NPROC - 1) : unused_list[i] = i + 1
  <2> DEFINE n == NPROC - 1
  <2>1. n \in Nat /\ unused_list \in [1..n -> Procs] /\ DOMAIN unused_list = 1..n
     BY ConstAssumption DEF Init, Procs
  <2>2. \A i \in 1..n : unused_list[i] = i + 1
     BY DEF Init
  <2> HIDE DEF n
  <2>3. unused_list \in Seq(Procs)
     BY <2>1, TableIsSeq
  <2>4. Len(unused_list) = n
     BY <2>1, <2>3
  <2> QED BY <2>2, <2>3, <2>4, Zenon DEF n
<1>4. \A q \in Procs : Where(q) = "forkret" /\ thr[q].pc = "forkret"
  BY <1>1 DEF AtRest, Where
<1>5. "forkret" \notin OwnPcs \cup FreePcs \cup LockedPcs \cup ForkPcs \cup ContPcs
   BY Zenon DEF OwnPcs, FreePcs, LockedPcs, ForkPcs, ContPcs
<1>6. TypeOK
  <2>1. proc \in [Procs -> ProcRec]
    <3>1. UnusedProc \in ProcRec /\ [UnusedProc EXCEPT !.state = "RUNNABLE", !.pid = 1,
                                         !.contp = cont_root] \in ProcRec
       BY <1>2, Zenon DEF UnusedProc, ProcRec, ProcStates, Locks, cont_root
    <3> QED BY <3>1 DEF Init
  <2>2. cont \in [Conts -> ContRec]
    BY <1>2 DEF initproc, Locks, ContRec, Init
  <2>3. cpu \in [CPUs -> CpuRec]
     BY DEF Init, IdleCpu, CpuRec
  <2>4. thr \in [Procs -> ThrRec]
    <3>1. "forkret" \in Pcs
       BY DEF Pcs, ProcPcs
    <3>2. AtRest("forkret") \in ThrRec
       BY <3>1, AtRestType, Zenon
    <3> HIDE DEF AtRest
    <3> QED BY <3>2 DEF Init
  <2>5. cont_unused_list \in Seq(Conts)
    <3> DEFINE n == NCONT - 1
    <3>1. n \in Nat /\ cont_unused_list \in [1..n -> Conts]
       BY ConstAssumption DEF Init, Conts
    <3> HIDE DEF n
    <3> QED BY <3>1, TableIsSeq, Zenon
  <2>6. cont_run_list \subseteq Conts /\ wait_lock \in Locks
     BY <1>2, Zenon DEF Init, cont_root, Locks
  <2> QED BY <1>3, <1>4, <1>5, <2>1, <2>2, <2>3, <2>4, <2>5, <2>6, Zenon DEF TypeOK
<1>7. OneCPU /\ AssertRunnable /\ CpuOwns /\ RunIsRunning /\ LockHandover /\ Picked
  BY <1>1 DEF IdleCpu, OneCPU, AssertRunnable, CpuOwns, RunIsRunning, LockHandover, Picked
<1>8. SlotLocked /\ SlotState /\ SlotOwners /\ Pushing
   BY <1>4, <1>5, Zenon DEF SlotLocked, SlotState, SlotOk, SlotOwners, Pushing
<1>9. HasContainer
   BY <1>1, <1>2, <1>4, Zenon DEF HasContainer
<1>10. UnusedList
  <2>1. \A i \in 1..Len(unused_list) : unused_list[i] = i + 1 /\ i + 1 \in Procs /\ i + 1 # 1
     BY <1>3, ConstAssumption DEF Procs
  <2> QED BY <2>1, <1>1, <1>4 DEF UnusedList
<1>11. /\ \A c \in Conts : c # 0 => Len(cont[c].run_list) = 0
       /\ Len(cont[0].run_list) = 1 /\ cont[0].run_list[1] = 1
   BY <1>1, <1>2
<1>12. \A c \in Conts : \A i \in 1..Len(cont[c].run_list) : c = 0 /\ i = 1 /\ cont[c].run_list[i] = 1
  <2> TAKE c \in Conts
  <2>1. CASE c = 0
     BY <2>1, <1>11
  <2>2. CASE c # 0
     BY <2>2, <1>11
  <2> QED BY <2>1, <2>2, Zenon
<1>13. QueuedRunnable
   BY <1>12, <1>1 DEF QueuedRunnable, OnRunList
<1>14. QueuedOnce
   BY <1>12, Zenon DEF QueuedOnce
<1> QED BY <1>6, <1>7, <1>8, <1>9, <1>10, <1>13, <1>14, Zenon DEF SlotInv

\* An idle or a panicked CPU changes nothing.
LEMMA StutterKept == SlotInv /\ UNCHANGED vars => SlotInv'
<1> SUFFICES ASSUME SlotInv, UNCHANGED vars PROVE SlotInv'
   OBVIOUS
<1>1. /\ proc' = proc /\ cont' = cont /\ unused_list' = unused_list
      /\ cont_unused_list' = cont_unused_list /\ cont_run_list' = cont_run_list
      /\ wait_lock' = wait_lock /\ cpu' = cpu /\ thr' = thr
   BY DEF vars, lists
<1>2. \A q \in Procs : Where(q)' = Where(q) /\ OnRunList(q)' = OnRunList(q)
   BY <1>1, Zenon DEF Where, OnRunList
<1>3. TypeOK'
   BY <1>1, <1>2, Zenon DEF SlotInv, TypeOK
<1>4. OneCPU' /\ AssertRunnable' /\ CpuOwns' /\ RunIsRunning' /\ LockHandover'
   BY <1>1, Zenon DEF SlotInv, OneCPU, AssertRunnable, CpuOwns, RunIsRunning, LockHandover
<1>5. SlotLocked' /\ SlotState' /\ HasContainer'
  <2>1. SlotLocked /\ SlotState /\ HasContainer
     BY DEF SlotInv
  <2>2. SlotLocked'
     BY <2>1, <1>1, Zenon DEF SlotLocked
  <2>3. SlotState'
     BY <2>1, <1>1, <1>2, Zenon DEF SlotState
  <2>4. HasContainer'
     BY <2>1, <1>1, <1>2, Zenon DEF HasContainer
  <2> QED BY <2>2, <2>3, <2>4, Zenon
<1>6. SlotOwners' /\ UnusedList'
  <2>1. SlotOwners /\ UnusedList
     BY DEF SlotInv
  <2>2. SlotOwners'
     BY <2>1, <1>1, <1>2, Zenon DEF SlotOwners
  <2>3. UnusedList'
     BY <2>1, <1>1, <1>2, Zenon DEF UnusedList
  <2> QED BY <2>2, <2>3
<1>7. QueuedRunnable' /\ QueuedOnce'
  <2>1. QueuedRunnable /\ QueuedOnce
     BY DEF SlotInv
  <2>2. QueuedRunnable'
     BY <2>1, <1>1, <1>2, Zenon DEF QueuedRunnable
  <2>3. QueuedOnce'
     BY <2>1, <1>1 DEF QueuedOnce
  <2> QED BY <2>2, <2>3
<1>8. Picked' /\ Pushing'
   BY <1>1, Zenon DEF SlotInv, Picked, Pushing, OnRunList, Where
<1> QED BY <1>3, <1>4, <1>5, <1>6, <1>7, <1>8, Zenon DEF SlotInv

\* Every step of every CPU keeps the slot invariant.
LEMMA NextKept == SlotInv /\ [Next]_vars => SlotInv'
<1> SUFFICES ASSUME SlotInv, [Next]_vars PROVE SlotInv'
   OBVIOUS
<1>1. CASE UNCHANGED vars
   BY <1>1, StutterKept, Zenon
<1>2. ASSUME NEW k \in CPUs, Scheduler(k) PROVE SlotInv'
  <2>1. CASE PickProc(k)
     BY <2>1, SchedulerTypes, PickProcStep, Zenon
  <2>2. CASE Dispatch(k)
     BY <2>2, SchedulerTypes, DispatchStep, Zenon
  <2>3. CASE SwtchBack(k)
     BY <2>3, SchedulerTypes, SwtchBackStep, Zenon
  <2>4. CASE Resume(k)
     BY <2>4, ResumeKept
  <2>5. CASE Yield(k)
     BY <2>5, YieldKept, Zenon
  <2>6. CASE Idle(k) \/ PanicLoop(k)
     BY <2>6, StutterKept, Zenon DEF Idle, PanicLoop
  <2> QED BY <1>2, <2>1, <2>2, <2>3, <2>4, <2>5, <2>6, Zenon DEF Scheduler
<1>3. ASSUME NEW k \in CPUs, NEW p \in Procs, Thread(k, p) PROVE SlotInv'
  <2>1. CASE (\E c \in Conts : ForkPop(k, p, c)) \/ ForkParent(k, p) \/ FreeCont(k, p)
     BY <2>1, SlotPcKept, Zenon
  <2>2. CASE \/ ForkAlloc(k, p) \/ ForkPages(k, p) \/ ForkNoPages(k, p)
             \/ ForkCopy(k, p) \/ ForkRun(k, p)
     BY <2>2, ForkKept, Zenon
  <2>3. CASE ForkPush(k, p) \/ FreeDone(k, p)
     BY <2>3, ReturnKept, Zenon
  <2>4. CASE FreeSlot(k, p)
     BY <2>4, FreeSlotKept, Zenon
  <2>5. CASE \/ ExitBegin(k, p) \/ ExitCount(k, p) \/ ExitIput(k, p) \/ ExitWait(k, p)
             \/ ExitReparent(k, p)
     BY <2>5, ExitKept, Zenon
  <2>6. CASE ExitWakeup(k, p)
     BY <2>6, ExitWakeupKept
  <2>7. CASE ExitZombie(k, p) \/ WaitSleep(k, p)
     BY <2>7, SleepKept
  <2>8. CASE WaitAcquire(k, p) \/ WaitKilled(k, p)
     BY <2>8, WaitQuiet
  <2>9. CASE \E q \in Procs : WaitScan(k, p, q)
     BY <2>9, WaitScanKept, Zenon
  <2>10. CASE (\E n \in KillPids : KillBegin(k, p, n)) \/ KillScan(k, p)
     BY <2>10, KillKept, Zenon
  <2>11. CASE CforkBegin(k, p) \/ ContInit(k, p) \/ CforkList(k, p) \/ CforkNoProc(k, p)
     BY <2>11, CforkKept, Zenon
  <2>12. CASE ContNamei(k, p)
     BY <2>12, ContNameiKept
  <2> QED BY <1>3, <2>1, <2>2, <2>3, <2>4, <2>5, <2>6, <2>7, <2>8, <2>9, <2>10, <2>11, <2>12, Zenon
          DEF Thread
<1> QED BY <1>1, <1>2, <1>3, Zenon DEF Next

\* Each slot of the process table has one owner at any time: scheduler(),
\* fork(), wait() and the process itself hand it over under p->lock.
THEOREM SlotsOwned == Spec => []SlotInv
<1> QED BY InitKept, NextKept, PTL DEF Spec

\* Locks belong to CPUs or nobody, a CPU has a process exactly between
\* scheduler()'s two swtch()es, and fork(), wait() and cfork() only use locals
\* they have set.
THEOREM TypesKept == Spec => []TypeOK
<1>1. SlotInv => TypeOK
   BY Zenon DEF SlotInv
<1> QED BY <1>1, SlotsOwned, PTL

\* No process is ever on two CPUs: it cannot be picked between the push on the
\* run list in yield() and the swtch() away from its kernel stack.
THEOREM NeverOnTwoCPUs == Spec => []OneCPU
<1>1. SlotInv => OneCPU
   BY Zenon DEF SlotInv
<1> QED BY <1>1, SlotsOwned, PTL

\* scheduler()'s ASSERT(p->state == RUNNABLE) never fails.
THEOREM AssertHolds == Spec => []AssertRunnable
<1>1. SlotInv => AssertRunnable
   BY DEF SlotInv
<1> QED BY <1>1, SlotsOwned, PTL
=============================================================================
