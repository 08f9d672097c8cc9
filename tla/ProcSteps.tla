----------------------------- MODULE ProcSteps ------------------------------
(***************************************************************************)
(* The kinds of steps the kernel of Proc takes, and for each kind a lemma: *)
(* a step of the kind that keeps the types keeps SlotInv.  ProcProofs      *)
(* shows which action is of which kind.                                    *)
(***************************************************************************)
EXTENDS ProcInv, TLAPS

-----------------------------------------------------------------------------
(* Facts about sequences and about the types.                              *)

\* list_push_back(): one element more, at the end.
LEMMA AppendFacts ==
    ASSUME NEW S, NEW s \in Seq(S), NEW x \in S
    PROVE  /\ Append(s, x) \in Seq(S)
           /\ Len(Append(s, x)) = Len(s) + 1
           /\ \A i \in 1..Len(s) : Append(s, x)[i] = s[i]
           /\ Append(s, x)[Len(s) + 1] = x
OBVIOUS

\* list_pop(): the first element goes, the others move up.
LEMMA TailFacts ==
    ASSUME NEW S, NEW s \in Seq(S), s # <<>>
    PROVE  /\ Head(s) = s[1] /\ Head(s) \in S /\ Len(s) \in Nat /\ Len(s) >= 1
           /\ Tail(s) \in Seq(S)
           /\ Len(Tail(s)) = Len(s) - 1
           /\ \A i \in 1..(Len(s) - 1) : Tail(s)[i] = s[i + 1]
OBVIOUS

\* Updating one field of one record keeps a table well typed.
LEMMA SetProcState ==
    ASSUME NEW f \in [Procs -> ProcRec], NEW q \in Procs, NEW x \in ProcStates
    PROVE  [f EXCEPT ![q].state = x] \in [Procs -> ProcRec]
BY DEF ProcRec

\* Setting pid in one record keeps the proc table well typed.
LEMMA SetProcPid ==
    ASSUME NEW f \in [Procs -> ProcRec], NEW q \in Procs, NEW x \in Nat \cup {HackPid}
    PROVE  [f EXCEPT ![q].pid = x] \in [Procs -> ProcRec]
BY DEF ProcRec

\* Setting parent in one record keeps the proc table well typed.
LEMMA SetProcParent ==
    ASSUME NEW f \in [Procs -> ProcRec], NEW q \in Procs, NEW x \in Procs \cup {NoProc}
    PROVE  [f EXCEPT ![q].parent = x] \in [Procs -> ProcRec]
BY DEF ProcRec

\* Setting chan in one record keeps the proc table well typed.
LEMMA SetProcChan ==
    ASSUME NEW f \in [Procs -> ProcRec], NEW q \in Procs, NEW x \in Procs \cup {NoProc}
    PROVE  [f EXCEPT ![q].chan = x] \in [Procs -> ProcRec]
BY DEF ProcRec

\* Setting killed in one record keeps the proc table well typed.
LEMMA SetProcKilled ==
    ASSUME NEW f \in [Procs -> ProcRec], NEW q \in Procs, NEW x \in BOOLEAN
    PROVE  [f EXCEPT ![q].killed = x] \in [Procs -> ProcRec]
BY DEF ProcRec

\* Setting contp in one record keeps the proc table well typed.
LEMMA SetProcContp ==
    ASSUME NEW f \in [Procs -> ProcRec], NEW q \in Procs, NEW x \in Conts \cup {NoCont}
    PROVE  [f EXCEPT ![q].contp = x] \in [Procs -> ProcRec]
BY DEF ProcRec

\* Setting lock in one record keeps the proc table well typed.
LEMMA SetProcLock ==
    ASSUME NEW f \in [Procs -> ProcRec], NEW q \in Procs, NEW x \in Locks
    PROVE  [f EXCEPT ![q].lock = x] \in [Procs -> ProcRec]
BY DEF ProcRec

\* Setting state in one record keeps the cont table well typed.
LEMMA SetContState ==
    ASSUME NEW f \in [Conts -> ContRec], NEW c \in Conts, NEW x \in {"UNUSED", "USED"}
    PROVE  [f EXCEPT ![c].state = x] \in [Conts -> ContRec]
BY Zenon DEF ContRec

\* Setting nextpid in one record keeps the cont table well typed.
LEMMA SetContNextpid ==
    ASSUME NEW f \in [Conts -> ContRec], NEW c \in Conts, NEW x \in Nat
    PROVE  [f EXCEPT ![c].nextpid = x] \in [Conts -> ContRec]
BY Zenon DEF ContRec

\* Setting procList in one record keeps the cont table well typed.
LEMMA SetContProcList ==
    ASSUME NEW f \in [Conts -> ContRec], NEW c \in Conts, NEW x \in SUBSET Procs
    PROVE  [f EXCEPT ![c].proc_list = x] \in [Conts -> ContRec]
BY Zenon DEF ContRec

\* Setting runList in one record keeps the cont table well typed.
LEMMA SetContRunList ==
    ASSUME NEW f \in [Conts -> ContRec], NEW c \in Conts, NEW x \in Seq(Procs)
    PROVE  [f EXCEPT ![c].run_list = x] \in [Conts -> ContRec]
BY Zenon DEF ContRec

\* Setting rootdir in one record keeps the cont table well typed.
LEMMA SetContRootdir ==
    ASSUME NEW f \in [Conts -> ContRec], NEW c \in Conts, NEW x \in {"null", "held", "put", "leaked"}
    PROVE  [f EXCEPT ![c].rootdir = x] \in [Conts -> ContRec]
BY Zenon DEF ContRec

\* Setting lock in one record keeps the cont table well typed.
LEMMA SetContLock ==
    ASSUME NEW f \in [Conts -> ContRec], NEW c \in Conts, NEW x \in Locks
    PROVE  [f EXCEPT ![c].lock = x] \in [Conts -> ContRec]
BY Zenon DEF ContRec

\* Setting pc in one record keeps the thr table well typed.
LEMMA SetThrPc ==
    ASSUME NEW f \in [Procs -> ThrRec], NEW p \in Procs, NEW x \in Pcs
    PROVE  [f EXCEPT ![p].pc = x] \in [Procs -> ThrRec]
BY DEF ThrRec

\* Setting ret in one record keeps the thr table well typed.
LEMMA SetThrRet ==
    ASSUME NEW f \in [Procs -> ThrRec], NEW p \in Procs, NEW x \in Preemptible
    PROVE  [f EXCEPT ![p].ret = x] \in [Procs -> ThrRec]
BY DEF ThrRec

\* Setting np in one record keeps the thr table well typed.
LEMMA SetThrNp ==
    ASSUME NEW f \in [Procs -> ThrRec], NEW p \in Procs, NEW x \in Procs \cup {NoProc}
    PROVE  [f EXCEPT ![p].np = x] \in [Procs -> ThrRec]
BY DEF ThrRec

\* Setting cp in one record keeps the thr table well typed.
LEMMA SetThrCp ==
    ASSUME NEW f \in [Procs -> ThrRec], NEW p \in Procs, NEW x \in Conts \cup {NoCont}
    PROVE  [f EXCEPT ![p].cp = x] \in [Procs -> ThrRec]
BY DEF ThrRec

\* Setting idx in one record keeps the thr table well typed.
LEMMA SetThrIdx ==
    ASSUME NEW f \in [Procs -> ThrRec], NEW p \in Procs, NEW x \in 0..(NPROC + 1)
    PROVE  [f EXCEPT ![p].idx = x] \in [Procs -> ThrRec]
BY DEF ThrRec

\* Setting kpid in one record keeps the thr table well typed.
LEMMA SetThrKpid ==
    ASSUME NEW f \in [Procs -> ThrRec], NEW p \in Procs, NEW x \in Int
    PROVE  [f EXCEPT ![p].kpid = x] \in [Procs -> ThrRec]
BY DEF ThrRec

\* The shapes of the tables that every proof below starts from.
LEMMA Typed ==
    ASSUME TypeOK
    PROVE  /\ proc \in [Procs -> ProcRec] /\ cont \in [Conts -> ContRec]
           /\ cpu \in [CPUs -> CpuRec] /\ thr \in [Procs -> ThrRec]
           /\ unused_list \in Seq(Procs)
BY DEF TypeOK

\* A CPU in scheduler() has read p, and one running a process has it in c->proc.
LEMMA CpuTyped ==
    ASSUME TypeOK, NEW k \in CPUs
    PROVE  /\ cpu[k].pc \in {"run", "back", "sched locks", "kerneltrap", "init exiting"} =>
                cpu[k].proc \in Procs /\ cpu[k].next = NoProc
           /\ cpu[k].pc \in {"idle", "picked", "ASSERT"} => cpu[k].proc = NoProc
           /\ cpu[k].pc \in {"picked", "ASSERT"} => cpu[k].next \in Procs
           /\ cpu[k].proc \in Procs \/ cpu[k].proc = NoProc
BY Zenon DEF TypeOK, CpuRec

\* A thread that works on a slot has it in np.
LEMMA ThrTyped ==
    ASSUME TypeOK, NEW p \in Procs
    PROVE  /\ thr[p].pc \in Pcs /\ thr[p].ret \in Preemptible
           /\ Where(p) \in OwnPcs \cup FreePcs => thr[p].np \in Procs
BY DEF TypeOK, ThrRec, OwnPcs, FreePcs

\* Run lists hold process slots.
LEMMA RunListTyped ==
    ASSUME TypeOK, NEW c \in Conts
    PROVE  cont[c].run_list \in Seq(Procs)
BY DEF TypeOK, ContRec

\* The null pointer is not a slot.
LEMMA NullProc == NoProc \notin Procs
BY ConstAssumption DEF NoProc, Procs

-----------------------------------------------------------------------------
(* The run lists.                                                          *)

\* Pushing a process that is on no run list keeps every process queued once.
LEMMA PushRunList ==
    ASSUME TypeOK, NEW c \in Conts, NEW q \in Procs,
           \A d \in Conts : cont'[d].run_list =
               IF d = c THEN Append(cont[c].run_list, q) ELSE cont[d].run_list
    PROVE  /\ \A x \in Procs : OnRunList(x)' => OnRunList(x) \/ x = q
           /\ QueuedOnce /\ ~OnRunList(q) => QueuedOnce'
<1> DEFINE L(d) == cont[d].run_list
<1> DEFINE M(d) == cont'[d].run_list
<1>1. \A d \in Conts : L(d) \in Seq(Procs)
   BY RunListTyped
<1>0. M(c) = Append(L(c), q) /\ \A d \in Conts : d # c => M(d) = L(d)
   BY Zenon
<1> HIDE DEF L, M
<1>2. /\ Len(M(c)) = Len(L(c)) + 1
      /\ \A i \in 1..Len(L(c)) : M(c)[i] = L(c)[i]
      /\ M(c)[Len(L(c)) + 1] = q
      /\ \A d \in Conts : d # c => M(d) = L(d)
      /\ \A d \in Conts : Len(L(d)) \in Nat
   BY <1>0, <1>1, AppendFacts
<1>3. \A d \in Conts : \A i \in 1..Len(M(d)) :
         \/ d = c /\ i = Len(L(c)) + 1 /\ M(d)[i] = q
         \/ i \in 1..Len(L(d)) /\ M(d)[i] = L(d)[i]
   BY <1>2
<1>4. ASSUME NEW x \in Procs, OnRunList(x)'
      PROVE  OnRunList(x) \/ x = q
   BY <1>3, <1>4 DEF OnRunList, L, M
<1>5. ASSUME QueuedOnce, ~OnRunList(q)
      PROVE  QueuedOnce'
  <2> SUFFICES ASSUME NEW d \in Conts, NEW e \in Conts,
                      NEW i \in 1..Len(M(d)), NEW j \in 1..Len(M(e)), M(d)[i] = M(e)[j]
               PROVE  d = e /\ i = j
     BY DEF QueuedOnce, M
  <2>1. \A f \in Conts : \A n \in 1..Len(L(f)) : L(f)[n] # q
     BY <1>5 DEF OnRunList, L
  <2>2. \A f, g \in Conts : \A n \in 1..Len(L(f)), m \in 1..Len(L(g)) :
           L(f)[n] = L(g)[m] => f = g /\ n = m
     BY <1>5 DEF QueuedOnce, L
  <2> QED BY <1>3, <2>1, <2>2
<1> QED BY <1>4, <1>5

\* Popping takes its only entry from the process popped.
LEMMA PopRunList ==
    ASSUME TypeOK, QueuedOnce, NEW c \in Conts, cont[c].run_list # <<>>,
           NEW h, h = Head(cont[c].run_list),
           \A d \in Conts : cont'[d].run_list =
               IF d = c THEN Tail(cont[c].run_list) ELSE cont[d].run_list
    PROVE  /\ h \in Procs /\ OnRunList(h) /\ ~OnRunList(h)'
           /\ \A x \in Procs : OnRunList(x)' => OnRunList(x)
           /\ QueuedOnce'
<1> DEFINE L(d) == cont[d].run_list
<1> DEFINE M(d) == cont'[d].run_list
<1>1. \A d \in Conts : L(d) \in Seq(Procs)
   BY RunListTyped
<1>0. /\ L(c) # <<>> /\ h = Head(L(c)) /\ M(c) = Tail(L(c))
      /\ \A d \in Conts : d # c => M(d) = L(d)
   OBVIOUS
<1>3. \A f, g \in Conts : \A n \in 1..Len(L(f)), m \in 1..Len(L(g)) :
         L(f)[n] = L(g)[m] => f = g /\ n = m
   BY DEF QueuedOnce
<1> HIDE DEF L, M
<1>2. /\ h = L(c)[1] /\ h \in Procs /\ Len(L(c)) >= 1
      /\ Len(M(c)) = Len(L(c)) - 1
      /\ \A i \in 1..(Len(L(c)) - 1) : M(c)[i] = L(c)[i + 1]
      /\ \A d \in Conts : d # c => M(d) = L(d)
      /\ \A d \in Conts : Len(L(d)) \in Nat
   BY <1>0, <1>1, TailFacts
<1>4. \A d \in Conts : \A i \in 1..Len(M(d)) :
         \/ d = c /\ i + 1 \in 1..Len(L(c)) /\ M(d)[i] = L(c)[i + 1]
         \/ d # c /\ i \in 1..Len(L(d)) /\ M(d)[i] = L(d)[i]
   BY <1>2
<1>5. h \in Procs /\ OnRunList(h)
   BY <1>2 DEF OnRunList, L
<1>6. ASSUME NEW x \in Procs, OnRunList(x)'
      PROVE  OnRunList(x)
  <2>1. PICK d \in Conts : \E i \in 1..Len(M(d)) : M(d)[i] = x
     BY <1>6 DEF OnRunList, M
  <2>2. \E e \in Conts : \E j \in 1..Len(L(e)) : L(e)[j] = x
     BY <2>1, <1>4
  <2> QED BY <2>2 DEF OnRunList, L
<1>7. \A d \in Conts : \A i \in 1..Len(M(d)) : M(d)[i] # h
  BY <1>2, <1>3, <1>4
<1>8. ~OnRunList(h)'
   BY <1>7 DEF OnRunList, M
<1>9. QueuedOnce'
  BY <1>3, <1>4 DEF QueuedOnce, M
<1> QED BY <1>5, <1>6, <1>8, <1>9

-----------------------------------------------------------------------------
(* One lemma per kind of step: given that types are kept, it keeps SlotInv.*)

\* What the steps need of TypeOK.
CpuProc == \A l \in CPUs : cpu[l].proc \in Procs \/ cpu[l].proc = NoProc
CpuHas == \A l \in CPUs : cpu[l].pc \in {"run", "back"} => cpu[l].proc \in Procs
CpuNext == \A l \in CPUs : cpu[l].pc = "picked" => cpu[l].next \in Procs
SlotNamed == \A r \in Procs : Where(r) \in OwnPcs \cup FreePcs => thr[r].np \in Procs
LockedNamed == \A r \in Procs : thr[r].pc \in LockedPcs => thr[r].np \in Procs
ListTyped == unused_list \in Seq(Procs) /\ \A i \in 1..Len(unused_list) : unused_list[i] \in Procs

\* A thread that is elsewhere, or still at the same place with the same slot, is as
\* SlotState says.
LEMMA SlotKept ==
    ASSUME SlotState, NEW r \in Procs,
           Where(r)' \in OwnPcs \cup FreePcs =>
              Where(r)' = Where(r) /\ proc'[thr'[r].np].state = proc[thr[r].np].state
    PROVE  SlotOk(Where(r)', proc'[thr'[r].np].state)
  BY DEF SlotState, SlotOk, OwnPcs, ForkPcs, FreePcs

\* Processes that stay where they are on unused_list stay unused.
LEMMA UnusedKept ==
    ASSUME UnusedList, unused_list' = unused_list,
           \A i \in 1..Len(unused_list) :
              proc'[unused_list[i]].state = proc[unused_list[i]].state,
           \A r \in Procs : Where(r)' = "fork_alloc" =>
              Where(r) = "fork_alloc" /\ thr'[r].np = thr[r].np
    PROVE  UnusedList'
  BY DEF UnusedList

\* Nothing is queued, and the CPUs that have picked a process keep it as it is.
LEMMA PickedKept ==
    ASSUME Picked, \A x \in Procs : OnRunList(x)' => OnRunList(x),
           \A l \in CPUs : cpu'[l].pc = "picked" =>
              /\ cpu[l].pc = "picked" /\ cpu'[l].next = cpu[l].next /\ cpu[l].next \in Procs
              /\ proc'[cpu[l].next].state = proc[cpu[l].next].state
    PROVE  Picked'
  BY DEF Picked, OnRunList

\* Nothing is queued or picked, and no thread comes to push another process.
LEMMA PushingKept ==
    ASSUME Pushing, \A x \in Procs : OnRunList(x)' => OnRunList(x),
           \A l \in CPUs : cpu'[l].pc = "picked" =>
              cpu[l].pc = "picked" /\ cpu'[l].next = cpu[l].next,
           \A r \in Procs : Where(r)' = "fork_push" =>
              Where(r) = "fork_push" /\ thr'[r].np = thr[r].np /\ thr[r].np \in Procs
    PROVE  Pushing'
  BY DEF Pushing, OnRunList

\* The same when one process is queued, which no thread is about to push.
LEMMA PushingKeptBut ==
    ASSUME Pushing, NEW q, \A x \in Procs : OnRunList(x)' => OnRunList(x) \/ x = q,
           \A l \in CPUs : cpu'[l].pc = "picked" =>
              cpu[l].pc = "picked" /\ cpu'[l].next = cpu[l].next,
           \A r \in Procs : Where(r)' = "fork_push" =>
              /\ Where(r) = "fork_push" /\ thr'[r].np = thr[r].np
              /\ thr[r].np \in Procs /\ thr[r].np # q
    PROVE  Pushing'
  BY DEF Pushing, OnRunList

\* The type invariant gives the facts named above.
LEMMA Shapes ==
    ASSUME TypeOK
    PROVE  CpuProc /\ CpuHas /\ CpuNext /\ SlotNamed /\ LockedNamed /\ ListTyped
<1>1. CpuProc /\ CpuHas /\ CpuNext
   BY CpuTyped, Zenon DEF CpuProc, CpuHas, CpuNext
<1>2. SlotNamed
   BY ThrTyped DEF SlotNamed
<1>3. LockedNamed
   BY ThrTyped DEF LockedNamed, LockedPcs, Where, OwnPcs, ForkPcs, FreePcs
<1>4. ListTyped
   BY Typed DEF ListTyped
<1> QED BY <1>1, <1>2, <1>3, <1>4

SameProc(q) == /\ proc'[q].state = proc[q].state
               /\ proc'[q].lock = proc[q].lock
               /\ proc'[q].contp = proc[q].contp
SameProcBut(q) == \A r \in Procs : r # q => SameProc(r)
SameThrBut(p) == \A r \in Procs : r # p => thr'[r] = thr[r]
SameCpuBut(k) == \A l \in CPUs : l # k => cpu'[l] = cpu[l]
ShrinkRunLists == \A c \in Conts : cont'[c].run_list \in {cont[c].run_list, <<>>}
PushesOn(c, q) == \A d \in Conts : cont'[d].run_list =
    IF d = c THEN Append(cont[c].run_list, q) ELSE cont[d].run_list
HandoverPcs == {"forkret", "yielded", "slept"}

\* The run lists stay, or a new container's starts empty.
LEMMA ShrinkFacts ==
    ASSUME TypeOK, ShrinkRunLists
    PROVE  /\ \A x \in Procs : OnRunList(x)' => OnRunList(x)
           /\ QueuedOnce => QueuedOnce'
<1>1. \A c \in Conts : \A i \in 1..Len(cont'[c].run_list) :
         i \in 1..Len(cont[c].run_list) /\ cont'[c].run_list[i] = cont[c].run_list[i]
   BY DEF ShrinkRunLists
<1>2. ASSUME NEW x \in Procs, OnRunList(x)' PROVE OnRunList(x)
   BY <1>1, <1>2 DEF OnRunList
<1>3. ASSUME QueuedOnce PROVE QueuedOnce'
   BY <1>1, <1>3 DEF QueuedOnce
<1> QED BY <1>2, <1>3

\* CPU k executes p at positions where p works on no slot, or keeps the one it
\* has.  The step may change the state and the lock of q: of p itself, at
\* swtch(), or of a sleeping process that p wakes up.
MoveStep(k, p, q) ==
    /\ cpu[k].pc = "run" /\ cpu[k].proc = p
    /\ q = p \/ (proc[q].state = "SLEEPING" /\ proc[q].lock = Free)
    /\ SameProcBut(q) /\ proc'[q].contp = proc[q].contp
    /\ proc'[q].state \in {"RUNNING", "RUNNABLE", "SLEEPING", "ZOMBIE"}
    /\ \/ ShrinkRunLists
       \/ proc'[q].state = "RUNNABLE" /\ PushesOn(proc[q].contp, q)
    /\ SameThrBut(p) /\ thr'[p].pc \notin LockedPcs
    /\ \/ Where(p)' \notin OwnPcs \cup FreePcs
       \/ Where(p)' = Where(p) /\ thr'[p].np = thr[p].np
    /\ SameCpuBut(k) /\ cpu'[k].proc = p
    /\ cpu'[k].pc \in {"run", "back", "sched locks", "kerneltrap", "init exiting"}
    /\ unused_list' = unused_list
    /\ proc'[p].state = "RUNNING" \/ proc'[p].lock = k
    /\ cpu'[k].pc = "run" => proc'[p].state = "RUNNING"
    /\ cpu'[k].pc = "back" \/ thr'[p].pc \in HandoverPcs => proc'[p].lock = k

\* A step of this kind keeps the slot invariant.
LEMMA Move ==
    ASSUME SlotInv, NEW k \in CPUs, NEW p \in Procs, NEW q \in Procs, MoveStep(k, p, q), TypeOK'
    PROVE  SlotInv'
<1>i. /\ TypeOK /\ OneCPU /\ AssertRunnable
      /\ CpuOwns /\ RunIsRunning /\ LockHandover /\ SlotLocked
      /\ SlotState /\ HasContainer /\ SlotOwners
      /\ UnusedList /\ QueuedRunnable /\ QueuedOnce /\ Picked /\ Pushing
   BY DEF SlotInv
<1>t. CpuProc /\ CpuHas /\ CpuNext /\ SlotNamed /\ LockedNamed /\ ListTyped
   BY <1>i, Shapes
<1>c. SameCpuBut(k) /\ cpu[k].pc = "run" /\ cpu[k].proc = p /\ cpu'[k].proc = p
   BY Zenon DEF MoveStep
<1>d. cpu'[k].pc # "ASSERT" /\ cpu'[k].pc # "picked"
   BY Zenon DEF MoveStep
<1>e. /\ proc'[p].state = "RUNNING" \/ proc'[p].lock = k
      /\ cpu'[k].pc = "run" => proc'[p].state = "RUNNING"
      /\ cpu'[k].pc = "back" \/ thr'[p].pc \in HandoverPcs => proc'[p].lock = k
   BY Zenon DEF MoveStep
<1>p. SameProcBut(q) /\ proc'[q].contp = proc[q].contp /\ proc'[q].state \notin {"UNUSED", "USED"}
   BY Zenon DEF MoveStep
<1>s. SameThrBut(p) /\ thr'[p].pc \notin LockedPcs
   BY Zenon DEF MoveStep
<1>u. unused_list' = unused_list
   BY Zenon DEF MoveStep
<1>1. \A r \in Procs : r # p => Where(r)' = Where(r)
   BY <1>s DEF Where, SameThrBut
<1>2. \A r \in Procs : Where(r)' \in OwnPcs \cup FreePcs => Where(r)' = Where(r) /\ thr'[r].np = thr[r].np
   BY <1>1, <1>s, Zenon DEF MoveStep, SameThrBut
<1>3. proc[q].state \in {"SLEEPING", "RUNNING"}
   BY <1>i, <1>c, Zenon DEF MoveStep, RunIsRunning
<1>4. \A r \in Procs : Where(r) \in OwnPcs \cup FreePcs => thr[r].np # q
   BY <1>3, <1>i DEF SlotState, SlotOk, OwnPcs, ForkPcs, FreePcs
<1>5. proc[q].contp \in Conts
   BY <1>3, <1>i DEF HasContainer
<1>6. \A l \in CPUs : cpu'[l].proc = cpu[l].proc
   BY <1>c DEF SameCpuBut
<1>7. \A l \in CPUs : l # k => cpu[l].proc # p /\ cpu[l].proc # q
  <2>1. \A l \in CPUs : l # k => cpu[l].proc # p
     BY <1>i, <1>c, NullProc DEF OneCPU
  <2>2. ASSUME q # p, NEW l \in CPUs, cpu[l].proc = q PROVE FALSE
     BY <2>2, <1>i, ConstAssumption, NullProc, Zenon DEF MoveStep, CpuOwns
  <2> QED BY <2>1, <2>2
<1>8. ~OnRunList(q)
   BY <1>3, <1>i DEF QueuedRunnable
<1>9. /\ QueuedOnce'
      /\ \A x \in Procs : OnRunList(x)' => OnRunList(x) \/ (x = q /\ proc'[q].state = "RUNNABLE")
  <2>1. CASE ShrinkRunLists
     BY <2>1, <1>i, ShrinkFacts, Zenon
  <2>2. CASE proc'[q].state = "RUNNABLE" /\ PushesOn(proc[q].contp, q)
     BY <2>2, <1>5, <1>8, <1>i, PushRunList, Zenon DEF PushesOn
  <2> QED BY <2>1, <2>2, Zenon DEF MoveStep
<1>10. OneCPU'
   BY <1>i, <1>6 DEF OneCPU
<1>11. AssertRunnable'
   BY <1>i, <1>c, <1>d, Zenon DEF AssertRunnable, SameCpuBut
<1>12. CpuOwns'
   BY <1>t, <1>i, <1>p, <1>c, <1>e, <1>7, NullProc DEF CpuOwns, SameCpuBut, SameProcBut, SameProc, CpuProc
<1>13. RunIsRunning'
   BY <1>t, <1>i, <1>p, <1>c, <1>e, <1>7 DEF RunIsRunning, SameCpuBut, SameProcBut, SameProc, CpuHas
<1>14. LockHandover'
  BY <1>c, <1>e, <1>7, <1>t, <1>p, <1>s, <1>i DEF LockHandover, HandoverPcs, SameCpuBut,
         CpuHas, SameProcBut, SameProc, SameThrBut
<1>15. SlotLocked'
  BY <1>s, <1>i, <1>t, <1>4, <1>p, <1>c DEF SlotLocked, SameThrBut, LockedNamed, LockedPcs,
         Where, OwnPcs, ForkPcs, FreePcs, SameCpuBut, SameProcBut, SameProc
<1>16. \A r \in Procs : Where(r)' \in OwnPcs \cup FreePcs => thr[r].np \in Procs /\ SameProc(thr[r].np)
   BY <1>t, <1>2, <1>4, <1>p, Zenon DEF SameProcBut, SlotNamed
<1>17. SlotState'
  BY <1>2, <1>16, <1>i, SlotKept, Zenon DEF SameProc, SlotState
<1>18. HasContainer'
  BY <1>i, <1>p, <1>5, <1>2, <1>16 DEF HasContainer, SameProcBut, SameProc, OwnPcs, ForkPcs,
         FreePcs
<1>19. SlotOwners'
   BY <1>i, <1>2, Zenon DEF SlotOwners
<1>20. UnusedList'
  BY <1>t, <1>i, <1>3, <1>2, <1>p, <1>u, UnusedKept, Zenon DEF ListTyped, UnusedList, OwnPcs, ForkPcs,
         SameProcBut, SameProc
<1>21. QueuedRunnable'
   BY <1>i, <1>8, <1>9, <1>p, Zenon DEF QueuedRunnable, SameProcBut, SameProc
<1>22. Picked'
  BY <1>t, <1>i, <1>c, <1>d, <1>3, <1>9, <1>p DEF CpuNext, Picked, SameCpuBut, SameProcBut,
         SameProc
<1>23. Pushing'
  <2>1. \A l \in CPUs : cpu'[l].pc = "picked" =>
           cpu[l].pc = "picked" /\ cpu'[l].next = cpu[l].next
     BY <1>c, <1>d DEF SameCpuBut
  <2>2. \A r \in Procs : Where(r)' = "fork_push" =>
           /\ Where(r) = "fork_push" /\ thr'[r].np = thr[r].np
           /\ thr[r].np \in Procs /\ thr[r].np # q
     BY <1>t, <1>2, <1>4 DEF SlotNamed, OwnPcs, ForkPcs
  <2> QED BY <2>1, <2>2, <1>i, <1>9, PushingKeptBut, Zenon
<1> QED
   BY <1>9, <1>10, <1>11, <1>12, <1>13, <1>14, <1>15, <1>17, <1>18, <1>19, <1>20, <1>21, <1>22, <1>23
      DEF SlotInv

\* CPU k executes p, which works on the slot q that it has taken: a slot from
\* unused_list in fork(), or a zombie child in wait().  The thread of the new
\* process is reset when allocproc() sets its context up.
SlotStep(k, p, q) ==
    /\ cpu[k].pc = "run" /\ cpu[k].proc = p
    /\ proc[q].lock \in {Free, k} /\ proc[q].state \in {"UNUSED", "USED", "ZOMBIE"}
    /\ \/ /\ Where(p) \in OwnPcs /\ thr[p].np = q
          /\ Where(p) = "fork_alloc" => proc[q].lock = Free
          /\ Where(p) # "fork_alloc" => proc[q].state # "UNUSED"
       \/ proc[q].state = "ZOMBIE" /\ proc[q].lock = Free
    /\ SameProcBut(q) /\ proc'[q].state # "RUNNING"
    /\ proc'[q].state \notin {"UNUSED", "USED"} => proc'[q].contp \in Conts
    /\ \A c \in Conts : cont'[c].run_list = cont[c].run_list
    /\ \A r \in Procs : r # p => thr'[r] = thr[r] \/ (r = q /\ thr'[r].pc = "forkret")
    /\ thr'[p].np = q /\ thr'[p].pc \notin HandoverPcs \cup {"fork_alloc"}
    /\ SameCpuBut(k) /\ cpu'[k].proc = p /\ cpu'[k].pc \in {"run", "kerneltrap"}
    /\ \/ unused_list' = unused_list /\ proc'[q].state # "UNUSED"
       \/ /\ unused_list' = Append(unused_list, q)
          /\ proc[q].state # "UNUSED" /\ proc'[q].state = "UNUSED"
    /\ thr'[p].pc \in LockedPcs => cpu'[k].pc = "run" /\ proc'[q].lock = k
    /\ thr'[p].pc \in {"fork_pages", "fork_copy", "fork_parent", "fork_run"} =>
          proc'[q].state = "USED"
    /\ thr'[p].pc = "fork_push" => proc'[q].state = "RUNNABLE"
    /\ thr'[p].pc = "free_slot" => proc'[q].state \in {"USED", "ZOMBIE"}
    /\ thr'[p].pc \in {"free_cont", "free_done"} => proc'[q].state = "UNUSED"
    /\ thr'[p].pc \in {"fork_copy", "fork_parent", "fork_run", "free_slot", "free_cont"} =>
          proc'[q].contp \in Conts
    /\ proc'[q].state = "RUNNABLE" => thr'[p].pc = "fork_push"

\* Work on a taken slot keeps the slot invariant.
LEMMA SlotMove ==
    ASSUME SlotInv, NEW k \in CPUs, NEW p \in Procs, NEW q \in Procs, SlotStep(k, p, q), TypeOK'
    PROVE  SlotInv'
<1>i. /\ TypeOK /\ OneCPU /\ AssertRunnable
      /\ CpuOwns /\ RunIsRunning /\ LockHandover /\ SlotLocked
      /\ SlotState /\ HasContainer /\ SlotOwners
      /\ UnusedList /\ QueuedRunnable /\ QueuedOnce /\ Picked /\ Pushing
   BY DEF SlotInv
<1>t. CpuProc /\ CpuHas /\ CpuNext /\ SlotNamed /\ LockedNamed /\ ListTyped
   BY <1>i, Shapes
<1>c. SameCpuBut(k) /\ cpu[k].pc = "run" /\ cpu[k].proc = p /\ cpu'[k].proc = p
   BY Zenon DEF SlotStep
<1>d. cpu'[k].pc # "ASSERT" /\ cpu'[k].pc # "picked" /\ cpu'[k].pc # "back"
   BY Zenon DEF SlotStep
<1>e. proc[q].lock \in {Free, k} /\ proc[q].state \in {"UNUSED", "USED", "ZOMBIE"}
   BY Zenon DEF SlotStep
<1>p. SameProcBut(q) /\ (proc'[q].state \notin {"UNUSED", "USED"} => proc'[q].contp \in Conts)
   BY Zenon DEF SlotStep
<1>s. /\ \A r \in Procs : r # p => thr'[r] = thr[r] \/ (r = q /\ thr'[r].pc = "forkret")
      /\ thr'[p].np = q /\ thr'[p].pc \notin HandoverPcs \cup {"fork_alloc"}
   BY Zenon DEF SlotStep
<1>r. ShrinkRunLists
   BY Zenon DEF SlotStep, ShrinkRunLists
<1>0. p # q /\ proc[p].state = "RUNNING"
   BY <1>c, <1>e, <1>i, Zenon DEF RunIsRunning
<1>1. \A r \in Procs : r # p /\ Where(r)' \in OwnPcs \cup FreePcs => thr'[r] = thr[r] /\ Where(r)' = Where(r)
   BY <1>s DEF Where, OwnPcs, ForkPcs, FreePcs
<1>2. Where(p)' = thr'[p].pc
   BY <1>s DEF Where, HandoverPcs
<1>l. \A r \in Procs : Where(r) \in LockedPcs => thr[r].pc = Where(r)
   BY <1>i, ThrTyped, Zenon DEF Where, LockedPcs, FreePcs, Preemptible
<1>3. \A r \in Procs : r # p /\ thr[r].pc \in LockedPcs => thr[r].np # q
  BY <1>i, <1>c, <1>e, ConstAssumption DEF SlotLocked
<1>4. \A r \in Procs : r # p /\ Where(r) \in OwnPcs \cup FreePcs => thr[r].np # q
  BY <1>3, <1>l, <1>i DEF LockedPcs, OwnPcs, FreePcs, SlotState, SlotOk, ForkPcs, SlotOwners,
         SlotStep
<1>5. \A l \in CPUs : cpu[l].proc # q /\ cpu'[l].proc = cpu[l].proc
   BY <1>0, <1>c, <1>e, <1>i, ConstAssumption, NullProc DEF CpuOwns, SameCpuBut
<1>6. ~OnRunList(q)
   BY <1>e, <1>i DEF QueuedRunnable
<1>7. QueuedOnce' /\ \A x \in Procs : OnRunList(x)' => OnRunList(x)
   BY <1>r, <1>i, ShrinkFacts, Zenon
<1>10. OneCPU'
   BY <1>i, <1>5, Zenon DEF OneCPU
<1>11. AssertRunnable'
   BY <1>i, <1>c, <1>d, Zenon DEF AssertRunnable, SameCpuBut
<1>12. CpuOwns'
   BY <1>t, <1>i, <1>p, <1>5, NullProc DEF CpuOwns, SameProcBut, SameProc, CpuProc
<1>13. RunIsRunning'
  BY <1>c, <1>t, <1>5, <1>i, <1>p DEF SameCpuBut, RunIsRunning, CpuHas, SameProcBut, SameProc
<1>14. LockHandover'
  <2> SUFFICES ASSUME NEW l \in CPUs,
                      \/ cpu'[l].pc = "back"
                      \/ cpu'[l].pc = "run" /\ thr'[cpu'[l].proc].pc \in HandoverPcs
               PROVE  proc'[cpu'[l].proc].lock = l
     BY DEF LockHandover, HandoverPcs
  <2>1. l # k
     BY <1>c, <1>d, <1>s, Zenon
  <2>2. cpu'[l] = cpu[l] /\ cpu[l].proc # q
     BY <2>1, <1>c, <1>5, Zenon DEF SameCpuBut
  <2>3. cpu[l].proc \in Procs /\ cpu[l].proc # p
     BY <2>1, <2>2, <1>t, <1>i, <1>c, NullProc, Zenon DEF CpuHas, OneCPU
  <2> QED
     BY <2>2, <2>3, <1>i, <1>p, <1>s DEF LockHandover, HandoverPcs, SameProcBut, SameProc
<1>15. SlotLocked'
  BY <1>c, <1>s, <1>i, <1>t, <1>3, <1>p DEF SlotLocked, SlotStep, LockedPcs, FreePcs,
         LockedNamed, SameCpuBut, SameProcBut, SameProc
<1>16. \A r \in Procs : r # p /\ Where(r)' \in OwnPcs \cup FreePcs =>
          thr[r].np \in Procs /\ thr[r].np # q /\ SameProc(thr[r].np)
   BY <1>t, <1>1, <1>4, <1>p, Zenon DEF SameProcBut, SlotNamed
<1>17. SlotState'
  <2> SUFFICES ASSUME NEW r \in Procs
               PROVE  SlotOk(Where(r)', proc'[thr'[r].np].state)
     BY Zenon DEF SlotState
  <2>1. CASE r = p
     BY <2>1, <1>2, <1>s, Zenon DEF SlotStep, SlotOk
  <2>2. CASE r # p
    <3>1. Where(r)' \in OwnPcs \cup FreePcs =>
             Where(r)' = Where(r) /\ proc'[thr'[r].np].state = proc[thr[r].np].state
       BY <2>2, <1>1, <1>16, Zenon DEF SameProc
    <3> QED BY <3>1, <1>i, SlotKept, Zenon
  <2> QED BY <2>1, <2>2
<1>18. HasContainer'
  BY <1>i, <1>p, <1>1, <1>16, <1>2, <1>s DEF HasContainer, SameProcBut, SameProc, OwnPcs,
         ForkPcs, FreePcs, SlotStep
<1>19. SlotOwners'
  BY <1>1, <1>4, <1>i, <1>s DEF SlotOwners
<1>20. UnusedList'
  <2>1. \A i \in 1..Len(unused_list) : unused_list[i] \in Procs /\ unused_list[i] # q
    BY <1>t, <1>i DEF ListTyped, UnusedList, SlotStep
  <2>2. \A r \in Procs : Where(r)' = "fork_alloc" =>
           Where(r) = "fork_alloc" /\ thr'[r].np = thr[r].np /\ thr[r].np # q
     BY <1>1, <1>2, <1>s, <1>16, Zenon DEF OwnPcs, ForkPcs
  <2>3. CASE unused_list' = unused_list
    BY <2>1, <1>p, <2>2, <2>3, <1>i, UnusedKept, Zenon DEF SameProcBut, SameProc
  <2>4. CASE unused_list' = Append(unused_list, q) /\ proc'[q].state = "UNUSED"
    <3>1. /\ Len(unused_list') = Len(unused_list) + 1 /\ Len(unused_list) \in Nat
          /\ \A i \in 1..Len(unused_list) : unused_list'[i] = unused_list[i]
          /\ unused_list'[Len(unused_list) + 1] = q
      <4>1. unused_list \in Seq(Procs) /\ unused_list' = Append(unused_list, q)
         BY <2>4, <1>t DEF ListTyped
      <4> HIDE <2>4
      <4>2. Len(unused_list) \in Nat
         BY <4>1
      <4> QED BY <4>1, <4>2, AppendFacts
    <3>2. \A i \in 1..Len(unused_list') :
             \/ i = Len(unused_list) + 1 /\ unused_list'[i] = q
             \/ i \in 1..Len(unused_list) /\ unused_list'[i] = unused_list[i]
       BY <3>1
    <3>3. /\ \A i \in 1..Len(unused_list) : proc'[unused_list[i]].state = "UNUSED"
          /\ \A i, j \in 1..Len(unused_list) : unused_list[i] = unused_list[j] => i = j
       BY <2>1, <1>i, <1>p, Zenon DEF UnusedList, SameProcBut, SameProc
    <3>4. \A i \in 1..Len(unused_list') : proc'[unused_list'[i]].state = "UNUSED"
       BY <3>2, <3>3, <2>4, Zenon
    <3>5. \A i, j \in 1..Len(unused_list') : unused_list'[i] = unused_list'[j] => i = j
       BY <3>2, <3>3, <2>1, Zenon
    <3>6. ASSUME NEW r \in Procs, Where(r)' = "fork_alloc", NEW i \in 1..Len(unused_list')
          PROVE  unused_list'[i] # thr'[r].np
      BY <3>6, <2>2, <1>i, <3>2, Zenon DEF UnusedList
    <3> QED BY <3>4, <3>5, <3>6, Zenon DEF UnusedList
  <2> QED BY <2>3, <2>4, Zenon DEF SlotStep
<1>21. QueuedRunnable'
   BY <1>i, <1>6, <1>7, <1>p, Zenon DEF QueuedRunnable, SameProcBut, SameProc
<1>22. \A l \in CPUs : cpu'[l].pc = "picked" =>
           l # k /\ cpu'[l] = cpu[l] /\ cpu[l].next \in Procs /\ cpu[l].next # q
   BY <1>t, <1>i, <1>c, <1>d, <1>e, Zenon DEF CpuNext, Picked, SameCpuBut
<1>23. Picked'
  BY <1>22, <1>p, <1>i, <1>7, PickedKept, Zenon DEF SameProcBut, SameProc
<1>24. Pushing'
  BY <1>1, <1>16, <1>22, <1>s, <1>i, <1>6, <1>7 DEF OwnPcs, ForkPcs, Pushing
<1> QED
   BY <1>7, <1>10, <1>11, <1>12, <1>13, <1>14, <1>15, <1>17, <1>18, <1>19, <1>20, <1>21, <1>23, <1>24, Zenon
      DEF SlotInv

\* CPU k executes p, which takes the slot q from unused_list, or goes on with q
\* without a change to the process table.
SlotPcStep(k, p, q) ==
    /\ cpu[k].pc = "run" /\ cpu[k].proc = p
    /\ \A r \in Procs : SameProc(r)
    /\ \A c \in Conts : cont'[c].run_list = cont[c].run_list
    /\ SameThrBut(p) /\ thr'[p].np = q
    /\ cpu' = cpu
    /\ \/ /\ thr'[p].pc = "fork_alloc" /\ unused_list # <<>> /\ q = Head(unused_list)
          /\ unused_list' = Tail(unused_list)
       \/ /\ thr[p].pc = "fork_copy" /\ thr'[p].pc = "free_slot"
          /\ thr[p].np = q /\ unused_list' = unused_list
       \/ /\ thr[p].pc = "fork_parent" /\ thr'[p].pc = "fork_run"
          /\ thr[p].np = q /\ unused_list' = unused_list
       \/ /\ thr[p].pc = "free_cont" /\ thr'[p].pc = "free_done"
          /\ thr[p].np = q /\ unused_list' = unused_list

\* Taking a slot, or going on with it, keeps the slot invariant.
LEMMA SlotPc ==
    ASSUME SlotInv, NEW k \in CPUs, NEW p \in Procs, NEW q \in Procs, SlotPcStep(k, p, q), TypeOK'
    PROVE  SlotInv'
<1>i. /\ TypeOK /\ OneCPU /\ AssertRunnable
      /\ CpuOwns /\ RunIsRunning /\ LockHandover /\ SlotLocked
      /\ SlotState /\ HasContainer /\ SlotOwners
      /\ UnusedList /\ QueuedRunnable /\ QueuedOnce /\ Picked /\ Pushing
   BY DEF SlotInv
<1>t. CpuProc /\ CpuHas /\ CpuNext /\ SlotNamed /\ LockedNamed /\ ListTyped
   BY <1>i, Shapes
<1>c. cpu' = cpu /\ cpu[k].pc = "run" /\ cpu[k].proc = p
   BY Zenon DEF SlotPcStep
<1>p. \A r \in Procs : SameProc(r)
   BY Zenon DEF SlotPcStep
<1>s. /\ SameThrBut(p) /\ thr'[p].np = q
      /\ thr'[p].pc \in {"fork_alloc", "fork_run", "free_slot", "free_done"}
   BY Zenon DEF SlotPcStep
<1>r. ShrinkRunLists
   BY DEF SlotPcStep, ShrinkRunLists
<1>1. \A r \in Procs : r # p => thr'[r] = thr[r] /\ Where(r)' = Where(r)
   BY <1>s DEF Where, SameThrBut
<1>2. Where(p)' = thr'[p].pc
   BY <1>s, Zenon DEF Where
<1>3. /\ thr'[p].pc # "fork_alloc" => thr[p].pc = Where(p) /\ thr[p].np = q
      /\ thr'[p].pc = "fork_run" => Where(p) = "fork_parent"
      /\ thr'[p].pc = "free_slot" => Where(p) = "fork_copy"
      /\ thr'[p].pc = "free_done" => Where(p) = "free_cont"
   BY Zenon DEF SlotPcStep, Where
<1>u. /\ \A i \in 1..Len(unused_list') : \E j \in 1..Len(unused_list) : unused_list'[i] = unused_list[j]
      /\ \A i, j \in 1..Len(unused_list') : unused_list'[i] = unused_list'[j] => i = j
      /\ thr'[p].pc = "fork_alloc" =>
            /\ \E j \in 1..Len(unused_list) : q = unused_list[j]
            /\ \A i \in 1..Len(unused_list') : unused_list'[i] # q
  <2>1. CASE unused_list' = unused_list /\ thr'[p].pc # "fork_alloc"
     BY <2>1, <1>i, Zenon DEF UnusedList
  <2>2. CASE unused_list # <<>> /\ q = Head(unused_list) /\ unused_list' = Tail(unused_list)
    <3>1. /\ q = unused_list[1] /\ Len(unused_list) \in Nat /\ Len(unused_list) >= 1
          /\ Len(unused_list') = Len(unused_list) - 1
          /\ \A i \in 1..(Len(unused_list) - 1) : unused_list'[i] = unused_list[i + 1]
       BY <2>2, <1>t, TailFacts DEF ListTyped
    <3>2. \A i \in 1..Len(unused_list') :
             i + 1 \in 1..Len(unused_list) /\ i + 1 # 1 /\ unused_list'[i] = unused_list[i + 1]
       BY <3>1
    <3>3. 1 \in 1..Len(unused_list)
       BY <3>1
    <3>4. \A i, j \in 1..Len(unused_list) : unused_list[i] = unused_list[j] => i = j
       BY <1>i DEF UnusedList
    <3>5. \A i \in 1..Len(unused_list') : unused_list'[i] # q
       BY <3>1, <3>2, <3>3, <3>4
    <3>6. ASSUME NEW i \in 1..Len(unused_list'), NEW j \in 1..Len(unused_list'),
                 unused_list'[i] = unused_list'[j]
          PROVE  i = j
      <4>1. unused_list[i + 1] = unused_list[j + 1]
         BY <3>2, <3>6
      <4>2. i + 1 = j + 1
         BY <4>1, <3>2, <3>4
      <4> QED BY <4>2
    <3> QED BY <3>1, <3>2, <3>3, <3>5, <3>6
  <2> QED BY <2>1, <2>2, Zenon DEF SlotPcStep
<1>7. QueuedOnce' /\ \A x \in Procs : OnRunList(x)' => OnRunList(x)
   BY <1>r, <1>i, ShrinkFacts
<1>10. OneCPU' /\ AssertRunnable'
   BY <1>i, <1>c, Zenon DEF OneCPU, AssertRunnable
<1>12. CpuOwns'
   BY <1>t, <1>i, <1>p, <1>c, NullProc DEF CpuOwns, SameProc, CpuProc
<1>13. RunIsRunning'
   BY <1>t, <1>i, <1>p, <1>c DEF RunIsRunning, SameProc, CpuHas
<1>14. LockHandover'
  BY <1>c, <1>s, <1>t, <1>i, NullProc, <1>p, <1>1 DEF LockHandover, HandoverPcs, CpuHas,
         OneCPU, SameProc
<1>15. SlotLocked'
  <2> SUFFICES ASSUME NEW r \in Procs, thr'[r].pc \in LockedPcs
               PROVE  \E l \in CPUs : /\ cpu[l].pc = "run" /\ cpu[l].proc = r
                                      /\ proc'[thr'[r].np].lock = l
     BY <1>c, Zenon DEF SlotLocked
  <2>1. thr[r].pc \in LockedPcs /\ thr'[r].np = thr[r].np
     BY <1>1, <1>2, <1>3, <1>s, Zenon DEF LockedPcs, FreePcs
  <2>2. PICK l \in CPUs : cpu[l].pc = "run" /\ cpu[l].proc = r /\ proc[thr[r].np].lock = l
     BY <2>1, <1>i, Zenon DEF SlotLocked
  <2> QED
     BY <2>1, <2>2, <1>p, <1>t DEF SameProc, LockedNamed
<1>16. \A r \in Procs : r # p /\ Where(r)' \in OwnPcs \cup FreePcs =>
          thr[r].np \in Procs /\ SameProc(thr[r].np)
   BY <1>t, <1>1, <1>p, Zenon DEF SlotNamed
<1>17. SlotState'
  <2> SUFFICES ASSUME NEW r \in Procs
               PROVE  SlotOk(Where(r)', proc'[thr'[r].np].state)
     BY DEF SlotState
  <2>1. CASE r = p
    BY <1>u, <1>i, <1>3, <2>1, <1>2, <1>s, <1>p DEF UnusedList, SlotState, SlotOk, SameProc
  <2>2. CASE r # p
    <3>1. Where(r)' \in OwnPcs \cup FreePcs =>
             Where(r)' = Where(r) /\ proc'[thr'[r].np].state = proc[thr[r].np].state
       BY <2>2, <1>1, <1>16, Zenon DEF SameProc
    <3> QED BY <3>1, <1>i, SlotKept
  <2> QED BY <2>1, <2>2
<1>18. HasContainer'
  <2>1. \A r \in Procs : proc'[r].state \notin {"UNUSED", "USED"} => proc'[r].contp \in Conts
     BY <1>i, <1>p, Zenon DEF HasContainer, SameProc
  <2>2. \A r \in Procs : r # p /\
          Where(r)' \in {"fork_copy", "fork_parent", "fork_run", "free_slot", "free_cont"} =>
            proc'[thr'[r].np].contp \in Conts
    <3> SUFFICES ASSUME NEW r \in Procs, r # p,
            Where(r)' \in {"fork_copy", "fork_parent", "fork_run", "free_slot", "free_cont"}
                 PROVE  proc'[thr'[r].np].contp \in Conts
       OBVIOUS
    <3>1. Where(r)' \in OwnPcs \cup FreePcs
       BY Zenon DEF OwnPcs, ForkPcs, FreePcs
    <3>2. Where(r)' = Where(r) /\ thr'[r].np = thr[r].np /\ SameProc(thr[r].np)
       BY <3>1, <1>1, <1>16, Zenon
    <3>3. proc[thr[r].np].contp \in Conts
       BY <3>2, <1>i, Zenon DEF HasContainer
    <3> QED BY <3>2, <3>3, Zenon DEF SameProc
  <2>3. Where(p)' \in {"fork_copy", "fork_parent", "fork_run", "free_slot", "free_cont"} =>
            proc'[thr'[p].np].contp \in Conts
     BY <1>2, <1>3, <1>s, <1>i, <1>p, Zenon DEF HasContainer, SameProc
  <2> QED BY <2>1, <2>2, <2>3, Zenon DEF HasContainer
<1>19. SlotOwners'
  BY <1>u, <1>i, <1>3, <1>2, <1>s, <1>1 DEF UnusedList, SlotState, SlotOk, OwnPcs, ForkPcs,
         SlotOwners
<1>20. UnusedList'
  <2>1. \A i \in 1..Len(unused_list') : proc'[unused_list'[i]].state = "UNUSED"
    <3>1. \A j \in 1..Len(unused_list) : proc'[unused_list[j]].state = "UNUSED"
       BY <1>t, <1>i, <1>p, Zenon DEF UnusedList, SameProc, ListTyped
    <3>2. \A i \in 1..Len(unused_list') :
             \E j \in 1..Len(unused_list) : unused_list'[i] = unused_list[j]
       BY <1>u, Zenon
    <3> HIDE <1>u
    <3> QED BY <3>1, <3>2, Zenon
  <2>2. \A r \in Procs : \A i \in 1..Len(unused_list') :
           Where(r)' = "fork_alloc" => unused_list'[i] # thr'[r].np
    BY <1>u, <1>2, <1>s, <1>1, <1>i DEF UnusedList
  <2> QED BY <2>1, <2>2, <1>u, Zenon DEF UnusedList
<1>21. QueuedRunnable'
   BY <1>i, <1>7, <1>p, Zenon DEF QueuedRunnable, SameProc
<1>22. Picked'
  BY <1>c, <1>t, <1>p, <1>i, <1>7, PickedKept, Zenon DEF CpuNext, SameProc
<1>23. Pushing'
  <2>1. \A r \in Procs : Where(r)' = "fork_push" =>
           /\ Where(r) = "fork_push" /\ thr'[r].np = thr[r].np /\ thr[r].np \in Procs
     BY <1>1, <1>2, <1>s, <1>16, Zenon DEF OwnPcs, ForkPcs
  <2> QED BY <2>1, <1>c, <1>i, <1>7, PushingKept, Zenon
<1> QED
   BY <1>7, <1>10, <1>12, <1>13, <1>14, <1>15, <1>17, <1>18, <1>19, <1>20, <1>21, <1>22, <1>23, Zenon
      DEF SlotInv

\* fork() pushes the new process, which until then only it knew as runnable.
LEMMA ForkPushStep ==
    ASSUME SlotInv, NEW k \in CPUs, NEW p \in Procs, ForkPush(k, p), TypeOK'
    PROVE  SlotInv'
<1> DEFINE q == thr[p].np
<1> DEFINE c == thr[p].cp
<1>i. /\ TypeOK /\ OneCPU /\ AssertRunnable
      /\ CpuOwns /\ RunIsRunning /\ LockHandover /\ SlotLocked
      /\ SlotState /\ HasContainer /\ SlotOwners
      /\ UnusedList /\ QueuedRunnable /\ QueuedOnce /\ Picked /\ Pushing
   BY DEF SlotInv
<1>t. CpuProc /\ CpuHas /\ CpuNext /\ SlotNamed /\ LockedNamed /\ ListTyped
   BY <1>i, Shapes, Zenon
<1>c. /\ cpu' = cpu /\ cpu[k].pc = "run" /\ cpu[k].proc = p
      /\ proc' = proc /\ unused_list' = unused_list
   BY DEF ForkPush, At, lists
<1>w. thr[p].pc = "fork_push" /\ Where(p) = "fork_push" /\ Where(p) \in OwnPcs
   BY Zenon DEF ForkPush, At, Where, OwnPcs, ForkPcs
<1>q. q \in Procs /\ c \in Conts
   BY <1>w, <1>i DEF TypeOK, ForkPcs
<1>s. (\A r \in Procs : r # p => thr'[r] = thr[r]) /\ thr'[p].pc = "user"
   BY <1>i, Typed DEF ForkPush, Return, AtRest
<1>r. PushesOn(c, q)
   BY <1>i, <1>q, Typed DEF ForkPush, PushesOn
<1>1. \A r \in Procs : r # p => thr'[r] = thr[r] /\ Where(r)' = Where(r)
   BY <1>s DEF Where
<1>2. Where(p)' = "user"
   BY <1>s, Zenon DEF Where
<1>3. ~OnRunList(q) /\ \A l \in CPUs : cpu[l].pc = "picked" => cpu[l].next # q
   BY <1>w, <1>i, Zenon DEF Pushing
<1>4. proc[q].state = "RUNNABLE"
   BY <1>w, <1>i, Zenon DEF SlotState, SlotOk
<1> HIDE DEF q, c
<1>7. QueuedOnce' /\ \A x \in Procs : OnRunList(x)' => OnRunList(x) \/ x = q
   BY <1>i, <1>q, <1>r, <1>3, PushRunList, Zenon DEF PushesOn
<1>10. OneCPU' /\ AssertRunnable' /\ CpuOwns' /\ RunIsRunning'
   BY <1>i, <1>c, Zenon DEF OneCPU, AssertRunnable, CpuOwns, RunIsRunning
<1>14. LockHandover'
  BY <1>c, <1>s, <1>t, <1>i, NullProc, <1>1, Zenon DEF LockHandover, HandoverPcs, CpuHas, OneCPU
<1>15. SlotLocked'
  BY <1>s, <1>c, <1>1, <1>i DEF LockedPcs, FreePcs, SlotLocked
<1>16. Where(p)' \notin OwnPcs \cup FreePcs
   BY <1>2, Zenon DEF OwnPcs, ForkPcs, FreePcs
<1>17. SlotState'
   BY <1>i, <1>c, <1>1, <1>2 DEF SlotState, SlotOk
<1>18. HasContainer'
   BY <1>i, <1>c, <1>1, <1>2, Zenon DEF HasContainer
<1>19. SlotOwners'
   BY <1>i, <1>1, <1>16, Zenon DEF SlotOwners
<1>20. UnusedList'
  BY <1>1, <1>2, <1>c, <1>i, UnusedKept, Zenon
<1>21. QueuedRunnable'
   BY <1>i, <1>c, <1>4, <1>7, Zenon DEF QueuedRunnable
<1>22. Picked'
   BY <1>i, <1>c, <1>t, <1>3, <1>7, Zenon DEF Picked, CpuNext
<1>23. Pushing'
  <2>1. \A r \in Procs : Where(r)' = "fork_push" =>
           /\ Where(r) = "fork_push" /\ thr'[r].np = thr[r].np
           /\ thr[r].np \in Procs /\ thr[r].np # q
     BY <1>1, <1>2, <1>w, <1>i, <1>t, Zenon DEF SlotNamed, SlotOwners, OwnPcs, ForkPcs, q
  <2> QED BY <2>1, <1>c, <1>i, <1>7, PushingKeptBut, Zenon
<1> QED
   BY <1>7, <1>10, <1>14, <1>15, <1>17, <1>18, <1>19, <1>20, <1>21, <1>22, <1>23, Zenon DEF SlotInv

\* fork() or wait() unlocks the slot it has freed; fork() may have reused it.
LEMMA FreeDoneStep ==
    ASSUME SlotInv, NEW k \in CPUs, NEW p \in Procs, FreeDone(k, p), TypeOK'
    PROVE  SlotInv'
<1> DEFINE q == thr[p].np
<1>i. /\ TypeOK /\ OneCPU /\ AssertRunnable
      /\ CpuOwns /\ RunIsRunning /\ LockHandover /\ SlotLocked
      /\ SlotState /\ HasContainer /\ SlotOwners
      /\ UnusedList /\ QueuedRunnable /\ QueuedOnce /\ Picked /\ Pushing
   BY DEF SlotInv
<1>t. CpuProc /\ CpuHas /\ CpuNext /\ SlotNamed /\ LockedNamed /\ ListTyped
   BY <1>i, Shapes
<1>c. /\ cpu' = cpu /\ cpu[k].pc = "run" /\ cpu[k].proc = p
      /\ cont' = cont /\ unused_list' = unused_list
   BY DEF FreeDone, At, lists
<1>w. thr[p].pc = "free_done" /\ Where(p) = "free_done" /\ thr[p].pc \in LockedPcs
   BY DEF FreeDone, At, Where, LockedPcs, FreePcs
<1>q. q \in Procs
   BY <1>w, <1>t DEF LockedNamed
<1>s. (\A r \in Procs : r # p => thr'[r] = thr[r]) /\ thr'[p].pc = "user"
   BY <1>i, Typed, Zenon DEF FreeDone, Return, AtRest
<1>p. /\ \A r \in Procs : r # q => SameProc(r)
      /\ \A r \in Procs : proc'[r].state = proc[r].state
  BY <1>i, Typed, <1>q DEF FreeDone, SameProc
<1>1. \A r \in Procs : r # p => thr'[r] = thr[r] /\ Where(r)' = Where(r)
   BY <1>s DEF Where
<1>2. Where(p)' = "user"
   BY <1>s DEF Where
<1>3. proc[q].state = "UNUSED"
   BY <1>w, <1>i, Zenon DEF SlotState, SlotOk
<1>4. proc[q].lock = k
  BY <1>w, <1>i, <1>c, NullProc, Zenon DEF SlotLocked, OneCPU
<1> HIDE DEF q
<1>5. \A r \in Procs : r # p /\ thr[r].pc \in LockedPcs => thr[r].np # q
  BY <1>i, <1>c, <1>4, Zenon DEF SlotLocked
<1>6. \A l \in CPUs : cpu[l].proc # q
   BY <1>3, <1>4, <1>c, <1>i, <1>q, NullProc, Zenon DEF CpuOwns, RunIsRunning
<1>7. ShrinkRunLists
   BY <1>c DEF ShrinkRunLists
<1>8. QueuedOnce' /\ \A x \in Procs : OnRunList(x)' => OnRunList(x)
   BY <1>7, <1>i, ShrinkFacts, Zenon
<1>10. OneCPU' /\ AssertRunnable'
   BY <1>i, <1>c, Zenon DEF OneCPU, AssertRunnable
<1>12. CpuOwns'
   BY <1>t, <1>i, <1>p, <1>c, <1>6, NullProc, Zenon DEF CpuOwns, SameProc, CpuProc
<1>13. RunIsRunning'
   BY <1>t, <1>i, <1>p, <1>c, Zenon DEF RunIsRunning, CpuHas
<1>14. LockHandover'
  <2> SUFFICES ASSUME NEW l \in CPUs,
                      \/ cpu[l].pc = "back"
                      \/ cpu[l].pc = "run" /\ thr'[cpu[l].proc].pc \in HandoverPcs
               PROVE  proc'[cpu[l].proc].lock = l
     BY <1>c, Zenon DEF LockHandover, HandoverPcs
  <2>1. l # k
     BY <1>c, <1>s, Zenon DEF HandoverPcs
  <2>2. cpu[l].proc \in Procs /\ cpu[l].proc # p /\ cpu[l].proc # q
     BY <2>1, <1>t, <1>i, <1>c, <1>6, NullProc, Zenon DEF CpuHas, OneCPU
  <2> QED
     BY <2>2, <1>i, <1>p, <1>1, Zenon DEF LockHandover, HandoverPcs, SameProc
<1>15. SlotLocked'
  BY <1>c, <1>1, <1>s, <1>i, <1>t, <1>5, <1>p DEF SlotLocked, LockedPcs, FreePcs, LockedNamed,
         SameProc
<1>17. SlotState'
  BY <1>2, <1>t, <1>p, <1>1, <1>i, SlotKept DEF OwnPcs, ForkPcs, FreePcs, SlotNamed, SlotState
<1>18. HasContainer'
  <2>1. \A r \in Procs : proc'[r].state \notin {"UNUSED", "USED"} => proc'[r].contp \in Conts
     BY <1>i, <1>p, <1>3 DEF HasContainer, SameProc
  <2> SUFFICES ASSUME NEW r \in Procs,
          Where(r)' \in {"fork_copy", "fork_parent", "fork_run", "free_slot", "free_cont"}
               PROVE  proc'[thr'[r].np].contp \in Conts
     BY <2>1, Zenon DEF HasContainer
  <2>2. r # p /\ thr'[r] = thr[r] /\ Where(r)' = Where(r)
     BY <1>1, <1>2, Zenon
  <2>3. thr[r].np \in Procs
     BY <2>2, <1>t, Zenon DEF SlotNamed, OwnPcs, ForkPcs, FreePcs
  <2>4. ASSUME thr[r].np = q PROVE FALSE
    BY <2>2, <2>4, <1>3, <1>i, ThrTyped, <1>5 DEF SlotState, SlotOk, Where, Preemptible,
           LockedPcs, FreePcs
  <2>5. proc[thr[r].np].contp \in Conts
     BY <2>2, <1>i, Zenon DEF HasContainer
  <2>6. proc'[thr[r].np].contp = proc[thr[r].np].contp
     BY <2>3, <2>4, <1>p, Zenon DEF SameProc
  <2> QED BY <2>2, <2>5, <2>6, Zenon
<1>19. SlotOwners'
   BY <1>i, <1>1, <1>2, Zenon DEF SlotOwners, OwnPcs, ForkPcs
<1>20. UnusedList'
  BY <1>t, <1>p, <1>1, <1>2, <1>c, <1>i, UnusedKept, Zenon DEF ListTyped
<1>21. QueuedRunnable'
   BY <1>i, <1>p, <1>8, Zenon DEF QueuedRunnable
<1>22. Picked'
   BY <1>i, <1>c, <1>p, <1>t, <1>8, Zenon DEF Picked, CpuNext
<1>23. Pushing'
  BY <1>1, <1>2, <1>t, <1>c, <1>i, <1>8, PushingKept, Zenon DEF SlotNamed, OwnPcs, ForkPcs
<1> QED
   BY <1>8, <1>10, <1>12, <1>13, <1>14, <1>15, <1>17, <1>18, <1>19, <1>20, <1>21, <1>22, <1>23, Zenon
      DEF SlotInv

\* scheduler() takes the first process of a run list.
LEMMA PickProcStep ==
    ASSUME SlotInv, NEW k \in CPUs, PickProc(k), TypeOK'
    PROVE  SlotInv'
<1>i. /\ TypeOK /\ OneCPU /\ AssertRunnable
      /\ CpuOwns /\ RunIsRunning /\ LockHandover /\ SlotLocked
      /\ SlotState /\ HasContainer /\ SlotOwners
      /\ UnusedList /\ QueuedRunnable /\ QueuedOnce /\ Picked /\ Pushing
   BY DEF SlotInv
<1>t. CpuProc /\ CpuHas /\ CpuNext /\ SlotNamed /\ LockedNamed /\ ListTyped
   BY <1>i, Shapes
<1>a. PICK c \in Served :
        /\ cpu[k].pc = "idle"
        /\ cont[c].run_list # <<>>
        /\ cpu' = [cpu EXCEPT ![k] = [pc |-> "picked", proc |-> NoProc,
                                      next |-> Head(cont[c].run_list)]]
        /\ cont' = [cont EXCEPT ![c].run_list = Tail(@)]
        /\ UNCHANGED <<proc, lists, wait_lock, thr>>
   BY Zenon DEF PickProc
<1>b. c \in Conts
   BY ConstAssumption
<1>h. PICK h : h = Head(cont[c].run_list)
   OBVIOUS
<1>c. /\ \A l \in CPUs : l # k => cpu'[l] = cpu[l]
      /\ cpu'[k].pc = "picked" /\ cpu'[k].proc = NoProc /\ cpu'[k].next = h
   BY <1>a, <1>h, <1>i, Typed
<1>u. proc' = proc /\ thr' = thr /\ unused_list' = unused_list /\ cpu[k].proc = NoProc
   BY <1>a, <1>i, CpuTyped, Zenon DEF lists
<1>r. \A d \in Conts : cont'[d].run_list =
               IF d = c THEN Tail(cont[c].run_list) ELSE cont[d].run_list
   BY <1>a, <1>b, <1>i, Typed
<1>1. \A r \in Procs : Where(r)' = Where(r)
   BY <1>u DEF Where
<1>2. /\ h \in Procs /\ OnRunList(h) /\ ~OnRunList(h)' /\ QueuedOnce'
      /\ \A x \in Procs : OnRunList(x)' => OnRunList(x)
   BY <1>a, <1>b, <1>h, <1>i, <1>r, PopRunList, Zenon
<1>3. proc[h].state = "RUNNABLE"
   BY <1>2, <1>i, Zenon DEF QueuedRunnable
<1>4. \A l \in CPUs : cpu[l].pc = "picked" => cpu[l].next # h
   BY <1>2, <1>i, Zenon DEF Picked
<1>10. OneCPU'
   BY <1>i, <1>c DEF OneCPU
<1>11. AssertRunnable' /\ RunIsRunning'
   BY <1>i, <1>c, <1>u, Zenon DEF AssertRunnable, RunIsRunning
<1>12. CpuOwns'
   BY <1>i, <1>c, <1>u, Zenon DEF CpuOwns
<1>14. LockHandover'
   BY <1>i, <1>c, <1>u, Zenon DEF LockHandover
<1>15. SlotLocked'
   BY <1>i, <1>a, <1>c, <1>u DEF SlotLocked
<1>17. SlotState' /\ HasContainer'
   BY <1>i, <1>u, <1>1, Zenon DEF SlotState, SlotOk, HasContainer
<1>19. SlotOwners' /\ UnusedList'
   BY <1>i, <1>u, <1>1, Zenon DEF SlotOwners, UnusedList
<1>21. QueuedRunnable'
   BY <1>i, <1>u, <1>2, Zenon DEF QueuedRunnable
<1>22. Picked'
  <2> SUFFICES ASSUME NEW l \in CPUs, cpu'[l].pc = "picked"
               PROVE  /\ proc[cpu'[l].next].state = "RUNNABLE"
                      /\ ~OnRunList(cpu[l].next)'
                      /\ \A m \in CPUs :
                            cpu'[m].pc = "picked" /\ cpu'[m].next = cpu'[l].next => m = l
     BY <1>u, Zenon DEF Picked
  <2>1. CASE l = k
    <3>1. ~OnRunList(cpu[l].next)'
       BY <2>1, <1>c, <1>2, Zenon DEF OnRunList
    <3> QED BY <3>1, <2>1, <1>c, <1>3, <1>4, Zenon
  <2>2. CASE l # k
    <3>1. cpu'[l] = cpu[l] /\ cpu[l].next \in Procs /\ cpu[l].next # h
       BY <2>2, <1>c, <1>t, <1>4, Zenon DEF CpuNext
    <3>2. /\ proc[cpu[l].next].state = "RUNNABLE" /\ ~OnRunList(cpu[l].next)
          /\ \A m \in CPUs : cpu[m].pc = "picked" /\ cpu[m].next = cpu[l].next => m = l
       BY <3>1, <1>i, Zenon DEF Picked
    <3>3. PICK x \in Procs : x = cpu[l].next
       BY <3>1, Zenon
    <3>4. ~OnRunList(x)'
       BY <3>2, <3>3, <1>2, Zenon
    <3>5. ~OnRunList(cpu[l].next)'
       BY <3>1, <3>3, <3>4, Zenon DEF OnRunList
    <3>6. \A m \in CPUs : cpu'[m].pc = "picked" /\ cpu'[m].next = cpu[l].next => m = l
       BY <3>1, <3>2, <1>c, Zenon
    <3> QED BY <3>1, <3>2, <3>5, <3>6, Zenon
  <2> QED BY <2>1, <2>2, Zenon
<1>23. Pushing'
  BY <1>t, <1>i, <1>c, <1>u, <1>1, <1>2 DEF SlotNamed, OwnPcs, ForkPcs, Pushing
<1> QED
   BY <1>2, <1>10, <1>11, <1>12, <1>14, <1>15, <1>17, <1>19, <1>21, <1>22, <1>23, Zenon DEF SlotInv

\* scheduler() locks the picked process and switches to it.
LEMMA DispatchStep ==
    ASSUME SlotInv, NEW k \in CPUs, Dispatch(k), TypeOK'
    PROVE  SlotInv'
<1> DEFINE q == cpu[k].next
<1>i. /\ TypeOK /\ OneCPU /\ AssertRunnable
      /\ CpuOwns /\ RunIsRunning /\ LockHandover /\ SlotLocked
      /\ SlotState /\ HasContainer /\ SlotOwners
      /\ UnusedList /\ QueuedRunnable /\ QueuedOnce /\ Picked /\ Pushing
   BY DEF SlotInv
<1>t. CpuProc /\ CpuHas /\ CpuNext /\ SlotNamed /\ LockedNamed /\ ListTyped
   BY <1>i, Shapes
<1>a. cpu[k].pc = "picked" /\ q \in Procs /\ proc[q].lock = Free /\ cpu[k].proc = NoProc
   BY <1>t, <1>i, CpuTyped, Zenon DEF Dispatch, CpuNext
<1>b. proc[q].state = "RUNNABLE" /\ ~OnRunList(q)
   BY <1>a, <1>i DEF Picked
<1>c. /\ \A l \in CPUs : l # k => cpu'[l] = cpu[l]
      /\ cpu'[k].pc = "run" /\ cpu'[k].proc = q
   BY <1>b, <1>i, Typed DEF Dispatch
<1>p. /\ SameProcBut(q) /\ proc'[q].lock = k
      /\ proc'[q].state = "RUNNING" /\ proc'[q].contp = proc[q].contp
  <2>1. /\ proc \in [Procs -> ProcRec]
        /\ proc' = [proc EXCEPT ![q].lock = k, ![q].state = "RUNNING"]
     BY <1>b, <1>i, Typed, Zenon DEF Dispatch
  <2> QED BY <2>1, <1>a DEF SameProcBut, SameProc
<1>u. cont' = cont /\ thr' = thr /\ unused_list' = unused_list
   BY Zenon DEF Dispatch, lists
<1>d. \A l \in CPUs : cpu[l].pc = "picked" /\ l # k => cpu[l].next # q
   BY <1>a, <1>i, Zenon DEF Picked
<1>e. \A r \in Procs : Where(r) = "fork_push" => thr[r].np # q
   BY <1>a, <1>i, Zenon DEF Pushing
<1> HIDE DEF q
<1>1. \A r \in Procs : Where(r)' = Where(r)
   BY <1>u, Zenon DEF Where
<1>2. \A r \in Procs : Where(r) \in OwnPcs \cup FreePcs => thr[r].np # q
   BY <1>b, <1>e, <1>i, Zenon DEF SlotState, SlotOk, OwnPcs, ForkPcs, FreePcs
<1>3. \A l \in CPUs : cpu[l].proc # q
   BY <1>a, <1>b, <1>i, NullProc, ConstAssumption, Zenon DEF CpuOwns
<1>7. ShrinkRunLists
   BY <1>u, Zenon DEF ShrinkRunLists
<1>8. QueuedOnce' /\ \A x \in Procs : OnRunList(x)' => OnRunList(x)
   BY <1>7, <1>i, ShrinkFacts, Zenon
<1>10. OneCPU'
   BY <1>i, <1>c, <1>3 DEF OneCPU
<1>11. AssertRunnable'
   BY <1>i, <1>c, Zenon DEF AssertRunnable
<1>12. CpuOwns'
  BY <1>c, <1>p, <1>t, <1>3, <1>i DEF CpuOwns, CpuProc, SameProcBut, SameProc
<1>13. RunIsRunning'
  BY <1>c, <1>p, <1>t, <1>3, <1>i DEF RunIsRunning, CpuHas, SameProcBut, SameProc
<1>14. LockHandover'
  BY <1>c, <1>u, <1>p, <1>t, <1>3, <1>i DEF LockHandover, HandoverPcs, CpuHas, SameProcBut,
         SameProc
<1>15. SlotLocked'
  BY <1>u, <1>i, <1>t, <1>2, <1>a, <1>c, <1>p DEF SlotLocked, LockedNamed, LockedPcs, Where,
         OwnPcs, ForkPcs, FreePcs, SameProcBut, SameProc
<1>16. \A r \in Procs : Where(r) \in OwnPcs \cup FreePcs => thr[r].np \in Procs /\ SameProc(thr[r].np)
   BY <1>t, <1>2, <1>p DEF SameProcBut, SlotNamed
<1>17. SlotState'
  BY <1>1, <1>u, <1>16, <1>i, SlotKept, Zenon DEF SameProc, SlotState
<1>18. HasContainer'
  BY <1>i, <1>p, <1>b, <1>1, <1>u, <1>16 DEF HasContainer, SameProcBut, SameProc, OwnPcs,
         ForkPcs, FreePcs
<1>19. SlotOwners'
   BY <1>i, <1>u, <1>1, Zenon DEF SlotOwners
<1>20. UnusedList'
  <2>1. \A i \in 1..Len(unused_list) : unused_list[i] \in Procs /\ unused_list[i] # q
     BY <1>t, <1>i, <1>b, Zenon DEF ListTyped, UnusedList
  <2>2. \A i \in 1..Len(unused_list) : proc'[unused_list[i]].state = proc[unused_list[i]].state
     BY <2>1, <1>p, Zenon DEF SameProcBut, SameProc
  <2> QED BY <2>2, <1>u, <1>1, <1>i, UnusedKept, Zenon
<1>21. QueuedRunnable'
   BY <1>i, <1>b, <1>8, <1>p, Zenon DEF QueuedRunnable, SameProcBut, SameProc
<1>22. Picked'
  BY <1>t, <1>c, <1>d, <1>p, <1>i, <1>8, PickedKept, Zenon DEF CpuNext, SameProcBut, SameProc
<1>23. Pushing'
  BY <1>c, <1>t, <1>u, <1>1, <1>i, <1>8, PushingKept, Zenon DEF SlotNamed, OwnPcs, ForkPcs
<1> QED
   BY <1>8, <1>10, <1>11, <1>12, <1>13, <1>14, <1>15, <1>17, <1>18, <1>19, <1>20, <1>21, <1>22, <1>23, Zenon
      DEF SlotInv

\* Back in scheduler(): c->proc is reset and p->lock released.
LEMMA SwtchBackStep ==
    ASSUME SlotInv, NEW k \in CPUs, SwtchBack(k), TypeOK'
    PROVE  SlotInv'
<1> DEFINE q == cpu[k].proc
<1>i. /\ TypeOK /\ OneCPU /\ AssertRunnable
      /\ CpuOwns /\ RunIsRunning /\ LockHandover /\ SlotLocked
      /\ SlotState /\ HasContainer /\ SlotOwners
      /\ UnusedList /\ QueuedRunnable /\ QueuedOnce /\ Picked /\ Pushing
   BY DEF SlotInv
<1>t. CpuProc /\ CpuHas /\ CpuNext /\ SlotNamed /\ LockedNamed /\ ListTyped
   BY <1>i, Shapes
<1>a. cpu[k].pc = "back" /\ q \in Procs
   BY <1>t, Zenon DEF SwtchBack, CpuHas
<1>b. proc[q].lock = k
   BY <1>a, <1>i DEF LockHandover
<1>c. /\ \A l \in CPUs : l # k => cpu'[l] = cpu[l]
      /\ cpu'[k].pc = "idle" /\ cpu'[k].proc = NoProc
   BY <1>i, Typed DEF SwtchBack, IdleCpu
<1>p. /\ \A r \in Procs : r # q => SameProc(r)
      /\ \A r \in Procs : proc'[r].state = proc[r].state /\ proc'[r].contp = proc[r].contp
  BY <1>i, Typed, <1>a DEF SwtchBack, SameProc
<1>u. cont' = cont /\ thr' = thr /\ unused_list' = unused_list
   BY Zenon DEF SwtchBack, lists
<1>d. \A l \in CPUs : l # k => cpu[l].proc # q
   BY <1>a, <1>i, NullProc, Zenon DEF OneCPU
<1> HIDE DEF q
<1>1. \A r \in Procs : Where(r)' = Where(r)
   BY <1>u DEF Where
<1>7. ShrinkRunLists
   BY <1>u DEF ShrinkRunLists
<1>8. QueuedOnce' /\ \A x \in Procs : OnRunList(x)' => OnRunList(x)
   BY <1>7, <1>i, ShrinkFacts
<1>10. OneCPU'
   BY <1>i, <1>c DEF OneCPU
<1>11. AssertRunnable'
   BY <1>i, <1>c, Zenon DEF AssertRunnable
<1>12. CpuOwns'
  BY <1>c, <1>t, <1>d, <1>i, <1>p DEF CpuOwns, CpuProc, SameProc
<1>13. RunIsRunning'
   BY <1>i, <1>c, <1>t, <1>p DEF RunIsRunning, CpuHas
<1>14. LockHandover'
  BY <1>c, <1>u, <1>t, <1>d, <1>i, <1>p DEF LockHandover, HandoverPcs, CpuHas, SameProc
<1>15. SlotLocked'
  <2> SUFFICES ASSUME NEW r \in Procs, thr[r].pc \in LockedPcs
               PROVE  \E l \in CPUs : /\ cpu'[l].pc = "run" /\ cpu'[l].proc = r
                                      /\ proc'[thr[r].np].lock = l
     BY <1>u, Zenon DEF SlotLocked
  <2>2. PICK l \in CPUs : cpu[l].pc = "run" /\ cpu[l].proc = r /\ proc[thr[r].np].lock = l
     BY <1>i, Zenon DEF SlotLocked
  <2>3. l # k /\ thr[r].np \in Procs /\ thr[r].np # q
     BY <2>2, <1>a, <1>b, <1>t, Zenon DEF LockedNamed
  <2> QED
     BY <2>2, <2>3, <1>c, <1>p, Zenon DEF SameProc
<1>17. SlotState'
  BY <1>t, <1>u, <1>p, <1>1, <1>i, SlotKept, Zenon DEF SlotNamed, SlotState
<1>18. HasContainer'
   BY <1>i, <1>t, <1>u, <1>p, <1>1 DEF HasContainer, SlotNamed, OwnPcs, ForkPcs, FreePcs
<1>19. SlotOwners'
   BY <1>i, <1>u, <1>1 DEF SlotOwners
<1>20. UnusedList'
  BY <1>t, <1>p, <1>1, <1>u, <1>i, UnusedKept, Zenon DEF ListTyped
<1>21. QueuedRunnable'
   BY <1>i, <1>8, <1>p, Zenon DEF QueuedRunnable
<1>22. Picked'
  BY <1>t, <1>c, <1>p, <1>i, <1>8, PickedKept, Zenon DEF CpuNext
<1>23. Pushing'
  <2>1. \A l \in CPUs : cpu'[l].pc = "picked" =>
           cpu[l].pc = "picked" /\ cpu'[l].next = cpu[l].next
     BY <1>c, Zenon
  <2>2. \A r \in Procs : Where(r)' = "fork_push" =>
           Where(r) = "fork_push" /\ thr'[r].np = thr[r].np /\ thr[r].np \in Procs
     BY <1>t, <1>u, <1>1 DEF SlotNamed, OwnPcs, ForkPcs
  <2> QED BY <2>1, <2>2, <1>i, <1>8, PushingKept, Zenon
<1> QED
   BY <1>8, <1>10, <1>11, <1>12, <1>13, <1>14, <1>15, <1>17, <1>18, <1>19, <1>20, <1>21, <1>22, <1>23
      DEF SlotInv

=============================================================================
