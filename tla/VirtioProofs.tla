---------------------------- MODULE VirtioProofs ----------------------------
(***************************************************************************)
(* Proofs about Virtio: descriptors and rings are never in two hands, no   *)
(* completion and no free descriptor goes unnoticed, and a transfer is     *)
(* done when its caller returns.  For any number of processes and of       *)
(* descriptors, and for indexes that wrap at any multiple of that number.  *)
(* First the place of every request and the data, then what is counted.    *)
(***************************************************************************)
EXTENDS VirtioSteps, FiniteSetTheorems

-----------------------------------------------------------------------------
(* What the steps do to the rings.                                         *)

\* The second and the third descriptor of a chain are never in a ring, and the first
\* one only while its process sleeps.
LEMMA NotQueued ==
    ASSUME TypeOK, OwnInv, ChainInv, StageInv, NEW p \in P, NEW i \in Owned(p),
           proc[p].pc # "sleep_buf" \/ i # proc[p].idx[1]
    PROVE  i \notin Todo /\ i \notin dev.busy /\ i \notin Done
  BY WaiterIs DEF OwnInv

\* The head of the chain is put where no entry waits, ...
LEMMA FormatQueues ==
    ASSUME VirtioInv, NEW p \in P, Format(p)
    PROVE  /\ RingOK(avail', dev'.idx) /\ Todo' = Todo
           /\ avail'.ring[avail'.idx % NUM] = proc[p].idx[1]
<1>0. TypeOK /\ OwnInv /\ StageInv
    BY Zenon DEF VirtioInv
<1>1. proc[p].pc = "format" /\ avail' = WithEntry(avail, avail.idx % NUM, proc[p].idx[1]) /\ dev' = dev
    BY <1>0, FormatDoes, Zenon
<1>2. proc[p].idx[1] \in Desc
    BY <1>0, <1>1, OwnedAre, Zenon DEF HasChain
<1>3. avail \in RingType /\ Index(W, dev.idx) /\ RingOK(avail, dev.idx)
    BY <1>0, FirstIs, Zenon DEF TypeOK, StageInv
<1>4. /\ RingOK(avail', dev.idx) /\ Pending(avail', dev.idx) = Pending(avail, dev.idx)
      /\ avail'.idx = avail.idx /\ avail'.ring[avail.idx % NUM] = proc[p].idx[1]
    BY <1>1, <1>2, <1>3, RingPut
<1> QED BY <1>1, <1>4, Zenon DEF Todo

\* ... and waits when the index has moved.
LEMMA NotifyQueues ==
    ASSUME VirtioInv, Counted, NEW p \in P, Notify(p)
    PROVE  /\ RingOK(avail', dev'.idx) /\ Todo' = Todo \cup {proc[p].idx[1]}
           /\ proc[p].idx[1] \notin Todo \cup dev.busy \cup Done
<1>0. TypeOK /\ OwnInv /\ ChainInv /\ StageInv
    BY DEF VirtioInv
<1>1. proc[p].pc = "notify" /\ avail' = MovedOn(avail) /\ dev' = dev
    BY <1>0, NotifyDoes, Zenon
<1>2. PICK a : a = proc[p].idx[1] /\ a \in Owned(p) /\ a = avail.ring[avail.idx % NUM]
    BY <1>0, <1>1, OwnedAre, Zenon DEF HasChain, StageInv
<1>3. a \notin Todo /\ a \notin dev.busy /\ a \notin Done
    BY <1>0, <1>1, <1>2, NotQueued, Zenon
<1>4. avail \in RingType /\ Index(W, dev.idx) /\ RingOK(avail, dev.idx)
    BY <1>0, FirstIs, Zenon DEF TypeOK, StageInv
<1>5. Count(avail, dev.idx) + 1 < NUM
    BY <1>1, Zenon DEF HasChain, Counted, Roomy
<1>6. RingOK(avail', dev.idx) /\ Pending(avail', dev.idx) = Pending(avail, dev.idx) \cup {a}
    BY <1>1, <1>2, <1>3, <1>4, <1>5, RingNotify, Zenon DEF Todo
<1> QED BY <1>1, <1>2, <1>3, <1>6, Zenon DEF Todo

\* The handler takes the first entry, ...
LEMMA EntryQueues ==
    ASSUME VirtioInv, IntrEntry
    PROVE  RingOK(used', used_idx') /\ Done' = Done \ {used.ring[used_idx % NUM]}
  BY EntryDoes, FirstIs, RingTake DEF VirtioInv, TypeOK, StageInv, Done

\* ... and so does the device; the entry that the driver is about to set is another one.
LEMMA TakeQueues ==
    ASSUME VirtioInv, DevTake
    PROVE  /\ RingOK(avail', dev'.idx) /\ Todo' = Todo \ {avail.ring[dev.idx % NUM]}
           /\ avail'.ring[avail'.idx % NUM] = avail.ring[avail.idx % NUM]
<1>0. TypeOK /\ StageInv
    BY DEF VirtioInv
<1>1. /\ dev.idx # avail.idx /\ avail' = WithEntry(avail, dev.idx % NUM, 0)
      /\ dev'.idx = After(W, dev.idx)
    BY TakeDoes, Zenon
<1>2. avail \in RingType /\ Index(W, dev.idx) /\ RingOK(avail, dev.idx)
    BY <1>0, FirstIs, Zenon DEF TypeOK, StageInv
<1>3. RingOK(avail', dev'.idx) /\ Todo' = Todo \ {avail.ring[dev.idx % NUM]}
    BY <1>1, <1>2, RingTake DEF Todo
<1>4. avail.idx % NUM # dev.idx % NUM
    BY <1>1, <1>2, NextDiffers, Zenon
<1>5. avail'.idx = avail.idx /\ avail'.ring = Replaced(avail.ring, dev.idx % NUM, 0)
    BY <1>2, Sizes, <1>1, RingIs DEF Index, Desc
<1>6. avail.ring \in [Desc -> Desc] /\ avail.idx % NUM \in Desc
    BY <1>2, RingIs, Zenon DEF RingType
<1> QED BY <1>3, <1>4, <1>5, <1>6 DEF Replaced

\* What the device has done waits in the other ring.
LEMMA UsedQueues ==
    ASSUME VirtioInv, Counted, NEW i \in Desc, DevUsed(i)
    PROVE  RingOK(used', used_idx') /\ Done' = Done \cup {i}
<1>0. TypeOK /\ OwnInv /\ ChainInv /\ StageInv
    BY DEF VirtioInv
<1>1. i \in dev.busy /\ used' = MovedOn(WithEntry(used, used.idx % NUM, i)) /\ used_idx' = used_idx
    BY <1>0, UsedDoes, Zenon
<1>2. PICK p \in P : proc[p].pc = "sleep_buf"
    BY <1>0, <1>1, WaiterIs, Zenon
<1>3. used \in RingType /\ Index(W, used_idx) /\ RingOK(used, used_idx) /\ i \notin Done
    BY <1>0, <1>1, FirstIs, Zenon DEF TypeOK, StageInv
<1>4. PICK s \in RingType : s = WithEntry(used, used.idx % NUM, i)
    BY <1>3, RingIs, Zenon
<1>5. /\ RingOK(s, used_idx) /\ Pending(s, used_idx) = Pending(used, used_idx)
      /\ s.idx = used.idx /\ s.ring[used.idx % NUM] = i
    BY <1>3, <1>4, RingPut
<1>6. Count(s, used_idx) + 1 < NUM
    BY <1>2, <1>5, Zenon DEF HasChain, Count, Counted, Roomy
<1>7. /\ RingOK(MovedOn(s), used_idx)
      /\ Pending(MovedOn(s), used_idx) = Pending(used, used_idx) \cup {i}
    BY <1>3, <1>5, <1>6, RingNotify DEF Done
<1> QED BY <1>1, <1>4, <1>7, Zenon DEF Done

-----------------------------------------------------------------------------
(* Every request is in one place.                                          *)

\* The processes that wait for their buffers are the same when one of the others moves.
LEMMA WaitsKept ==
    ASSUME TypeOK, NEW p \in P, Elsewhere(p), proc[p].pc # "sleep_buf", proc'[p].pc # "sleep_buf",
           NEW i \in Desc, info'[i].b = info[i].b
    PROVE  Waits(i)' <=> Waits(i)
  BY DEF Waits, TypeOK, InfoType, Elsewhere

\* The flags of the buffers after a step of p.
LEMMA DiskElsewhere ==
    ASSUME StageInv, NEW p \in P, Elsewhere(p), \A q \in P : q # p => buf'[q].disk = buf[q].disk,
           buf'[p].disk <=> proc'[p].pc \in {"notify", "sleep_buf"}
    PROVE  \A q \in P : buf'[q].disk <=> proc'[q].pc \in {"notify", "sleep_buf"}
  BY Zenon DEF StageInv, Elsewhere

\* The rings are left alone, ...
LEMMA StageKept ==
    ASSUME StageInv, UNCHANGED <<avail, used, used_idx>>, dev'.idx = dev.idx, dev'.busy = dev.busy,
           \A i \in Desc : Waits(i)' <=> Waits(i),
           \A q \in P : proc'[q].pc = "notify" => proc[q].pc = "notify" /\ proc'[q].idx = proc[q].idx,
           \A q \in P : buf'[q].disk <=> proc'[q].pc \in {"notify", "sleep_buf"}
    PROVE  StageInv'
  BY DEF Todo, Done, StageInv

\* ... by a process that is not about to sleep for its buffer.
LEMMA StageElsewhere ==
    ASSUME TypeOK, StageInv, NEW p \in P, Elsewhere(p), UNCHANGED <<avail, used, used_idx, dev>>,
           proc[p].pc # "sleep_buf", proc'[p].pc \notin {"notify", "sleep_buf"},
           \A i \in Desc : Waits(i)' <=> Waits(i),
           \A q \in P : q # p => buf'[q].disk = buf[q].disk, ~buf'[p].disk
    PROVE  StageInv'
  BY DiskElsewhere, StageKept, Zenon DEF Elsewhere

\* The steps before the request is made, and after it is over.
LEMMA StageCalls ==
    ASSUME VirtioInv, Counted, NEW p \in P, Call(p) \/ Alloc(p) \/ Woken(p)
    PROVE  StageInv'
<1>0. TypeOK /\ OwnInv /\ ChainInv /\ StageInv
    BY Zenon DEF VirtioInv
<1>1. CASE Call(p)
    <2>1. /\ Elsewhere(p) /\ proc[p].pc = "user" /\ proc'[p].pc = "alloc"
          /\ UNCHANGED <<info, avail, used, used_idx, dev>>
          /\ \A q \in P : buf'[q].disk = buf[q].disk
        BY <1>0, <1>1, CallDoes, Zenon
    <2>2. \A i \in Desc : Waits(i)' <=> Waits(i)
        BY <1>0, <2>1, WaitsKept, Zenon
    <2>3. ~buf[p].disk /\ buf'[p].disk = buf[p].disk
        BY <1>0, <2>1, Zenon DEF StageInv
    <2> QED BY <1>0, <2>1, <2>2, <2>3, StageElsewhere, Zenon
<1>2. CASE Alloc(p)
    <2>1. /\ Elsewhere(p) /\ proc[p].pc = "alloc" /\ proc'[p].pc \in {"format", "sleep_desc"}
          /\ UNCHANGED <<info, avail, used, used_idx, buf, dev>>
        BY <1>0, <1>2, AllocDoes, AllocFails, Zenon
    <2>2. \A i \in Desc : Waits(i)' <=> Waits(i)
        BY <1>0, <2>1, WaitsKept, Zenon
    <2>3. ~buf[p].disk
        BY <1>0, <2>1, Zenon DEF StageInv
    <2> QED BY <1>0, <2>1, <2>2, <2>3, StageElsewhere, Zenon
<1>3. CASE Woken(p)
    <2>1. /\ Elsewhere(p) /\ proc[p].pc = "woken" /\ proc'[p].pc = "user"
          /\ info'[proc[p].idx[1]].b = Nobody
          /\ \A i \in Desc : i # proc[p].idx[1] => info'[i] = info[i]
          /\ ~buf[p].disk /\ UNCHANGED <<avail, used, used_idx, buf, dev>>
        BY <1>3, WokenDoes, Zenon
    <2>2. info[proc[p].idx[1]].b = p
        BY <1>0, <2>1, Zenon DEF ChainInv, Linked, Formatted
    <2>3. ASSUME NEW i \in Desc PROVE Waits(i)' <=> Waits(i)
        <3>1. CASE i = proc[p].idx[1]
            BY <2>1, <2>2, <3>1, Zenon DEF Waits
        <3>2. CASE i # proc[p].idx[1]
            BY <1>0, <2>1, <3>2, WaitsKept, Zenon
        <3> QED BY <3>1, <3>2, Zenon
    <2> QED BY <1>0, <2>1, <2>3, StageElsewhere, Zenon
<1> QED BY <1>1, <1>2, <1>3, Zenon

\* The request is in the ring, but nobody sees it yet, ...
LEMMA StageFormat ==
    ASSUME VirtioInv, NEW p \in P, Format(p)
    PROVE  StageInv'
  BY FormatDoes, FormatQueues, OwnedAre, NotQueued, WaitsKept, DiskElsewhere DEF VirtioInv,
         Done, StageInv, HasChain, Waits, AtOnce, LockInv

\* ... now the device can, ...
LEMMA StageNotify ==
    ASSUME VirtioInv, Counted, NEW p \in P, Notify(p)
    PROVE  StageInv'
<1>0. TypeOK /\ OwnInv /\ ChainInv /\ LockInv /\ StageInv
    BY DEF VirtioInv
<1>1. /\ Elsewhere(p) /\ AtOnce(p) /\ proc[p].pc = "notify" /\ proc'[p].pc = "sleep_buf"
      /\ UNCHANGED <<info, used, used_idx, buf, dev>>
    BY <1>0, NotifyDoes
<1>2. PICK a : a = proc[p].idx[1] /\ a \in Desc /\ info[a].b = p
    BY <1>0, <1>1, OwnedAre DEF ChainInv, Linked, Formatted, HasChain
<1>3. RingOK(avail', dev'.idx) /\ Todo' = Todo \cup {a} /\ a \notin Todo \cup dev.busy \cup Done
    BY <1>2, NotifyQueues, Zenon
<1>4. Done' = Done /\ RingOK(used', used_idx')
    BY <1>0, <1>1, Zenon DEF Done, StageInv
<1>5. ASSUME NEW i \in Desc, i # a PROVE Waits(i)' <=> Waits(i)
    <2>1. CASE info[i].b = Nobody
        BY <1>1, <2>1, Zenon DEF Waits
    <2>2. CASE info[i].b # Nobody
        <3>1. info[i].b \in P /\ proc[info[i].b].idx[1] = i
            BY <1>0, <2>2, HeadIs, Zenon
        <3>2. info[i].b # p
            BY <1>2, <1>5, <3>1, Zenon
        <3> QED BY <1>1, <3>1, <3>2, Zenon DEF Waits, AtOnce
    <2> QED BY <2>1, <2>2, Zenon
<1>6. Waits(a)'
    <2>1. p # Nobody
        BY VirtioAssumption
    <2> QED BY <1>1, <1>2, <2>1, Zenon DEF Waits
<1>7. \A q \in P : proc'[q].pc # "notify"
    <2>1. ASSUME NEW q \in P, proc'[q].pc = "notify" PROVE FALSE
        <3>1. q # p /\ proc[q].pc = "notify"
            BY <1>1, <2>1, Zenon DEF AtOnce
        <3> QED BY <1>0, <1>1, <3>1, Zenon DEF LockInv
    <2> QED BY <2>1, Zenon
<1>8. \A q \in P : buf'[q].disk <=> proc'[q].pc \in {"notify", "sleep_buf"}
    <2>1. buf[p].disk /\ buf' = buf
        BY <1>0, <1>1, Zenon DEF StageInv
    <2> QED BY <1>0, <1>1, <2>1, DiskElsewhere, Zenon
<1>9. /\ Todo' \cap dev'.busy = {} /\ Todo' \cap Done' = {} /\ dev'.busy \cap Done' = {}
    BY <1>0, <1>1, <1>3, <1>4, Zenon DEF StageInv
<1>10. \A i \in Desc : i \in Todo' \cup dev'.busy \cup Done' <=> Waits(i)'
    <2>1. \A i \in Desc : i \in Todo \cup dev.busy \cup Done <=> Waits(i)
        BY <1>0, Zenon DEF StageInv
    <2> QED BY <1>1, <1>3, <1>4, <1>5, <1>6, <2>1, Zenon
<1> QED BY <1>3, <1>4, <1>7, <1>8, <1>9, <1>10 DEF StageInv

\* ... takes it, ...
LEMMA StageTake ==
    ASSUME VirtioInv, DevTake
    PROVE  StageInv'
  BY TakeDoes, TakeQueues DEF VirtioInv, Done, StageInv, Waits

\* ... gives it back, ...
LEMMA StageUsed ==
    ASSUME VirtioInv, Counted, NEW i \in Desc, DevUsed(i)
    PROVE  StageInv'
<1>0. TypeOK /\ StageInv
    BY DEF VirtioInv
<1>1. /\ i \in dev.busy /\ dev'.idx = dev.idx /\ dev'.busy = dev.busy \ {i}
      /\ UNCHANGED <<info, avail, buf, proc>>
    BY <1>0, UsedDoes, Zenon
<1>2. RingOK(used', used_idx') /\ Done' = Done \cup {i}
    BY UsedQueues, Zenon
<1>3. Todo' = Todo /\ RingOK(avail', dev'.idx) /\ \A j \in Desc : Waits(j)' <=> Waits(j)
    BY <1>0, <1>1, Zenon DEF Todo, StageInv, Waits
<1>4. /\ Todo' \cap dev'.busy = {} /\ Todo' \cap Done' = {} /\ dev'.busy \cap Done' = {}
      /\ \A j \in Desc : j \in Todo' \cup dev'.busy \cup Done' <=> Waits(j)'
    BY <1>0, <1>1, <1>2, <1>3, Zenon DEF StageInv
<1>5. /\ \A q \in P : proc'[q].pc = "notify" => avail'.ring[avail'.idx % NUM] = proc'[q].idx[1]
      /\ \A q \in P : buf'[q].disk <=> proc'[q].pc \in {"notify", "sleep_buf"}
    BY <1>0, <1>1, Zenon DEF StageInv
<1> QED BY <1>2, <1>3, <1>4, <1>5, Zenon DEF StageInv

\* ... and the handler finds it.
LEMMA StageEntry ==
    ASSUME VirtioInv, IntrEntry
    PROVE  StageInv'
  BY EntryDoes, EntryQueues, HeadIs, DiskElsewhere DEF VirtioInv, Todo, StageInv, Waits,
         AtOnce, Elsewhere

\* The remaining steps move no request.
LEMMA StageStep ==
    ASSUME VirtioInv, Counted, Next
    PROVE  StageInv'
<1>0. StageInv
    BY Zenon DEF VirtioInv
<1>1. ASSUME UNCHANGED <<avail, used, used_idx, buf, proc, info>>, dev'.idx = dev.idx, dev'.busy = dev.busy
      PROVE  StageInv'
    BY <1>0, <1>1, StageKept, Zenon DEF Waits, StageInv
<1>2. CASE IntrBegin
    BY <1>2, <1>1, Zenon DEF IntrBegin, VirtioInv, TypeOK, queue
<1>3. CASE IntrEnd
    BY <1>1, <1>3, Zenon DEF IntrEnd, queue
<1>4. ASSUME NEW i \in Desc, DevDo(i) PROVE StageInv'
    <2>1. /\ info'[i].b = info[i].b /\ \A j \in Desc : j # i => info'[j] = info[j]
          /\ UNCHANGED <<avail, used, used_idx, proc, dev>>
          /\ \A q \in P : buf'[q].disk = buf[q].disk
        BY <1>4, DoDoes
    <2>2. \A j \in Desc : Waits(j)' <=> Waits(j)
        BY <2>1, Zenon DEF Waits
    <2>3. \A q \in P : buf'[q].disk <=> proc'[q].pc \in {"notify", "sleep_buf"}
        BY <1>0, <2>1, Zenon DEF StageInv
    <2> QED BY <1>0, <2>1, <2>2, <2>3, StageKept, Zenon
<1> QED BY <1>2, <1>3, <1>4, StageCalls, StageFormat, StageNotify, StageTake, StageUsed, StageEntry, Zenon
    DEF Next, Driver, Handler, Device

-----------------------------------------------------------------------------
(* The data is where it should be.                                         *)

\* Nothing changes for a process that is at most woken up.
LEMMA GoodKept ==
    ASSUME NEW q \in P, GoodInv(q), proc'[q].idx = proc[q].idx, proc'[q].write = proc[q].write,
           proc'[q].pc = proc[q].pc \/ (proc[q].pc = "sleep_desc" /\ proc'[q].pc = "alloc"),
           buf'[q].good = buf[q].good,
           proc[q].pc \in {"notify", "sleep_buf"} => info'[proc[q].idx[1]].done = info[proc[q].idx[1]].done
    PROVE  GoodInv(q)'
  BY Zenon DEF GoodInv, From

\* So it is for the others in a step of p, unless p meddles with their info.
LEMMA GoodElsewhere ==
    ASSUME TypeOK, OwnInv, DataInv, NEW p \in P, Elsewhere(p),
           \A q \in P : q # p => buf'[q].good = buf[q].good,
           \A i \in Desc : i \notin Owned(p) => info'[i].done = info[i].done
    PROVE  \A q \in P : q # p => GoodInv(q)'
  BY OwnedAre, GoodKept DEF Elsewhere, HasChain, OwnInv, DataInv

\* The steps of a call, before and after.
LEMMA DataCalls ==
    ASSUME VirtioInv, Counted, NEW p \in P, Call(p) \/ Alloc(p) \/ Format(p) \/ Woken(p)
    PROVE  DataInv'
<1>0. TypeOK /\ OwnInv /\ ChainInv /\ StageInv /\ DataInv
    BY Zenon DEF VirtioInv
<1>1. ASSUME Todo' = Todo, Done' = Done, proc[p].pc # "sleep_buf", Elsewhere(p), GoodInv(p)',
             \A q \in P : q # p => buf'[q].good = buf[q].good,
             \A i \in Desc : i \notin Owned(p) => info'[i].done = info[i].done
      PROVE  DataInv'
    BY <1>0, <1>1, GoodElsewhere, NotQueued, WaiterIs, Zenon DEF DataInv
<1>g. GoodInv(p)
    BY <1>0, Zenon DEF DataInv
<1>2. CASE Call(p)
    <2>1. /\ Elsewhere(p) /\ proc[p].pc = "user" /\ proc'[p].pc = "alloc"
          /\ buf'[p].good = {IF proc'[p].write THEN "buf" ELSE "disk"}
          /\ \A q \in P : q # p => buf'[q].good = buf[q].good
          /\ UNCHANGED <<info, avail, used, used_idx, dev>>
        BY <1>0, <1>2, CallDoes, Zenon
    <2>2. GoodInv(p)'
        BY <2>1, Zenon DEF GoodInv, From
    <2>3. Todo' = Todo /\ Done' = Done
        BY <2>1, Zenon DEF Todo, Done
    <2> QED BY <1>1, <2>1, <2>2, <2>3, Zenon
<1>3. CASE Alloc(p)
    <2>1. /\ Elsewhere(p) /\ proc[p].pc = "alloc" /\ proc'[p].pc \in {"format", "sleep_desc"}
          /\ proc'[p].write = proc[p].write
          /\ UNCHANGED <<info, avail, used, used_idx, buf, dev>>
        BY <1>0, <1>3, AllocDoes, AllocFails, Zenon
    <2>2. GoodInv(p)'
        BY <1>g, <2>1, Zenon DEF GoodInv, From
    <2>3. Todo' = Todo /\ Done' = Done
        BY <2>1, Zenon DEF Todo, Done
    <2> QED BY <1>1, <2>1, <2>2, <2>3, Zenon
<1>4. CASE Format(p)
    <2>1. /\ Elsewhere(p) /\ proc[p].pc = "format" /\ proc'[p].pc = "notify"
          /\ proc'[p].write = proc[p].write /\ proc'[p].idx = proc[p].idx
          /\ ~info'[proc[p].idx[1]].done
          /\ \A i \in Desc : i # proc[p].idx[1] => info'[i] = info[i]
          /\ \A q \in P : buf'[q].good = buf[q].good
          /\ UNCHANGED <<used, used_idx, dev>>
        BY <1>0, <1>4, FormatDoes, Zenon
    <2>2. GoodInv(p)'
        BY <1>g, <2>1, Zenon DEF GoodInv, From
    <2>3. Todo' = Todo /\ Done' = Done
        BY <1>4, <2>1, FormatQueues, Zenon DEF Done
    <2>4. proc[p].idx[1] \in Owned(p)
        BY <1>0, <2>1, OwnedAre, Zenon DEF HasChain
    <2> QED BY <1>1, <2>1, <2>2, <2>3, <2>4, Zenon
<1>5. CASE Woken(p)
    BY <1>5, WokenDoes, <1>g, <1>0, OwnedAre, <1>1, Zenon DEF GoodInv, Todo, Done, HasChain
<1> QED BY <1>2, <1>3, <1>4, <1>5, Zenon

\* The steps of a request on its way.
LEMMA DataStep ==
    ASSUME VirtioInv, Counted, Next
    PROVE  DataInv'
<1>0. TypeOK /\ OwnInv /\ ChainInv /\ StageInv /\ DataInv
    BY Zenon DEF VirtioInv
<1>1. ASSUME NEW p \in P, Notify(p) PROVE DataInv'
    BY <1>0, <1>1, NotifyDoes, NotifyQueues, GoodElsewhere DEF Done, DataInv, GoodInv, From
<1>2. CASE IntrEntry
    <2>1. PICK i \in Desc, p \in P :
              /\ i = used.ring[used_idx % NUM] /\ i \in Done /\ proc[p].idx[1] = i
              /\ Elsewhere(p) /\ proc[p].pc = "sleep_buf" /\ proc'[p].pc = "woken"
              /\ \A q \in P : buf'[q].good = buf[q].good
              /\ UNCHANGED <<info, avail, dev>>
        BY <1>2, EntryDoes
    <2>2. Todo' = Todo /\ Done' = Done \ {i}
        BY <1>2, <2>1, EntryQueues DEF Todo
    <2>3. info[i].done /\ GoodInv(p)
        BY <1>0, <2>1, Zenon DEF DataInv
    <2>4. GoodInv(p)'
        BY <2>1, <2>3, Zenon DEF GoodInv
    <2>5. \A q \in P : GoodInv(q)'
        BY <1>0, <2>1, <2>4, GoodElsewhere, Zenon
    <2>6. (\A j \in Todo' : ~info'[j].done) /\ \A j \in Done' : info'[j].done
        BY <1>0, <2>1, <2>2, Zenon DEF DataInv
    <2> QED BY <2>5, <2>6 DEF DataInv
<1>3. ASSUME UNCHANGED <<proc, info, buf>> PROVE \A q \in P : GoodInv(q)'
    BY <1>0, <1>3, Zenon DEF DataInv, GoodInv, From
<1>4. CASE IntrBegin \/ IntrEnd
    BY <1>0, <1>4, <1>3, Zenon DEF IntrBegin, IntrEnd, queue, TypeOK, Todo, Done, DataInv
<1>5. CASE DevTake
    BY <1>5, TakeDoes, TakeQueues, <1>0, <1>3, Zenon DEF Done, DataInv
<1>6. ASSUME NEW i \in Desc, DevDo(i) PROVE DataInv'
    <2>1. PICK p \in P :
              /\ i \in dev.busy /\ ~info[i].done /\ proc[p].pc = "sleep_buf" /\ proc[p].idx[1] = i
              /\ From(p) \in buf[p].good => buf'[p].good = Both
              /\ \A q \in P : q # p => buf'[q].good = buf[q].good
              /\ info'[i].done /\ \A j \in Desc : j # i => info'[j] = info[j]
              /\ UNCHANGED <<avail, used, used_idx, proc, dev>>
        BY <1>6, DoDoes
    <2>2. Elsewhere(p) /\ i \in Owned(p)
        BY <1>0, <2>1, OwnedAre, Zenon DEF Elsewhere, HasChain
    <2>3. GoodInv(p)
        BY <1>0, Zenon DEF DataInv
    <2>4. From(p) \in buf[p].good
        BY <2>1, <2>3, Zenon DEF GoodInv
    <2>5. GoodInv(p)'
        BY <2>1, <2>4, Zenon DEF GoodInv
    <2>6. \A q \in P : GoodInv(q)'
        BY <1>0, <2>1, <2>2, <2>5, GoodElsewhere, Zenon
    <2>7. Todo' = Todo /\ Done' = Done
        BY <2>1, Zenon DEF Todo, Done
    <2>8. i \notin Todo /\ \A j \in Todo \cup Done : j \in Desc
        BY <1>0, <2>1, WaiterIs, Zenon DEF StageInv
    <2>9. (\A j \in Todo' : ~info'[j].done) /\ \A j \in Done' : info'[j].done
        BY <1>0, <2>1, <2>7, <2>8, Zenon DEF DataInv
    <2> QED BY <2>6, <2>9 DEF DataInv
<1>7. ASSUME NEW i \in Desc, DevUsed(i) PROVE DataInv'
    <2>1. info[i].done /\ dev'.idx = dev.idx /\ UNCHANGED <<proc, info, buf, avail>>
        BY <1>0, <1>7, UsedDoes, Zenon
    <2>2. Todo' = Todo /\ Done' = Done \cup {i}
        BY <1>7, <2>1, UsedQueues, Zenon DEF Todo
    <2>3. (\A j \in Todo' : ~info'[j].done) /\ \A j \in Done' : info'[j].done
        BY <1>0, <2>1, <2>2, Zenon DEF DataInv
    <2> QED BY <1>3, <2>1, <2>3, Zenon DEF DataInv
<1> QED BY <1>1, <1>2, <1>4, <1>5, <1>6, <1>7, DataCalls, Zenon DEF Next, Driver, Handler, Device

-----------------------------------------------------------------------------
(* The theorems.                                                           *)

\* Nothing is in an empty ring.
LEMMA RingEmpty == RingOK(Ring, 0) /\ Pending(Ring, 0) = {} /\ Ring \in RingType
  BY Sizes, PendingAre DEF Ring, RingType, Count, Ahead, Entries, Holds, Distinct, Desc, RingOK

\* virtio_disk_init() establishes the invariant, ...
LEMMA VirtioInit == Init => VirtioInv
<1> SUFFICES ASSUME Init PROVE VirtioInv
    OBVIOUS
<1>0. Nobody \notin P
    BY VirtioAssumption, Zenon
<1>1. TypeOK
    BY Sizes, RingEmpty DEF None, NoInfo, InfoType, Init, ProcType, Position, IdxType, BufType,
           TypeOK
<1>2. \A p \in P : proc[p].pc = "user" /\ proc[p].idx = <<>> /\ Owned(p) = {}
    BY MembersAre DEF Init, Owned, Members, IdxType
<1>3. OwnInv
    BY <1>2, Zenon DEF OwnInv, HasChain, Init
<1>4. \A i \in Desc : info[i].b = Nobody
    BY Zenon DEF Init, NoInfo
<1>5. ChainInv
    BY <1>2, <1>4, Zenon DEF ChainInv, Formatted
<1>6. LockInv
    BY <1>0, <1>2, Zenon DEF LockInv, Init
<1>7. Todo = {} /\ Done = {} /\ RingOK(avail, dev.idx) /\ RingOK(used, used_idx)
    BY RingEmpty, Zenon DEF Init, Todo, Done
<1>8. \A p \in P : ~buf[p].disk /\ buf[p].good = Both
    BY Zenon DEF Init, Both
<1>9. dev.busy = {}
    BY Zenon DEF Init
<1>10. StageInv
    BY <1>2, <1>4, <1>7, <1>8, <1>9, Zenon DEF StageInv, Waits
<1>11. DataInv
    BY <1>2, <1>7, <1>8, Zenon DEF DataInv, GoodInv
<1>12. NoneMissed
    BY <1>2, Zenon DEF NoneMissed, Noticed, DescWoken, Init, Ring
<1> QED BY <1>1, <1>3, <1>5, <1>6, <1>10, <1>11, <1>12, Zenon DEF VirtioInv

\* ... and every step keeps it.
LEMMA VirtioNext == VirtioInv /\ Counted /\ [Next]_vars => VirtioInv'
<1> SUFFICES ASSUME VirtioInv, Counted, [Next]_vars PROVE VirtioInv'
    OBVIOUS
<1>1. CASE Next
    <2>1. TypeOK'
        BY <1>1, TypesDriver, TypesDevice, Zenon DEF Next
    <2> QED BY <1>1, <2>1, OwnStep, ChainStep, LockStep, StageStep, DataStep, NoticedStep, Zenon DEF VirtioInv
<1>2. CASE UNCHANGED vars
    BY <1>2, OwnKept, ChainKept, StageKept, Zenon DEF vars, VirtioInv, TypeOK, LockInv, Waits,
           StageInv, Todo, Done, DataInv, GoodInv, From, NoneMissed, Noticed, DescWoken
<1> QED BY <1>1, <1>2, Zenon

-----------------------------------------------------------------------------
(* Counting descriptors.                                                   *)

\* A nonempty finite set of integers has a least element.
LEMMA LeastExists ==
    ASSUME NEW S, S \subseteq Int, IsFiniteSet(S), S # {}
    PROVE  \E x \in S : \A y \in S : x <= y
<1> DEFINE Below(x) == {y \in S : y < x}
           F == {Below(x) : x \in S}
           R == StrictSubsetOrdering(S)
<1>1. FiniteSubsetsOf(S) = SUBSET S
    BY FS_FiniteSubsetsOfFinite
<1>2. F \subseteq SUBSET S /\ F # {}
    BY Zenon
<1>3. IsWellFoundedOn(R, SUBSET S)
    BY <1>1, FS_StrictSubsetOrderingWellFounded, Zenon
<1>4. PICK B \in F : \A C \in F : <<C, B>> \notin R
    <2> HIDE DEF F, R
    <2> QED BY <1>2, <1>3, WFMin, Zenon
<1>5. PICK x \in S : B = Below(x)
    OBVIOUS
<1>6. ASSUME NEW y \in S, y < x PROVE FALSE
    <2>1. \A z \in S : z < y => z < x
        BY <1>6
    <2>2. Below(y) \subseteq Below(x)
        BY <2>1, Zenon
    <2>3. y \in Below(x) /\ y \notin Below(y)
        BY <1>6
    <2>4. <<Below(y), Below(x)>> \in R
        BY <2>2, <2>3, Zenon DEF StrictSubsetOrdering
    <2> QED BY <2>4, <1>4, <1>5, Zenon
<1>7. \A y \in S : x <= y
    BY <1>6
<1> QED BY <1>7, Zenon

\* There are NUM descriptors.
LEMMA DescCount == IsFiniteSet(Desc) /\ Cardinality(Desc) = NUM
<1>1. NUM \in Nat
    BY Sizes
<1> QED BY <1>1, FS_Interval DEF Desc

\* alloc3_desc() finds three different descriptors among those that are free.
LEMMA ThreeFree ==
    ASSUME TypeOK, ~(Cardinality(free) < 3)
    PROVE  \E a, b, c \in free :
              /\ a = Lowest(free) /\ b = Lowest(free \ {a}) /\ c = Lowest(free \ {a, b})
              /\ a # b /\ a # c /\ b # c
<1>0. IsFiniteSet(free) /\ free \subseteq Int
    BY Sizes, DescCount, FS_Subset, Zenon DEF TypeOK
<1>l. ASSUME NEW S, S \subseteq free, S # {} PROVE Lowest(S) \in S
    <2>1. IsFiniteSet(S) /\ S \subseteq Int
        BY <1>0, <1>l, FS_Subset, Zenon
    <2> QED BY <1>l, <2>1, LeastExists, Zenon DEF Lowest
<1>1. free # {}
    BY FS_EmptySet
<1>2. PICK a \in free : a = Lowest(free)
    BY <1>1, <1>l, Zenon
<1>3. IsFiniteSet(free \ {a}) /\ Cardinality(free \ {a}) = Cardinality(free) - 1 /\ Cardinality(free) \in Nat
    BY <1>0, FS_RemoveElement, FS_CardinalityType, Zenon
<1>4. free \ {a} # {}
    BY <1>3, FS_EmptySet
<1>5. PICK b \in free \ {a} : b = Lowest(free \ {a})
    BY <1>4, <1>l, Zenon
<1>6. IsFiniteSet((free \ {a}) \ {b}) /\ Cardinality((free \ {a}) \ {b}) = Cardinality(free) - 1 - 1
    BY <1>3, <1>5, FS_RemoveElement, Zenon
<1>7. (free \ {a}) \ {b} # {}
    BY <1>3, <1>6, FS_EmptySet
<1>8. free \ {a, b} = (free \ {a}) \ {b}
    BY Zenon
<1>9. PICK c \in free \ {a, b} : c = Lowest(free \ {a, b})
    BY <1>7, <1>8, <1>l, Zenon
<1> QED BY <1>2, <1>5, <1>9, Zenon

\* The entries can be counted, and there is room for no more than there are different ones.
LEMMA EntriesCount ==
    ASSUME NEW m, NEW S, NEW ring, NEW x, NEW n, Holds(m, S, ring, x, n)
    PROVE  /\ Cardinality(Entries(m, ring, x, n)) = n
           /\ \A T : IsFiniteSet(T) /\ Entries(m, ring, x, n) \subseteq T => n <= Cardinality(T)
<1> DEFINE E == Entries(m, ring, x, n)
           f == [k \in 0..(n - 1) |-> ring[(x + k) % m]]
<1>0. n \in Nat /\ Distinct(m, ring, x, n)
    BY DEF Holds
<1>1. f \in Surjection(0..(n - 1), E)
    BY DEF Surjection, Entries
<1>2. f \in Injection(0..(n - 1), E)
    <2>1. \A j, k \in 0..(n - 1) : f[j] = f[k] => j = k
        BY <1>0, Zenon DEF Distinct
    <2>2. f \in [0..(n - 1) -> E]
        BY DEF Entries
    <2> HIDE DEF f, E
    <2> QED BY <2>1, <2>2, Zenon DEF Injection, IsInjective
<1>3. IsFiniteSet(0..(n - 1)) /\ Cardinality(0..(n - 1)) = n
    BY <1>0, FS_Interval
<1> HIDE DEF f, E
<1>5. IsFiniteSet(E) /\ Cardinality(E) = n
    BY <1>1, <1>2, <1>3, FS_Surjection, Zenon
<1>6. ASSUME NEW T, IsFiniteSet(T), E \subseteq T PROVE n <= Cardinality(T)
    BY <1>5, <1>6, FS_Subset, Zenon
<1> QED BY <1>5, <1>6, Zenon DEF E

\* A ring that holds neither of two descriptors has room.
LEMMA RingRoom ==
    ASSUME NEW r, NEW x, RingOK(r, x), NEW a \in Desc, NEW b \in Desc, a # b,
           a \notin Pending(r, x), b \notin Pending(r, x)
    PROVE  Count(r, x) + 1 < NUM
<1>1. PICK n \in Nat : n = Count(r, x) /\ Holds(NUM, Desc, r.ring, x, n)
    BY DEF RingOK, Holds
<1>2. Pending(r, x) \subseteq (Desc \ {a}) \ {b}
    BY <1>1, PendingAre, EntriesIn, Zenon
<1>3. IsFiniteSet(Desc \ {a}) /\ Cardinality(Desc \ {a}) = NUM - 1
    BY DescCount, Sizes, FS_RemoveElement, Zenon
<1>4. IsFiniteSet((Desc \ {a}) \ {b}) /\ Cardinality((Desc \ {a}) \ {b}) = NUM - 1 - 1
    <2>1. b \in Desc \ {a}
        BY Zenon
    <2> QED BY <1>3, <2>1, FS_RemoveElement
<1>5. n <= NUM - 1 - 1
    BY <1>1, <1>2, <1>4, PendingAre, EntriesCount
<1> QED BY <1>1, <1>5, Sizes

\* There is room in both rings for the chain of a process.
LEMMA Room ==
    ASSUME TypeOK, OwnInv, ChainInv, StageInv, NEW p \in P, proc[p].pc \in HasChain
    PROVE  Count(avail, dev.idx) + 1 < NUM /\ Count(used, used_idx) + 1 < NUM
<1>1. PICK b, c \in Owned(p) : b # c /\ b # proc[p].idx[1] /\ c # proc[p].idx[1] /\ b \in Desc /\ c \in Desc
    BY OwnedAre, Zenon
<1>2. b \notin Todo /\ b \notin Done /\ c \notin Todo /\ c \notin Done
    BY <1>1, NotQueued, Zenon
<1>3. RingOK(avail, dev.idx) /\ RingOK(used, used_idx)
    BY Zenon DEF StageInv
<1>4. Count(avail, dev.idx) + 1 < NUM
    BY <1>1, <1>2, <1>3, RingRoom, Zenon DEF Todo
<1>5. Count(used, used_idx) + 1 < NUM
    BY <1>1, <1>2, <1>3, RingRoom, Zenon DEF Done
<1> QED BY <1>4, <1>5, Zenon

\* So the steps that the invariant allows are those that the lemmas of VirtioSteps assume.
LEMMA InvCounts == VirtioInv => Counted
<1> SUFFICES ASSUME VirtioInv PROVE Counted
    OBVIOUS
<1>1. TypeOK /\ OwnInv /\ ChainInv /\ StageInv
    BY DEF VirtioInv
<1>2. Finds
    BY <1>1, ThreeFree, Zenon DEF Finds
<1>3. Roomy
    BY <1>1, Room, Zenon DEF Roomy
<1> QED BY <1>2, <1>3, Zenon DEF Counted

-----------------------------------------------------------------------------
(* The results.                                                            *)

\* VirtioInv holds in every state of virtio_disk.c and the device.
THEOREM VirtioInvariant == Spec => []VirtioInv
<1>1. Init => VirtioInv
    BY VirtioInit
<1>2. VirtioInv /\ [Next]_vars => VirtioInv'
    BY VirtioNext, InvCounts, Zenon
<1> QED BY <1>1, <1>2, PTL DEF Spec

\* The descriptors and the rings of virtio_disk.c are never in two hands: a descriptor is
\* free or in one chain, and the entries between the indexes of a ring are different
\* requests, those of the used ring done.
THEOREM QueuesStayAgreed == Spec => []QueueAgrees
<1>1. VirtioInv => QueueAgrees
    <2> SUFFICES ASSUME VirtioInv PROVE QueueAgrees
        OBVIOUS
    <2>0. TypeOK /\ OwnInv /\ ChainInv /\ StageInv /\ DataInv
        BY DEF VirtioInv
    <2>1. free = Desc \ UNION {Owned(p) : p \in P}
        <3>1. free \subseteq Desc /\ \A i \in Desc : i \in free <=> \A p \in P : i \notin Owned(p)
            BY <2>0, Zenon DEF TypeOK, OwnInv
        <3> QED BY <3>1, Zenon
    <2>2. dev.busy \cap free = {}
        <3>1. ASSUME NEW i \in dev.busy PROVE i \notin free
            BY <2>0, <3>1, WaiterIs DEF OwnInv
        <3> QED BY <3>1, Zenon
    <2>3. DescOwned
        BY <2>0, <2>1, <2>2, Zenon DEF DescOwned, OwnInv
    <2>4. ASSUME NEW r, NEW x, RingOK(r, x) PROVE Cardinality(Pending(r, x)) = (r.idx - x) % W
        <3>1. Cardinality(Entries(NUM, r.ring, x, Count(r, x))) = Count(r, x)
            BY <2>4, EntriesCount DEF RingOK
        <3> QED BY <3>1, PendingAre, Zenon DEF Count, Ahead
    <2>5. /\ Cardinality(Pending(avail, dev.idx)) = (avail.idx - dev.idx) % W
          /\ Cardinality(Pending(used, used_idx)) = (used.idx - used_idx) % W
        BY <2>0, <2>4, Zenon DEF StageInv
    <2>6. \A i \in Todo \cup Done : info[i].b \in P
        BY <2>0, WaiterIs, Zenon
    <2>7. \A i \in Done : info[i].done
        BY <2>0, Zenon DEF DataInv
    <2>8. RingsHold
        BY <2>5, <2>6, <2>7, Zenon DEF RingsHold, Todo, Done
    <2> QED BY <2>0, <2>3, <2>8, Zenon DEF QueueAgrees
<1> QED BY <1>1, VirtioInvariant, PTL

\* Whatever the device adds to the used ring is found by the running virtio_disk_intr()
\* or by an interrupt still to come, and nobody sleeps in alloc3_desc()'s loop while
\* three descriptors are free.
THEOREM NothingMissed == Spec => []NoneMissed
<1>1. VirtioInv => NoneMissed
    BY Zenon DEF VirtioInv
<1> QED BY <1>1, VirtioInvariant, PTL

\* A process that sleeps in virtio_disk_rw() has its request on its way, and one that
\* returns has its transfer done and its buffer back.
THEOREM TransfersAreDone == Spec => []Transferred
<1>1. VirtioInv => Transferred
    <2> SUFFICES ASSUME VirtioInv, NEW p \in P
                 PROVE  /\ Sleeps(p) => buf[p].disk /\ OnItsWay(p)
                        /\ proc[p].pc = "user" => ~buf[p].disk /\ buf[p].good = {"buf", "disk"}
        BY DEF Transferred
    <2>0. TypeOK /\ OwnInv /\ ChainInv /\ StageInv /\ DataInv /\ Nobody \notin P
        BY VirtioAssumption, Zenon DEF VirtioInv
    <2>1. ASSUME Sleeps(p) PROVE buf[p].disk /\ OnItsWay(p)
        <3>1. proc[p].pc = "sleep_buf"
            BY <2>1, Zenon DEF Sleeps
        <3>2. PICK i \in Desc : i = proc[p].idx[1] /\ info[i].b = p
            BY <2>0, <3>1, OwnedAre DEF ChainInv, Linked, Formatted, HasChain
        <3>3. Waits(i)
            BY <2>0, <3>1, <3>2, Zenon DEF Waits
        <3>4. i \in Todo \cup dev.busy \cup Done
            BY <2>0, <3>3, Zenon DEF StageInv
        <3>5. buf[p].disk
            BY <2>0, <3>1, Zenon DEF StageInv
        <3> QED BY <3>2, <3>4, <3>5, Zenon DEF OnItsWay, Todo, Done
    <2>2. ASSUME proc[p].pc = "user" PROVE ~buf[p].disk /\ buf[p].good = {"buf", "disk"}
        <3>1. GoodInv(p)
            BY <2>0 DEF DataInv
        <3> QED BY <2>0, <2>2, <3>1, Zenon DEF StageInv, GoodInv, Both
    <2> QED BY <2>1, <2>2, Zenon
<1> QED BY <1>1, VirtioInvariant, PTL

=============================================================================
