------------------------------- MODULE Virtio -------------------------------
(***************************************************************************)
(* The disk driver, kernel/virtio_disk.c, and the device it talks to.      *)
(*                                                                         *)
(* Processes call virtio_disk_rw() with a locked buffer, each with its own *)
(* block.  The driver and the device share descriptors, a ring of chains   *)
(* to do (avail) and a ring of chains done (used).  The device takes what  *)
(* is available, finishes requests in any order and raises an interrupt;   *)
(* it runs while the driver holds vdisk_lock, so the steps of the driver   *)
(* end where the device can see the difference.                            *)
(***************************************************************************)
EXTENDS Integers, Sequences, FiniteSets

CONSTANTS
    P,                  \* processes; each has a buffer and a block of its own
    NUM,                \* descriptors
    W,                  \* ring indexes are counted modulo W (2^16)
    Nobody, Intr        \* vdisk_lock is free; is held by the interrupt handler

ASSUME VirtioAssumption ==
    /\ NUM \in Nat /\ NUM >= 3 /\ W \in Nat /\ W % NUM = 0 /\ W > 0
    /\ Nobody \notin P /\ Intr \notin P /\ Nobody # Intr

Desc == 0..(NUM - 1)

VARIABLES
    free,               \* the free descriptors
    desc,               \* next descriptor of the chain; none: flags without NEXT
    info,               \* head of a chain -> its buffer, write or read, and status
    avail, used,        \* rings with their indexes
    used_idx,           \* how far the driver has looked into used
    lock,               \* vdisk_lock
    buf,                \* process -> disk flag of its buffer; where its data is good
    proc,               \* process -> position, idx[0..2]
    dev                 \* device: index into avail, chains it works on, isr

vars == <<free, desc, info, avail, used, used_idx, lock, buf, proc, dev>>
queue == <<avail, used, used_idx>>

None == NUM             \* no descriptor
Ring == [idx |-> 0, ring |-> [i \in Desc |-> 0]]
NoInfo == [b |-> Nobody, write |-> FALSE, done |-> FALSE]

Init ==
    /\ free = Desc
    /\ desc = [i \in Desc |-> None]
    /\ info = [i \in Desc |-> NoInfo]
    /\ avail = Ring /\ used = Ring /\ used_idx = 0
    /\ lock = Nobody
    /\ buf = [p \in P |-> [disk |-> FALSE, good |-> {"buf", "disk"}]]
    /\ proc = [p \in P |-> [pc |-> "user", write |-> FALSE, idx |-> <<>>]]
    /\ dev = [idx |-> 0, busy |-> {}, isr |-> FALSE]

-----------------------------------------------------------------------------
(* virtio_disk_rw().                                                       *)

Goto(pr, p, l) == [pr EXCEPT ![p].pc = l]

\* wakeup(&disk.free[0]) and wakeup(b).
WakeFree(pr) == [p \in P |-> IF pr[p].pc = "sleep_desc" THEN [pr[p] EXCEPT !.pc = "alloc"] ELSE pr[p]]
WakeBuf(pr, p) == IF pr[p].pc = "sleep_buf" THEN Goto(pr, p, "woken") ELSE pr

\* A process calls bread() or bwrite() with its buffer; the data of a write is
\* only in the buffer, that of a read only on the disk.
Call(p) ==
    /\ proc[p].pc = "user"
    /\ \E w \in BOOLEAN :
        /\ proc' = [proc EXCEPT ![p].pc = "alloc", ![p].write = w]
        /\ buf' = [buf EXCEPT ![p].good = IF w THEN {"buf"} ELSE {"disk"}]
    /\ UNCHANGED <<free, desc, info, queue, lock, dev>>

\* alloc3_desc(): three free descriptors, or sleep.  A failure frees what it took,
\* if anything, and free_desc() wakes up those who wait.
Lowest(S) == CHOOSE i \in S : \A j \in S : i <= j
\* Mutant: tries again with vdisk_lock held.
MutAllocSpins(p) ==
    LET a == Lowest(free)
        b == Lowest(free \ {a})
        c == Lowest(free \ {a, b}) IN
    /\ proc[p].pc = "alloc"
    /\ lock = Nobody
    /\ lock' = p
    /\ IF Cardinality(free) < 3
       THEN UNCHANGED <<free, proc>>
       ELSE /\ free' = free \ {a, b, c}
            /\ proc' = [proc EXCEPT ![p].pc = "format", ![p].idx = <<a, b, c>>]
    /\ UNCHANGED <<desc, info, queue, buf, dev>>

Alloc(p) ==
    LET a == Lowest(free)
        b == Lowest(free \ {a})
        c == Lowest(free \ {a, b}) IN
    /\ proc[p].pc = "alloc"
    /\ lock = Nobody
    /\ IF Cardinality(free) < 3
       THEN /\ proc' = LET awake == IF free = {} THEN proc ELSE WakeFree(proc) IN
                       Goto(awake, p, "sleep_desc")
            /\ UNCHANGED <<free, lock>>
       ELSE /\ free' = free \ {a, b, c}
            /\ proc' = [proc EXCEPT ![p].pc = "format", ![p].idx = <<a, b, c>>]
            /\ lock' = p
    /\ UNCHANGED <<desc, info, queue, buf, dev>>

\* Mutant: the second descriptor is given to the device as the head.
MutFormatSecond(p) ==
    LET idx == proc[p].idx IN
    /\ proc[p].pc = "format"
    /\ desc' = [desc EXCEPT ![idx[1]] = idx[2], ![idx[2]] = idx[3], ![idx[3]] = None]
    /\ info' = [info EXCEPT ![idx[1]] = [b |-> p, write |-> proc[p].write, done |-> FALSE]]
    /\ buf' = [buf EXCEPT ![p].disk = TRUE]
    /\ avail' = [avail EXCEPT !.ring[avail.idx % NUM] = idx[2]]
    /\ proc' = Goto(proc, p, "notify")
    /\ UNCHANGED <<free, used, used_idx, lock, dev>>

\* Mutant: the direction is reversed.
MutFormatReversed(p) ==
    LET idx == proc[p].idx IN
    /\ proc[p].pc = "format"
    /\ desc' = [desc EXCEPT ![idx[1]] = idx[2], ![idx[2]] = idx[3], ![idx[3]] = None]
    /\ info' = [info EXCEPT ![idx[1]] = [b |-> p, write |-> ~proc[p].write, done |-> FALSE]]
    /\ buf' = [buf EXCEPT ![p].disk = TRUE]
    /\ avail' = [avail EXCEPT !.ring[avail.idx % NUM] = idx[1]]
    /\ proc' = Goto(proc, p, "notify")
    /\ UNCHANGED <<free, used, used_idx, lock, dev>>

\* The chain is formatted and its head put into the ring, ...
Format(p) ==
    LET idx == proc[p].idx IN
    /\ proc[p].pc = "format"
    /\ desc' = [desc EXCEPT ![idx[1]] = idx[2], ![idx[2]] = idx[3], ![idx[3]] = None]
    /\ info' = [info EXCEPT ![idx[1]] = [b |-> p, write |-> proc[p].write, done |-> FALSE]]
    /\ buf' = [buf EXCEPT ![p].disk = TRUE]
    /\ avail' = [avail EXCEPT !.ring[avail.idx % NUM] = idx[1]]
    /\ proc' = Goto(proc, p, "notify")
    /\ UNCHANGED <<free, used, used_idx, lock, dev>>

\* ... and only then the index moves.  The process sleeps (b->disk is 1: the handler
\* needs the lock).
Notify(p) ==
    /\ proc[p].pc = "notify"
    /\ avail' = [avail EXCEPT !.idx = (@ + 1) % W]
    /\ proc' = Goto(proc, p, "sleep_buf")
    /\ lock' = Nobody
    /\ UNCHANGED <<free, desc, info, used, used_idx, buf, dev>>

\* free_chain() follows the next links from the head.
Chain(i) == {i, desc[i]} \cup (IF desc[i] = None THEN {} ELSE {desc[desc[i]]})
Woken(p) ==
    LET chain == Chain(proc[p].idx[1]) \ {None} IN
    /\ proc[p].pc = "woken"
    /\ lock = Nobody
    /\ IF buf[p].disk
       THEN proc' = Goto(proc, p, "sleep_buf") /\ UNCHANGED <<free, desc, info>>
       ELSE /\ info' = [info EXCEPT ![proc[p].idx[1]] = NoInfo]
            /\ free' = free \cup chain
            /\ desc' = [i \in Desc |-> IF i \in chain THEN None ELSE desc[i]]
            /\ proc' = WakeFree([proc EXCEPT ![p] = [pc |-> "user", write |-> FALSE, idx |-> <<>>]])
    /\ UNCHANGED <<queue, lock, buf, dev>>

-----------------------------------------------------------------------------
(* virtio_disk_intr().                                                     *)

\* The interrupt is acknowledged first, ...
IntrBegin ==
    /\ dev.isr
    /\ lock = Nobody
    /\ lock' = Intr
    /\ dev' = [dev EXCEPT !.isr = FALSE]
    /\ UNCHANGED <<free, desc, info, queue, buf, proc>>

\* Mutant: if for while.
MutIntrEntryOnce ==
    LET id == used.ring[used_idx % NUM]
        b == info[id].b IN
    /\ lock = Intr
    /\ used_idx # used.idx
    /\ buf' = [buf EXCEPT ![b].disk = FALSE]
    /\ proc' = WakeBuf(proc, b)
    /\ used_idx' = (used_idx + 1) % W
    /\ used' = [used EXCEPT !.ring[used_idx % NUM] = 0]
    /\ lock' = Nobody
    /\ UNCHANGED <<free, desc, info, avail, dev>>

\* ... then every entry of the used ring is handled, new ones included, ...
IntrEntry ==
    LET id == used.ring[used_idx % NUM]
        b == info[id].b IN
    /\ lock = Intr
    /\ used_idx # used.idx
    /\ buf' = [buf EXCEPT ![b].disk = FALSE]
    /\ proc' = WakeBuf(proc, b)
    /\ used_idx' = (used_idx + 1) % W
    /\ used' = [used EXCEPT !.ring[used_idx % NUM] = 0]
    /\ UNCHANGED <<free, desc, info, avail, lock, dev>>

\* ... until there is none.
IntrEnd ==
    /\ lock = Intr
    /\ used_idx = used.idx
    /\ lock' = Nobody
    /\ UNCHANGED <<free, desc, info, queue, buf, proc, dev>>

-----------------------------------------------------------------------------
(* The device.                                                             *)

\* An entry of a ring that has been taken is never read again: it is reset, to leave
\* no trace in the state.
DevTake ==
    /\ dev.idx # avail.idx
    /\ dev' = [dev EXCEPT !.idx = (@ + 1) % W, !.busy = @ \cup {avail.ring[dev.idx % NUM]}]
    /\ avail' = [avail EXCEPT !.ring[dev.idx % NUM] = 0]
    /\ UNCHANGED <<free, desc, info, used, used_idx, lock, buf, proc>>

\* A request is done between the disk and the buffer its chain points to.
DevDo(i) ==
    LET b == info[i].b IN
    /\ i \in dev.busy /\ ~info[i].done
    /\ LET from == IF info[i].write THEN "buf" ELSE "disk" IN
       buf' = [buf EXCEPT ![b].good = IF from \in @ THEN {"buf", "disk"} ELSE {}]
    /\ info' = [info EXCEPT ![i].done = TRUE]
    /\ UNCHANGED <<free, desc, queue, lock, proc, dev>>

\* The chain goes to the used ring, and the interrupt is raised.
DevUsed(i) ==
    /\ i \in dev.busy /\ info[i].done
    /\ used' = [idx |-> (used.idx + 1) % W, ring |-> [used.ring EXCEPT ![used.idx % NUM] = i]]
    /\ dev' = [dev EXCEPT !.busy = @ \ {i}, !.isr = TRUE]
    /\ UNCHANGED <<free, desc, info, avail, used_idx, lock, buf, proc>>

-----------------------------------------------------------------------------
Driver(p) == Alloc(p) \/ Format(p) \/ Notify(p) \/ Woken(p)
Handler == IntrBegin \/ IntrEntry \/ IntrEnd
Device == DevTake \/ \E i \in Desc : DevDo(i) \/ DevUsed(i)

Next == Device \/ Handler \/ \E p \in P : Call(p) \/ Driver(p)

\* The device works, interrupts are delivered when no CPU holds the lock, and a
\* process that waits for the lock gets it in the end.
Fairness ==
    /\ WF_vars(DevTake) /\ \A i \in Desc : WF_vars(DevDo(i)) /\ WF_vars(DevUsed(i))
    /\ SF_vars(IntrBegin) /\ WF_vars(IntrEntry) /\ WF_vars(IntrEnd)
    /\ \A p \in P : SF_vars(Driver(p))

Spec == Init /\ [][Next]_vars /\ Fairness

-----------------------------------------------------------------------------
(* Properties.                                                             *)

Position == {"user", "alloc", "sleep_desc", "format", "notify", "sleep_buf", "woken"}
RingType == [idx : 0..(W - 1), ring : [Desc -> Desc]]
InfoType == [b : P \cup {Nobody}, write : BOOLEAN, done : BOOLEAN]
IdxType == {<<>>} \cup (Desc \X Desc \X Desc)
ProcType == [pc : Position, write : BOOLEAN, idx : IdxType]
BufType == [disk : BOOLEAN, good : SUBSET {"buf", "disk"}]

TypeOK ==
    /\ free \subseteq Desc
    /\ desc \in [Desc -> 0..NUM]
    /\ info \in [Desc -> InfoType]
    /\ avail \in RingType /\ used \in RingType
    /\ used_idx \in 0..(W - 1)
    /\ lock \in P \cup {Nobody, Intr}
    /\ buf \in [P -> BufType]
    /\ proc \in [P -> ProcType]
    /\ dev \in [idx : 0..(W - 1), busy : SUBSET Desc, isr : BOOLEAN]

\* The descriptors of a process.
Owned(p) == {proc[p].idx[k] : k \in 1..Len(proc[p].idx)}

\* Every descriptor is free or in the chain of one process: none is lost, also when
\* alloc3_desc() fails half way, and none is freed while the device uses it.
DescOwned ==
    /\ \A p, q \in P : p # q => Owned(p) \cap Owned(q) = {}
    /\ free = Desc \ UNION {Owned(p) : p \in P}
    /\ dev.busy \cap free = {}

\* No lost wakeup of those who wait for descriptors: none of them sleeps while three
\* are free.
DescWoken == \A p \in P : proc[p].pc = "sleep_desc" => Cardinality(free) < 3

\* Entries of the rings that have not been looked at are never overwritten: the
\* chains between the indexes are different and are requests of a process each.
Pending(r, from) == {r.ring[(from + k) % NUM] : k \in 0..(((r.idx - from) % W) - 1)}
RingsHold ==
    /\ Cardinality(Pending(avail, dev.idx)) = (avail.idx - dev.idx) % W
    /\ Cardinality(Pending(used, used_idx)) = (used.idx - used_idx) % W
    /\ \A i \in Pending(avail, dev.idx) \cup Pending(used, used_idx) : info[i].b \in P
    /\ \A i \in Pending(used, used_idx) : info[i].done

\* No completion is lost: whatever the device adds to the used ring, at any moment
\* of the handler, is found by the running handler or by an interrupt still to come.
Noticed == used_idx # used.idx => dev.isr \/ lock = Intr

\* A process that sleeps for its buffer has a request on its way; the buffer is not
\* with the device any more when it returns, and the transfer has been done.
Sleeps(p) == proc[p].pc = "sleep_buf"
OnItsWay(p) ==
    \E i \in Desc : info[i].b = p
        /\ i \in Pending(avail, dev.idx) \cup dev.busy \cup Pending(used, used_idx)
Transferred ==
    \A p \in P : /\ Sleeps(p) => buf[p].disk /\ OnItsWay(p)
                 /\ proc[p].pc = "user" => ~buf[p].disk /\ buf[p].good = {"buf", "disk"}

\* Every request that has been given to the device returns to its caller, and when
\* there are more callers than the descriptors suffice for, they do not all wait for
\* one another (one may be overtaken for ever: alloc3_desc() serves whoever comes).
Completes ==
    /\ \A p \in P : Sleeps(p) ~> proc[p].pc = "user"
    /\ (\A p \in P : proc[p].pc # "user") ~> (\E p \in P : proc[p].pc = "user")

\* Descriptors and rings are never in two hands: a descriptor is free or in one chain,
\* and a chain waits in a ring until the other side has taken it.
QueueAgrees == TypeOK /\ DescOwned /\ RingsHold

\* Neither a completion nor free descriptors go unnoticed: the handler or an interrupt
\* to come finds the one, and nobody sleeps for the others.
NoneMissed == Noticed /\ DescWoken

=============================================================================
