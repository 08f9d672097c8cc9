---------------------------- MODULE VirtioSteps -----------------------------
(***************************************************************************)
(* The inductive invariant of Virtio, and that every step of the driver,   *)
(* the interrupt handler and the device keeps it.                          *)
(***************************************************************************)
EXTENDS Virtio, Lemmas

-----------------------------------------------------------------------------
(* The inductive invariant.                                                *)

HasChain == {"format", "notify", "sleep_buf", "woken"}
Formatted == {"notify", "sleep_buf", "woken"}

\* A process has three descriptors from alloc3_desc() to free_chain(), and they are
\* its own; the other descriptors are free.
OwnInv ==
    /\ \A p \in P : LET x == proc[p].idx IN
        /\ proc[p].pc \in HasChain <=> x # <<>>
        /\ x # <<>> => x[1] # x[2] /\ x[1] # x[3] /\ x[2] # x[3]
    /\ \A p, q \in P : p # q => Owned(p) \cap Owned(q) = {}
    /\ \A i \in Desc : i \in free <=> \A p \in P : i \notin Owned(p)

\* They are linked in their order, and info leads from the first one to the process.
Linked(p) ==
    LET x == proc[p].idx IN
    /\ desc[x[1]] = x[2] /\ desc[x[2]] = x[3] /\ desc[x[3]] = None
    /\ info[x[1]].b = p /\ info[x[1]].write = proc[p].write
ChainInv ==
    /\ \A p \in P : proc[p].pc \in Formatted => Linked(p)
    /\ \A i \in Desc : info[i].b # Nobody =>
        proc[info[i].b].pc \in Formatted /\ proc[info[i].b].idx[1] = i

\* vdisk_lock is held while a request is made.
LockInv == \A p \in P : lock = p <=> proc[p].pc \in {"format", "notify"}

\* The entries of a ring that have not been taken are different and do not fill it.
Count(r, x) == Ahead(W, x, r.idx)
RingOK(r, x) == Count(r, x) < NUM /\ Holds(NUM, Desc, r.ring, x, Count(r, x))

\* The requests of the sleeping processes are each in one place: in the one ring, with
\* the device, or in the other ring.
Todo == Pending(avail, dev.idx)
Done == Pending(used, used_idx)
Waits(i) == info[i].b # Nobody /\ proc[info[i].b].pc = "sleep_buf"
StageInv ==
    /\ RingOK(avail, dev.idx) /\ RingOK(used, used_idx)
    /\ Todo \cap dev.busy = {} /\ Todo \cap Done = {} /\ dev.busy \cap Done = {}
    /\ \A i \in Desc : i \in Todo \cup dev.busy \cup Done <=> Waits(i)
    /\ \A p \in P : proc[p].pc = "notify" => avail.ring[avail.idx % NUM] = proc[p].idx[1]
    /\ \A p \in P : buf[p].disk <=> proc[p].pc \in {"notify", "sleep_buf"}

\* The data is good where it comes from until the device has done the transfer, and
\* from then on in both places.
From(p) == IF proc[p].write THEN "buf" ELSE "disk"
Both == {"buf", "disk"}
GoodInv(p) ==
    LET l == proc[p].pc
        good == buf[p].good
        done == info[proc[p].idx[1]].done IN
    /\ l \in {"alloc", "sleep_desc", "format", "notify"} => From(p) \in good
    /\ l = "notify" => ~done
    /\ l = "sleep_buf" => IF done THEN good = Both ELSE From(p) \in good
    /\ l \in {"woken", "user"} => good = Both
DataInv ==
    /\ \A i \in Todo : ~info[i].done
    /\ \A i \in Done : info[i].done
    /\ \A p \in P : GoodInv(p)

VirtioInv == TypeOK /\ OwnInv /\ ChainInv /\ LockInv /\ StageInv /\ DataInv /\ NoneMissed

\* What the invariant implies by counting descriptors, which VirtioProofs does: alloc3_desc()
\* finds three different ones unless fewer are free, ...
Finds ==
    ~(Cardinality(free) < 3) =>
        \E a, b, c \in free :
            /\ a = Lowest(free) /\ b = Lowest(free \ {a}) /\ c = Lowest(free \ {a, b})
            /\ a # b /\ a # c /\ b # c
\* ... and there is room in both rings for the chain of a process.
Roomy ==
    \A p \in P : proc[p].pc \in HasChain =>
        Count(avail, dev.idx) + 1 < NUM /\ Count(used, used_idx) + 1 < NUM
Counted == Finds /\ Roomy

-----------------------------------------------------------------------------
(* The rings.                                                              *)

\* The constants as the provers use them.
LEMMA Sizes ==
    /\ NUM \in Nat /\ NUM >= 3 /\ W \in Nat \ {0} /\ Divides(NUM, W)
    /\ Desc \subseteq Int /\ 0 \in Desc /\ None \notin Desc
  BY VirtioAssumption DEF Desc, None, Divides

\* What has not been taken from a ring, as a set of entries.
LEMMA PendingAre ==
    ASSUME NEW r, NEW x
    PROVE  Pending(r, x) = Entries(NUM, r.ring, x, Count(r, x))
  BY DEF Pending, Entries, Count, Ahead

\* A ring with an entry set, and with its index moved on.
WithEntry(r, i, e) == [r EXCEPT !.ring[i] = e]
MovedOn(r) == [r EXCEPT !.idx = (@ + 1) % W]

\* The indexes, and the fields of such rings.
LEMMA RingIs ==
    ASSUME NEW r \in RingType
    PROVE  /\ Index(W, r.idx) /\ r.idx % NUM \in Desc
           /\ MovedOn(r) \in RingType /\ MovedOn(r).idx = After(W, r.idx) /\ MovedOn(r).ring = r.ring
           /\ \A i, e \in Desc : /\ WithEntry(r, i, e) \in RingType /\ WithEntry(r, i, e).idx = r.idx
                                 /\ WithEntry(r, i, e).ring = Replaced(r.ring, i, e)
<1>1. Index(W, r.idx)
    BY Sizes DEF Index, RingType
<1>2. r.idx % NUM \in Desc
    BY Sizes DEF RingType, Desc
<1>3. After(W, r.idx) \in 0..(W - 1)
    BY <1>1, AfterIs DEF Index
<1>4. MovedOn(r) \in RingType /\ MovedOn(r).idx = After(W, r.idx) /\ MovedOn(r).ring = r.ring
    BY <1>3 DEF MovedOn, After, RingType
<1> QED BY <1>1, <1>2, <1>4 DEF WithEntry, RingType, Replaced

\* Setting the next entry disturbs no entry that waits.
LEMMA RingPut ==
    ASSUME NEW r \in RingType, NEW x, Index(W, x), RingOK(r, x), NEW e \in Desc,
           NEW s, s = WithEntry(r, r.idx % NUM, e)
    PROVE  /\ RingOK(s, x) /\ Pending(s, x) = Pending(r, x)
           /\ s.idx = r.idx /\ s.ring[r.idx % NUM] = e
<1>1. s.idx = r.idx /\ s.ring = Replaced(r.ring, r.idx % NUM, e)
    BY RingIs, Zenon
<1>2. PICK n : n = Count(r, x) /\ n = Count(s, x) /\ n < NUM /\ Holds(NUM, Desc, r.ring, x, n)
    BY <1>1 DEF RingOK, Count
<1>3. PICK i : i = r.idx % NUM /\ i = (x + n) % NUM
    <2>1. Index(W, r.idx) /\ Divides(NUM, W) /\ n = Ahead(W, x, r.idx)
        BY <1>2, RingIs, Sizes DEF Count
    <2> QED BY <2>1, NextEntry
<1>4. /\ Replaced(r.ring, i, e)[i] = e
      /\ Entries(NUM, Replaced(r.ring, i, e), x, n) = Entries(NUM, r.ring, x, n)
      /\ Holds(NUM, Desc, Replaced(r.ring, i, e), x, n)
    BY <1>2, <1>3, EntriesPut
<1>5. RingOK(s, x)
    BY <1>1, <1>2, <1>3, <1>4 DEF RingOK
<1>6. Pending(s, x) = Pending(r, x)
    BY <1>1, <1>2, <1>3, <1>4, PendingAre, Zenon
<1> QED BY <1>1, <1>3, <1>4, <1>5, <1>6

\* When the index moves on, the next entry waits as well.
LEMMA RingNotify ==
    ASSUME NEW r \in RingType, NEW x, Index(W, x), RingOK(r, x), Count(r, x) + 1 < NUM,
           r.ring[r.idx % NUM] \notin Pending(r, x), NEW s, s = MovedOn(r)
    PROVE  RingOK(s, x) /\ Pending(s, x) = Pending(r, x) \cup {r.ring[r.idx % NUM]}
<1>1. s.idx = After(W, r.idx) /\ s.ring = r.ring
    BY RingIs
<1>2. PICK n : n = Count(r, x) /\ n < NUM /\ Holds(NUM, Desc, r.ring, x, n)
    BY DEF RingOK
<1>3. PICK i : i = r.idx % NUM /\ i = (x + n) % NUM
    <2>1. Index(W, r.idx) /\ Divides(NUM, W) /\ n = Ahead(W, x, r.idx)
        BY <1>2, RingIs, Sizes DEF Count
    <2> QED BY <2>1, NextEntry
<1>4. Count(s, x) = n + 1
    BY <1>2, Sizes, RingIs, AheadUp DEF Holds, Divides, Count
<1>5. /\ Entries(NUM, r.ring, x, n + 1) = Entries(NUM, r.ring, x, n) \cup {r.ring[i]}
      /\ Holds(NUM, Desc, r.ring, x, n + 1)
    <2>1. PICK e : e = r.ring[i] /\ Behind(NUM, r.ring, x, n, e) /\ e \notin Entries(NUM, r.ring, x, n)
        BY <1>2, <1>3, PendingAre DEF Behind
    <2> QED BY <1>2, <2>1, EntriesAdd
<1>6. RingOK(s, x)
    BY <1>1, <1>2, <1>4, <1>5 DEF RingOK
<1>7. Pending(s, x) = Pending(r, x) \cup {r.ring[i]}
    BY <1>1, <1>2, <1>4, <1>5, PendingAre
<1> QED BY <1>3, <1>6, <1>7

\* Taking the first entry leaves the others.
LEMMA RingTake ==
    ASSUME NEW r \in RingType, NEW x, Index(W, x), RingOK(r, x), x # r.idx,
           NEW s, s = WithEntry(r, x % NUM, 0)
    PROVE  /\ r.ring[x % NUM] \in Pending(r, x) /\ RingOK(s, After(W, x))
           /\ Pending(s, After(W, x)) = Pending(r, x) \ {r.ring[x % NUM]}
<1>0. x % NUM \in Desc /\ 0 \in Desc
    BY Sizes DEF Index, Desc
<1>1. s.idx = r.idx /\ s.ring = Replaced(r.ring, x % NUM, 0)
    BY <1>0, RingIs
<1>2. PICK n : n = Count(r, x) /\ n < NUM /\ Holds(NUM, Desc, r.ring, x, n)
    BY DEF RingOK
<1>3. n # 0 /\ Count(s, After(W, x)) = n - 1
    <2>1. Index(W, r.idx) /\ n = Ahead(W, x, r.idx)
        BY <1>2, RingIs, Zenon DEF Count
    <2>2. n # 0
        BY <2>1, AheadIs
    <2>3. Ahead(W, After(W, x), r.idx) = n - 1
        BY <2>1, AheadDown
    <2> QED BY <1>1, <2>2, <2>3 DEF Count
<1>4. /\ r.ring[x % NUM] \in Entries(NUM, r.ring, x, n)
      /\ Entries(NUM, s.ring, After(W, x), n - 1) = Entries(NUM, r.ring, x, n) \ {r.ring[x % NUM]}
      /\ Holds(NUM, Desc, s.ring, After(W, x), n - 1)
    BY <1>1, <1>2, <1>3, Sizes, EntriesTake
<1>5. n - 1 < NUM
    BY <1>2 DEF Holds
<1> QED BY <1>2, <1>3, <1>4, <1>5, PendingAre DEF RingOK

\* The next entry of a ring that is neither empty nor full is not the first one.
LEMMA NextDiffers ==
    ASSUME NEW r \in RingType, NEW x, Index(W, x), RingOK(r, x), x # r.idx
    PROVE  r.idx % NUM # x % NUM
<1>1. Index(W, r.idx) /\ NUM \in Nat \ {0} /\ Divides(NUM, W)
    <2>1. NUM \in Nat \ {0} /\ Divides(NUM, W)
        BY Sizes
    <2> QED BY <2>1, RingIs, Zenon
<1>2. PICK n \in Nat : n = Ahead(W, x, r.idx) /\ n < NUM
    BY DEF RingOK, Count, Holds
<1>3. n # 0
    BY <1>1, <1>2, AheadIs
<1>4. r.idx % NUM = (x + n) % NUM
    BY <1>1, <1>2, NextEntry
<1>5. x \in Int
    BY DEF Index
<1> QED BY <1>1, <1>2, <1>3, <1>4, <1>5

-----------------------------------------------------------------------------
(* The descriptors of a process.                                           *)

\* The elements of idx[0..2].
Members(x) == {x[k] : k \in 1..Len(x)}

\* There are none or three of them.
LEMMA MembersAre ==
    ASSUME NEW x \in IdxType
    PROVE  /\ x = <<>> => Members(x) = {}
           /\ x # <<>> => /\ x[1] \in Desc /\ x[2] \in Desc /\ x[3] \in Desc
                          /\ Members(x) = {x[1], x[2], x[3]}
  BY DEF Members, IdxType

\* The descriptors that a process owns, and their links.
LEMMA OwnedAre ==
    ASSUME TypeOK, OwnInv, NEW p \in P
    PROVE  LET x == proc[p].idx IN
           /\ x \in IdxType /\ Owned(p) = Members(x)
           /\ proc[p].pc \notin HasChain => Owned(p) = {}
           /\ proc[p].pc \in HasChain => /\ x[1] \in Desc /\ x[2] \in Desc /\ x[3] \in Desc
                                         /\ x[1] # x[2] /\ x[1] # x[3] /\ x[2] # x[3]
                                         /\ Owned(p) = {x[1], x[2], x[3]}
<1>1. proc[p].idx \in IdxType
    BY DEF TypeOK, ProcType
<1>2. Owned(p) = Members(proc[p].idx)
    BY DEF Owned, Members
<1> QED BY <1>1, <1>2, MembersAre DEF OwnInv

\* A descriptor that info says is a process's is the first one of that process.
LEMMA HeadIs ==
    ASSUME TypeOK, OwnInv, ChainInv, NEW i \in Desc, info[i].b # Nobody
    PROVE  /\ info[i].b \in P /\ proc[info[i].b].pc \in Formatted
           /\ proc[info[i].b].idx[1] = i /\ i \in Owned(info[i].b)
  BY OwnedAre DEF TypeOK, InfoType, ChainInv, Formatted, HasChain

-----------------------------------------------------------------------------
(* Types.                                                                  *)

\* A process goes to another position, ...
LEMMA GotoIs ==
    ASSUME NEW pr \in [P -> ProcType], NEW p \in P, NEW l \in Position
    PROVE  /\ Goto(pr, p, l) \in [P -> ProcType]
           /\ Goto(pr, p, l)[p].pc = l
           /\ \A q \in P : /\ q # p => Goto(pr, p, l)[q].pc = pr[q].pc
                           /\ Goto(pr, p, l)[q].write = pr[q].write
                           /\ Goto(pr, p, l)[q].idx = pr[q].idx
  BY DEF Goto, ProcType

\* ... it calls the driver, it gets its descriptors, ...
LEMMA StartsIs ==
    ASSUME NEW pr \in [P -> ProcType], NEW p \in P
    PROVE  /\ \A w \in BOOLEAN : [pr EXCEPT ![p].pc = "alloc", ![p].write = w] \in [P -> ProcType]
           /\ \A x \in IdxType : [pr EXCEPT ![p].pc = "format", ![p].idx = x] \in [P -> ProcType]
<1>1. ASSUME NEW r \in ProcType PROVE [pr EXCEPT ![p] = r] \in [P -> ProcType]
    BY Zenon
<1>2. ASSUME NEW w \in BOOLEAN
      PROVE  [pr EXCEPT ![p].pc = "alloc", ![p].write = w] \in [P -> ProcType]
    <2>1. [pr[p] EXCEPT !.pc = "alloc", !.write = w] \in ProcType
        BY Zenon DEF ProcType, Position
    <2> QED BY <2>1
<1>3. ASSUME NEW x \in IdxType
      PROVE  [pr EXCEPT ![p].pc = "format", ![p].idx = x] \in [P -> ProcType]
    <2>1. [pr[p] EXCEPT !.pc = "format", !.idx = x] \in ProcType
        BY Zenon DEF ProcType, Position
    <2> QED BY <2>1
<1> QED BY <1>2, <1>3, Zenon

\* ... and those who wait for descriptors are woken up.
LEMMA WakeFreeIs ==
    ASSUME NEW pr \in [P -> ProcType]
    PROVE  /\ WakeFree(pr) \in [P -> ProcType]
           /\ \A q \in P : /\ WakeFree(pr)[q].pc = IF pr[q].pc = "sleep_desc" THEN "alloc" ELSE pr[q].pc
                           /\ WakeFree(pr)[q].write = pr[q].write
                           /\ WakeFree(pr)[q].idx = pr[q].idx
  BY DEF WakeFree, ProcType, Position

\* A buffer goes to the device, ...
Lent(bs, p) == [bs EXCEPT ![p].disk = TRUE]

\* The others are left alone.
LEMMA LentIs ==
    ASSUME NEW bs \in [P -> BufType], NEW p \in P
    PROVE  /\ Lent(bs, p) \in [P -> BufType] /\ Lent(bs, p)[p].disk
           /\ \A q \in P : q # p => Lent(bs, p)[q].disk = bs[q].disk
           /\ \A q \in P : Lent(bs, p)[q].good = bs[q].good
  BY Zenon DEF Lent, BufType

\* ... comes back, ...
Returned(bs, p) == [bs EXCEPT ![p].disk = FALSE]

\* Here as well.
LEMMA ReturnedIs ==
    ASSUME NEW bs \in [P -> BufType], NEW p \in P
    PROVE  /\ Returned(bs, p) \in [P -> BufType] /\ ~Returned(bs, p)[p].disk
           /\ \A q \in P : q # p => Returned(bs, p)[q].disk = bs[q].disk
           /\ \A q \in P : Returned(bs, p)[q].good = bs[q].good
  BY Zenon DEF Returned, BufType

\* ... and its data is transferred.
SetGood(bs, p, g) == [bs EXCEPT ![p].good = g]

\* And here.
LEMMA GoodIs ==
    ASSUME NEW bs \in [P -> BufType], NEW p \in P, NEW g \in SUBSET {"buf", "disk"}
    PROVE  /\ SetGood(bs, p, g) \in [P -> BufType] /\ SetGood(bs, p, g)[p].good = g
           /\ \A q \in P : q # p => SetGood(bs, p, g)[q].good = bs[q].good
           /\ \A q \in P : SetGood(bs, p, g)[q].disk = bs[q].disk
  BY DEF SetGood, BufType

\* A request in a ring or with the device belongs to a process that sleeps.
LEMMA WaiterIs ==
    ASSUME TypeOK, OwnInv, ChainInv, StageInv, NEW i \in Todo \cup dev.busy \cup Done
    PROVE  /\ i \in Desc /\ info[i].b \in P /\ proc[info[i].b].pc = "sleep_buf"
           /\ proc[info[i].b].idx[1] = i /\ i \in Owned(info[i].b)
  BY PendingAre, EntriesIn, HeadIs DEF StageInv, RingOK, Todo, Done, TypeOK, Waits

\* The entry that virtio_disk_intr() handles, and the one the device takes.
LEMMA FirstIs ==
    ASSUME TypeOK, StageInv
    PROVE  /\ Index(W, used_idx) /\ Index(W, dev.idx)
           /\ used_idx # used.idx => used.ring[used_idx % NUM] \in Done
           /\ dev.idx # avail.idx => avail.ring[dev.idx % NUM] \in Todo
  BY Sizes, RingTake DEF Index, TypeOK, StageInv, Done, Todo

\* The steps of the driver keep the types, ...
LEMMA TypesDriver ==
    ASSUME VirtioInv, Counted, NEW p \in P, Call(p) \/ Driver(p)
    PROVE  TypeOK'
<1>0. TypeOK /\ OwnInv /\ ChainInv /\ StageInv
    BY DEF VirtioInv
<1>1. CASE Call(p)
    <2>1. PICK w \in BOOLEAN :
              /\ proc' = [proc EXCEPT ![p].pc = "alloc", ![p].write = w]
              /\ buf' = [buf EXCEPT ![p].good = IF w THEN {"buf"} ELSE {"disk"}]
        BY <1>1, Zenon DEF Call
    <2>2. proc' \in [P -> ProcType]
        BY <1>0, <2>1, StartsIs, Zenon DEF TypeOK
    <2>3. buf' \in [P -> BufType]
        BY <1>0, <2>1 DEF TypeOK, BufType
    <2> QED BY <1>0, <1>1, <2>2, <2>3, Zenon DEF Call, TypeOK, queue
<1>2. CASE Alloc(p)
    <2>1. CASE ~(Cardinality(free) < 3)
        <3>1. PICK a, b, c \in free :
                  /\ a = Lowest(free) /\ b = Lowest(free \ {a}) /\ c = Lowest(free \ {a, b})
            BY <2>1, Zenon DEF Counted, Finds
        <3>2. /\ free' = free \ {a, b, c} /\ lock' = p
              /\ proc' = [proc EXCEPT ![p].pc = "format", ![p].idx = <<a, b, c>>]
              /\ UNCHANGED <<desc, info, queue, buf, dev>>
            BY <1>2, <2>1, <3>1 DEF Alloc
        <3>3. <<a, b, c>> \in IdxType
            BY <1>0 DEF TypeOK, IdxType
        <3>4. proc' \in [P -> ProcType]
            BY <1>0, <3>2, <3>3, StartsIs, Zenon DEF TypeOK
        <3> QED BY <1>0, <3>2, <3>4 DEF TypeOK, queue
    <2>2. CASE Cardinality(free) < 3
        <3>1. /\ UNCHANGED <<free, lock, desc, info, queue, buf, dev>>
              /\ proc' = Goto(IF free = {} THEN proc ELSE WakeFree(proc), p, "sleep_desc")
            BY <1>2, <2>2 DEF Alloc
        <3>2. proc \in [P -> ProcType] /\ WakeFree(proc) \in [P -> ProcType]
            BY <1>0, WakeFreeIs DEF TypeOK
        <3>3. proc' \in [P -> ProcType]
            BY <3>1, <3>2, GotoIs DEF Position
        <3> QED BY <1>0, <3>1, <3>3 DEF TypeOK, queue
    <2> QED BY <2>1, <2>2
<1>3. CASE Format(p)
    <2>1. LET x == proc[p].idx IN x[1] \in Desc /\ x[2] \in Desc /\ x[3] \in Desc
        BY <1>0, <1>3, OwnedAre DEF Format, HasChain
    <2>2. avail' = WithEntry(avail, avail.idx % NUM, proc[p].idx[1])
        BY <1>3 DEF Format, WithEntry
    <2>3. avail' \in RingType
        BY <1>0, <2>1, <2>2, RingIs, Zenon DEF TypeOK
    <2>4. proc' \in [P -> ProcType]
        BY <1>0, <1>3, GotoIs DEF Format, TypeOK, Position
    <2>5. desc' \in [Desc -> 0..NUM]
        <3>1. PICK x, y, z \in Desc : desc' = [desc EXCEPT ![x] = y, ![y] = z, ![z] = None]
            BY <1>3, <2>1, Zenon DEF Format
        <3>2. Desc \subseteq 0..NUM /\ None \in 0..NUM
            BY Sizes DEF Desc, None
        <3> QED BY <1>0, <3>1, <3>2 DEF TypeOK
    <2>6. info' \in [Desc -> InfoType]
        BY <1>0, <1>3, Zenon DEF Format, TypeOK, InfoType, ProcType
    <2>7. buf' \in [P -> BufType]
        <3>1. [buf[p] EXCEPT !.disk = TRUE] \in BufType
            BY <1>0, Zenon DEF TypeOK, BufType
        <3> QED BY <1>0, <1>3, <3>1 DEF Format, TypeOK
    <2>8. UNCHANGED <<free, used, used_idx, lock, dev>>
        BY <1>3 DEF Format
    <2> QED BY <1>0, <2>3, <2>4, <2>5, <2>6, <2>7, <2>8 DEF TypeOK
<1>4. CASE Notify(p)
    <2>1. avail' = MovedOn(avail)
        BY <1>4 DEF Notify, MovedOn
    <2>2. avail' \in RingType
        BY <1>0, <2>1, RingIs DEF TypeOK
    <2>3. proc' \in [P -> ProcType]
        BY <1>0, <1>4, GotoIs DEF Notify, TypeOK, Position
    <2> QED BY <1>0, <1>4, <2>2, <2>3 DEF Notify, TypeOK
<1>5. CASE Woken(p)
    <2>1. CASE buf[p].disk
        BY <1>5, <2>1, <1>0, GotoIs DEF Woken, TypeOK, Position, queue
    <2>2. CASE ~buf[p].disk
        <3>1. PICK x, chain : x = proc[p].idx[1] /\ chain = Chain(x) \ {None}
            BY Zenon
        <3>2. /\ info' = [info EXCEPT ![x] = NoInfo] /\ free' = free \cup chain
              /\ desc' = [i \in Desc |-> IF i \in chain THEN None ELSE desc[i]]
              /\ proc' = WakeFree([proc EXCEPT ![p] = [pc |-> "user", write |-> FALSE, idx |-> <<>>]])
              /\ UNCHANGED <<queue, lock, buf, dev>>
            BY <1>5, <2>2, <3>1 DEF Woken
        <3>3. x \in Desc
            BY <1>0, <1>5, <3>1, OwnedAre DEF Woken, HasChain
        <3>4. chain \subseteq Desc
            <4>1. desc \in [Desc -> 0..NUM]
                BY <1>0 DEF TypeOK
            <4>2. \A i \in 0..NUM : i = None \/ i \in Desc
                BY Sizes DEF None, Desc
            <4>3. desc[x] = None \/ desc[x] \in Desc
                BY <3>3, <4>1, <4>2, Zenon
            <4>4. desc[x] # None => desc[desc[x]] = None \/ desc[desc[x]] \in Desc
                BY <4>1, <4>2, <4>3, Zenon
            <4> QED BY <3>1, <3>3, <4>3, <4>4, Zenon DEF Chain
        <3>5. desc' \in [Desc -> 0..NUM]
            BY <1>0, <3>2, Sizes DEF TypeOK, None
        <3>6. info' \in [Desc -> InfoType]
            BY <1>0, <3>2, Zenon DEF TypeOK, InfoType, NoInfo
        <3>7. PICK pr \in [P -> ProcType] : pr = [proc EXCEPT ![p] = [pc |-> "user", write |-> FALSE, idx |-> <<>>]]
            BY <1>0, Zenon DEF TypeOK, ProcType, Position, IdxType
        <3>8. proc' \in [P -> ProcType]
            BY <3>2, <3>7, WakeFreeIs, Zenon
        <3> QED BY <1>0, <3>2, <3>4, <3>5, <3>6, <3>8, Zenon DEF TypeOK, queue
    <2> QED BY <2>1, <2>2
<1> QED BY <1>1, <1>2, <1>3, <1>4, <1>5 DEF Driver

\* ... and so do those of the interrupt handler and of the device.
LEMMA TypesDevice ==
    ASSUME VirtioInv, Handler \/ Device
    PROVE  TypeOK'
<1>0. TypeOK /\ OwnInv /\ ChainInv /\ StageInv
    BY DEF VirtioInv
<1>1. CASE IntrBegin
    BY <1>0, <1>1, Zenon DEF IntrBegin, TypeOK, queue
<1>2. CASE IntrEntry
    <2>1. PICK b \in P : b = info[used.ring[used_idx % NUM]].b
        BY <1>0, <1>2, FirstIs, WaiterIs, Zenon DEF IntrEntry
    <2>2. used' = WithEntry(used, used_idx % NUM, 0) /\ used_idx' = After(W, used_idx)
        BY <1>2, Zenon DEF IntrEntry, WithEntry, After
    <2>3. used_idx % NUM \in Desc /\ 0 \in Desc
        BY <1>0, Sizes DEF TypeOK, Desc
    <2>4. used' \in RingType
        BY <1>0, <2>2, <2>3, RingIs, Zenon DEF TypeOK
    <2>5. used_idx' \in 0..(W - 1)
        BY <1>0, <2>2, FirstIs, AfterIs DEF Index
    <2>6. proc' \in [P -> ProcType]
        <3>1. proc' = proc \/ proc' = Goto(proc, b, "woken")
            BY <1>2, <2>1, Zenon DEF IntrEntry, WakeBuf
        <3>2. "woken" \in Position /\ proc \in [P -> ProcType]
            BY <1>0 DEF TypeOK, Position
        <3> QED BY <3>1, <3>2, GotoIs
    <2>7. buf' = Returned(buf, b) /\ UNCHANGED <<free, desc, info, avail, lock, dev>>
        BY <1>2, <2>1, Zenon DEF IntrEntry, Returned
    <2>8. buf' \in [P -> BufType]
        BY <1>0, <2>7, ReturnedIs DEF TypeOK
    <2> QED BY <1>0, <2>4, <2>5, <2>6, <2>7, <2>8 DEF TypeOK
<1>3. CASE IntrEnd
    BY <1>0, <1>3 DEF IntrEnd, TypeOK, queue
<1>4. CASE DevTake
    <2>1. avail.ring[dev.idx % NUM] \in Desc
        BY <1>0, <1>4, FirstIs, WaiterIs DEF DevTake
    <2>2. avail' = WithEntry(avail, dev.idx % NUM, 0)
        BY <1>4 DEF DevTake, WithEntry
    <2>3. dev.idx % NUM \in Desc /\ 0 \in Desc
        BY <1>0, Sizes DEF TypeOK, Desc
    <2>4. avail' \in RingType
        BY <1>0, <2>2, <2>3, RingIs, Zenon DEF TypeOK
    <2>5. (dev.idx + 1) % W \in 0..(W - 1)
        BY <1>0, Sizes DEF TypeOK
    <2> QED BY <1>0, <1>4, <2>1, <2>4, <2>5, Zenon DEF DevTake, TypeOK
<1>5. ASSUME NEW i \in Desc, DevDo(i) PROVE TypeOK'
    <2>1. info' \in [Desc -> InfoType]
        BY <1>0, <1>5, Zenon DEF DevDo, TypeOK, InfoType
    <2>2. buf' \in [P -> BufType]
        <3>1. PICK b \in P : b = info[i].b
            BY <1>0, <1>5, WaiterIs DEF DevDo
        <3>2. PICK g \in SUBSET {"buf", "disk"} : buf' = SetGood(buf, b, g)
            BY <1>5, <3>1, Zenon DEF DevDo, SetGood
        <3> QED BY <1>0, <3>1, <3>2, GoodIs DEF TypeOK
    <2> QED BY <1>0, <1>5, <2>1, <2>2 DEF DevDo, TypeOK, queue
<1>6. ASSUME NEW i \in Desc, DevUsed(i) PROVE TypeOK'
    <2>1. used.idx % NUM \in Desc /\ (used.idx + 1) % W \in 0..(W - 1)
        BY <1>0, RingIs, AfterIs DEF TypeOK, Index, After
    <2>2. used' \in RingType
        BY <1>0, <1>6, <2>1 DEF DevUsed, TypeOK, RingType
    <2>3. dev' \in [idx : 0..(W - 1), busy : SUBSET Desc, isr : BOOLEAN]
        BY <1>0, <1>6, Zenon DEF DevUsed, TypeOK
    <2> QED BY <1>0, <1>6, <2>2, <2>3 DEF DevUsed, TypeOK
<1> QED BY <1>1, <1>2, <1>3, <1>4, <1>5, <1>6 DEF Handler, Device

-----------------------------------------------------------------------------
(* What the steps do, field by field.                                      *)

\* Nothing happens to the other processes, but that they are woken up by wakeup().
Elsewhere(p) ==
    \A q \in P : q # p =>
        /\ proc'[q].idx = proc[q].idx /\ proc'[q].write = proc[q].write
        /\ proc'[q].pc = proc[q].pc \/ (proc[q].pc = "sleep_desc" /\ proc'[q].pc = "alloc")
AtOnce(p) == \A q \in P : q # p => proc'[q].pc = proc[q].pc

\* A process calls, ...
LEMMA CallDoes ==
    ASSUME TypeOK, NEW p \in P, Call(p)
    PROVE  /\ Elsewhere(p) /\ AtOnce(p) /\ proc[p].pc = "user" /\ proc'[p].pc = "alloc"
           /\ proc'[p].idx = proc[p].idx
           /\ buf'[p].good = {IF proc'[p].write THEN "buf" ELSE "disk"}
           /\ \A q \in P : q # p => buf'[q].good = buf[q].good
           /\ \A q \in P : buf'[q].disk = buf[q].disk
           /\ UNCHANGED <<free, desc, info, avail, used, used_idx, lock, dev>>
  BY GoodIs DEF Call, SetGood, TypeOK, ProcType, queue, Elsewhere, AtOnce

\* alloc3_desc() with enough descriptors, ...
LEMMA AllocDoes ==
    ASSUME TypeOK, Counted, NEW p \in P, Alloc(p), ~(Cardinality(free) < 3)
    PROVE  /\ Elsewhere(p) /\ AtOnce(p) /\ proc[p].pc = "alloc" /\ proc'[p].pc = "format"
           /\ proc'[p].write = proc[p].write
           /\ \E a, b, c \in free : /\ a # b /\ a # c /\ b # c /\ proc'[p].idx = <<a, b, c>>
                                    /\ free' = free \ {a, b, c}
           /\ lock = Nobody /\ lock' = p
           /\ UNCHANGED <<desc, info, avail, used, used_idx, buf, dev>>
<1>1. PICK a, b, c \in free :
          /\ a = Lowest(free) /\ b = Lowest(free \ {a}) /\ c = Lowest(free \ {a, b})
          /\ a # b /\ a # c /\ b # c
    BY Zenon DEF Counted, Finds
<1>2. /\ proc' = [proc EXCEPT ![p].pc = "format", ![p].idx = <<a, b, c>>]
      /\ free' = free \ {a, b, c} /\ lock' = p /\ lock = Nobody /\ proc[p].pc = "alloc"
      /\ UNCHANGED <<desc, info, avail, used, used_idx, buf, dev>>
    BY <1>1 DEF Alloc, queue
<1>3. proc'[p].pc = "format" /\ proc'[p].write = proc[p].write /\ proc'[p].idx = <<a, b, c>>
    BY <1>2 DEF TypeOK, ProcType
<1>4. \A q \in P : q # p => proc'[q] = proc[q]
    BY <1>2 DEF TypeOK
<1> QED BY <1>1, <1>2, <1>3, <1>4, Zenon DEF Elsewhere, AtOnce

\* ... and without.
LEMMA AllocFails ==
    ASSUME TypeOK, NEW p \in P, Alloc(p), Cardinality(free) < 3
    PROVE  /\ Elsewhere(p) /\ proc[p].pc = "alloc" /\ proc'[p].pc = "sleep_desc"
           /\ proc'[p].write = proc[p].write /\ proc'[p].idx = proc[p].idx
           /\ UNCHANGED <<free, desc, info, avail, used, used_idx, lock, buf, dev>>
<1>1. /\ proc' = Goto(proc, p, "sleep_desc") \/ proc' = Goto(WakeFree(proc), p, "sleep_desc")
      /\ proc[p].pc = "alloc"
      /\ UNCHANGED <<free, desc, info, avail, used, used_idx, lock, buf, dev>>
    BY DEF Alloc, queue
<1>2. proc \in [P -> ProcType] /\ WakeFree(proc) \in [P -> ProcType] /\ "sleep_desc" \in Position
    BY WakeFreeIs DEF TypeOK, Position
<1>3. CASE proc' = Goto(proc, p, "sleep_desc")
    BY <1>1, <1>2, <1>3, GotoIs DEF Elsewhere
<1>4. CASE proc' = Goto(WakeFree(proc), p, "sleep_desc")
    BY <1>2, <1>4, GotoIs, <1>1, WakeFreeIs DEF Elsewhere
<1> QED BY <1>1, <1>3, <1>4

\* The chain is formatted, ...
LEMMA FormatDoes ==
    ASSUME TypeOK, OwnInv, NEW p \in P, Format(p)
    PROVE  /\ Elsewhere(p) /\ AtOnce(p) /\ proc[p].pc = "format" /\ proc'[p].pc = "notify"
           /\ proc'[p].write = proc[p].write /\ proc'[p].idx = proc[p].idx
           /\ LET x == proc[p].idx IN
              /\ desc'[x[1]] = x[2] /\ desc'[x[2]] = x[3] /\ desc'[x[3]] = None
              /\ \A i \in Desc : i \notin Owned(p) => desc'[i] = desc[i]
              /\ info'[x[1]].b = p /\ info'[x[1]].write = proc[p].write /\ ~info'[x[1]].done
              /\ \A i \in Desc : i # x[1] => info'[i] = info[i]
              /\ avail' = WithEntry(avail, avail.idx % NUM, x[1])
           /\ buf'[p].disk
           /\ \A q \in P : q # p => buf'[q].disk = buf[q].disk
           /\ \A q \in P : buf'[q].good = buf[q].good
           /\ UNCHANGED <<free, used, used_idx, lock, dev>>
<1>0. proc[p].pc = "format" /\ UNCHANGED <<free, used, used_idx, lock, dev>>
    BY DEF Format
<1>1. PICK a, b, c \in Desc : /\ proc[p].idx[1] = a /\ proc[p].idx[2] = b /\ proc[p].idx[3] = c
                              /\ a # b /\ a # c /\ b # c /\ Owned(p) = {a, b, c}
    BY <1>0, OwnedAre DEF HasChain
<1>2. /\ desc' = [desc EXCEPT ![a] = b, ![b] = c, ![c] = None]
      /\ info' = [info EXCEPT ![a] = [b |-> p, write |-> proc[p].write, done |-> FALSE]]
      /\ buf' = Lent(buf, p)
      /\ avail' = WithEntry(avail, avail.idx % NUM, a)
      /\ proc' = Goto(proc, p, "notify")
    BY <1>1 DEF Format, Lent, WithEntry
<1>3. Elsewhere(p) /\ AtOnce(p) /\ proc'[p].pc = "notify" /\ proc'[p].write = proc[p].write /\ proc'[p].idx = proc[p].idx
    BY <1>2, GotoIs DEF Elsewhere, AtOnce, TypeOK, Position
<1>4. desc'[a] = b /\ desc'[b] = c /\ desc'[c] = None /\ \A i \in Desc : i \notin {a, b, c} => desc'[i] = desc[i]
    BY <1>1, <1>2 DEF TypeOK
<1>5. /\ info'[a].b = p /\ info'[a].write = proc[p].write /\ info'[a].done = FALSE
      /\ \A i \in Desc : i # a => info'[i] = info[i]
    BY <1>1, <1>2 DEF TypeOK
<1>6. /\ buf'[p].disk
      /\ \A q \in P : q # p => buf'[q].disk = buf[q].disk
      /\ \A q \in P : buf'[q].good = buf[q].good
    <2>1. buf \in [P -> BufType]
        BY DEF TypeOK
    <2> QED BY <1>2, <2>1, LentIs
<1> QED BY <1>0, <1>1, <1>2, <1>3, <1>4, <1>5, <1>6, Zenon

\* ... and the device is told.
LEMMA NotifyDoes ==
    ASSUME TypeOK, NEW p \in P, Notify(p)
    PROVE  /\ Elsewhere(p) /\ AtOnce(p) /\ proc[p].pc = "notify" /\ proc'[p].pc = "sleep_buf"
           /\ proc'[p].write = proc[p].write /\ proc'[p].idx = proc[p].idx
           /\ avail' = MovedOn(avail) /\ lock' = Nobody
           /\ UNCHANGED <<free, desc, info, used, used_idx, buf, dev>>
<1>1. proc' = Goto(proc, p, "sleep_buf") /\ proc[p].pc = "notify"
    BY DEF Notify
<1>2. Elsewhere(p) /\ AtOnce(p) /\ proc'[p].pc = "sleep_buf" /\ proc'[p].write = proc[p].write /\ proc'[p].idx = proc[p].idx
    BY <1>1, GotoIs DEF Elsewhere, AtOnce, TypeOK, Position
<1> QED BY <1>1, <1>2 DEF Notify, MovedOn

\* A process that virtio_disk_intr() woke up finds its transfer done, and free_chain()
\* frees what it has.
LEMMA WokenDoes ==
    ASSUME VirtioInv, NEW p \in P, Woken(p)
    PROVE  /\ Elsewhere(p) /\ proc[p].pc = "woken" /\ proc'[p].pc = "user" /\ proc'[p].idx = <<>>
           /\ \A q \in P : proc'[q].pc # "sleep_desc"
           /\ free' = free \cup Owned(p)
           /\ \A i \in Desc : i \notin Owned(p) => desc'[i] = desc[i]
           /\ info'[proc[p].idx[1]].b = Nobody
           /\ \A i \in Desc : i # proc[p].idx[1] => info'[i] = info[i]
           /\ ~buf[p].disk /\ lock = Nobody
           /\ UNCHANGED <<avail, used, used_idx, lock, buf, dev>>
<1>0. TypeOK /\ OwnInv /\ ChainInv /\ StageInv
    BY DEF VirtioInv
<1>1. proc[p].pc = "woken" /\ lock = Nobody /\ UNCHANGED <<avail, used, used_idx, lock, buf, dev>>
    BY DEF Woken, queue
<1>2. ~buf[p].disk
    BY <1>0, <1>1 DEF StageInv
<1>3. PICK a, b, c \in Desc : /\ proc[p].idx[1] = a /\ proc[p].idx[2] = b /\ proc[p].idx[3] = c
                              /\ Owned(p) = {a, b, c}
    BY <1>0, <1>1, OwnedAre DEF HasChain
<1>4. desc[a] = b /\ desc[b] = c /\ None \notin Desc
    BY <1>0, <1>1, <1>3, Sizes DEF ChainInv, Linked, Formatted
<1>5. Chain(a) \ {None} = {a, b, c}
    BY <1>3, <1>4 DEF Chain
<1>6. /\ info' = [info EXCEPT ![a] = NoInfo]
      /\ free' = free \cup {a, b, c}
      /\ desc' = [i \in Desc |-> IF i \in {a, b, c} THEN None ELSE desc[i]]
      /\ proc' = WakeFree([proc EXCEPT ![p] = [pc |-> "user", write |-> FALSE, idx |-> <<>>]])
    BY <1>2, <1>3, <1>5 DEF Woken
<1>7. PICK pr \in [P -> ProcType] :
          /\ proc' = WakeFree(pr) /\ pr[p].pc = "user" /\ pr[p].idx = <<>>
          /\ \A q \in P : q # p => pr[q] = proc[q]
    <2> DEFINE r == [pc |-> "user", write |-> FALSE, idx |-> <<>>]
    <2>1. r \in ProcType /\ r.pc = "user" /\ r.idx = <<>>
        BY DEF ProcType, Position, IdxType
    <2>2. proc' = WakeFree([proc EXCEPT ![p] = r])
        BY <1>6
    <2> HIDE DEF r
    <2> QED BY <1>0, <2>1, <2>2, Zenon DEF TypeOK
<1>8. Elsewhere(p) /\ proc'[p].pc = "user" /\ proc'[p].idx = <<>> /\ \A q \in P : proc'[q].pc # "sleep_desc"
    BY <1>7, WakeFreeIs DEF Elsewhere
<1>9. info'[a].b = Nobody /\ \A i \in Desc : i # a => info'[i] = info[i]
    BY <1>0, <1>3, <1>6, Zenon DEF TypeOK, NoInfo
<1> QED BY <1>1, <1>2, <1>3, <1>6, <1>8, <1>9, Zenon

\* virtio_disk_intr() handles one entry: the process sleeps, and is woken up.
LEMMA EntryDoes ==
    ASSUME VirtioInv, IntrEntry
    PROVE  \E i \in Desc, p \in P :
              /\ i = used.ring[used_idx % NUM] /\ i \in Done /\ info[i].b = p
              /\ Elsewhere(p) /\ AtOnce(p) /\ proc[p].pc = "sleep_buf" /\ proc'[p].pc = "woken"
              /\ proc[p].idx[1] = i
              /\ proc'[p].write = proc[p].write /\ proc'[p].idx = proc[p].idx
              /\ ~buf'[p].disk
              /\ \A q \in P : q # p => buf'[q].disk = buf[q].disk
              /\ \A q \in P : buf'[q].good = buf[q].good
              /\ used_idx # used.idx
              /\ used' = WithEntry(used, used_idx % NUM, 0) /\ used_idx' = After(W, used_idx)
              /\ lock = Intr /\ UNCHANGED <<free, desc, info, avail, lock, dev>>
<1>0. TypeOK /\ OwnInv /\ ChainInv /\ StageInv
    BY DEF VirtioInv
<1>1. PICK i : i = used.ring[used_idx % NUM] /\ i \in Done
    BY <1>0, FirstIs, Zenon DEF IntrEntry
<1>2. PICK p \in P : info[i].b = p /\ proc[p].pc = "sleep_buf" /\ proc[p].idx[1] = i /\ i \in Desc
    BY <1>0, <1>1, WaiterIs
<1>3. /\ proc' = Goto(proc, p, "woken") /\ buf' = Returned(buf, p)
      /\ used_idx # used.idx
      /\ used' = WithEntry(used, used_idx % NUM, 0) /\ used_idx' = After(W, used_idx)
      /\ lock = Intr /\ UNCHANGED <<free, desc, info, avail, lock, dev>>
    BY <1>1, <1>2, Zenon DEF IntrEntry, WakeBuf, Returned, WithEntry, After
<1>4. Elsewhere(p) /\ AtOnce(p) /\ proc'[p].pc = "woken" /\ proc'[p].write = proc[p].write /\ proc'[p].idx = proc[p].idx
    BY <1>0, <1>3, GotoIs DEF Elsewhere, AtOnce, TypeOK, Position
<1>5. /\ ~buf'[p].disk
      /\ \A q \in P : q # p => buf'[q].disk = buf[q].disk
      /\ \A q \in P : buf'[q].good = buf[q].good
    BY <1>0, <1>3, ReturnedIs DEF TypeOK
<1> QED BY <1>1, <1>2, <1>3, <1>4, <1>5

\* The device takes a request, ...
LEMMA TakeDoes ==
    ASSUME VirtioInv, DevTake
    PROVE  \E i \in Desc :
              /\ i = avail.ring[dev.idx % NUM] /\ i \in Todo
              /\ dev.idx # avail.idx /\ avail' = WithEntry(avail, dev.idx % NUM, 0)
              /\ dev'.idx = After(W, dev.idx) /\ dev'.busy = dev.busy \cup {i} /\ dev'.isr = dev.isr
              /\ UNCHANGED <<free, desc, info, used, used_idx, lock, buf, proc>>
  BY FirstIs, WaiterIs DEF VirtioInv, DevTake, TypeOK, After, WithEntry

\* ... does it, ...
LEMMA DoDoes ==
    ASSUME VirtioInv, NEW i \in Desc, DevDo(i)
    PROVE  \E p \in P :
              /\ i \in dev.busy /\ ~info[i].done /\ info[i].b = p
              /\ proc[p].pc = "sleep_buf" /\ proc[p].idx[1] = i
              /\ From(p) \in buf[p].good => buf'[p].good = Both
              /\ \A q \in P : q # p => buf'[q].good = buf[q].good
              /\ \A q \in P : buf'[q].disk = buf[q].disk
              /\ info'[i].b = p /\ info'[i].write = info[i].write /\ info'[i].done
              /\ \A j \in Desc : j # i => info'[j] = info[j]
              /\ UNCHANGED <<free, desc, avail, used, used_idx, lock, proc, dev>>
<1>0. TypeOK /\ OwnInv /\ ChainInv /\ StageInv
    BY DEF VirtioInv
<1>1. i \in dev.busy /\ ~info[i].done /\ UNCHANGED <<free, desc, avail, used, used_idx, lock, proc, dev>>
    BY DEF DevDo, queue
<1>2. PICK p \in P : info[i].b = p /\ proc[p].pc = "sleep_buf" /\ proc[p].idx[1] = i
    BY <1>0, <1>1, WaiterIs, Zenon
<1>3. info[i].write = proc[p].write
    BY <1>0, <1>2 DEF ChainInv, Linked, Formatted
<1>4. PICK g \in SUBSET {"buf", "disk"} : /\ buf' = SetGood(buf, p, g)
                                          /\ From(p) \in buf[p].good => g = Both
    <2> DEFINE g == IF From(p) \in buf[p].good THEN {"buf", "disk"} ELSE {}
    <2>1. buf' = [buf EXCEPT ![p].good = IF From(p) \in @ THEN {"buf", "disk"} ELSE {}]
        BY <1>2, <1>3 DEF DevDo, From
    <2>2. buf' = SetGood(buf, p, g)
        BY <2>1 DEF SetGood
    <2> QED BY <2>2 DEF Both
<1>5. /\ buf'[p].good = g
      /\ \A q \in P : q # p => buf'[q].good = buf[q].good
      /\ \A q \in P : buf'[q].disk = buf[q].disk
    BY <1>0, <1>4, GoodIs DEF TypeOK
<1>6. info' = [info EXCEPT ![i].done = TRUE] /\ info \in [Desc -> InfoType]
    BY <1>0 DEF DevDo, TypeOK
<1>7. /\ info'[i].b = p /\ info'[i].write = info[i].write /\ info'[i].done = TRUE
      /\ \A j \in Desc : j # i => info'[j] = info[j]
    BY <1>2, <1>6 DEF InfoType
<1> QED BY <1>1, <1>2, <1>4, <1>5, <1>7

\* ... and gives it back.
LEMMA UsedDoes ==
    ASSUME TypeOK, NEW i \in Desc, DevUsed(i)
    PROVE  /\ i \in dev.busy /\ info[i].done
           /\ used' = MovedOn(WithEntry(used, used.idx % NUM, i))
           /\ dev'.idx = dev.idx /\ dev'.busy = dev.busy \ {i} /\ dev'.isr = TRUE
           /\ UNCHANGED <<free, desc, info, avail, used_idx, lock, buf, proc>>
<1>1. dev'.idx = dev.idx /\ dev'.busy = dev.busy \ {i} /\ dev'.isr = TRUE
    BY DEF DevUsed, TypeOK
<1>2. used \in RingType /\ used' = [idx |-> (used.idx + 1) % W, ring |-> [used.ring EXCEPT ![used.idx % NUM] = i]]
    BY DEF DevUsed, TypeOK
<1>3. used' = MovedOn(WithEntry(used, used.idx % NUM, i))
    <2>1. used.idx % NUM \in Desc
        BY <1>2, RingIs
    <2>2. PICK s \in RingType : /\ s = WithEntry(used, used.idx % NUM, i)
                               /\ s.idx = used.idx /\ s.ring = Replaced(used.ring, used.idx % NUM, i)
        BY <1>2, <2>1, RingIs
    <2>3. MovedOn(s) = [idx |-> (s.idx + 1) % W, ring |-> s.ring]
        BY DEF MovedOn, RingType
    <2> QED BY <1>2, <2>2, <2>3 DEF Replaced
<1> QED BY <1>1, <1>3 DEF DevUsed

-----------------------------------------------------------------------------
(* Descriptors have one owner.                                             *)

\* Nothing changes hands in a step in which the processes keep their descriptors.
LEMMA OwnKept ==
    ASSUME TypeOK, OwnInv, free' = free,
           \A q \in P : /\ proc'[q].idx = proc[q].idx
                        /\ proc'[q].pc \in HasChain <=> proc[q].pc \in HasChain
    PROVE  OwnInv'
<1>1. \A q \in P : Owned(q)' = Owned(q)
    BY DEF Owned
<1>2. \A q \in P : LET x == proc'[q].idx IN
          /\ proc'[q].pc \in HasChain <=> x # <<>>
          /\ x # <<>> => x[1] # x[2] /\ x[1] # x[3] /\ x[2] # x[3]
    BY DEF OwnInv
<1>3. \A q, r \in P : q # r => Owned(q)' \cap Owned(r)' = {}
    BY <1>1 DEF OwnInv
<1>4. \A i \in Desc : i \in free' <=> \A q \in P : i \notin Owned(q)'
    BY <1>1 DEF OwnInv
<1> HIDE DEF Owned
<1> QED BY <1>2, <1>3, <1>4 DEF OwnInv, HasChain

\* In a step of p, the others keep theirs.
LEMMA OwnElsewhere ==
    ASSUME TypeOK, NEW p \in P, Elsewhere(p)
    PROVE  \A q \in P : q # p => /\ proc'[q].idx = proc[q].idx
                                 /\ proc'[q].pc \in HasChain <=> proc[q].pc \in HasChain
                                 /\ Owned(q)' = Owned(q)
  BY DEF Elsewhere, HasChain, Owned

\* alloc3_desc() takes what nobody has, ...
LEMMA OwnAlloc ==
    ASSUME VirtioInv, Counted, NEW p \in P, Alloc(p), ~(Cardinality(free) < 3)
    PROVE  OwnInv'
<1>0. TypeOK /\ OwnInv
    BY DEF VirtioInv
<1>1. Elsewhere(p) /\ proc[p].pc = "alloc" /\ proc'[p].pc = "format"
    BY <1>0, AllocDoes
<1>2. PICK a, b, c \in free : /\ a # b /\ a # c /\ b # c /\ proc'[p].idx = <<a, b, c>>
                              /\ free' = free \ {a, b, c}
    BY <1>0, AllocDoes
<1>3. free \subseteq Desc
    BY <1>0 DEF TypeOK
<1>4. <<a, b, c>> \in IdxType /\ <<a, b, c>> # <<>>
    BY <1>3 DEF IdxType
<1>5. Owned(p)' = {a, b, c}
    BY <1>4, MembersAre, <1>2, Zenon DEF Owned, Members
<1>6. Owned(p) = {}
    BY <1>0, <1>1, OwnedAre, Zenon DEF HasChain
<1>7. \A q \in P : q # p => /\ proc'[q].idx = proc[q].idx
                            /\ proc'[q].pc \in HasChain <=> proc[q].pc \in HasChain
                            /\ Owned(q)' = Owned(q)
    BY <1>0, <1>1, OwnElsewhere
<1>8. ASSUME NEW q \in P
      PROVE  LET x == proc'[q].idx IN
             /\ proc'[q].pc \in HasChain <=> x # <<>>
             /\ x # <<>> => x[1] # x[2] /\ x[1] # x[3] /\ x[2] # x[3]
    <2>1. CASE q = p
        <3>1. \A x : x = <<a, b, c>> => x[1] = a /\ x[2] = b /\ x[3] = c
            OBVIOUS
        <3>2. proc'[q].idx # <<>> /\ proc'[q].pc \in HasChain
            BY <1>1, <1>2, <1>4, <2>1, Zenon DEF HasChain
        <3> QED BY <1>2, <2>1, <3>1, <3>2
    <2>2. CASE q # p
        BY <1>0, <1>7, <2>2 DEF OwnInv
    <2> QED BY <2>1, <2>2
<1>9. \A i \in free, q \in P : i \notin Owned(q)
    BY <1>0, <1>3, Zenon DEF OwnInv
<1>10. \A q, r \in P : q # r => Owned(q)' \cap Owned(r)' = {}
    BY <1>0, <1>5, <1>7, <1>9 DEF OwnInv
<1>11. \A i \in Desc : i \in free' <=> \A q \in P : i \notin Owned(q)'
    BY <1>0, <1>2, <1>5, <1>6, <1>7, <1>9 DEF OwnInv
<1> QED BY <1>8, <1>10, <1>11 DEF OwnInv, HasChain

\* ... and free_chain() frees all that its caller has.
LEMMA OwnWoken ==
    ASSUME VirtioInv, NEW p \in P, Woken(p)
    PROVE  OwnInv'
<1>0. TypeOK /\ OwnInv
    BY Zenon DEF VirtioInv
<1>1. Elsewhere(p) /\ proc'[p].pc = "user" /\ proc'[p].idx = <<>> /\ free' = free \cup Owned(p)
    BY WokenDoes
<1>2. Owned(p)' = {}
    BY <1>1, MembersAre DEF Owned, Members, IdxType
<1>3. \A q \in P : q # p => /\ proc'[q].idx = proc[q].idx
                            /\ proc'[q].pc \in HasChain <=> proc[q].pc \in HasChain
                            /\ Owned(q)' = Owned(q)
    BY <1>0, <1>1, OwnElsewhere, Zenon
<1>4. ASSUME NEW q \in P
      PROVE  LET x == proc'[q].idx IN
             /\ proc'[q].pc \in HasChain <=> x # <<>>
             /\ x # <<>> => x[1] # x[2] /\ x[1] # x[3] /\ x[2] # x[3]
    BY <1>1, <1>0, <1>3 DEF HasChain, OwnInv
<1>5. \A q, r \in P : q # r => Owned(q)' \cap Owned(r)' = {}
    BY <1>0, <1>2, <1>3, Zenon DEF OwnInv
<1>6. \A i \in Desc : i \in free' <=> \A q \in P : i \notin Owned(q)'
    BY <1>0, <1>1, <1>2, <1>3 DEF OwnInv
<1> QED BY <1>4, <1>5, <1>6 DEF OwnInv, HasChain

\* No step gives a descriptor to two.
LEMMA OwnStep ==
    ASSUME VirtioInv, Counted, Next
    PROVE  OwnInv'
<1>0. TypeOK /\ OwnInv
    BY DEF VirtioInv
<1>1. ASSUME NEW p \in P, Elsewhere(p), proc'[p].idx = proc[p].idx, free' = free,
             proc'[p].pc \in HasChain <=> proc[p].pc \in HasChain
      PROVE  OwnInv'
    BY <1>0, <1>1, OwnElsewhere, OwnKept, Zenon
<1>2. ASSUME NEW p \in P, Call(p) PROVE OwnInv'
    BY <1>0, <1>1, <1>2, CallDoes DEF HasChain
<1>3. ASSUME NEW p \in P, Alloc(p) PROVE OwnInv'
    BY <1>3, OwnAlloc, <1>0, <1>1, AllocFails, Zenon DEF HasChain
<1>4. ASSUME NEW p \in P, Format(p) PROVE OwnInv'
    BY <1>0, <1>1, <1>4, FormatDoes, Zenon DEF HasChain
<1>5. ASSUME NEW p \in P, Notify(p) PROVE OwnInv'
    BY <1>0, <1>1, <1>5, NotifyDoes, Zenon DEF HasChain
<1>6. CASE IntrEntry
    BY <1>6, EntryDoes, <1>1 DEF HasChain
<1>7. ASSUME proc' = proc, free' = free PROVE OwnInv'
    BY <1>0, <1>7, OwnKept
<1>8. CASE IntrBegin \/ IntrEnd \/ Device
    BY <1>7, <1>8, Zenon DEF IntrBegin, IntrEnd, Device, DevTake, DevDo, DevUsed
<1> QED BY <1>2, <1>3, <1>4, <1>5, <1>6, <1>8, OwnWoken DEF Next, Driver, Handler

-----------------------------------------------------------------------------
(* vdisk_lock, and who is noticed.                                         *)

\* vdisk_lock is with the process that makes a request.
LEMMA LockStep ==
    ASSUME VirtioInv, Counted, Next
    PROVE  LockInv'
<1>0. TypeOK /\ OwnInv /\ LockInv /\ Nobody \notin P /\ Intr \notin P
    BY VirtioAssumption DEF VirtioInv
<1> DEFINE Makes(l) == l \in {"format", "notify"}
<1>1. ASSUME lock' = lock, \A q \in P : Makes(proc'[q].pc) <=> Makes(proc[q].pc)
      PROVE  LockInv'
    BY <1>0, <1>1 DEF LockInv
<1>2. ASSUME NEW p \in P, Elsewhere(p)
      PROVE  \A q \in P : q # p => (Makes(proc'[q].pc) <=> Makes(proc[q].pc))
    BY <1>2, Zenon DEF Elsewhere
<1>3. ASSUME NEW p \in P, Call(p) PROVE LockInv'
    BY <1>0, <1>1, <1>2, <1>3, CallDoes, Zenon
<1>4. ASSUME NEW p \in P, Alloc(p) PROVE LockInv'
    BY <1>0, <1>4, AllocDoes, <1>2, AllocFails, <1>1 DEF LockInv
<1>5. ASSUME NEW p \in P, Format(p) PROVE LockInv'
    BY <1>0, <1>5, FormatDoes, <1>1, <1>2
<1>6. ASSUME NEW p \in P, Notify(p) PROVE LockInv'
    BY <1>0, <1>6, NotifyDoes, <1>2 DEF LockInv
<1>7. ASSUME NEW p \in P, Woken(p) PROVE LockInv'
    BY <1>7, WokenDoes, <1>1, <1>2, Zenon
<1>8. CASE IntrEntry
    BY <1>8, EntryDoes, <1>1, <1>2
<1>9. CASE IntrBegin \/ IntrEnd
    BY <1>9, <1>0 DEF IntrBegin, IntrEnd, LockInv
<1>10. CASE Device
    <2>1. proc' = proc /\ lock' = lock
        BY <1>10, Zenon DEF Device, DevTake, DevDo, DevUsed
    <2> QED BY <1>1, <2>1
<1> QED BY <1>3, <1>4, <1>5, <1>6, <1>7, <1>8, <1>9, <1>10 DEF Next, Driver, Handler

\* No step leaves a completion or free descriptors unnoticed.
LEMMA NoticedStep ==
    ASSUME VirtioInv, Counted, Next
    PROVE  NoneMissed'
<1>0. TypeOK /\ OwnInv /\ LockInv /\ Noticed /\ DescWoken /\ Nobody \notin P /\ Intr \notin P /\ Nobody # Intr
    BY VirtioAssumption DEF VirtioInv, NoneMissed
<1>1. ASSUME used_idx' = used_idx, used'.idx = used.idx, dev'.isr = dev.isr, lock = Intr => lock' = Intr
      PROVE  Noticed'
    BY <1>0, <1>1 DEF Noticed
<1>2. ASSUME free' = free, \A q \in P : proc'[q].pc = "sleep_desc" => proc[q].pc = "sleep_desc"
      PROVE  DescWoken'
    BY <1>0, <1>2 DEF DescWoken
<1>3. ASSUME NEW p \in P, Elsewhere(p)
      PROVE  \A q \in P : q # p /\ proc'[q].pc = "sleep_desc" => proc[q].pc = "sleep_desc"
    BY <1>3 DEF Elsewhere
<1>4. ASSUME NEW p \in P, Call(p) PROVE NoneMissed'
    BY <1>0, <1>4, CallDoes, <1>1, <1>2, <1>3, Zenon DEF NoneMissed
<1>5. ASSUME NEW p \in P, Alloc(p) PROVE NoneMissed'
    BY <1>0, <1>5, AllocDoes, <1>3, <1>1, AllocFails, Zenon DEF DescWoken, NoneMissed
<1>6. ASSUME NEW p \in P, Format(p) PROVE NoneMissed'
    BY <1>0, <1>6, FormatDoes, <1>1, <1>2, <1>3 DEF NoneMissed
<1>7. ASSUME NEW p \in P, Notify(p) PROVE NoneMissed'
    BY <1>0, <1>7, NotifyDoes, <1>1, <1>2, <1>3 DEF LockInv, NoneMissed
<1>8. ASSUME NEW p \in P, Woken(p) PROVE NoneMissed'
    BY <1>8, WokenDoes, <1>1 DEF DescWoken, NoneMissed
<1>9. CASE IntrEntry
    BY <1>9, EntryDoes, <1>2, <1>3, Zenon DEF Noticed, NoneMissed
<1>10. ASSUME UNCHANGED <<proc, free>> PROVE DescWoken'
    BY <1>2, <1>10
<1>11. CASE IntrBegin
    BY <1>10, <1>11 DEF IntrBegin, NoneMissed, Noticed
<1>12. CASE IntrEnd
    BY <1>10, <1>12 DEF IntrEnd, NoneMissed, Noticed, queue
<1>13. CASE DevTake
    BY <1>13, TakeDoes, <1>1, <1>10 DEF NoneMissed
<1>14. ASSUME NEW i \in Desc, DevDo(i) PROVE NoneMissed'
    BY <1>1, <1>10, <1>14 DEF DevDo, NoneMissed, queue
<1>15. ASSUME NEW i \in Desc, DevUsed(i) PROVE NoneMissed'
    <2>1. UNCHANGED <<proc, free>> /\ dev'.isr = TRUE
        BY <1>0, <1>15, UsedDoes, Zenon
    <2> QED BY <1>10, <2>1 DEF NoneMissed, Noticed
<1> QED BY <1>4, <1>5, <1>6, <1>7, <1>8, <1>9, <1>11, <1>12, <1>13, <1>14, <1>15, Zenon
    DEF Next, Driver, Handler, Device

-----------------------------------------------------------------------------
(* Chains are linked and lead back to their process.                       *)

\* They are not touched by a step that neither links nor unlinks, ...
LEMMA ChainKept ==
    ASSUME TypeOK, OwnInv, ChainInv, desc' = desc,
           \A i \in Desc : info'[i].b = info[i].b /\ info'[i].write = info[i].write,
           \A q \in P : /\ proc'[q].pc \in Formatted <=> proc[q].pc \in Formatted
                        /\ proc[q].pc \in Formatted => /\ proc'[q].idx = proc[q].idx
                                                       /\ proc'[q].write = proc[q].write
    PROVE  ChainInv'
<1>1. ASSUME NEW q \in P, proc'[q].pc \in Formatted PROVE Linked(q)'
    BY <1>1, OwnedAre DEF ChainInv, Formatted, HasChain, Linked
<1>2. ASSUME NEW i \in Desc, info'[i].b # Nobody
      PROVE  proc'[info'[i].b].pc \in Formatted /\ proc'[info'[i].b].idx[1] = i
    BY <1>2, HeadIs
<1> QED BY <1>1, <1>2, Zenon DEF ChainInv, Formatted

\* ... and those of others are not by one that links or unlinks its own.
LEMMA ChainElsewhere ==
    ASSUME TypeOK, OwnInv, ChainInv, NEW p \in P, Elsewhere(p), proc[p].pc \in HasChain,
           \A i \in Desc : i \notin Owned(p) => desc'[i] = desc[i],
           \A i \in Desc : i # proc[p].idx[1] => info'[i] = info[i]
    PROVE  /\ \A q \in P : q # p /\ proc'[q].pc \in Formatted => Linked(q)'
           /\ \A i \in Desc : i # proc[p].idx[1] /\ info'[i].b # Nobody =>
                  proc'[info'[i].b].pc \in Formatted /\ proc'[info'[i].b].idx[1] = i
<1>0. proc[p].idx[1] \in Owned(p)
    BY OwnedAre, Zenon
<1>1. ASSUME NEW q \in P, q # p, proc'[q].pc \in Formatted PROVE Linked(q)'
    <2>1. proc'[q].idx = proc[q].idx /\ proc'[q].write = proc[q].write /\ proc[q].pc \in Formatted
        BY <1>1 DEF Elsewhere, Formatted
    <2>2. Linked(q)
        BY <2>1, Zenon DEF ChainInv
    <2>3. PICK a, b, c \in Desc : /\ proc[q].idx[1] = a /\ proc[q].idx[2] = b /\ proc[q].idx[3] = c
                                  /\ Owned(q) = {a, b, c}
        BY <2>1, OwnedAre DEF Formatted, HasChain
    <2>4. Owned(p) \cap Owned(q) = {}
        BY <1>1 DEF OwnInv
    <2>5. desc'[a] = desc[a] /\ desc'[b] = desc[b] /\ desc'[c] = desc[c] /\ info'[a] = info[a]
        BY <1>0, <2>3, <2>4, Zenon
    <2> QED BY <2>1, <2>2, <2>3, <2>5, Zenon DEF Linked
<1>2. ASSUME NEW i \in Desc, i # proc[p].idx[1], info'[i].b # Nobody
      PROVE  proc'[info'[i].b].pc \in Formatted /\ proc'[info'[i].b].idx[1] = i
    BY <1>2, HeadIs DEF Elsewhere, Formatted
<1> QED BY <1>1, <1>2, Zenon

\* The chains of the steps.
LEMMA ChainStep ==
    ASSUME VirtioInv, Counted, Next
    PROVE  ChainInv'
<1>0. TypeOK /\ OwnInv /\ ChainInv
    BY DEF VirtioInv
<1>1. ASSUME NEW p \in P, Elsewhere(p), UNCHANGED <<desc, info>>,
             proc'[p].pc \in Formatted <=> proc[p].pc \in Formatted,
             proc[p].pc \in Formatted => proc'[p].idx = proc[p].idx /\ proc'[p].write = proc[p].write
      PROVE  ChainInv'
    BY <1>1, <1>0, ChainKept, Zenon DEF Elsewhere, Formatted
<1>2. ASSUME NEW p \in P, Call(p) PROVE ChainInv'
    BY <1>0, <1>1, <1>2, CallDoes, Zenon DEF Formatted
<1>3. ASSUME NEW p \in P, Alloc(p) PROVE ChainInv'
    BY <1>0, <1>3, AllocDoes, AllocFails, <1>1, Zenon DEF Formatted
<1>4. ASSUME NEW p \in P, Format(p) PROVE ChainInv'
    <2>1. /\ Elsewhere(p) /\ proc[p].pc = "format" /\ proc'[p].pc = "notify"
          /\ proc'[p].write = proc[p].write /\ proc'[p].idx = proc[p].idx
        BY <1>0, <1>4, FormatDoes, Zenon
    <2>2. LET x == proc[p].idx IN
          /\ desc'[x[1]] = x[2] /\ desc'[x[2]] = x[3] /\ desc'[x[3]] = None
          /\ \A i \in Desc : i \notin Owned(p) => desc'[i] = desc[i]
          /\ info'[x[1]].b = p /\ info'[x[1]].write = proc[p].write
          /\ \A i \in Desc : i # x[1] => info'[i] = info[i]
        BY <1>0, <1>4, FormatDoes, Zenon
    <2>3. /\ \A q \in P : q # p /\ proc'[q].pc \in Formatted => Linked(q)'
          /\ \A i \in Desc : i # proc[p].idx[1] /\ info'[i].b # Nobody =>
                 proc'[info'[i].b].pc \in Formatted /\ proc'[info'[i].b].idx[1] = i
        BY <1>0, <2>1, <2>2, ChainElsewhere, Zenon DEF HasChain
    <2>4. Linked(p)'
        BY <2>1, <2>2, Zenon DEF Linked
    <2> QED BY <2>1, <2>2, <2>3, <2>4 DEF ChainInv, Formatted
<1>5. ASSUME NEW p \in P, Notify(p) PROVE ChainInv'
    BY <1>0, <1>1, <1>5, NotifyDoes, Zenon DEF Formatted
<1>6. ASSUME NEW p \in P, Woken(p) PROVE ChainInv'
    BY <1>6, WokenDoes, <1>0, ChainElsewhere DEF HasChain, ChainInv, Formatted
<1>7. CASE IntrEntry
    BY <1>7, EntryDoes, <1>1 DEF Formatted
<1>8. ASSUME UNCHANGED <<desc, proc>>,
             \A i \in Desc : info'[i].b = info[i].b /\ info'[i].write = info[i].write
      PROVE  ChainInv'
    BY <1>0, <1>8, ChainKept
<1>9. CASE IntrBegin \/ IntrEnd \/ DevTake
    BY <1>8, <1>9, Zenon DEF IntrBegin, IntrEnd, DevTake
<1>10. ASSUME NEW i \in Desc, DevDo(i) PROVE ChainInv'
    BY <1>10, DoDoes, <1>8
<1>11. ASSUME NEW i \in Desc, DevUsed(i) PROVE ChainInv'
    BY <1>8, <1>11 DEF DevUsed
<1> QED BY <1>2, <1>3, <1>4, <1>5, <1>6, <1>7, <1>9, <1>10, <1>11, Zenon DEF Next, Driver, Handler, Device

=============================================================================
