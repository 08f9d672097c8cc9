------------------------------- MODULE Memory -------------------------------
(***************************************************************************)
(* Physical memory, page tables and address spaces: kernel/kalloc.c,       *)
(* kernel/vm.c, exec() and loadseg() of kernel/exec.c, and in              *)
(* kernel/proc.c proc_pagetable(), proc_freepagetable(), growproc() and    *)
(* the memory of fork() and freeproc().                                    *)
(*                                                                         *)
(* The functions of vm.c are operators on the memory m, as recursive as    *)
(* the code.  Processes share nothing but the list of free pages, so that  *)
(* what others do decides only whether a kalloc() fails: a system call is  *)
(* one step, and every call is tried with every number of free pages.      *)
(***************************************************************************)
EXTENDS Integers, Sequences, FiniteSets, SequencesExt

CONSTANTS
    Pool,               \* numbers of pages that the machine may have
    PGSIZE,             \* bytes of a page
    FAN,                \* entries of a page-table page (512)
    P,                  \* processes
    Programs,           \* for exec(): sequences of segments, see MCSequential
    Grows,              \* arguments of sbrk()
    Copies,             \* addresses and lengths of copyout()
    MaxCalls            \* bound: system calls of a behaviour

ASSUME MemoryAssumption ==
    /\ Pool \subseteq Nat \ {0} /\ PGSIZE \in Nat \ {0} /\ FAN \in Nat \ {0, 1}
    /\ \A n \in Pool : n < FAN * FAN * FAN - 2   \* memory is smaller than address spaces
    /\ Grows \subseteq Int /\ MaxCalls \in Nat

VARIABLES
    mem,                \* free pages, page-table pages, data of the others, misuse
    proc,               \* process -> used, trapframe, pagetable, sz
    image,              \* history: the memory each process must see, page by page
    calls

vars == <<mem, proc, image, calls>>

\* Virtual addresses count bytes, VPN(va) is the page of one.
VPN(va) == va \div PGSIZE
PGROUNDUP(sz) == ((sz + PGSIZE - 1) \div PGSIZE) * PGSIZE
PX(level, vpn) == (vpn \div FAN^level) % FAN
TRAMPOLINE == FAN * FAN * FAN - 1
TRAPFRAME == TRAMPOLINE - 1
Kernel == 0             \* the page of the trampoline: part of the kernel

NoPte == [pa |-> -1, perm |-> {}]
V(pte) == pte.pa # -1
Table(pa) == [pa |-> pa, perm |-> {"v"}]
Zero == [k \in 0..(PGSIZE - 1) |-> 0]

-----------------------------------------------------------------------------
(* kalloc.c.                                                               *)

Failed(m) == m.free = {}
kallocPage(m) == CHOOSE a \in m.free : \A b \in m.free : a <= b
kalloc(m) == [m EXCEPT !.free = @ \ {kallocPage(m)}]
\* A page freed twice is not noticed by the code.
kfree(m, a) == [m EXCEPT !.free = @ \cup {a}, !.misuse = @ \/ a \in m.free \/ a = Kernel]
Panic(m) == [m EXCEPT !.misuse = TRUE]

-----------------------------------------------------------------------------
(* vm.c.                                                                   *)

RECURSIVE walkFrom(_, _, _, _, _)
walkFrom(m, pt, vpn, alloc, level) ==
    LET pte == m.table[pt][PX(level, vpn)]
        a == kallocPage(m)
        m1 == [kalloc(m) EXCEPT !.table[pt][PX(level, vpn)] = Table(a),
                                !.table[a] = [i \in 0..(FAN - 1) |-> NoPte]] IN
    IF level = 0 THEN [m |-> m, pt |-> pt, ok |-> TRUE]
    ELSE IF V(pte) THEN walkFrom(m, pte.pa, vpn, alloc, level - 1)
    ELSE IF ~alloc \/ Failed(m) THEN [m |-> m, pt |-> pt, ok |-> FALSE]
    ELSE walkFrom(m1, a, vpn, alloc, level - 1)
walk(m, pt, vpn, alloc) == walkFrom(m, pt, vpn, alloc, 2)

\* What a call returned: go on with it, or clean up and fail.
Try(r, Good(_), Bad(_)) == IF r.ok THEN Good(r) ELSE Bad(r)

\* The entry of a page; NoPte if there is none.
Pte(m, pt, vpn) ==
    Try(walk(m, pt, vpn, FALSE), LAMBDA w : m.table[w.pt][PX(0, vpn)], LAMBDA w : NoPte)
SetPte(m, pt, vpn, pte) == [m EXCEPT !.table[walk(m, pt, vpn, FALSE).pt][PX(0, vpn)] = pte]

\* One page: every call for user memory has that size.
mappages(m, pt, vpn, pa, perm) ==
    Try(walk(m, pt, vpn, TRUE),
        LAMBDA w : [m |-> [(IF V(w.m.table[w.pt][PX(0, vpn)]) THEN Panic(w.m) ELSE w.m)
                             EXCEPT !.table[w.pt][PX(0, vpn)] = [pa |-> pa, perm |-> perm \cup {"v"}]],
                    ok |-> TRUE],
        LAMBDA w : [m |-> w.m, ok |-> FALSE])

RECURSIVE uvmunmap(_, _, _, _, _)
unmapFrom(m, pt, vpn, pte, npages, do_free) ==
    IF ~V(pte) \/ pte.perm = {"v"} THEN Panic(m)
    ELSE uvmunmap(SetPte(IF do_free THEN kfree(m, pte.pa) ELSE m, pt, vpn, NoPte),
                  pt, vpn + 1, npages - 1, do_free)
uvmunmap(m, pt, vpn, npages, do_free) ==
    IF npages = 0 THEN m ELSE unmapFrom(m, pt, vpn, Pte(m, pt, vpn), npages, do_free)

\* uvmcreate(): a page table without entries.
uvmcreate(m) == [kalloc(m) EXCEPT !.table[kallocPage(m)] = [i \in 0..(FAN - 1) |-> NoPte]]

uvmdealloc(m, pt, oldsz, newsz) ==
    IF newsz < oldsz /\ PGROUNDUP(newsz) < PGROUNDUP(oldsz)
    THEN uvmunmap(m, pt, VPN(PGROUNDUP(newsz)), VPN(PGROUNDUP(oldsz) - PGROUNDUP(newsz)), TRUE)
    ELSE m

\* The loop of uvmalloc() at page a.
RECURSIVE uvmallocFrom(_, _, _, _, _, _)
uvmallocFrom(m, pt, a, oldsz, newsz, xperm) ==
    LET pa == kallocPage(m) IN
    IF a >= newsz THEN [m |-> m, ok |-> TRUE]
    ELSE IF Failed(m) THEN [m |-> uvmdealloc(m, pt, a, oldsz), ok |-> FALSE]
    ELSE Try(mappages([kalloc(m) EXCEPT !.data[pa] = Zero], pt, VPN(a), pa, {"r", "u"} \cup xperm),
             LAMBDA r : uvmallocFrom(r.m, pt, a + PGSIZE, oldsz, newsz, xperm),
             LAMBDA r : [m |-> uvmdealloc(kfree(r.m, pa), pt, a, oldsz), ok |-> FALSE])
uvmalloc(m, pt, oldsz, newsz, xperm) ==
    IF newsz < oldsz THEN [m |-> m, ok |-> TRUE]
    ELSE uvmallocFrom(m, pt, PGROUNDUP(oldsz), PGROUNDUP(oldsz), newsz, xperm)

RECURSIVE freewalk(_, _)
freewalk(m, pt) ==
    LET pte(i) == m.table[pt][i]
        free(m1, i) == CASE ~V(pte(i)) -> m1
                         [] V(pte(i)) /\ pte(i).perm = {"v"} -> freewalk(m1, pte(i).pa)
                         [] OTHER -> Panic(m1) IN
    kfree(FoldLeft(free, m, [i \in 1..FAN |-> i - 1]), pt)
\* Mutant: the page-table pages are kept.
MutUvmfreeKeeps(m, pt, sz) == kfree(uvmunmap(m, pt, 0, VPN(PGROUNDUP(sz)), TRUE), pt)

uvmfree(m, pt, sz) == freewalk(uvmunmap(m, pt, 0, VPN(PGROUNDUP(sz)), TRUE), pt)

\* uvmcopy() of the page behind pte: memory, flags and contents.
copyPage(m, pte, new, i) ==
    LET pa == kallocPage(m) IN
    IF Failed(m) THEN [m |-> m, ok |-> FALSE]
    ELSE Try(mappages([kalloc(m) EXCEPT !.data[pa] = m.data[pte.pa]], new, i, pa, pte.perm),
             LAMBDA r : r,
             LAMBDA r : [m |-> kfree(r.m, pa), ok |-> FALSE])
\* The loop of uvmcopy() at page i.
RECURSIVE uvmcopyFrom(_, _, _, _, _)
uvmcopyFrom(m, old, new, sz, i) ==
    IF i * PGSIZE >= sz THEN [m |-> m, ok |-> TRUE]
    ELSE IF ~V(Pte(m, old, i)) THEN [m |-> Panic(m), ok |-> TRUE]
    ELSE Try(copyPage(m, Pte(m, old, i), new, i),
             LAMBDA r : uvmcopyFrom(r.m, old, new, sz, i + 1),
             LAMBDA r : [m |-> uvmunmap(r.m, new, 0, i, TRUE), ok |-> FALSE])
uvmcopy(m, old, new, sz) == uvmcopyFrom(m, old, new, sz, 0)

uvmclear(m, pt, vpn) ==
    LET pte == Pte(m, pt, vpn) IN SetPte(m, pt, vpn, [pte EXCEPT !.perm = @ \ {"u"}])

\* walkaddr(): the page behind a user address.
userPage(pte) == IF "u" \in pte.perm THEN pte.pa ELSE -1
walkaddr(m, pt, vpn) == userPage(Pte(m, pt, vpn))

\* copyout(): page by page; what was copied before a page that is not there stays.
RECURSIVE copyout(_, _, _, _, _)
copyout(m, pt, dstva, len, byte) ==
    LET pa == walkaddr(m, pt, VPN(dstva))
        off == dstva % PGSIZE
        n == IF PGSIZE - off > len THEN len ELSE PGSIZE - off
        m1 == [m EXCEPT !.data[pa] = [k \in 0..(PGSIZE - 1) |->
                                        IF k \in off..(off + n - 1) THEN byte ELSE @[k]]] IN
    IF len = 0 THEN [m |-> m, ok |-> TRUE]
    ELSE IF pa = -1 THEN [m |-> m, ok |-> FALSE]
    ELSE copyout(m1, pt, dstva - off + PGSIZE, len - n, byte)

\* copyin(): the same walk in the other direction; got is what has been copied.
RECURSIVE copyin(_, _, _, _, _)
copyin(m, pt, srcva, len, got) ==
    LET pa == walkaddr(m, pt, VPN(srcva))
        off == srcva % PGSIZE
        n == IF PGSIZE - off > len THEN len ELSE PGSIZE - off IN
    IF len = 0 THEN [ok |-> TRUE, bytes |-> got]
    ELSE IF pa = -1 THEN [ok |-> FALSE, bytes |-> got]
    ELSE copyin(m, pt, srcva - off + PGSIZE, len - n, got \o [k \in 1..n |-> m.data[pa][off + k - 1]])

\* copyinstr(): up to and without the first 0, which must be among the next max bytes.
RECURSIVE copyinstr(_, _, _, _, _)
\* Mutant: the maximum is for each page.
MutCopyinstrMax(m, pt, srcva, max, got) ==
    LET pa == walkaddr(m, pt, VPN(srcva))
        off == srcva % PGSIZE
        chunk == [k \in 1..(PGSIZE - off) |-> m.data[pa][off + k - 1]] IN
    IF pa = -1 THEN [ok |-> FALSE, bytes |-> got]
    ELSE IF Contains(chunk, 0)
    THEN [ok |-> TRUE, bytes |-> got \o SubSeq(chunk, 1, SelectInSeq(chunk, LAMBDA b : b = 0) - 1)]
    ELSE copyinstr(m, pt, srcva - off + PGSIZE, max, got \o chunk)

copyinstr(m, pt, srcva, max, got) ==
    LET pa == walkaddr(m, pt, VPN(srcva))
        off == srcva % PGSIZE
        n == IF PGSIZE - off > max THEN max ELSE PGSIZE - off
        chunk == [k \in 1..n |-> m.data[pa][off + k - 1]] IN
    IF max = 0 \/ pa = -1 THEN [ok |-> FALSE, bytes |-> got]
    ELSE IF Contains(chunk, 0)
    THEN [ok |-> TRUE, bytes |-> got \o SubSeq(chunk, 1, SelectInSeq(chunk, LAMBDA b : b = 0) - 1)]
    ELSE copyinstr(m, pt, srcva - off + PGSIZE, max - n, got \o chunk)

-----------------------------------------------------------------------------
(* proc.c.                                                                 *)

proc_pagetable(m, trapframe) ==
    LET pt == kallocPage(m)
        bad(m1) == [m |-> uvmfree(m1, pt, 0), pt |-> -1, ok |-> FALSE] IN
    IF Failed(m) THEN [m |-> m, pt |-> -1, ok |-> FALSE]
    ELSE Try(mappages(uvmcreate(m), pt, TRAMPOLINE, Kernel, {"r", "x"}),
             LAMBDA r1 : Try(mappages(r1.m, pt, TRAPFRAME, trapframe, {"r", "w"}),
                             LAMBDA r2 : [m |-> r2.m, pt |-> pt, ok |-> TRUE],
                             LAMBDA r2 : bad(uvmunmap(r2.m, pt, TRAMPOLINE, 1, FALSE))),
             LAMBDA r1 : bad(r1.m))

proc_freepagetable(m, pt, sz) ==
    uvmfree(uvmunmap(uvmunmap(m, pt, TRAMPOLINE, 1, FALSE), pt, TRAPFRAME, 1, FALSE), pt, sz)

Unused == [used |-> FALSE, trapframe |-> -1, pagetable |-> -1, sz |-> 0]

\* allocproc(): a trapframe and a page table, or freeproc() (which after it has freed
\* these reads p->contp, not yet set: see Proc).
allocproc(m) ==
    LET tf == kallocPage(m) IN
    IF Failed(m) THEN [m |-> m, p |-> Unused, ok |-> FALSE]
    ELSE Try(proc_pagetable(kalloc(m), tf),
             LAMBDA r : [m |-> r.m, ok |-> TRUE,
                         p |-> [used |-> TRUE, trapframe |-> tf, pagetable |-> r.pt, sz |-> 0]],
             LAMBDA r : [m |-> kfree(r.m, tf), p |-> Unused, ok |-> FALSE])
freeproc(m, p) == proc_freepagetable(kfree(m, p.trapframe), p.pagetable, p.sz)

-----------------------------------------------------------------------------
(* The system calls.                                                       *)

Pages(sz) == VPN(PGROUNDUP(sz))
Blank(n) == [i \in 1..n |-> Zero]

\* Every call is counted.
Count == calls < MaxCalls /\ calls' = calls + 1

\* The memory of fork(): a process with a copy of parent's.
forkMemory(m, parent) ==
    Try(allocproc(m),
        LAMBDA a : Try(uvmcopy(a.m, parent.pagetable, a.p.pagetable, parent.sz),
                       LAMBDA r : [m |-> r.m, p |-> [a.p EXCEPT !.sz = parent.sz], ok |-> TRUE],
                       LAMBDA r : [m |-> freeproc(r.m, a.p), p |-> Unused, ok |-> FALSE]),
        LAMBDA a : a)
fork(p, q) ==
    LET r == forkMemory(mem, proc[p]) IN
    /\ Count
    /\ proc[p].used /\ ~proc[q].used
    /\ mem' = r.m
    /\ proc' = [proc EXCEPT ![q] = r.p]
    /\ image' = IF r.ok THEN [image EXCEPT ![q] = image[p]] ELSE image

\* exit() and wait(): not the last process.
exit(p) ==
    /\ Count
    /\ proc[p].used /\ \E q \in P \ {p} : proc[q].used
    /\ mem' = freeproc(mem, proc[p])
    /\ proc' = [proc EXCEPT ![p] = Unused]
    /\ image' = [image EXCEPT ![p] = <<>>]

\* sbrk(n).  If sz + n is negative it is a large unsigned number to uvmdealloc(), which
\* then does nothing.
growproc(p, n) ==
    LET sz == proc[p].sz
        newsz == IF sz + n < 0 THEN sz ELSE sz + n
        r == IF n > 0 THEN uvmalloc(mem, proc[p].pagetable, sz, newsz, {"w"})
             ELSE [m |-> uvmdealloc(mem, proc[p].pagetable, sz, newsz), ok |-> TRUE] IN
    /\ Count
    /\ proc[p].used
    /\ mem' = r.m
    /\ IF r.ok
       THEN /\ proc' = [proc EXCEPT ![p].sz = newsz]
            /\ image' = [image EXCEPT ![p] = SubSeq(@ \o Blank(Pages(newsz)), 1, Pages(newsz))]
       ELSE UNCHANGED <<proc, image>>

\* The kernel writes to user memory.
Written(img, va, len) ==
    [i \in 1..Len(img) |-> [k \in 0..(PGSIZE - 1) |->
        IF (i - 1) * PGSIZE + k \in va..(va + len - 1) THEN 1 ELSE img[i][k]]]
\* Up to the first page that the user cannot access, and only in memory.
Reach(p, va, len) ==
    LET bad == {a \in va..(va + len - 1) : walkaddr(mem, proc[p].pagetable, VPN(a)) = -1} IN
    IF bad = {} THEN len ELSE (CHOOSE a \in bad : \A b \in bad : a <= b) - va
Write(p, c) ==
    /\ Count
    /\ proc[p].used
    /\ mem' = copyout(mem, proc[p].pagetable, c.va, c.len, 1).m
    /\ image' = [image EXCEPT ![p] = Written(@, c.va, Reach(p, c.va, c.len))]
    /\ UNCHANGED proc

\* loadseg() reads a segment into its pages, which must be mapped.
loadseg(m, pt, seg) ==
    IF \E va \in seg.vaddr..(seg.vaddr + seg.filesz - 1) : walkaddr(m, pt, VPN(va)) = -1
    THEN Panic(m) ELSE copyout(m, pt, seg.vaddr, seg.filesz, 1).m

\* exec(): segments one after the other.  At number fault the file cannot be read.
RECURSIVE load(_, _, _, _, _)
load(m, pt, sz, segs, fault) ==
    LET seg == Head(segs)
        end == seg.vaddr + seg.memsz
        sz1 == IF end < sz THEN sz ELSE end
        bad(m1, size) == [m |-> m1, sz |-> size, ok |-> FALSE] IN
    IF segs = <<>> THEN [m |-> m, sz |-> sz, ok |-> TRUE]
    ELSE IF fault = 0 \/ seg.memsz < seg.filesz \/ seg.vaddr % PGSIZE # 0 THEN bad(m, sz)
    ELSE Try(uvmalloc(m, pt, sz, end, seg.perm),
             LAMBDA r : IF sz1 = 0 THEN bad(r.m, sz)
                        ELSE IF fault = 1 THEN bad(r.m, sz1)
                        ELSE load(loadseg(r.m, pt, seg), pt, sz1, Tail(segs), fault - 2),
             LAMBDA r : bad(r.m, sz))

\* What a program's memory is, with a guard page and a stack of which the last byte
\* holds the arguments.
ProgramImage(segs, sz) ==
    LET inFile(a) == \E i \in DOMAIN segs : a \in segs[i].vaddr..(segs[i].vaddr + segs[i].filesz - 1)
        n == Pages(sz) IN
    [i \in 1..(n + 2) |-> [k \in 0..(PGSIZE - 1) |->
        IF inFile((i - 1) * PGSIZE + k) \/ (i = n + 2 /\ k = PGSIZE - 1) THEN 1 ELSE 0]]

\* The guard page, the stack and what is pushed on it, above base; argsFit: the
\* arguments have room.
stack(m, pt, base, argsFit) ==
    Try(uvmalloc(m, pt, base, base + 2 * PGSIZE, {"w"}),
        LAMBDA s : Try(copyout(uvmclear(s.m, pt, VPN(base)), pt, base + 2 * PGSIZE - 1, 1, 1),
                       LAMBDA a : [m |-> a.m, sz |-> base + 2 * PGSIZE, ok |-> argsFit],
                       LAMBDA a : [m |-> a.m, sz |-> base + 2 * PGSIZE, ok |-> FALSE]),
        LAMBDA s : [m |-> s.m, sz |-> base, ok |-> FALSE])

\* The new address space, or what is left after bad:, which frees what there is of it.
newImage(m, trapframe, segs, fault, argsFit) ==
    Try(proc_pagetable(m, trapframe),
        LAMBDA t : Try(Try(load(t.m, t.pt, 0, segs, fault),
                           LAMBDA l : stack(l.m, t.pt, PGROUNDUP(l.sz), argsFit),
                           LAMBDA l : l),
                       LAMBDA e : [m |-> e.m, pt |-> t.pt, sz |-> e.sz, ok |-> TRUE],
                       LAMBDA e : [m |-> proc_freepagetable(e.m, t.pt, e.sz), ok |-> FALSE]),
        LAMBDA t : t)

exec(p, segs, fault, argsFit) ==
    LET e == newImage(mem, proc[p].trapframe, segs, fault, argsFit) IN
    /\ Count
    /\ proc[p].used
    /\ IF e.ok
       THEN /\ mem' = proc_freepagetable(e.m, proc[p].pagetable, proc[p].sz)
            /\ proc' = [proc EXCEPT ![p].pagetable = e.pt, ![p].sz = e.sz]
            /\ image' = [image EXCEPT ![p] = ProgramImage(segs, e.sz - 2 * PGSIZE)]
       ELSE mem' = e.m /\ UNCHANGED <<proc, image>>

-----------------------------------------------------------------------------
\* userinit(): one process with one page, on a machine with n pages.
Init ==
    \E n \in Pool : \E first \in P :
        LET m0 == [free |-> 1..n, misuse |-> FALSE,
                   table |-> [a \in 1..n |-> [i \in 0..(FAN - 1) |-> NoPte]],
                   data |-> [a \in 1..n |-> Zero]]
            a == allocproc(m0)
            r == uvmalloc(a.m, a.p.pagetable, 0, PGSIZE, {"w", "x"}) IN
        /\ a.ok /\ r.ok
        /\ mem = r.m
        /\ proc = [p \in P |-> IF p = first THEN [a.p EXCEPT !.sz = PGSIZE] ELSE Unused]
        /\ image = [p \in P |-> IF p = first THEN Blank(1) ELSE <<>>]
        /\ calls = 0

Next ==
    \E p \in P :
        \/ \E q \in P : fork(p, q)
        \/ exit(p)
        \/ \E n \in Grows : growproc(p, n)
        \/ \E c \in Copies : Write(p, c)
        \/ \E segs \in Programs : \E fault \in 0..(2 * Len(segs)), fit \in BOOLEAN :
              exec(p, segs, fault, fit)

Spec == Init /\ [][Next]_vars

-----------------------------------------------------------------------------
(* Properties.                                                             *)

TypeOK ==
    /\ proc \in [P -> [used : BOOLEAN, trapframe : Int, pagetable : Int, sz : Nat]]
    /\ mem.misuse \in BOOLEAN /\ calls \in 0..MaxCalls

\* None of vm.c's panics happens and no page is freed twice, also when memory runs out
\* in the middle of a call and what was done is undone.
NoMisuse == ~mem.misuse

\* The pages that a process owns: trapframe, page-table pages, memory.
RECURSIVE TablePages(_, _)
TablePages(pt, level) ==
    {pt} \cup (IF level = 0 THEN {} ELSE
        UNION {TablePages(mem.table[pt][i].pa, level - 1) : i \in {j \in 0..(FAN - 1) : V(mem.table[pt][j])}})
Memory(p) == {Pte(mem, proc[p].pagetable, v).pa : v \in 0..(Pages(proc[p].sz) - 1)}
Owned(p) == IF proc[p].used
            THEN {proc[p].trapframe} \cup TablePages(proc[p].pagetable, 2) \cup Memory(p) ELSE {}

\* Every page is free or belongs to one process, in one role: no page is shared, used
\* after it is freed, or lost by a call that failed.
PagesOwned ==
    /\ \A p, q \in P : p # q => Owned(p) \cap Owned(q) = {}
    /\ mem.free = (DOMAIN mem.data) \ UNION {Owned(p) : p \in P}
    /\ \A p \in P : proc[p].used =>
        Cardinality(Owned(p)) = 1 + Cardinality(TablePages(proc[p].pagetable, 2)) + Pages(proc[p].sz)

\* A process sees the memory it must see and nothing else: each page of it holds its
\* contents, the pages above sz are not mapped except the trapframe and the trampoline,
\* which the user cannot access.
SeesItsMemory ==
    \A p \in P : proc[p].used =>
        /\ Len(image[p]) = Pages(proc[p].sz)
        /\ \A v \in 0..(FAN * FAN * FAN - 1) :
            LET pte == Pte(mem, proc[p].pagetable, v) IN
            IF v < Pages(proc[p].sz) THEN mem.data[pte.pa] = image[p][v + 1]
            ELSE IF v = TRAMPOLINE THEN pte.pa = Kernel /\ "u" \notin pte.perm
            ELSE IF v = TRAPFRAME THEN pte.pa = proc[p].trapframe /\ "u" \notin pte.perm
            ELSE ~V(pte)

\* copyin() and copyinstr() give the kernel the bytes that the process sees at these
\* addresses, across pages, and fail exactly if one of the bytes needed is out of its
\* reach, a string also if it has no 0 among its first len bytes.
ReadsItsMemory ==
    \A p \in P, c \in Copies : proc[p].used =>
        LET reach == Reach(p, c.va, c.len)
            seen == [k \in 1..reach |-> image[p][VPN(c.va + k - 1) + 1][(c.va + k - 1) % PGSIZE]]
            end == SelectInSeq(seen, LAMBDA b : b = 0)
            r == copyin(mem, proc[p].pagetable, c.va, c.len, <<>>)
            str == copyinstr(mem, proc[p].pagetable, c.va, c.len, <<>>) IN
        /\ r.ok <=> reach = c.len
        /\ r.ok => r.bytes = seen
        /\ str.ok <=> end # 0
        /\ str.ok => str.bytes = SubSeq(seen, 1, end - 1)

\* Every page is free or in one place of one process, and no function of vm.c or
\* kalloc.c panics, whatever failed before.
PagesKept == TypeOK /\ NoMisuse /\ PagesOwned

\* A process, and the kernel on its behalf, see exactly the memory of that process.
MemorySeen == SeesItsMemory /\ ReadsItsMemory

=============================================================================
