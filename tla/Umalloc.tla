------------------------------- MODULE Umalloc -------------------------------
(***************************************************************************)
(* malloc() and free() of the user library, user/umalloc.c.                *)
(*                                                                         *)
(* Memory is counted in units of a header.  The free blocks are a circular *)
(* list in the order of addresses, headed by base, which lies below the    *)
(* heap; freep is where the last call left off.  The program may also move *)
(* the break itself.                                                       *)
(***************************************************************************)
EXTENDS Integers, FiniteSets

CONSTANTS
    MinCore,            \* units that morecore() asks for at least (4096)
    MaxBrk,             \* bound: end of memory, in units
    Sizes               \* bound: what malloc() is asked for, in units

VARIABLES
    hdr,                \* address -> header: ptr, size
    freep,              \* -1: not initialised
    brk,
    used,               \* history: address of an allocated block's header -> units asked for
    gaps                \* history: units of the heap that are not malloc()'s

vars == <<hdr, freep, brk, used, gaps>>

Base == 0
Start == 2              \* the heap is above base
Nowhere == -1
Addr == {Base} \cup Start..(MaxBrk - 1)

Init ==
    /\ hdr = [a \in Addr |-> [ptr |-> Base, size |-> 0]]
    /\ freep = Nowhere
    /\ brk = Start
    /\ used = [a \in {} |-> 0]
    /\ gaps = {}

-----------------------------------------------------------------------------
\* The heap h: headers, freep and break.
Heap == [hdr |-> hdr, freep |-> freep, brk |-> brk]

\* The block after which bp belongs: between p and the next, or at the end of the list.
RECURSIVE Place(_, _, _)
Place(h, bp, p) ==
    LET next == h.hdr[p].ptr IN
    IF (bp > p /\ bp < next) \/ (p >= next /\ (bp > p \/ bp < next)) THEN p
    ELSE Place(h, bp, next)

\* Mutant: a block is merged with the next one, and the size of that is lost.
MutFreeBlockSize(h, bp) ==
    LET p == Place(h, bp, h.freep)
        next == h.hdr[p].ptr
        size == h.hdr[bp].size
        after == IF bp + size = next THEN h.hdr[next].ptr ELSE next
        q == IF p + h.hdr[p].size = bp THEN [ptr |-> after, size |-> h.hdr[p].size + size]
             ELSE [ptr |-> bp, size |-> h.hdr[p].size] IN
    [h EXCEPT !.hdr = [@ EXCEPT ![bp].ptr = after, ![p] = q], !.freep = p]

\* free(): the block is merged with the next one and with the one before.
freeBlock(h, bp) ==
    LET p == Place(h, bp, h.freep)
        next == h.hdr[p].ptr
        b == IF bp + h.hdr[bp].size = next
             THEN [ptr |-> h.hdr[next].ptr, size |-> h.hdr[bp].size + h.hdr[next].size]
             ELSE [ptr |-> next, size |-> h.hdr[bp].size]
        q == IF p + h.hdr[p].size = bp
             THEN [ptr |-> b.ptr, size |-> h.hdr[p].size + b.size]
             ELSE [ptr |-> bp, size |-> h.hdr[p].size] IN
    [h EXCEPT !.hdr = [@ EXCEPT ![bp] = b, ![p] = q], !.freep = p]

\* morecore(): if sbrk() succeeds, a new block is freed.
Core(nu) == IF nu < MinCore THEN MinCore ELSE nu
CanGrow(h, nu) == h.brk + Core(nu) <= MaxBrk
morecore(h, nu) ==
    freeBlock([h EXCEPT !.hdr[h.brk].size = Core(nu), !.brk = @ + Core(nu)], h.brk)

\* malloc(): first fit from freep on; the tail of a larger block is taken.  Once
\* around the list and nothing found, there is more core.
Block(h, p) == [h |-> h, at |-> p]
RECURSIVE Scan(_, _, _, _)
Scan(h, nunits, prevp, p) ==
    LET size == h.hdr[p].size
        tail == p + size - nunits
        more == morecore(h, nunits) IN
    IF size = nunits
    THEN Block([h EXCEPT !.hdr[prevp].ptr = h.hdr[p].ptr, !.freep = prevp], p)
    ELSE IF size > nunits
    THEN Block([h EXCEPT !.hdr = [@ EXCEPT ![p].size = size - nunits, ![tail].size = nunits],
                         !.freep = prevp], tail)
    ELSE IF p # h.freep THEN Scan(h, nunits, p, h.hdr[p].ptr)
    ELSE IF CanGrow(h, nunits) THEN Scan(more, nunits, more.freep, more.hdr[more.freep].ptr)
    ELSE Block(h, Nowhere)

FirstTime(h) ==
    IF h.freep # Nowhere THEN h
    ELSE [h EXCEPT !.hdr[Base] = [ptr |-> Base, size |-> 0], !.freep = Base]

\* The blocks on the free list, base included.
RECURSIVE ListFrom(_, _, _)
ListFrom(hs, p, seen) == IF p \in seen THEN seen ELSE ListFrom(hs, hs[p].ptr, seen \cup {p})

\* What is no header any more, and the ptr of an allocated block, leave no trace.
Clean(h, allocated) ==
    LET list == IF h.freep = Nowhere THEN {} ELSE ListFrom(h.hdr, h.freep, {}) IN
    [a \in Addr |-> CASE a \in list -> h.hdr[a]
                      [] a \in allocated -> [h.hdr[a] EXCEPT !.ptr = Base]
                      [] OTHER -> [ptr |-> Base, size |-> 0]]

malloc(nunits) ==
    LET h0 == FirstTime(Heap)
        r == Scan(h0, nunits, h0.freep, h0.hdr[h0.freep].ptr) IN
    /\ hdr' = Clean(r.h, DOMAIN used \cup {r.at})
    /\ freep' = r.h.freep /\ brk' = r.h.brk
    /\ used' = IF r.at = Nowhere THEN used
               ELSE [a \in DOMAIN used \cup {r.at} |-> IF a = r.at THEN nunits ELSE used[a]]
    /\ UNCHANGED gaps

free(a) ==
    LET h == freeBlock(Heap, a) IN
    /\ a \in DOMAIN used
    /\ hdr' = Clean(h, DOMAIN used \ {a}) /\ freep' = h.freep
    /\ used' = [b \in DOMAIN used \ {a} |-> used[b]]
    /\ UNCHANGED <<brk, gaps>>

\* The program calls sbrk() itself.
sbrk ==
    /\ brk < MaxBrk
    /\ brk' = brk + 1
    /\ gaps' = gaps \cup {brk}
    /\ UNCHANGED <<hdr, freep, used>>

Next ==
    \/ \E n \in Sizes : malloc(n)
    \/ \E a \in DOMAIN used : free(a)
    \/ sbrk

Spec == Init /\ [][Next]_vars

-----------------------------------------------------------------------------
FreeList == IF freep = Nowhere THEN {} ELSE ListFrom(hdr, freep, {}) \ {Base}
Units(a) == a..(a + hdr[a].size - 1)
Blocks == FreeList \cup DOMAIN used

\* Every unit of the heap is in one block, free or allocated, or was taken by the
\* program: blocks never overlap, and no memory is lost by splitting and merging.  A
\* block is never smaller than what was asked for.
HeapTiled ==
    /\ FreeList \cap DOMAIN used = {}
    /\ \A a, b \in Blocks : a # b => Units(a) \cap Units(b) = {}
    /\ UNION {Units(a) : a \in Blocks} = (Start..(brk - 1)) \ gaps
    /\ \A a \in DOMAIN used : hdr[a].size = used[a]

\* The free list is one circle in the order of addresses, and no two blocks of it
\* are neighbours: free() has merged them.
FreeListSorted ==
    freep # Nowhere =>
        /\ Base \in ListFrom(hdr, freep, {})
        /\ \A a \in FreeList \cup {Base} :
            LET above == {b \in FreeList : b > a} IN
            hdr[a].ptr = IF above = {} THEN Base ELSE CHOOSE b \in above : \A c \in above : b <= c
        /\ \A a, b \in FreeList : a + hdr[a].size # b

=============================================================================
