---------------------------- MODULE MCSequential ----------------------------
(***************************************************************************)
(* The sequential code: page tables and address spaces (Memory), malloc()  *)
(* (Umalloc), the linked lists (List), the string functions (Strings) and  *)
(* the parser of the shell (Parse).  They share nothing, so a behaviour    *)
(* moves one of them, which part chooses.                                  *)
(***************************************************************************)
EXTENDS Memory, Parse

CONSTANTS
    MinCore, MaxBrk, Sizes,
    Elem, Lists, Key, NULL,
    Mem, Byte, MaxN, INTBITS, DIRSIZ, Patterns, Texts, Paths, Formats, BUFSIZ, Inputs,
    MaxLen,             \* bound: characters of a line for the parser
    e1, e2, e3, e4, e5

VARIABLES hdr, freep, brk, used, gaps, links, seq, in, line, part

hvars == <<hdr, freep, brk, used, gaps>>
lvars == <<links, seq>>

H == INSTANCE Umalloc
L == INSTANCE List
S == INSTANCE Strings

ASSUME ListAssumption == L!Assumption

MCInit ==
    /\ Init /\ H!Init /\ L!Init /\ S!Init /\ line = <<>>
    /\ part \in {"memory", "heap", "list", "string", "parser"}
    /\ part # "memory" => \A n \in Pool : Cardinality(DOMAIN mem.table) <= n
\* The lines for the parser are all short sequences of characters.
TypeChar ==
    /\ Len(line) < MaxLen
    /\ \E c \in Chars : line' = Append(line, c)
MCNext ==
    \/ part = "memory" /\ Next /\ UNCHANGED <<hvars, lvars, in, line, part>>
    \/ part = "heap" /\ H!Next /\ UNCHANGED <<vars, lvars, in, line, part>>
    \/ part = "list" /\ L!Next /\ UNCHANGED <<vars, hvars, in, line, part>>
    \/ part = "string" /\ S!Next /\ UNCHANGED <<vars, hvars, lvars, line, part>>
    \/ part = "parser" /\ TypeChar /\ UNCHANGED <<vars, hvars, lvars, in, part>>
MCSpec == MCInit /\ [][MCNext]_<<vars, hvars, lvars, in, line, part>>

\* Umalloc: blocks, free or allocated, tile what malloc() got from sbrk(); malloc()
\* returns as much as was asked for; the free list is one circle in the order of
\* addresses without neighbours.
HeapTiled == part = "heap" => H!HeapTiled /\ H!FreeListSorted

\* List: after any calls of list.c a list is, in both directions, the sequence that the
\* same operations on sequences give; list_size(), list_empty(), is_sorted(),
\* list_max() and list_min() answer for that sequence.
ListsAreSequences == part = "list" => L!ListsAreSequences /\ L!QueriesAgree


-----------------------------------------------------------------------------
(* The instance.                                                           *)

\* Text and data; data that begins inside the text's last page is refused.
Seg(vaddr, filesz, memsz, perm) == [vaddr |-> vaddr, filesz |-> filesz, memsz |-> memsz, perm |-> perm]
MCPrograms == {<<Seg(0, 1, 1, {"x"}), Seg(4, 1, 3, {"w"})>>, <<Seg(0, 2, 3, {"x"}), Seg(3, 1, 1, {"w"})>>}
MCGrows == {1, 3, -2}
MCCopies == {[va |-> 1, len |-> 6]}
Symmetry == Permutations(P)

\* Five elements, two of them with the same key.
MCElem == {e1, e2, e3, e4, e5}
MCKey == [e \in MCElem |-> CASE e = e1 -> 1 [] e = e2 -> 2 [] e = e3 -> 2 [] e = e4 -> 3 [] e = e5 -> 4]

Upto(set, n) == UNION {[1..k -> set] : k \in 0..n}
MCPatterns == Upto({"a", ".", "*", "^", "$"}, 4)
MCTexts == Upto({"a", "b", "$"}, 3)
MCPaths == Upto({"a", "b", "/"}, 6)
MCFormats == Upto({"a", "%", "d", "s"}, 5)
MCInputs == Upto({"a", "b", "n"}, 6)
=============================================================================
