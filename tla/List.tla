-------------------------------- MODULE List --------------------------------
(***************************************************************************)
(* The doubly linked lists of kernel/list.c and user/list.c (the same code *)
(* twice): the kernel's run lists and process lists, and lists of user     *)
(* programs.                                                               *)
(*                                                                         *)
(* The functions of the code are operators that take the links of all      *)
(* nodes and return the new links.  The state machine calls them in any    *)
(* order the comments allow, next to a sequence per list, seq, on which    *)
(* the same calls are done with the operations on sequences they stand     *)
(* for.  The code leaves an element that it takes off a list its old       *)
(* links, which nothing may follow: here they become NULL.                 *)
(***************************************************************************)
EXTENDS Integers, Sequences, FiniteSets, SequencesExt, TLC

CONSTANTS
    Elem,               \* the elements (struct list_elem in some struct)
    Lists,
    Key,                \* what less() compares, a function on Elem
    NULL

Assumption == Key \in [Elem -> Int] /\ NULL \notin Elem

list_head(l) == <<"head", l>>
list_end(l) == <<"tail", l>>
Node == Elem \cup {list_head(l) : l \in Lists} \cup {list_end(l) : l \in Lists}

VARIABLES
    links,              \* node -> prev, next
    seq                 \* list -> the sequence it stands for

vars == <<links, seq>>

-----------------------------------------------------------------------------
(* The basic operations.                                                   *)

list_init(h, l) ==
    [h EXCEPT ![list_head(l)] = [prev |-> NULL, next |-> list_end(l)],
              ![list_end(l)] = [prev |-> list_head(l), next |-> NULL]]

list_begin(h, l) == h[list_head(l)].next
list_rbegin(h, l) == h[list_end(l)].prev
list_empty(h, l) == list_begin(h, l) = list_end(l)

list_insert(h, before, e) ==
    LET b == h[before].prev IN
    [h EXCEPT ![e] = [prev |-> b, next |-> before], ![b].next = e, ![before].prev = e]

\* Mutant: the link back is forgotten.
MutListRemoveOneWay(h, e) == [h EXCEPT ![h[e].prev].next = h[e].next]

list_remove(h, e) ==
    [h EXCEPT ![h[e].prev].next = h[e].next, ![h[e].next].prev = h[e].prev]

\* Moves first ... (end excluded) before the node before, which is outside.
list_splice(h, before, first, end) ==
    LET last == h[end].prev
        out == [h EXCEPT ![h[first].prev].next = h[last].next,
                         ![h[last].next].prev = h[first].prev]
        b == out[before].prev IN
    IF first = end THEN h
    ELSE [out EXCEPT ![first].prev = b, ![last].next = before,
                     ![b].next = first, ![before].prev = last]

list_push_front(h, l, e) == list_insert(h, list_begin(h, l), e)
list_push_back(h, l, e) == list_insert(h, list_end(l), e)
list_pop_front(h, l) == list_remove(h, list_begin(h, l))
list_pop_back(h, l) == list_remove(h, list_rbegin(h, l))

list_size(h, l) ==
    LET RECURSIVE count(_)
        count(e) == IF e = list_end(l) THEN 0 ELSE 1 + count(h[e].next)
    IN count(list_begin(h, l))

-----------------------------------------------------------------------------
(* Algorithms.                                                             *)

less(a, b) == Key[a] < Key[b]

\* A loop over the nodes follows prev because swap() has just exchanged the links.
list_reverse(h, l) ==
    LET RECURSIVE swapped(_, _)
        swapped(g, e) ==
            IF e = list_end(l) THEN g
            ELSE swapped([g EXCEPT ![e] = [prev |-> g[e].next, next |-> g[e].prev]], g[e].next)
        g1 == swapped(h, list_begin(h, l))
        g2 == [g1 EXCEPT ![list_head(l)].next = list_rbegin(g1, l),
                         ![list_end(l)].prev = list_begin(g1, l)]
        first == list_begin(g2, l)
        last == list_rbegin(g2, l) IN
    IF list_empty(h, l) THEN h
    ELSE [g2 EXCEPT ![first].prev = g2[last].next, ![last].next = g2[first].prev]

RECURSIVE is_sorted(_, _, _)
is_sorted(h, a, b) ==
    \/ a = b
    \/ h[a].next = b
    \/ ~less(h[a].next, a) /\ is_sorted(h, h[a].next, b)

RECURSIVE find_end_of_run(_, _, _)
find_end_of_run(h, a, b) ==
    LET n == h[a].next IN
    IF n # b /\ ~less(n, a) THEN find_end_of_run(h, n, b) ELSE n

RECURSIVE inplace_merge(_, _, _, _)
inplace_merge(h, a0, a1b0, b1) ==
    CASE a0 = a1b0 \/ a1b0 = b1 -> h
      [] ~less(a1b0, a0)        -> inplace_merge(h, h[a0].next, a1b0, b1)
      [] OTHER -> LET n == h[a1b0].next IN
                  inplace_merge(list_splice(h, a0, a1b0, n), a0, n, b1)

\* One pass over the list: the links, and the number of runs it leaves.
RECURSIVE sort_pass(_, _, _, _)
sort_pass(h, l, a0, runs) ==
    LET a1b0 == find_end_of_run(h, a0, list_end(l))
        b1 == find_end_of_run(h, a1b0, list_end(l)) IN
    CASE a0 = list_end(l)   -> <<h, runs>>
      [] a1b0 = list_end(l) -> <<h, runs + 1>>
      [] OTHER -> sort_pass(inplace_merge(h, a0, a1b0, b1), l, b1, runs + 1)

RECURSIVE list_sort(_, _)
list_sort(h, l) ==
    LET pass == sort_pass(h, l, list_begin(h, l), 0) IN
    IF pass[2] > 1 THEN list_sort(pass[1], l) ELSE pass[1]

list_insert_ordered(h, l, elem) ==
    LET RECURSIVE after(_)
        after(e) == IF e = list_end(l) \/ less(elem, e) THEN e ELSE after(h[e].next)
    IN list_insert(h, after(list_begin(h, l)), elem)

\* duplicates is a list, or NULL.
list_unique(h, l, duplicates) ==
    LET RECURSIVE from(_, _)
        from(g, elem) ==
            LET next == g[elem].next
                out == list_remove(g, next) IN
            CASE next = list_end(l) -> g
              [] less(elem, next) \/ less(next, elem) -> from(g, next)
              [] OTHER -> from(IF duplicates = NULL THEN out
                               ELSE list_push_back(out, duplicates, next), elem)
    IN IF list_empty(h, l) THEN h ELSE from(h, list_begin(h, l))

\* list_max() and list_min(): better(m, e) says that e replaces m.
list_best(h, l, better(_, _)) ==
    LET RECURSIVE from(_, _)
        from(m, e) == IF e = list_end(l) THEN m
                      ELSE from(IF better(m, e) THEN e ELSE m, h[e].next)
    IN IF list_empty(h, l) THEN list_end(l)
       ELSE from(list_begin(h, l), h[list_begin(h, l)].next)
list_max(h, l) == list_best(h, l, less)
list_min(h, l) == list_best(h, l, LAMBDA m, e : less(e, m))

-----------------------------------------------------------------------------
(* Calls, and what they mean for sequences.                                *)

Blank == [prev |-> NULL, next |-> NULL]
Forget(h, out) == [n \in Node |-> IF n \in out THEN Blank ELSE h[n]]

Init ==
    /\ LET blank == [n \in Node |-> Blank] IN
       links = FoldSet(LAMBDA l, h : list_init(h, l), blank, Lists)
    /\ seq = [l \in Lists |-> <<>>]

Free == Elem \ UNION {Range(seq[l]) : l \in Lists}
Sorted(s) == \A i \in 1..(Len(s) - 1) : Key[s[i]] <= Key[s[i + 1]]

\* The node at position i, the end when there is none.
At(l, i) == IF i > Len(seq[l]) THEN list_end(l) ELSE seq[l][i]

Insert(l) ==
    \E e \in Free, i \in 1..(Len(seq[l]) + 1) :
        /\ links' = list_insert(links, At(l, i), e)
        /\ seq' = [seq EXCEPT ![l] = InsertAt(@, i, e)]

Push(l) ==
    \E e \in Free :
        \/ /\ links' = list_push_front(links, l, e)
           /\ seq' = [seq EXCEPT ![l] = <<e>> \o @]
        \/ /\ links' = list_push_back(links, l, e)
           /\ seq' = [seq EXCEPT ![l] = Append(@, e)]

Delete(l) ==
    \E i \in 1..Len(seq[l]) :
        /\ links' = Forget(list_remove(links, seq[l][i]), {seq[l][i]})
        /\ seq' = [seq EXCEPT ![l] = RemoveAt(@, i)]

Pop(l) ==
    /\ ~list_empty(links, l)
    /\ \/ /\ links' = Forget(list_pop_front(links, l), {Head(seq[l])})
          /\ seq' = [seq EXCEPT ![l] = Tail(@)]
       \/ /\ links' = Forget(list_pop_back(links, l), {Last(seq[l])})
          /\ seq' = [seq EXCEPT ![l] = Front(@)]

\* Elements i ... j-1 of l go before element k of m, in the same list or another.
Splice(l, m) ==
    \E i \in 1..(Len(seq[l]) + 1), k \in 1..(Len(seq[m]) + 1) :
      \E j \in i..(Len(seq[l]) + 1) :
        LET part == SubSeq(seq[l], i, j - 1)
            rest == SubSeq(seq[l], 1, i - 1) \o SubSeq(seq[l], j, Len(seq[l]))
            put(s, n) == SubSeq(s, 1, n - 1) \o part \o SubSeq(s, n, Len(s)) IN
        /\ l = m => k < i \/ k >= j
        /\ links' = list_splice(links, At(m, k), At(l, i), At(l, j))
        /\ seq' = IF l = m THEN [seq EXCEPT ![l] = put(rest, IF k < i THEN k ELSE k - (j - i))]
                  ELSE [seq EXCEPT ![l] = rest, ![m] = put(@, k)]

Turn(l) ==
    /\ links' = list_reverse(links, l)
    /\ seq' = [seq EXCEPT ![l] = Reverse(@)]

\* Equal elements stay in order.
Sort(l) ==
    /\ links' = list_sort(links, l)
    /\ LET s == seq[l]
           perm == SetToSortSeq(1..Len(s), LAMBDA i, j :
                      Key[s[i]] < Key[s[j]] \/ (Key[s[i]] = Key[s[j]] /\ i < j)) IN
       seq' = [seq EXCEPT ![l] = [i \in 1..Len(s) |-> s[perm[i]]]]

\* After the elements that are not greater.
InsertOrdered(l) ==
    /\ Sorted(seq[l])
    /\ \E e \in Free :
        /\ links' = list_insert_ordered(links, l, e)
        /\ seq' = [seq EXCEPT ![l] =
              SelectSeq(@, LAMBDA x : Key[x] <= Key[e]) \o <<e>>
              \o SelectSeq(@, LAMBDA x : Key[x] > Key[e])]

Unique(l) ==
    LET s == seq[l]
        first == SelectSeq([i \in 1..Len(s) |-> i],
                           LAMBDA i : i = 1 \/ Key[s[i]] # Key[s[i - 1]])
        again == SelectSeq([i \in 1..Len(s) |-> i],
                           LAMBDA i : i > 1 /\ Key[s[i]] = Key[s[i - 1]])
        elems(idx) == [i \in 1..Len(idx) |-> s[idx[i]]] IN
    \/ /\ links' = Forget(list_unique(links, l, NULL), Range(elems(again)))
       /\ seq' = [seq EXCEPT ![l] = elems(first)]
    \/ \E m \in Lists \ {l} :
       /\ links' = list_unique(links, l, m)
       /\ seq' = [seq EXCEPT ![l] = elems(first), ![m] = @ \o elems(again)]

Next ==
    \E l \in Lists :
        \/ Insert(l) \/ Push(l) \/ Delete(l) \/ Pop(l)
        \/ Turn(l) \/ Sort(l) \/ InsertOrdered(l) \/ Unique(l)
        \/ \E m \in Lists : Splice(l, m)

Spec == Init /\ [][Next]_vars

-----------------------------------------------------------------------------
(* Properties.                                                             *)

\* Whatever calls were made before, a list is its sequence in both directions: its
\* elements are linked next from the head to the tail and prev from the tail to the
\* head, and no node of another list can be reached.
ListsAreSequences ==
    \A l \in Lists :
        LET path == <<list_head(l)>> \o seq[l] \o <<list_end(l)>> IN
        /\ links[list_head(l)].prev = NULL /\ links[list_end(l)].next = NULL
        /\ \A i \in 1..(Len(path) - 1) : /\ links[path[i]].next = path[i + 1]
                                         /\ links[path[i + 1]].prev = path[i]

\* The queries answer for the sequence: list_size() and is_sorted(), and
\* list_max() and list_min() return the earliest of the greatest and least elements,
\* or the tail of an empty list.
Earliest(l, r, beats(_, _)) ==
    LET s == seq[l] IN
    IF s = <<>> THEN r = list_end(l)
    ELSE \E i \in 1..Len(s) : /\ r = s[i]
                              /\ \A j \in 1..Len(s) : ~beats(Key[s[j]], Key[s[i]])
                              /\ \A j \in 1..(i - 1) : beats(Key[s[i]], Key[s[j]])
QueriesAgree ==
    \A l \in Lists :
        /\ list_size(links, l) = Len(seq[l])
        /\ list_empty(links, l) <=> seq[l] = <<>>
        /\ is_sorted(links, list_begin(links, l), list_end(l)) <=> Sorted(seq[l])
        /\ Earliest(l, list_max(links, l), LAMBDA a, b : a > b)
        /\ Earliest(l, list_min(links, l), LAMBDA a, b : a < b)

=============================================================================
