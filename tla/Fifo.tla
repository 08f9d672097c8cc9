-------------------------------- MODULE Fifo --------------------------------
(***************************************************************************)
(* What pipes promise: each is a bounded queue of bytes, read in the order *)
(* they were written, each once, and thrown away with the pipe.            *)
(***************************************************************************)
EXTENDS Naturals, Sequences

CONSTANTS Pipes, Byte, Size

VARIABLE q              \* pipe -> the bytes written and not yet read

Init == q = [pi \in Pipes |-> <<>>]

Put(pi) == /\ Len(q[pi]) < Size
           /\ \E ch \in Byte : q' = [q EXCEPT ![pi] = Append(@, ch)]

Get(pi) == /\ q[pi] # <<>>
           /\ q' = [q EXCEPT ![pi] = Tail(@)]

Free(pi) == q' = [q EXCEPT ![pi] = <<>>]

Next == \E pi \in Pipes : Put(pi) \/ Get(pi) \/ Free(pi)

Spec == Init /\ [][Next]_q

=============================================================================
