----------------------------- MODULE MCContent -----------------------------
(* p1 and p2 share a file; p3 has a file of its own and bad addresses.     *)
EXTENDS Content
CONSTANTS p1, p2, p3
MCFile == [p \in P |-> IF p = p3 THEN 2 ELSE 1]
MCLens == [p \in P |-> CASE p = p1 -> {1, 7} [] p = p2 -> {3} [] p = p3 -> {3}]
MCUses == [p \in P |-> CASE p = p1 -> {"write", "open", "trunc"} [] p = p2 -> {"write"}
                         [] p = p3 -> {"write", "fault", "read"}]
=============================================================================
