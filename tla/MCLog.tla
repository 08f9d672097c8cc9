------------------------------- MODULE MCLog --------------------------------
(* Model checking of Log: processes, data blocks and their contents are    *)
(* interchangeable.                                                        *)
EXTENDS Log, TLC

Symmetry == Permutations(Data) \cup Permutations(Vals) \cup Permutations(T)
=============================================================================
