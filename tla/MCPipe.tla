------------------------------- MODULE MCPipe -------------------------------
(* Instances of Pipe for TLC.  Processes and bytes are interchangeable: no *)
(* action and no property names one.                                       *)
EXTENDS Pipe, TLC
Symmetry == Permutations(P) \cup Permutations(Byte)
=============================================================================
