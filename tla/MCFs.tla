-------------------------------- MODULE MCFs --------------------------------
(* An instance of Fs for TLC.                                              *)
EXTENDS Fs, TLC
Abs(s) == [abs |-> TRUE, names |-> s]
Rel(s) == [abs |-> FALSE, names |-> s]
Call(op, path, new, write) == [op |-> op, path |-> path, new |-> new, write |-> write]
A == Abs(<<"a">>)
AB == Abs(<<"a", "b">>)
B == Rel(<<"b">>)
MCCalls == {Call("mkdir", A, A, FALSE), Call("create", AB, A, TRUE),
   Call("open", B, A, FALSE),
   Call("link", AB, B, FALSE), Call("unlink", A, A, FALSE), Call("unlink", B, A, FALSE), Call("chdir", A, A, FALSE)}
Symmetry == Permutations(P)
=============================================================================
