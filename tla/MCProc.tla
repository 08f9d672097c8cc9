------------------------------- MODULE MCProc -------------------------------
EXTENDS ProcInv, TLC

\* All CPUs start alike and no action or property names one.
Symmetry == Permutations(CPUs)
=============================================================================
