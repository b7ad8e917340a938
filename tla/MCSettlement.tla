---------------------------- MODULE MCSettlement ----------------------------
(* Settlement for TLC.  The configurations give every constant its value.  *)
EXTENDS Settlement, TLC

\* Processes are interchangeable slots.
ProcSymmetry == Permutations(Procs)
=============================================================================
