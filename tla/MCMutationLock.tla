--------------------------- MODULE MCMutationLock ---------------------------
(***************************************************************************)
(* MutationLock for TLC: three ordinary mutations, interchangeable, and  *)
(* one reset; as many files as processes, so that one is always free.      *)
(***************************************************************************)
EXTENDS MutationLock, TLC

CONSTANTS p1, p2, p3, r, f1, f2, f3, f4

MCProcesses == {p1, p2, p3, r}
MCResetters == {r}
MCLockFiles == {f1, f2, f3, f4}
Symmetry == Permutations({p1, p2, p3}) \cup Permutations(MCLockFiles)
=============================================================================
