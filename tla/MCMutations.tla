----------------------------- MODULE MCMutations -----------------------------
(***************************************************************************)
(* Mutations for TLC: interchangeable processes and services.              *)
(***************************************************************************)
EXTENDS Mutations, TLC

CONSTANTS p1, p2, a, b

MCProcs == {p1, p2}
MCServices == {a, b}
Symmetry == Permutations(MCProcs) \cup Permutations(MCServices)
==============================================================================
