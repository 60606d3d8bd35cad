----------------------------- MODULE MCWorkQueue -----------------------------
(* WorkQueue for TLC: the symmetry of the work items, which no definition   *)
(* tells apart.                                                             *)
EXTENDS WorkQueue, TLC

ItemSymmetry == Permutations(Items)

=============================================================================
