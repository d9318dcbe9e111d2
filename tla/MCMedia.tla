------------------------------- MODULE MCMedia -------------------------------
(* Constant values for model-checking Media. *)
EXTENDS Media, TLC

CONSTANTS m1, m2, v1, v2, d1

Symmetry == Permutations(Medium) \cup Permutations(Remover)
=============================================================================
