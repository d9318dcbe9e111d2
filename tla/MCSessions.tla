------------------------------ MODULE MCSessions ------------------------------
(* Constant values for model-checking Sessions. *)
EXTENDS Sessions, TLC

\* Requests are interchangeable: rows and families only carry their names.
Symmetry == Permutations(Request)
=============================================================================
