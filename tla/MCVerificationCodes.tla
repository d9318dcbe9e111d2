-------------------------- MODULE MCVerificationCodes --------------------------
(* Constant values for model-checking VerificationCodes. *)
EXTENDS VerificationCodes, TLC

\* Requests are interchangeable: codes only carry their names.
Symmetry == Permutations(Request)

\* A purpose whose channels are voided separately, and one without channels.
MCKind == {<<"verify", "email">>, <<"verify", "phone">>, LinkKind}
=============================================================================
