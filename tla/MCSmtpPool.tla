------------------------------ MODULE MCSmtpPool ------------------------------
(* Constant values for model-checking SmtpPool. *)
EXTENDS SmtpPool

CONSTANTS s1, s2, k1, k2
=============================================================================
