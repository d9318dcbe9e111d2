----------------------------- MODULE MCRateLimits -----------------------------
(* Constant values for model-checking RateLimits. *)
EXTENDS RateLimits, TLC

CONSTANTS c1, c2

AllDrivers == {"memory", "redis", "mysql", "postgres"}
Symmetry == Permutations(Client)
=============================================================================
