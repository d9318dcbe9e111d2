------------------------------ MODULE MCJobQueue ------------------------------
(* Constant values for model-checking JobQueue. *)
EXTENDS JobQueue, TLC

CONSTANTS s1, s2, j1, j2

\* The second server's clock runs one tick ahead.
MCSkew == [s \in Server |-> IF s = s1 THEN 0 ELSE MaxSkew]

\* A short retry schedule that grows, like backoff.
MCRetryDelay == [n \in 1..MaxRetry |-> n]
=============================================================================
