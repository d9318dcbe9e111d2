----------------------------- MODULE TaskContract -----------------------------
(***************************************************************************)
(* What the contract of internal/application/queue promises the modules    *)
(* that enqueue tasks and register handlers, whatever the backend: a task  *)
(* is in the hands of one executor at a time, leaves the queue only from   *)
(* those hands, and is handed out no more often than its allowance of      *)
(* attempts permits.  Executors may vanish; each time one does, the task   *)
(* is handed out once more than the allowance says.  Executors may also    *)
(* overstay: nobody can stop them, so for each one that does the task may  *)
(* be in the hands of one executor more, and be handed out once more.      *)
(***************************************************************************)
EXTENDS Integers, FiniteSets

CONSTANTS Task,        \* tasks clients may submit
          Executor,    \* whoever may execute a task
          MaxAllowance \* largest number of attempts a client asks for

VARIABLES phase,     \* "absent", "queued" or "done"
          holders,   \* who executes the task
          allowance, \* attempts the task is entitled to: MaxRetry + 1
          grants,    \* times it was handed out
          losses,    \* times it was handed out and never came back
          overstays  \* times an executor kept it too long

cvars == <<phase, holders, allowance, grants, losses, overstays>>

ContractInit ==
    /\ phase = [t \in Task |-> "absent"]
    /\ holders = [t \in Task |-> {}]
    /\ allowance = [t \in Task |-> 0]
    /\ grants = [t \in Task |-> 0]
    /\ losses = [t \in Task |-> 0]
    /\ overstays = [t \in Task |-> 0]

\* A client submits a task with n attempts.
Submit(t, n) ==
    /\ phase[t] = "absent"
    /\ phase' = [phase EXCEPT ![t] = "queued"]
    /\ allowance' = [allowance EXCEPT ![t] = n]
    /\ UNCHANGED <<holders, grants, losses, overstays>>

\* The task may be handed out: whoever holds it has overstayed or follows on one
\* who has, and an attempt is left.
Available(t) ==
    /\ phase[t] = "queued"
    /\ Cardinality(holders[t]) <= overstays[t]
    /\ grants[t] < allowance[t] + losses[t] + overstays[t]

\* An available task is handed to e, who overstays from the start if n = 1 ...
Grant(t, e, n) ==
    /\ Available(t)
    /\ e \notin holders[t]
    /\ holders' = [holders EXCEPT ![t] = @ \cup {e}]
    /\ grants' = [grants EXCEPT ![t] = @ + 1]
    /\ overstays' = [overstays EXCEPT ![t] = @ + n]
    /\ UNCHANGED <<phase, allowance, losses>>

\* ... or is marked as handed out although its executor never learns of it.
GrantLost(t) ==
    /\ Available(t)
    /\ grants' = [grants EXCEPT ![t] = @ + 1]
    /\ losses' = [losses EXCEPT ![t] = @ + 1]
    /\ UNCHANGED <<phase, holders, allowance, overstays>>

\* e keeps the task longer than it may.
Overstay(t, e) ==
    /\ e \in holders[t]
    /\ overstays' = [overstays EXCEPT ![t] = @ + 1]
    /\ UNCHANGED <<phase, holders, allowance, grants, losses>>

\* e puts a failed task back with attempts left; a task that is done stays so.
Retry(t, e) ==
    /\ e \in holders[t]
    /\ phase[t] = "queued" => grants[t] < allowance[t] + losses[t] + overstays[t]
    /\ holders' = [holders EXCEPT ![t] = @ \ {e}]
    /\ UNCHANGED <<phase, allowance, grants, losses, overstays>>

\* e is done with the task.
Resolve(t, e) ==
    /\ e \in holders[t]
    /\ phase' = [phase EXCEPT ![t] = "done"]
    /\ holders' = [holders EXCEPT ![t] = @ \ {e}]
    /\ UNCHANGED <<allowance, grants, losses, overstays>>

\* The executors in E vanish together.
Lose(E) ==
    /\ holders' = [t \in Task |-> holders[t] \ E]
    /\ losses' = [t \in Task |-> losses[t] + Cardinality(holders[t] \cap E)]
    /\ UNCHANGED <<phase, allowance, grants, overstays>>

ContractNext ==
    \/ \E t \in Task, n \in 1..MaxAllowance : Submit(t, n)
    \/ \E t \in Task, e \in Executor, n \in 0..1 : Grant(t, e, n)
    \/ \E t \in Task : GrantLost(t)
    \/ \E t \in Task, e \in Executor :
          Overstay(t, e) \/ Retry(t, e) \/ Resolve(t, e)
    \/ \E E \in SUBSET Executor : Lose(E)

ContractSpec == ContractInit /\ [][ContractNext]_cvars
=============================================================================
