---------------------------- MODULE CacheContract ----------------------------
(***************************************************************************)
(* What the contract of internal/application/cache promises the modules    *)
(* that count in the cache and keep single-use values there, whatever the  *)
(* driver: each operation takes effect at one instant, on the entry as it  *)
(* is then.                                                                *)
(*                                                                         *)
(* An entry counts before its expiration and not after it; at the instant  *)
(* itself a driver may see it either way.                                  *)
(***************************************************************************)
EXTENDS Integers

CONSTANTS Caller,    \* whoever uses the cache
          CounterTTL,
          TokenTTL

VARIABLES time,
          exact,     \* Increment is exact on an expired counter, too
          counter,   \* the entry that is incremented
          token,     \* the entry that is to be taken once
          answer,    \* answer[c]: what Increment has told c, 0 when c is done with it
          asking,    \* the callers whose GetDelete has found the token
          redeemed   \* times this token was returned

cacheVars == <<time, exact, counter, token, answer, asking, redeemed>>

Missing == [value |-> -1, expires |-> 0]

Counts(e) == e # Missing /\ (e.expires = 0 \/ time <= e.expires)
Gone(e) == e = Missing \/ (e.expires # 0 /\ e.expires <= time)

CacheInit ==
    /\ time = 1
    /\ exact \in BOOLEAN
    /\ counter = Missing
    /\ token = Missing
    /\ answer = [c \in Caller |-> 0]
    /\ asking = {}
    /\ redeemed = 0

Tell(c, n) == answer[c] = 0 /\ answer' = [answer EXCEPT ![c] = n]

\* A counter that counts goes up and keeps its expiration ...
Increment(c) ==
    /\ Counts(counter)
    /\ counter' = [counter EXCEPT !.value = @ + 1]
    /\ Tell(c, counter.value + 1)
    /\ UNCHANGED <<time, exact, token, asking, redeemed>>

\* ... and any other starts from nothing, without one.
Start(c) ==
    /\ Gone(counter)
    /\ counter' = [value |-> 1, expires |-> 0]
    /\ Tell(c, 1)
    /\ UNCHANGED <<time, exact, token, asking, redeemed>>

\* The most that goes wrong where Increment is not exact: a counter starts again
\* that should have gone on.
StartAgain(c) ==
    /\ ~exact
    /\ counter' = IF counter = Missing THEN counter ELSE [value |-> 1, expires |-> 0]
    /\ Tell(c, 1)
    /\ UNCHANGED <<time, exact, token, asking, redeemed>>

\* The caller of Increment sets the time to live, in vain if the entry is gone ...
Expire(c) ==
    /\ answer[c] # 0
    /\ \/ counter # Missing /\ counter' = [counter EXCEPT !.expires = time + CounterTTL]
       \/ Gone(counter) /\ UNCHANGED counter
    /\ answer' = [answer EXCEPT ![c] = 0]
    /\ UNCHANGED <<time, exact, token, asking, redeemed>>

\* ... or fails to.
Forget(c) ==
    /\ answer[c] # 0
    /\ answer' = [answer EXCEPT ![c] = 0]
    /\ UNCHANGED <<time, exact, counter, token, asking, redeemed>>

Delete ==
    /\ counter' = Missing
    /\ UNCHANGED <<time, exact, token, answer, asking, redeemed>>

\* Set waits for whoever is about to take the entry it replaces.
Set ==
    /\ asking = {}
    /\ token' = [value |-> 1, expires |-> time + TokenTTL]
    /\ redeemed' = 0
    /\ UNCHANGED <<time, exact, counter, answer, asking>>

\* GetDelete may take its time, but who finds the token is the only one until it
\* has an answer, and in the end gets it if anybody does.
Find(c) ==
    /\ Counts(token)
    /\ asking = {}
    /\ asking' = {c}
    /\ UNCHANGED <<time, exact, counter, token, answer, redeemed>>

GetDelete(c) ==
    /\ token # Missing
    /\ c \in asking \/ (asking = {} /\ Counts(token))
    /\ token' = Missing
    /\ asking' = {}
    /\ redeemed' \in {redeemed, redeemed + 1}
    /\ UNCHANGED <<time, exact, counter, answer>>

Withdraw(c) ==
    /\ c \in asking
    /\ asking' = {}
    /\ UNCHANGED <<time, exact, counter, token, answer, redeemed>>

TimePasses ==
    /\ time' = time + 1
    /\ UNCHANGED <<exact, counter, token, answer, asking, redeemed>>

CacheNext ==
    \/ \E c \in Caller :
          \/ Increment(c) \/ Start(c) \/ StartAgain(c) \/ Expire(c) \/ Forget(c)
          \/ Find(c) \/ GetDelete(c) \/ Withdraw(c)
    \/ Delete \/ Set \/ TimePasses

CacheSpec == CacheInit /\ [][CacheNext]_cacheVars
=============================================================================
