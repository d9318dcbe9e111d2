------------------------------ MODULE RateLimits ------------------------------
(***************************************************************************)
(* The cache drivers and what the application builds on them: counters     *)
(* that limit requests within a sliding window (login attempts, code       *)
(* requests, requests of an address) and single-use MFA challenges.        *)
(*                                                                         *)
(* The memory and redis drivers do each operation in one step.  The        *)
(* database driver runs a transaction, and what its row locks cover        *)
(* depends on the database: MySQL locks the row that it reads even when    *)
(* the row does not match, and takes a shared lock when an insert meets a  *)
(* duplicate; Postgres (read committed) locks only a row that matches, and *)
(* nothing on a conflict.  An UPDATE or DELETE and the COMMIT after it are *)
(* one step.                                                               *)
(*                                                                         *)
(* A request is short against the window: the clock stands still while one *)
(* is between its Increment and its Expire.                                *)
(***************************************************************************)
EXTENDS Integers, Sequences, FiniteSets

CONSTANTS
    Client,       \* handlers, on all replicas
    Drivers,      \* the drivers considered
    MaxRequests,  \* rateLimiter.max
    Window,       \* rateLimiter.window
    ChallengeTTL,
    MaxTime,      \* bound: the clock
    MaxAttempts,  \* bound: requests checked against the limit
    MaxFaults     \* bound: failures

None == "none"

ASSUME RateLimitConstants ==
    /\ Drivers \subseteq {"memory", "redis", "mysql", "postgres"}
    /\ None \notin Client
    /\ MaxRequests \in Nat \ {0}
    /\ Window \in Nat \ {0}
    /\ ChallengeTTL \in Nat \ {0}
    /\ MaxTime \in Nat
    /\ MaxAttempts \in Nat
    /\ MaxFaults \in Nat

VARIABLES
    driver,
    now,
    item,      \* item[k]: the row or entry of a key
    exclusive, \* exclusive[k]: who holds the row lock of the key
    shared,    \* shared[k]: who holds a shared one (MySQL)
    client,    \* client[c]: what the handler is doing
    \* History, for the properties only.
    made,      \* requests checked so far
    attempts,  \* those counted since the last Reset, in the order of the counter
    taken,     \* how often the challenge was redeemed
    faults

vars == <<driver, now, item, exclusive, shared, client, made, attempts, taken, faults>>

Key == {"limit", "challenge"}
Never == 0                     \* no expiration; the clock starts at 1
Absent == [value |-> -1, expires |-> Never]

SQL == driver \in {"mysql", "postgres"}

\* The memory driver keeps an entry at the instant of its expiration.
Live(k) ==
    /\ item[k] # Absent
    /\ \/ item[k].expires = Never
       \/ item[k].expires > now
       \/ driver = "memory" /\ item[k].expires = now

Idle == [pc |-> "idle", inserted |-> FALSE, n |-> 0, expires |-> Never]

Init ==
    /\ driver \in Drivers
    /\ now = 1
    /\ item = [k \in Key |-> Absent]
    /\ exclusive = [k \in Key |-> None]
    /\ shared = [k \in Key |-> {}]
    /\ client = [c \in Client |-> Idle]
    /\ made = 0
    /\ attempts = << >>
    /\ taken = 0
    /\ faults = 0

Free(k, c) == exclusive[k] \in {None, c} /\ shared[k] \subseteq {c}

Release(c) ==
    /\ exclusive' = [k \in Key |-> IF exclusive[k] = c THEN None ELSE exclusive[k]]
    /\ shared' = [k \in Key |-> shared[k] \ {c}]

\* The limiter has counted the request as number n.
Counted(c, n) ==
    Append(attempts, [by |-> c, at |-> now, n |-> n, window |-> "due"])

\* What became of the window of c's latest request.
Applied(c, window) ==
    [i \in 1..Len(attempts) |->
        IF attempts[i].by = c /\ attempts[i].window = "due"
        THEN [attempts[i] EXCEPT !.window = window] ELSE attempts[i]]

(***************************************************************************)
(* Increment.                                                              *)
(***************************************************************************)
IncrementInPlace_Expired(c) ==
    LET n == (IF item["limit"] # Absent THEN item["limit"].value ELSE 0) + 1 IN
    /\ ~SQL
    /\ client[c].pc = "idle"
    /\ made < MaxAttempts
    /\ made' = made + 1
    /\ item' = [item EXCEPT !["limit"] = [value |-> n, expires |-> @.expires]]
    /\ client' = [client EXCEPT ![c] = [Idle EXCEPT !.pc = "expire", !.n = n]]
    /\ attempts' = Counted(c, n)
    /\ UNCHANGED <<driver, now, exclusive, shared, taken, faults>>

\* Memory.Increment under its mutex, or INCRBY: a counter that has expired
\* starts again without an expiration.
IncrementInPlace(c) ==
    LET n == (IF Live("limit") THEN item["limit"].value ELSE 0) + 1 IN
    /\ ~SQL
    /\ client[c].pc = "idle"
    /\ made < MaxAttempts
    /\ made' = made + 1
    /\ item' = [item EXCEPT !["limit"] =
                  [value |-> n, expires |-> IF Live("limit") THEN @.expires ELSE Never]]
    /\ client' = [client EXCEPT ![c] = [Idle EXCEPT !.pc = "expire", !.n = n]]
    /\ attempts' = Counted(c, n)
    /\ UNCHANGED <<driver, now, exclusive, shared, taken, faults>>

\* The transaction begins with an insert that ignores a duplicate.  It waits
\* for one that is not committed; in MySQL also for any lock on the row, and
\* it keeps a shared one.
Seed(c) ==
    /\ SQL
    /\ client[c].pc = "idle"
    /\ made < MaxAttempts
    /\ IF driver = "mysql" THEN exclusive["limit"] = None
       ELSE \A d \in Client : ~client[d].inserted
    /\ made' = made + 1
    /\ IF item["limit"] = Absent
         THEN /\ item' = [item EXCEPT !["limit"] = [value |-> 0, expires |-> Never]]
              /\ exclusive' = [exclusive EXCEPT !["limit"] = c]
              /\ UNCHANGED shared
         ELSE /\ shared' = [shared EXCEPT !["limit"] =
                              IF driver = "mysql" THEN @ \cup {c} ELSE @]
              /\ UNCHANGED <<item, exclusive>>
    /\ client' = [client EXCEPT ![c] =
                    [Idle EXCEPT !.pc = "seeded", !.inserted = item["limit"] = Absent]]
    /\ UNCHANGED <<driver, now, attempts, taken, faults>>

\* Mutant: a read that locks nothing.
ReadForUpdate_NoLock(c) ==
    /\ client[c].pc = "seeded"
    /\ client' = [client EXCEPT ![c] =
                    [@ EXCEPT !.pc = "read",
                              !.n = (IF Live("limit") THEN item["limit"].value ELSE 0) + 1,
                              !.expires = IF Live("limit") THEN item["limit"].expires ELSE Never]]
    /\ UNCHANGED <<driver, now, item, exclusive, shared, made, attempts, taken, faults>>

\* The locking read of a live row.  Postgres locks nothing when the row has
\* expired.
ReadForUpdate(c) ==
    /\ client[c].pc = "seeded"
    /\ IF driver = "mysql" \/ Live("limit")
         THEN /\ Free("limit", c)
              /\ exclusive' = [exclusive EXCEPT !["limit"] = c]
         ELSE UNCHANGED exclusive
    /\ client' = [client EXCEPT ![c] =
                    [@ EXCEPT !.pc = "read",
                              !.n = (IF Live("limit") THEN item["limit"].value ELSE 0) + 1,
                              !.expires = IF Live("limit") THEN item["limit"].expires ELSE Never]]
    /\ UNCHANGED <<driver, now, item, shared, made, attempts, taken, faults>>

\* UPDATE of the row, if it is still there, and COMMIT.
CommitIncrement(c) ==
    /\ client[c].pc = "read"
    /\ Free("limit", c)
    /\ item' = [item EXCEPT !["limit"] =
                  IF @ = Absent THEN @
                  ELSE [value |-> client[c].n, expires |-> client[c].expires]]
    /\ client' = [client EXCEPT ![c].pc = "expire", ![c].inserted = FALSE]
    /\ attempts' = Counted(c, client[c].n)
    /\ Release(c)
    /\ UNCHANGED <<driver, now, made, taken, faults>>

\* MySQL rolls one of two transactions back that share the row and both want
\* it for themselves; the request fails.
Deadlock(c) ==
    /\ client[c].pc = "seeded"
    /\ \E d \in shared["limit"] \ {c} : c \in shared["limit"] /\ client[d].pc = "seeded"
    /\ client' = [client EXCEPT ![c] = Idle]
    /\ Release(c)
    /\ UNCHANGED <<driver, now, item, made, attempts, taken, faults>>

(***************************************************************************)
(* The limiter applies the window on every request, whatever the count; an *)
(* error of Expire is ignored.  A login that then succeeds resets the      *)
(* counter, sooner or later.                                               *)
(***************************************************************************)
AfterCheck(c) ==
    \/ client' = [client EXCEPT ![c] = Idle]
    \/ /\ client[c].n <= MaxRequests
       /\ client' = [client EXCEPT ![c] = [Idle EXCEPT !.pc = "reset"]]

ApplyWindow_FirstOnly(c) ==
    /\ client[c].pc = "expire"
    /\ Free("limit", c)
    /\ item' = [item EXCEPT !["limit"] =
                  IF item["limit"] # Absent /\ client[c].n = 1
                  THEN [@ EXCEPT !.expires = now + Window] ELSE @]
    /\ attempts' = Applied(c, "applied")
    /\ AfterCheck(c)
    /\ UNCHANGED <<driver, now, exclusive, shared, made, taken, faults>>

\* Memory and database extend the entry even when its time has passed.
ApplyWindow(c) ==
    /\ client[c].pc = "expire"
    /\ Free("limit", c)
    /\ item' = [item EXCEPT !["limit"] =
                  IF item["limit"] # Absent /\ (driver = "redis" => Live("limit"))
                  THEN [@ EXCEPT !.expires = now + Window] ELSE @]
    /\ attempts' = Applied(c, "applied")
    /\ AfterCheck(c)
    /\ UNCHANGED <<driver, now, exclusive, shared, made, taken, faults>>

WindowLost(c) ==
    /\ client[c].pc = "expire"
    /\ faults < MaxFaults
    /\ faults' = faults + 1
    /\ attempts' = Applied(c, "lost")
    /\ AfterCheck(c)
    /\ UNCHANGED <<driver, now, item, exclusive, shared, made, taken>>

\* Delete the counter.
Reset(c) ==
    /\ client[c].pc = "reset"
    /\ Free("limit", c)
    /\ item' = [item EXCEPT !["limit"] = Absent]
    /\ attempts' = << >>
    /\ client' = [client EXCEPT ![c] = Idle]
    /\ UNCHANGED <<driver, now, exclusive, shared, made, taken, faults>>

(***************************************************************************)
(* The MFA challenge: Set once, then GetDelete.                            *)
(***************************************************************************)
IssueChallenge(c) ==
    /\ client[c].pc = "idle"
    /\ item["challenge"] = Absent
    /\ taken = 0
    /\ item' = [item EXCEPT !["challenge"] = [value |-> 1, expires |-> now + ChallengeTTL]]
    /\ UNCHANGED <<driver, now, exclusive, shared, client, made, attempts, taken, faults>>

\* Under the mutex, or GETDEL.
TakeInPlace(c) ==
    /\ ~SQL
    /\ client[c].pc = "idle"
    /\ Live("challenge")
    /\ item' = [item EXCEPT !["challenge"] = Absent]
    /\ taken' = taken + 1
    /\ UNCHANGED <<driver, now, exclusive, shared, client, made, attempts, faults>>

TakeRead_NoLock(c) ==
    /\ SQL
    /\ client[c].pc = "idle"
    /\ Live("challenge")
    /\ client' = [client EXCEPT ![c] = [Idle EXCEPT !.pc = "take"]]
    /\ UNCHANGED <<driver, now, item, exclusive, shared, made, attempts, taken, faults>>

\* The locking read: a request that waited for the lock finds the row gone.
TakeRead(c) ==
    /\ SQL
    /\ client[c].pc = "idle"
    /\ Live("challenge")
    /\ Free("challenge", c)
    /\ exclusive' = [exclusive EXCEPT !["challenge"] = c]
    /\ client' = [client EXCEPT ![c] = [Idle EXCEPT !.pc = "take"]]
    /\ UNCHANGED <<driver, now, item, shared, made, attempts, taken, faults>>

\* DELETE and COMMIT.  When the answer to the commit is lost, the challenge is
\* gone and the request is refused.
TakeDelete(c) ==
    /\ client[c].pc = "take"
    /\ Free("challenge", c)
    /\ item' = [item EXCEPT !["challenge"] = Absent]
    /\ Release(c)
    /\ client' = [client EXCEPT ![c] = Idle]
    /\ \/ taken' = taken + 1 /\ UNCHANGED faults
       \/ faults < MaxFaults /\ faults' = faults + 1 /\ UNCHANGED taken
    /\ UNCHANGED <<driver, now, made, attempts>>

(***************************************************************************)
(* The environment.                                                        *)
(***************************************************************************)
\* The handler dies or loses its database: the transaction is rolled back, and
\* a counter that was written keeps the expiration it has.
Fail(c) ==
    /\ client[c].pc # "idle"
    /\ faults < MaxFaults
    /\ faults' = faults + 1
    /\ item' = [item EXCEPT !["limit"] = IF client[c].inserted THEN Absent ELSE @]
    /\ Release(c)
    /\ attempts' = Applied(c, "lost")
    /\ client' = [client EXCEPT ![c] = Idle]
    /\ UNCHANGED <<driver, now, made, taken>>

Tick ==
    /\ now < MaxTime
    /\ \A c \in Client : client[c].pc \in {"idle", "take", "reset"}
    /\ now' = now + 1
    /\ UNCHANGED <<driver, item, exclusive, shared, client, made, attempts, taken, faults>>

Next ==
    \/ \E c \in Client :
          \/ IncrementInPlace(c)
          \/ Seed(c) \/ ReadForUpdate(c) \/ CommitIncrement(c) \/ Deadlock(c)
          \/ ApplyWindow(c) \/ WindowLost(c) \/ Reset(c)
          \/ IssueChallenge(c) \/ TakeInPlace(c) \/ TakeRead(c) \/ TakeDelete(c)
          \/ Fail(c)
    \/ Tick

Spec == Init /\ [][Next]_vars

-----------------------------------------------------------------------------
(* Properties. *)

Attempt == [by : Client, at : Nat, n : Nat, window : {"due", "applied", "lost"}]

Passed(a) == a.n <= MaxRequests

\* Every variable keeps its type.
TypeOK ==
    /\ driver \in Drivers
    /\ now \in Nat
    /\ item \in [Key -> [value : Int, expires : Nat]]
    /\ exclusive \in [Key -> Client \cup {None}]
    /\ shared \in [Key -> SUBSET Client]
    /\ client \in [Client -> [pc : {"idle", "seeded", "read", "expire", "reset", "take"},
                              inserted : BOOLEAN, n : Nat, expires : Nat]]
    /\ made \in Nat
    /\ attempts \in Seq(Attempt)
    /\ taken \in Nat
    /\ faults \in Nat

\* "The limit holds across multiple API replicas" (RateLimitByIP): within any
\* window at most MaxRequests requests pass, not counting those whose Expire
\* failed, however increments, expirations and resets overlap.
AtMostMaxPerWindow ==
    \A start \in 1..now :
       Cardinality({i \in 1..Len(attempts) :
                      /\ Passed(attempts[i]) /\ attempts[i].window = "applied"
                      /\ attempts[i].at \in start..start+Window-1}) <= MaxRequests

\* The same, for the drivers whose Increment is atomic also on a counter that
\* has expired.
LimitHolds == driver # "postgres" => AtMostMaxPerWindow

\* Nobody is locked out without cause: a request is refused only after
\* MaxRequests counted ones, of which the last is within a window of it unless
\* the Expire of that one failed.
RefusedOnlyWhenBusy ==
    \A i \in 1..Len(attempts) : ~Passed(attempts[i]) =>
       /\ i > MaxRequests
       /\ \/ attempts[i-1].window # "applied"
          \/ attempts[i].at - attempts[i-1].at <= Window

\* A challenge is redeemed at most once, on every driver.
RedeemedOnce == taken <= 1

\* Only the database driver has transactions.  Who holds the row of the counter
\* is in one, and the row exists; in MySQL whoever is in one holds the row, for
\* itself from the locking read on.
Locks ==
    \A c \in Client :
       LET active == client[c].pc \in {"seeded", "read"} IN
       /\ active => SQL
       /\ exclusive["limit"] = c => active /\ item["limit"] # Absent
       /\ c \in shared["limit"] => active /\ driver = "mysql"
       /\ client[c].inserted => active /\ exclusive["limit"] = c
       /\ driver = "mysql" =>
             /\ active => /\ item["limit"] # Absent
                          /\ exclusive["limit"] = c \/ c \in shared["limit"]
             /\ client[c].pc = "read" => exclusive["limit"] = c
             /\ client[c].inserted => shared["limit"] = {} /\ attempts = << >>

\* A challenge that is still there was not redeemed, and one request holds it.
Challenge ==
    /\ item["challenge"] # Absent => taken = 0
    /\ \A c \in Client : client[c].pc = "take" =>
          SQL /\ exclusive["challenge"] = c /\ item["challenge"] # Absent

Last == attempts[Len(attempts)]

\* Attempts are in the order of time, and the clock waits for their windows.
Clock ==
    /\ \A i, j \in 1..Len(attempts) : i <= j => attempts[i].at <= attempts[j].at
    /\ \A i \in 1..Len(attempts) :
          /\ attempts[i].at <= now
          /\ attempts[i].window = "due" =>
                attempts[i].at = now /\ client[attempts[i].by].pc = "expire"
    /\ \A c \in Client :
          client[c].pc = "expire" /\ attempts # << >> => Last.at = now

\* The counter is never ahead of the attempts, and after an attempt whose window
\* was applied it expires in time.
Counter ==
    /\ item["limit"] # Absent =>
          /\ item["limit"].value \in 0..Len(attempts)
          /\ item["limit"].expires <= now + Window
          /\ attempts # << >> =>
                /\ item["limit"].expires <= Last.at + Window
                /\ Last.window = "applied" /\ item["limit"].value > 0 =>
                      item["limit"].expires # Never
    /\ \A i \in 1..Len(attempts) : attempts[i].n \in 1..i
    /\ \A c \in Client : client[c].pc = "read" =>
          /\ client[c].n \in 1..Len(attempts)+1
          /\ client[c].expires <= now + Window
          /\ client[c].n > 1 =>
                /\ exclusive["limit"] = c
                /\ Last.window = "applied" => now <= Last.at + Window
    /\ \A i \in 1..Len(attempts) : ~Passed(attempts[i]) =>
          \/ attempts[i-1].window = "lost"
          \/ attempts[i].at - attempts[i-1].at <= Window

\* Where Increment is atomic also on a counter that has expired, attempts are
\* numbered in their order, and the numbers start again only when the windows
\* that were applied have ended.
Numbering ==
    driver # "postgres" =>
       /\ item["limit"] = Absent => attempts = << >>
       /\ attempts # << >> =>
             /\ item["limit"].value = Last.n
             /\ Last.at = now => Live("limit")
       /\ \A c \in Client : client[c].pc = "read" =>
             /\ client[c].n = (IF Live("limit") THEN item["limit"].value ELSE 0) + 1
             /\ client[c].expires = (IF Live("limit") THEN item["limit"].expires ELSE Never)
       /\ item["limit"].expires # Never =>
             \A i \in 1..Len(attempts) : attempts[i].window = "applied" =>
                attempts[i].at + Window <= item["limit"].expires
       /\ \A i, j \in 1..Len(attempts) : i < j =>
             \/ attempts[j].n = attempts[i].n + (j - i)
             \/ \A k \in 1..i : attempts[k].window # "lost" =>
                   attempts[k].at + Window <= attempts[j].at

\* What holds on all four drivers: the types, no refusal without cause and no
\* challenge redeemed twice, with what these rest on: who holds which lock, and
\* how the counter follows the attempts.
LimiterInv ==
    /\ TypeOK
    /\ RefusedOnlyWhenBusy /\ RedeemedOnce
    /\ Locks /\ Challenge /\ Clock /\ Counter /\ Numbering

(***************************************************************************)
(* The drivers keep the contract of the cache.  A row that its transaction *)
(* has not committed is not there yet.                                     *)
(***************************************************************************)
CommittedCounter == IF \E c \in Client : client[c].inserted THEN Absent ELSE item["limit"]
Answers == [c \in Client |-> IF client[c].pc = "expire" THEN client[c].n ELSE 0]
Takers == {c \in Client : client[c].pc = "take"}

Cache == INSTANCE CacheContract WITH
    Caller <- Client, CounterTTL <- Window, TokenTTL <- ChallengeTTL,
    time <- now, exact <- driver # "postgres",
    counter <- CommittedCounter, token <- item["challenge"],
    answer <- Answers, asking <- Takers, redeemed <- taken

\* Whatever locks and statements an operation of a driver is made of, its callers
\* see it happen at one instant between call and answer: Increment adds one to the
\* counter that is there, GetDelete gives a value away once.  On Postgres a counter
\* may start again that should have gone on, and nothing else goes wrong.
KeepsCache == Cache!CacheSpec
=============================================================================
