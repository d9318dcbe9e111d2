------------------------------- MODULE JobQueue -------------------------------
(***************************************************************************)
(* The database-backed job queue of internal/platform/queue/database.go:   *)
(* a table queue_jobs shared by any number of worker processes, each of    *)
(* which runs `concurrency` goroutines that poll, claim, execute and       *)
(* finalize one job at a time.                                             *)
(*                                                                         *)
(* A row is claimed under a lease: its reserved_at is set, and it becomes  *)
(* claimable again once reserved_at is older than the lease.  Nothing but  *)
(* time protects a claim: neither finish (DELETE) nor release (UPDATE)     *)
(* checks that the row is still the caller's.                              *)
(*                                                                         *)
(* And nothing ends a handler: runHandler is an ordinary call, which the   *)
(* job timeout and Stop can only ask to return, by cancelling its context. *)
(* A hold may therefore outlive the lease.  Such an overrun is an event of *)
(* the model, and the properties say what the queue still promises then.   *)
(***************************************************************************)
EXTENDS Integers, FiniteSets

CONSTANTS
    Job,             \* ids of the rows clients may insert
    None,            \* no job
    Server,          \* worker processes (one DatabaseServer each)
    Slot,            \* the goroutines of one process: 1..concurrency
    Unhandled,       \* jobs whose task type no process has registered
    MaxRetry,        \* largest Task.MaxRetry a client passes
    RetryDelay,      \* the retry schedule: RetryDelay[n] = backoff(n)
    Lease,           \* defaultLease
    JobTimeout,      \* jobTimeout
    FinalizeTimeout, \* the timeout of the detached finalize context
    PollInterval,    \* defaultPollInterval
    ClaimDelay,      \* time from time.Now() in claim to a commit in time
    SchedSlack,      \* longest time a woken goroutine waits for the CPU
    Skew,            \* Skew[s]: how far the clock of s runs ahead
    MaxSkew,         \* bound on Skew
    TicksPerSecond,  \* resolution of the model's clock
    MaxFaults,       \* bound: crashes, failed statements and overruns
    MaxStops,        \* bound: shutdown signals per behaviour
    MaxTime          \* bound: from then on only a waiting row moves the clock

Worker == Server \X Slot

\* The SQL NULL of the reserved_at column.
NULL == -1

\* Stored timestamps are time.Time.Unix(): whole seconds.
Unix(t) == t \div TicksPerSecond

(***************************************************************************)
(* The lease is long enough when it covers everything between the reading  *)
(* of the clock in claim and the end of the finalize statement, clock skew *)
(* included: 360 s >= 300 s + 5 s + the two delays outside the code.  It   *)
(* says how long a hold may last, not that it ends by then (see Overrun).  *)
(***************************************************************************)
LeaseCoversJob == Lease >= ClaimDelay + JobTimeout + FinalizeTimeout + MaxSkew

ASSUME ConstantsAssumption ==
    /\ None \notin Job
    /\ IsFiniteSet(Worker)
    /\ Unhandled \subseteq Job
    /\ MaxRetry \in Nat
    /\ RetryDelay \in [1..MaxRetry -> Nat]
    /\ Lease \in Nat
    /\ JobTimeout \in Nat
    /\ FinalizeTimeout \in Nat
    /\ PollInterval \in Nat
    /\ ClaimDelay \in Nat
    /\ SchedSlack \in Nat
    /\ MaxSkew \in Nat
    /\ Skew \in [Server -> 0..MaxSkew]
    /\ TicksPerSecond \in Nat \ {0}
    /\ MaxFaults \in Nat
    /\ MaxStops \in Nat
    /\ MaxTime \in Nat

VARIABLES
    now,          \* real time, in ticks
    \* The table queue_jobs, one function per column.
    status,       \* "absent", "queued" (the row exists) or why it was deleted
    attempts,
    maxAttempts,
    reservedAt,
    availableAt,
    createdAt,
    \* The worker processes.
    srv,          \* "down", "created", "running", "stopping" or "exited"
    asked,        \* the process has received its shutdown signal
    \* Their goroutines.
    pc,           \* "off", "poll", "claim", "run" or "final"
    job,          \* the claimed row's id
    tries,        \* job.attempts: the count read by claim, before it adds one
    readAt,       \* the `now' of the current claim, on the server's clock
    timer,        \* when "poll" wakes up; when any other state ought to end
    cause,        \* how the handler ended
    late,         \* the goroutines whose claim or hold has passed its timer
    \* History, for the properties only.
    executions,   \* handler invocations per job
    oks,          \* handler invocations that returned nil, per job
    lapses,       \* claims that ended with neither finish nor release, per job
    overruns,     \* holds that passed their timer, per job
    released,     \* numbers of the attempts that ended with release, per job
    faults,       \* injected faults so far
    stops         \* shutdown signals so far

table   == <<status, attempts, maxAttempts, reservedAt, availableAt, createdAt>>
process == <<srv, asked>>
worker  == <<pc, job, tries, readAt, timer, cause, late>>
history == <<executions, oks, lapses, overruns, released>>
budget  == <<faults, stops>>
vars    == <<now, table, process, worker, history, budget>>

\* How a handler invocation can end: nil, an error wrapping ErrPermanent, any
\* other error or a recovered panic, its context's deadline, the server's Stop.
Result  == {"ok", "permanent", "error", "expired", "cancelled"}
Outcome == Result \cup {"unhandled"}

TypeOK ==
    /\ now \in Nat
    /\ status \in [Job -> {"absent", "queued"} \cup Outcome]
    /\ attempts \in [Job -> Nat]
    /\ maxAttempts \in [Job -> Nat]
    /\ reservedAt \in [Job -> Nat \cup {NULL}]
    /\ availableAt \in [Job -> Nat]
    /\ createdAt \in [Job -> Nat]
    /\ srv \in [Server -> {"down", "created", "running", "stopping", "exited"}]
    /\ asked \in [Server -> BOOLEAN]
    /\ pc \in [Worker -> {"off", "poll", "claim", "run", "final"}]
    /\ job \in [Worker -> Job \cup {None}]
    /\ tries \in [Worker -> Nat]
    /\ readAt \in [Worker -> Nat]
    /\ timer \in [Worker -> Nat]
    /\ cause \in [Worker -> Outcome \cup {"none"}]
    /\ late \in SUBSET Worker
    /\ executions \in [Job -> Nat]
    /\ oks \in [Job -> Nat]
    /\ lapses \in [Job -> Nat]
    /\ overruns \in [Job -> Nat]
    /\ released \in [Job -> SUBSET Nat]
    /\ faults \in Nat
    /\ stops \in Nat

Init ==
    /\ now = 0
    /\ status = [j \in Job |-> "absent"]
    /\ attempts = [j \in Job |-> 0]
    /\ maxAttempts = [j \in Job |-> 0]
    /\ reservedAt = [j \in Job |-> NULL]
    /\ availableAt = [j \in Job |-> 0]
    /\ createdAt = [j \in Job |-> 0]
    /\ srv = [s \in Server |-> "down"]
    /\ asked = [s \in Server |-> FALSE]
    /\ pc = [w \in Worker |-> "off"]
    /\ job = [w \in Worker |-> None]
    /\ tries = [w \in Worker |-> 0]
    /\ readAt = [w \in Worker |-> 0]
    /\ timer = [w \in Worker |-> 0]
    /\ cause = [w \in Worker |-> "none"]
    /\ late = {}
    /\ executions = [j \in Job |-> 0]
    /\ oks = [j \in Job |-> 0]
    /\ lapses = [j \in Job |-> 0]
    /\ overruns = [j \in Job |-> 0]
    /\ released = [j \in Job |-> {}]
    /\ faults = 0
    /\ stops = 0

-----------------------------------------------------------------------------
(* Clients. *)

\* DatabaseClient.Enqueue: the row starts unreserved and available at once.
Enqueue(j, retries) ==
    /\ status[j] = "absent"
    /\ status' = [status EXCEPT ![j] = "queued"]
    /\ maxAttempts' = [maxAttempts EXCEPT
                          ![j] = IF retries > 0 THEN retries + 1 ELSE 1]
    /\ availableAt' = [availableAt EXCEPT ![j] = Unix(now)]
    /\ createdAt' = [createdAt EXCEPT ![j] = Unix(now)]
    /\ UNCHANGED <<now, attempts, reservedAt, process, worker, history, budget>>

-----------------------------------------------------------------------------
(* The life of a worker process. *)

\* cmd/worker/main.go up to Run: handlers registered, signal goroutine waiting.
Boot(s) ==
    /\ srv[s] \in {"down", "exited"}
    /\ srv' = [srv EXCEPT ![s] = "created"]
    /\ asked' = [asked EXCEPT ![s] = FALSE]
    /\ UNCHANGED <<now, table, worker, history, budget>>

\* DatabaseServer.Run makes the stop channel and starts the goroutines.
Run(s) ==
    /\ srv[s] = "created"
    /\ srv' = [srv EXCEPT ![s] = "running"]
    /\ pc' = [w \in Worker |-> IF w[1] = s THEN "poll" ELSE pc[w]]
    /\ timer' = [w \in Worker |-> IF w[1] = s THEN now ELSE timer[w]]
    /\ UNCHANGED <<now, table, asked, job, tries, readAt, cause, late, history,
                   budget>>

\* DatabaseServer.Stop, called once by the signal goroutine: a no-op as long
\* as Run has not made the stop channel.
Stop(s) ==
    /\ srv[s] \in {"created", "running"}
    /\ ~asked[s]
    /\ stops < MaxStops
    /\ asked' = [asked EXCEPT ![s] = TRUE]
    /\ srv' = [srv EXCEPT ![s] = IF @ = "running" THEN "stopping" ELSE @]
    /\ stops' = stops + 1
    /\ UNCHANGED <<now, table, worker, history, faults>>

\* Run returns once every goroutine has called wg.Done.
RunReturns(s) ==
    /\ srv[s] = "stopping"
    /\ \A w \in Worker : w[1] = s => pc[w] = "off"
    /\ srv' = [srv EXCEPT ![s] = "exited"]
    /\ UNCHANGED <<now, table, asked, worker, history, budget>>

\* The worker holds a claimed row.
Holding(w) == pc[w] \in {"run", "final"}

\* The goroutines that hold the row of j, at most one of which should.
Holders(j) == {w \in Worker : Holding(w) /\ job[w] = j}

\* The process dies; what its goroutines held stays reserved in the table.
Crash(s) ==
    /\ srv[s] \in {"created", "running", "stopping"}
    /\ faults < MaxFaults
    /\ srv' = [srv EXCEPT ![s] = "down"]
    /\ lapses' = [j \in Job |->
           lapses[j] + Cardinality({w \in Holders(j) : w[1] = s})]
    /\ pc' = [w \in Worker |-> IF w[1] = s THEN "off" ELSE pc[w]]
    /\ job' = [w \in Worker |-> IF w[1] = s THEN None ELSE job[w]]
    /\ tries' = [w \in Worker |-> IF w[1] = s THEN 0 ELSE tries[w]]
    /\ readAt' = [w \in Worker |-> IF w[1] = s THEN 0 ELSE readAt[w]]
    /\ timer' = [w \in Worker |-> IF w[1] = s THEN 0 ELSE timer[w]]
    /\ cause' = [w \in Worker |-> IF w[1] = s THEN "none" ELSE cause[w]]
    /\ late' = {w \in late : w[1] # s}
    /\ faults' = faults + 1
    /\ UNCHANGED <<now, table, asked, executions, oks, overruns, released, stops>>

-----------------------------------------------------------------------------
(* DatabaseServer.worker and processOne. *)

\* The goroutine is in state p until its timer; it has let go of its job.
Idle(w, p, t) ==
    /\ pc' = [pc EXCEPT ![w] = p]
    /\ timer' = [timer EXCEPT ![w] = t]
    /\ job' = [job EXCEPT ![w] = None]
    /\ tries' = [tries EXCEPT ![w] = 0]
    /\ readAt' = [readAt EXCEPT ![w] = 0]
    /\ cause' = [cause EXCEPT ![w] = "none"]
    /\ late' = late \ {w}

\* Mutant of WorkerExit: only the select around the poll timer watches stop.
WorkerExit_WhileSleeping(w) ==
    /\ pc[w] = "poll"
    /\ now < timer[w]
    /\ srv[w[1]] = "stopping"
    /\ Idle(w, "off", 0)
    /\ UNCHANGED <<now, table, process, history, budget>>

\* One of the two selects of worker sees the closed stop channel.
WorkerExit(w) ==
    /\ pc[w] = "poll"
    /\ srv[w[1]] = "stopping"
    /\ Idle(w, "off", 0)
    /\ UNCHANGED <<now, table, process, history, budget>>

\* processOne enters claim, which begins a transaction and reads the clock.
BeginClaim(w) ==
    /\ pc[w] = "poll"
    /\ now >= timer[w]
    /\ srv[w[1]] = "running"
    /\ pc' = [pc EXCEPT ![w] = "claim"]
    /\ readAt' = [readAt EXCEPT ![w] = now + Skew[w[1]]]
    /\ timer' = [timer EXCEPT ![w] = now + ClaimDelay]
    /\ UNCHANGED <<now, table, process, job, tries, cause, late, history, budget>>

\* Mutant of Claimable: a reservation is compared with the clock, not the lease.
Claimable_NoLease(j, t) ==
    /\ status[j] = "queued"
    /\ availableAt[j] <= Unix(t)
    /\ \/ reservedAt[j] = NULL
       \/ reservedAt[j] < Unix(t)

\* The WHERE clause of selectQ, t being the clock that claim has read.
Claimable(j, t) ==
    /\ status[j] = "queued"
    /\ availableAt[j] <= Unix(t)
    /\ \/ reservedAt[j] = NULL
       \/ reservedAt[j] < Unix(t - Lease)

\* ... ORDER BY available_at, created_at LIMIT 1.
Selected(j, t) ==
    /\ Claimable(j, t)
    /\ \A k \in Job : Claimable(k, t) =>
          \/ availableAt[j] < availableAt[k]
          \/ availableAt[j] = availableAt[k] /\ createdAt[j] <= createdAt[k]

\* Mutant of Reserve: the attempt is not counted.
Reserve_Uncounted(w, j) ==
    /\ reservedAt' = [reservedAt EXCEPT ![j] = Unix(readAt[w])]
    /\ UNCHANGED <<status, attempts, maxAttempts, availableAt, createdAt>>

\* updateQ: the row is reserved from the time that claim has read.
Reserve(w, j) ==
    /\ reservedAt' = [reservedAt EXCEPT ![j] = Unix(readAt[w])]
    /\ attempts' = [attempts EXCEPT ![j] = @ + 1]
    /\ UNCHANGED <<status, maxAttempts, availableAt, createdAt>>

\* The transaction commits (FOR UPDATE makes select and update one step) and
\* processOne dispatches the job: it starts the handler under jobTimeout, or
\* goes straight to finish when the task type is not registered.  That finish
\* has no timeout; its timer is what the lease has left for it.  A claim that
\* commits late starts with part of its lease gone.
Claim(w, j) ==
    /\ pc[w] = "claim"
    /\ Selected(j, readAt[w])
    /\ Reserve(w, j)
    /\ job' = [job EXCEPT ![w] = j]
    /\ tries' = [tries EXCEPT ![w] = attempts[j]]
    /\ \/ /\ j \notin Unhandled
          /\ pc' = [pc EXCEPT ![w] = "run"]
          /\ timer' = [timer EXCEPT ![w] = now + JobTimeout]
          /\ executions' = [executions EXCEPT ![j] = @ + 1]
          /\ UNCHANGED cause
       \/ /\ j \in Unhandled
          /\ pc' = [pc EXCEPT ![w] = "final"]
          /\ timer' = [timer EXCEPT ![w] = now + JobTimeout + FinalizeTimeout]
          /\ cause' = [cause EXCEPT ![w] = "unhandled"]
          /\ UNCHANGED executions
    /\ overruns' = [overruns EXCEPT ![j] = IF w \in late THEN @ + 1 ELSE @]
    /\ UNCHANGED <<now, process, readAt, late, oks, lapses, released, budget>>

\* The latest time at which the claim of a holder can have committed.
ClaimedBy(v) == timer[v] - (IF pc[v] = "run" THEN JobTimeout ELSE FinalizeTimeout)

\* No row qualifies, or (on PostgreSQL) the SELECT had to wait for the row that
\* another claim took meanwhile: processOne returns false and the goroutine
\* sleeps.
ClaimNothing(w) ==
    /\ pc[w] = "claim"
    /\ \/ \A j \in Job : ~Claimable(j, readAt[w])
       \/ \E v \in Worker \ {w} :
             Holding(v) /\ ClaimedBy(v) >= readAt[w] - Skew[w[1]]
    /\ Idle(w, "poll", now + PollInterval)
    /\ UNCHANGED <<now, table, process, history, budget>>

\* Mutant of ClaimFails: the error ends the goroutine's loop.
ClaimFails_EndsWorker(w) ==
    /\ pc[w] = "claim"
    /\ \/ srv[w[1]] = "stopping" /\ UNCHANGED faults
       \/ faults < MaxFaults /\ faults' = faults + 1
    /\ Idle(w, "off", 0)
    /\ UNCHANGED <<now, table, process, history, stops>>

\* A statement of claim fails (or Stop has cancelled its context): rollback.
ClaimFails(w) ==
    /\ pc[w] = "claim"
    /\ \/ srv[w[1]] = "stopping" /\ UNCHANGED faults
       \/ faults < MaxFaults /\ faults' = faults + 1
    /\ Idle(w, "poll", now + PollInterval)
    /\ UNCHANGED <<now, table, process, history, stops>>

\* The commit takes effect but its answer is lost: claim returns an error, so
\* nobody executes the reserved row.
ClaimAnswerLost(w, j) ==
    /\ pc[w] = "claim"
    /\ faults < MaxFaults
    /\ Selected(j, readAt[w])
    /\ Reserve(w, j)
    /\ lapses' = [lapses EXCEPT ![j] = @ + 1]
    /\ Idle(w, "poll", now + PollInterval)
    /\ faults' = faults + 1
    /\ UNCHANGED <<now, process, executions, oks, overruns, released, stops>>

\* The goroutine is where nothing in the code makes it go on: in a statement
\* on the server's context, or in a handler, which need not watch its context.
Unbounded(w) == pc[w] \in {"claim", "run"} \/ cause[w] = "unhandled"

\* Its time is over and it is still there.  Stop cancels the server's context
\* and so ends the statements; a handler may go on even then.
Overdue(w) ==
    /\ w \in late
    /\ Unbounded(w)
    /\ pc[w] # "run" => srv[w[1]] = "running"

\* A claim, a handler or the finish of an unregistered task outlives its time.
Overrun(w) ==
    /\ Unbounded(w)
    /\ w \notin late
    /\ now = timer[w]
    /\ faults < MaxFaults
    /\ late' = late \cup {w}
    /\ overruns' = [j \in Job |->
           IF w \in Holders(j) THEN overruns[j] + 1 ELSE overruns[j]]
    /\ faults' = faults + 1
    /\ UNCHANGED <<now, table, process, pc, job, tries, readAt, timer, cause,
                   executions, oks, lapses, released, stops>>

\* runHandler returns, in time or late.  The context it runs under is done from
\* the deadline on and when Stop is called; it may also have ended by itself.
HandlerReturns(w, r) ==
    /\ pc[w] = "run"
    /\ r = "expired" => now >= timer[w]
    /\ r = "cancelled" => srv[w[1]] = "stopping"
    /\ pc' = [pc EXCEPT ![w] = "final"]
    /\ cause' = [cause EXCEPT ![w] = r]
    /\ timer' = [timer EXCEPT ![w] = now + FinalizeTimeout]
    /\ oks' = [oks EXCEPT ![job[w]] = IF r = "ok" THEN @ + 1 ELSE @]
    /\ UNCHANGED <<now, table, process, job, tries, readAt, late, executions,
                   lapses, overruns, released, budget>>

\* Mutant of Finishes: the last attempt is given away.
Finishes_OneEarly(w) ==
    \/ cause[w] \in {"ok", "permanent", "unhandled"}
    \/ tries[w] + 2 >= maxAttempts[job[w]]

\* Mutant of Finishes: a success is not told from a failure.
Finishes_OkRetried(w) ==
    \/ cause[w] \in {"permanent", "unhandled"}
    \/ tries[w] + 1 >= maxAttempts[job[w]]

\* processOne deletes the row instead of releasing it: success, a permanent
\* failure, no handler, or the last attempt.
Finishes(w) ==
    \/ cause[w] \in {"ok", "permanent", "unhandled"}
    \/ tries[w] + 1 >= maxAttempts[job[w]]

\* finish: DELETE ... WHERE id = ?, whoever holds the row by now.
Finish(w) ==
    /\ pc[w] = "final"
    /\ Finishes(w)
    /\ status' = [status EXCEPT ![job[w]] = IF @ = "queued" THEN cause[w] ELSE @]
    /\ Idle(w, "poll", now)
    /\ UNCHANGED <<now, attempts, maxAttempts, reservedAt, availableAt, createdAt,
                   process, history, budget>>

\* release: UPDATE ... WHERE id = ? (no effect when the row is gone).
Release(w) ==
    /\ pc[w] = "final"
    /\ ~Finishes(w)
    /\ LET j == job[w] IN
       /\ reservedAt' = [reservedAt EXCEPT
              ![j] = IF status[j] = "queued" THEN NULL ELSE @]
       /\ availableAt' = [availableAt EXCEPT
              ![j] = IF status[j] = "queued"
                     THEN Unix(now + Skew[w[1]] + RetryDelay[tries[w] + 1])
                     ELSE @]
       /\ released' = [released EXCEPT ![j] = @ \cup {tries[w] + 1}]
    /\ Idle(w, "poll", now)
    /\ UNCHANGED <<now, status, attempts, maxAttempts, createdAt, process, executions,
                   oks, lapses, overruns, budget>>

\* The finalize statement fails and is only logged.  finish of an unregistered
\* task runs on the server's own context, which Stop cancels.
FinalizeFails(w) ==
    /\ pc[w] = "final"
    /\ \/ /\ cause[w] = "unhandled" /\ srv[w[1]] = "stopping"
          /\ UNCHANGED faults
       \/ /\ faults < MaxFaults
          /\ faults' = faults + 1
    /\ lapses' = [lapses EXCEPT ![job[w]] = @ + 1]
    /\ Idle(w, "poll", now)
    /\ UNCHANGED <<now, table, process, executions, oks, overruns, released, stops>>

-----------------------------------------------------------------------------
\* Some row can only be served after time has passed: it is not claimable yet,
\* or a goroutine that could claim it sleeps.
RowWaits ==
    \E j \in Job :
        /\ status[j] = "queued"
        /\ \/ ~Claimable(j, now)
           \/ \E w \in Worker : pc[w] = "poll" /\ now < timer[w]

(***************************************************************************)
(* Time passes, but not beyond a point where a goroutine must have acted:  *)
(* a finalize statement ends with its context, woken goroutines run in     *)
(* bounded time, and where the code sets no bound a goroutine has gone on  *)
(* or is overdue.  MaxTime bounds idle time only: no row is stranded.      *)
(***************************************************************************)
Tick ==
    /\ now < MaxTime \/ RowWaits
    /\ \A w \in Worker :
          /\ pc[w] = "poll" => now < timer[w] + SchedSlack
          /\ pc[w] \in {"claim", "run", "final"} => now < timer[w] \/ Overdue(w)
    /\ now' = now + 1
    /\ UNCHANGED <<table, process, worker, history, budget>>

\* The steps a goroutine takes by itself, faults excluded.
WorkerStep(w) ==
    \/ WorkerExit(w)
    \/ BeginClaim(w)
    \/ \E j \in Job : Claim(w, j)
    \/ ClaimNothing(w)
    \/ \E r \in Result : HandlerReturns(w, r)
    \/ Finish(w)
    \/ Release(w)

WorkerFault(w) ==
    \/ ClaimFails(w)
    \/ \E j \in Job : ClaimAnswerLost(w, j)
    \/ FinalizeFails(w)
    \/ Overrun(w)

ServerStep(s) == Boot(s) \/ Run(s) \/ Stop(s) \/ RunReturns(s) \/ Crash(s)

Next ==
    \/ \E j \in Job, retries \in 0..MaxRetry : Enqueue(j, retries)
    \/ \E s \in Server : ServerStep(s)
    \/ \E w \in Worker : WorkerStep(w) \/ WorkerFault(w)
    \/ Tick

Spec == Init /\ [][Next]_vars

(***************************************************************************)
(* Goroutines are scheduled, time passes, a started process reaches Run    *)
(* and returns from it, and a supervisor starts processes that died or     *)
(* exited again.  Nothing is assumed of clients, signals and faults, and   *)
(* nothing of a goroutine that is overdue: it may stay so for ever.        *)
(***************************************************************************)
Fairness ==
    /\ \A w \in Worker : WF_vars(~Overdue(w) /\ WorkerStep(w))
    /\ \A s \in Server : WF_vars(Boot(s)) /\ WF_vars(Run(s)) /\ WF_vars(RunReturns(s))
    /\ WF_vars(Tick)

FairSpec == Spec /\ Fairness

-----------------------------------------------------------------------------
(* Properties. *)

\* A row is in the hands of one goroutine, and of one more for every hold of it
\* that outlived its time: what the comment on defaultLease asks the lease for,
\* as far as the code, which cannot end a handler, keeps it.
ExclusiveExecution ==
    \A j \in Job : Cardinality(Holders(j)) <= 1 + overruns[j]

\* Unless a hold of the row has overrun, a holder's row exists, is reserved since
\* the holder's own claim and counts the holder's attempt as the last one: the
\* id-only DELETE and UPDATE of finish and release hit the claim they mean to hit.
ClaimIntact ==
    \A w \in Worker : Holding(w) /\ overruns[job[w]] = 0 =>
        /\ status[job[w]] = "queued"
        /\ reservedAt[job[w]] = Unix(readAt[w])
        /\ attempts[job[w]] = tries[w] + 1

\* A handler runs at most maxAttempts times, plus once for every claim that
\* was lost to a crash or to a failed statement and for every overrun:
\* processOne checks the limit only after a handler has returned.
RetryBudget ==
    \A j \in Job : status[j] # "absent" =>
        executions[j] <= maxAttempts[j] + lapses[j] + overruns[j]

\* The queue gives a failing job up only once its attempts are used: together
\* with the lapsed claims, the handler has run maxAttempts times.
NoEarlyGiveUp ==
    \A j \in Job : status[j] \in {"error", "expired", "cancelled"} =>
        executions[j] + lapses[j] >= maxAttempts[j]

\* A handler that has succeeded is not invoked again, unless the DELETE that
\* should have followed a success was lost; each overrun may add one success.
OneSuccess == \A j \in Job : oks[j] <= 1 + lapses[j] + overruns[j]

(***************************************************************************)
(* The inductive invariant behind them.                                    *)
(***************************************************************************)

\* Goroutines live only inside Run.
OffOutsideRun ==
    \A w \in Worker : srv[w[1]] \notin {"running", "stopping"} => pc[w] = "off"

\* The timer of w lies within the lease that its claim started.
TimerFits(w) ==
    /\ pc[w] = "claim" => timer[w] <= readAt[w] + ClaimDelay
    /\ pc[w] = "run" => timer[w] <= readAt[w] + ClaimDelay + JobTimeout
    /\ pc[w] = "final" =>
          timer[w] <= readAt[w] + ClaimDelay + JobTimeout + FinalizeTimeout

\* Every deadline is at most the claim's clock reading plus the time the code
\* (and ClaimDelay) allow, and only those who are late have passed theirs.
WithinLease ==
    \A w \in Worker :
        /\ pc[w] \in {"claim", "run", "final"} =>
              readAt[w] <= now + MaxSkew /\ (w \notin late => now <= timer[w])
        /\ w \notin late => TimerFits(w)

\* A holder's job has a handler unless it is about to be dropped for want of one.
HolderShape ==
    \A w \in Worker : Holding(w) =>
        /\ job[w] \in Job
        /\ pc[w] = "run" => job[w] \notin Unhandled
        /\ pc[w] = "final" => cause[w] # "none"
        /\ pc[w] = "final" => (cause[w] = "unhandled" <=> job[w] \in Unhandled)

\* Every holder's attempt has a number of its own, which no release has used; a
\* row is reserved since the latest claim or free.
Attempts ==
    \A w \in Worker : Holding(w) =>
        /\ status[job[w]] # "absent"
        /\ tries[w] + 1 <= attempts[job[w]]
        /\ tries[w] + 1 \notin released[job[w]]
        /\ tries[w] + 1 = attempts[job[w]] =>
              reservedAt[job[w]] \in {NULL, Unix(readAt[w])}
        /\ \A v \in Worker \ {w} :
              Holding(v) /\ job[v] = job[w] => tries[v] # tries[w]

\* The row is reserved by the claim of w, whose time is not over.
Guarding(w) ==
    /\ w \notin late
    /\ status[job[w]] = "queued"
    /\ reservedAt[job[w]] # NULL
    /\ tries[w] + 1 = attempts[job[w]]

\* The holders whose row somebody else may claim, or has claimed.
Strays(j) == {w \in Holders(j) : ~Guarding(w)}

\* Each goes back to an overrun: its own, or that of a holder who released the
\* row that this one had claimed by then.
StraysPaid == \A j \in Job : Cardinality(Strays(j)) <= overruns[j]

\* What the row of j says of the claims made on it so far.
AttemptAccount(j) ==
    /\ status[j] = "absent" =>
          /\ attempts[j] = 0 /\ maxAttempts[j] = 0 /\ reservedAt[j] = NULL
          /\ executions[j] = 0 /\ oks[j] = 0 /\ lapses[j] = 0
          /\ overruns[j] = 0 /\ released[j] = {}
    /\ status[j] # "absent" => maxAttempts[j] \in 1..(MaxRetry + 1)
    /\ \A n \in released[j] : n \in 1..attempts[j] /\ n < maxAttempts[j]
    /\ status[j] = "queued" =>
          attempts[j] <= Cardinality(released[j]) + lapses[j] + Cardinality(Holders(j))
    /\ attempts[j] <= maxAttempts[j] + lapses[j] + overruns[j]
    /\ executions[j] <= attempts[j]
    /\ j \notin Unhandled => attempts[j] <= executions[j] + lapses[j]
    /\ status[j] \in {"error", "expired", "cancelled"} =>
          j \notin Unhandled /\ maxAttempts[j] <= attempts[j]

\* The holders that have not failed: each may still be, or already is, a success.
Hopeful(j) == {w \in Holders(j) : pc[w] = "run"}
Succeeded(j) == {w \in Holders(j) : pc[w] = "final" /\ cause[w] = "ok"}

\* As long as the row is there, a success beyond the lapses is one whose DELETE is
\* still to come.
SuccessAccount(j) ==
    /\ oks[j] + Cardinality(Hopeful(j)) <= 1 + lapses[j] + overruns[j]
    /\ status[j] = "queued" => oks[j] <= lapses[j] + Cardinality(Succeeded(j))

Accounts == \A j \in Job : AttemptAccount(j) /\ SuccessAccount(j)

IInv ==
    /\ TypeOK
    /\ OffOutsideRun
    /\ HolderShape
    /\ WithinLease
    /\ Attempts
    /\ StraysPaid
    /\ Accounts
    /\ ClaimIntact

(***************************************************************************)
(* The queue keeps its contract: the row is the task, the goroutines that  *)
(* hold the row its executors.                                             *)
(***************************************************************************)
PhaseOf(j) == IF status[j] \in {"absent", "queued"} THEN status[j] ELSE "done"

Contract == INSTANCE TaskContract WITH
    Task <- Job, Executor <- Worker, MaxAllowance <- MaxRetry + 1,
    phase <- [j \in Job |-> PhaseOf(j)],
    holders <- [j \in Job |-> Holders(j)],
    allowance <- maxAttempts, grants <- attempts, losses <- lapses,
    overstays <- overruns

\* Every behaviour of the table and its goroutines is one of the contract.
KeepsContract == Contract!ContractSpec

-----------------------------------------------------------------------------
(* Liveness. *)

\* Every enqueued job is eventually deleted for one of the reasons the code
\* knows, whatever (finitely many) crashes, failed statements and overruns
\* occur, unless some goroutine is overdue for ever.
EveryJobResolved ==
    (\A w \in Worker : []<>~Overdue(w)) =>
        \A j \in Job : status[j] = "queued" ~> status[j] \in Outcome

\* A Stop that reaches a running server makes Run return, even with handlers in
\* flight, unless one of them goes on for ever after its context is done:
\* wg.Wait has no timeout.
StopEndsRun ==
    \A s \in Server :
        (\A w \in Worker : w[1] = s => []<>~Overdue(w)) =>
            (srv[s] = "stopping" ~> srv[s] \in {"exited", "down"})
=============================================================================
