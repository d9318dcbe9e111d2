# Formal models of go-project-starter

This directory holds TLA+ models of the parts of the repository in which
processes, requests and database statements interleave, TLC configurations that
check them on small instances, and TLAPS proofs of the properties that matter
most, for every value of the constants. Paths below are relative to the
repository's root; `database.go:227` and the like name lines of it.

Contents: [the system](#1-the-system) · [plan](#2-plan) ·
[JobQueue](#3-jobqueue) · [Sessions](#4-sessions) ·
[VerificationCodes](#5-verificationcodes) · [Accounts](#6-accounts) ·
[RBAC](#7-rbac) · [RateLimits](#8-ratelimits) · [Media](#9-media) ·
[Scheduler, PubSub, Pipeline](#10-scheduler-pubsub-and-pipeline) ·
[SmtpPool](#11-smtppool) · [proofs](#12-proofs) ·
[disagreements found](#13-disagreements-between-documents-and-code) ·
[what is not modelled](#14-what-is-not-modelled) · [running](#15-running-the-checks)

| Module | Extends | What it is |
|---|---|---|
| `TaskContract` | | what `internal/application/queue` promises, whatever the driver |
| `JobQueue` | instantiates `TaskContract` | the database driver: table, worker processes, goroutines, clocks |
| `JobQueueProofs` | `JobQueue` | the inductive invariant and safety; `JobQueue` implements `TaskContract` |
| `Sessions`, `SessionProofs` | | refresh-token rotation, session cap, revocation, denylist; its proofs |
| `VerificationCodes`, `CodeProofs` | | one-time codes and magic links; its proofs |
| `Accounts`, `AccountsProofs` | | user rows, contact changes, MFA, the ways to a session; its proofs |
| `RBAC`, `RBACProofs` | | roles, permissions and the versioned permission cache; its proofs |
| `CacheContract` | | what `internal/application/cache` promises, whatever the driver |
| `RateLimits` | instantiates `CacheContract` | the four cache drivers under the limiters and the MFA challenge |
| `RateLimitProofs` | `RateLimits` | the limit and single redemption; `RateLimits` implements `CacheContract` |
| `Media`, `MediaProofs` | | rows of media and the objects they stand for; its proofs |
| `Scheduler` | | cron expressions and the goroutines that run the jobs |
| `PubSub` | | the four publish/subscribe drivers |
| `Pipeline` | `Scheduler`, `PubSub` | the scheduled job that publishes to the subscribers |
| `SmtpPool` | | the connection pool of the SMTP driver |
| `PlatformProofs` | `Pipeline`, `SmtpPool` | the proofs of both, which share nothing but the module |
| `MC…` | each its module | constant values for TLC |

`PROJECT.json` lists the components, the runs, for every definition the lines of
code it stands for, for every property a mutation of the code that breaks it,
and the hazards of the code with the properties that cover each. The mutated
forms stand before the definitions they change, as `Definition_Change`; nothing
else uses them.

## 1. The system

A modular monolith in Go. `cmd/` builds the binaries: `api` and `web` (HTTP),
`worker` (queue), `scheduler` (periodic tasks), `subscriber` (messages),
`migrate` and `seed`. They share one database (MySQL or PostgreSQL, with an
optional read replica), a cache (memory, Redis or a database table), a queue
(Redis through asynq, or a database table) and an object store. **No use case
runs in a transaction**: a request is a sequence of single statements, and
statements of other requests run in between. That is where nearly everything
hard about this code comes from.

### Components

**Database job queue** (`internal/platform/queue/database.go`, `cmd/worker`).
*State*: the table `queue_jobs`; in each worker process a stop channel and
`concurrency` goroutines. *Operations*: Enqueue, Run, Stop, claim, processOne,
finish, release. *Interaction*: any module enqueues; any number of worker
processes, on hosts with clocks of their own, claim from the same table.
*Hard*: leases against running handlers; crashes between statements; answers
lost after the commit; attempts counted at the claim and judged after the
handler; shutdown with handlers in flight; handlers that nothing can end.
*Correct when*, as long as no handler outlives the lease: one executor per job;
finalizing statements hit the claim they mean; no failing job given up early, no
unbounded retry; every job resolved in the end; Stop ends Run. When one does, the
damage is bounded by the number of such overruns. — **modelled**

**Sessions and refresh tokens** (`internal/modules/auth/application/command`:
`issuer.go`, `refresh.go`, `logout.go`, `session_revoke.go`,
`change_password.go`, `denylist.go`). *State*: `refresh_tokens` (rows grouped
into families), denylist entries in the cache. *Operations*: issuing, rotation
with reuse detection, session cap, logout, revocation of one session or all of
them, password change. *Interaction*: HTTP requests of the same user overlap;
queries may be answered by a replica. *Hard*: rotation against revocation;
check-then-act in the cap; stale lookups; a denylist entry that must outlive its
token. *Correct when*: a token is exchanged once; what was signed out stays so;
the cap holds; nobody ends another user's session. — **partly modelled**

**Verification codes, OTP and magic links** (`verify.go`,
`issue_verify_code.go`, `process_*.go`, `verify_*.go`, `reset_password.go`,
`magic_link_verify.go`). *State*: `verification_codes`. *Operations*: void and
issue, look up, count a failed attempt, consume. *Interaction*: requests issue
contact codes; queue workers issue reset codes and links; requests check them.
*Hard*: concurrent guesses, concurrent right answers, codes voided between the
lookup and the use, a lookup on a stale replica. *Correct when*: single use, the
attempt budget holds, a voided code is dead, the right code works otherwise. —
**partly modelled**

**User records, contact changes and MFA** (`register.go`, `update_profile.go`,
`verify_*.go`, `*_totp.go`, `login.go`, `domain/user.go`). *State*: `users`,
`pending_contact_changes`, `user_recovery_codes`, challenges in the cache.
*Operations*: eleven use cases that read a row, work on the copy and write it
back. *Hard*: the whole row is written from an earlier read; a contact change
consumes two codes one after the other; MFA is decided on a row that may have
changed. *Correct when*: sessions go only to those who showed a second factor
where one was due; MFA is enforced only with a secret of which a code was
accepted and with recovery codes stored; a verified address was proved; a
recovery code works once. — **partly modelled**

**RBAC and permission cache** (`internal/modules/rbac`). *State*: roles,
permissions and the three link tables; cached answers under a version key.
*Hard*: a fill that read before a mutation and stores after the version was
bumped; three queries per answer; `revoke_role.go` counts the remaining
administrators before it deletes. *Correct when*: answers are no older than the
newest bump; nobody gets super_admin but from a holder; a holder remains. —
**partly modelled**

**Rate limiting and cache drivers** (`login.go`, `internal/platform/http`,
`internal/platform/cache`: memory, Redis, database on MySQL or PostgreSQL).
*State*: entries with expiry. *Hard*: Increment and Expire are two calls; row
locks that cover different things on the two databases. *Correct when*: no more
than the limit passes in a window; nobody is refused without cause; a challenge
is redeemed once. — **partly modelled**

**Media service and object storage** (`internal/platform/media`, `storage`).
*State*: table rows and stored objects. *Hard*: two stores written one after the
other, on a context the client can cancel. *Correct when*: a row leads to the
whole object, an object without a row has a known cause, what is removed stays
removed. — **partly modelled**

**Scheduler** (`internal/platform/schedule`, `cmd/scheduler`). *State*: per job a
parsed expression and a goroutine; a done channel. *Hard*: wall-clock times that
repeat, late timers, Stop before, during and after Run. *Correct when*: a job
runs exactly in the minutes its expression allows, once in each; Stop ends Run
and nothing runs after it. — **modelled**

**Publish/subscribe** (`internal/platform/pubsub`, `cmd/subscriber`). *State*:
subscriptions, queues, offsets, publisher confirms. *Hard*: a confirm that
arrives after its timeout; crashes between handling and acknowledging; links that
go away. *Correct when*: what was confirmed is not lost where the driver is
durable, order is kept, only a restart repeats a message. — **partly modelled**

**Homepage pipeline** (`internal/modules/homepage/adapter`). The one composition
of the two: the tick job publishes, the subscriber logs. — **modelled**

**SMTP mail driver** (`internal/platform/mailer/smtp.go`). *State*: a channel of
free connections, an atomic count, a closed flag. *Hard*: check-then-add; every
path that gives a connection up must count it out; Close against senders that
dial; exchanges with the server without a deadline. *Correct when*: the count is
exact, a connection has one owner, a message is sent once, every Send ends to
which the server answers. — **modelled**

**The rest** – the asynq driver; other mail drivers, SMS and views;
configuration, database and logging setup; tokens, hashes, ids and OTP
generation; HTTP servers and routing; the audit recorder. Input/output,
formatting or cryptography with no protocol of their own. — not modelled

### How they interact

```
 HTTP request ── use case ──► users, refresh_tokens, verification_codes   (primary)
      │             │   └───► lookups                                    (replica?)
      │             ├───────► cache: denylist, counters, challenges, permission sets
      │             ├───────► media rows ── object store
      │             └───────► Enqueue ─► queue_jobs ─► worker ─► use case ─► SMTP pool
 scheduler ── tick ── Publish ─► broker ─► subscriber
```

The queue is the hub: `auth` enqueues deliveries and whole use cases
(`process_forgot_password.go`, `process_magic_link.go`), which the worker may
execute more than once. `TaskContract` states what such a handler may rely on.

## 2. Plan

The order was by how much other code depends on the part, then by how hard it is
to test. All of it is written; what is left is proof.

| # | Module | Composes / refines | Worth having | Done |
|---|---|---|---|---|
| 1 | `JobQueue` | implements `TaskContract` | exclusive execution, attempt accounting, resolution | checked; safety and refinement proved |
| 2 | `Sessions` | | single rotation, revocation for good | checked; proved |
| 3 | `VerificationCodes` | | single use, attempt budget, right codes work | checked; proved |
| 4 | `RBAC` | cache over five tables and a replica | fresh answers, no escalation | checked; proved |
| 5 | `Accounts` | users, MFA, contact changes, sign-in | second factor, proved addresses | checked; proved |
| 6 | `RateLimits` | two limiters over four drivers; implements `CacheContract` | the limit, single redemption, atomic operations | checked; proved |
| 7 | `Media` | | rows, objects, removals | checked; proved |
| 8 | `Scheduler`, `PubSub`, `Pipeline` | composition of the two | timetable, order of delivery, confirmed messages, shutdown | checked; safety proved |
| 9 | `SmtpPool` | | count, ownership, shutdown | checked; safety proved |

With that every safety property of the runs is proved, both refinements among
them. Next would be the parts that section 14 leaves out.
Every module is written without recursive operators, so that it can be proved
about. Runs are few and each has a question of its own.

## 3. JobQueue

### State and actions

A row of `queue_jobs` is one value of each of the functions `status`,
`attempts`, `maxAttempts`, `reservedAt`, `availableAt`, `createdAt`; `status` is
`"queued"` while the row exists and the reason of its deletion afterwards. `srv`
is the state of a process, `asked` whether it has got its signal; `pc`, `job`,
`tries`, `readAt`, `timer`, `cause` are the locals of a goroutine (`Worker ==
Server \X Slot`), `late` those that have passed their timer. `now` is real time; the clock of process `s` reads
`now + Skew[s]`, and stored times are whole seconds (`Unix`).

| Code | Action |
|---|---|
| `Enqueue` | `Enqueue` |
| `cmd/worker/main.go`, `Run` (makes the stop channel, starts goroutines, waits) | `Boot`, `Run`, `RunReturns` |
| `Stop` (a no-op before `Run`, closes the channel after) | `Stop` |
| loop of a goroutine: select on stop or timer, `time.Now()` of `claim` | `WorkerExit`, `BeginClaim` |
| `claim`: SELECT … FOR UPDATE, UPDATE, COMMIT | `Claim`, `ClaimNothing`; with a failure `ClaimFails`, with the answer lost after COMMIT `ClaimAnswerLost` |
| `processOne`: the handler under `jobTimeout`, panics recovered | `HandlerReturns` |
| `finish` (success, permanent error, attempts used, no handler), `release` with backoff | `Finish`, `Release`, `FinalizeFails` |
| a claim, a handler or an undeadlined `finish` that outlives its time | `Overrun` |
| the death of a process | `Crash` |
| time | `Tick` |

`claim` is one action because its statements run in one transaction with the row
locked; the time between reading the clock and committing is kept
(`BeginClaim`/`Claim`), since the lease is counted from the former. A second claim
waits for the row and, on PostgreSQL, then finds nothing (`ClaimNothing`).

**Overruns.** What the code bounds is little: the finalizing statement after a
handler has a context of 5 s (`database.go:201`). It does not bound

- the handler: `runHandler` is an ordinary call (`:195`); at `jobTimeout`, or when
  Stop is called, its context is cancelled, and nothing else happens. The mail
  handlers of this repository (`adapter/queue/handler.go:30`, `73`, `122`) end in
  `smtp.go:221-255` and `306`, which know neither context nor deadline;
- `claim`, and the `finish` of a task without a handler (`:188`): both run on the
  context of the server, which has no deadline and which Stop cancels.

So `timer` says when one of these *ought* to be through, and it may then either
have gone on or become overdue: `Overrun`, counted as a fault and in `overruns` for
the job that is held. An overdue goroutine (`Overdue`) lets time pass it by,
returns at any later moment with any result, or never; only claim and `finish` end
when Stop cancels their context. A claim that commits late starts its hold
overdue. What follows in the code follows in the model: the lease ends, another
goroutine executes the job, and whoever is first to finish or release does so to
the row of the other, since those statements name it by id only. By that last
step one overrun can be handed on: a late release frees a row that a second
goroutine holds, and a third may claim it. That is why the properties count all
overruns a job has had, not those in progress.

### Runs

| Run | Instance | Question |
|---|---|---|
| `JobQueueSafety` | 2 processes × 1 goroutine, 1 job with 2 attempts, skew, 2 ticks a second, 2 faults (overruns among them) | claims that race across the lease and holds that outlive it: `ExclusiveExecution`, `RetryBudget`, `OneSuccess`, the inductive `IInv` (with `TypeOK`, `ClaimIntact` and the accounts that give `NoEarlyGiveUp`), and the refinement `KeepsContract` |
| `JobQueueLiveness` | 1 goroutine, a job with and one without a handler, 1 fault, 1 shutdown | `EveryJobResolved`, `StopEndsRun` under fairness |

What each property says when something overruns, and so under which condition it
is the plain promise:

| Property | With overruns | Without |
|---|---|---|
| `ExclusiveExecution` | one holder of a row, and one more for each overrun it has had | one holder |
| `RetryBudget` | executions within attempts + lost claims + overruns | attempts + lost claims |
| `OneSuccess` | successes within 1 + lost claims + overruns | 1 + lost claims |
| `KeepsContract` | an executor that overstays lets one more in (`Overstay`) | `TaskContract` in the strict sense |
| `EveryJobResolved` | if no goroutine stays overdue for ever | the same, unconditionally |
| `StopEndsRun` | if no goroutine of that process does | the same, unconditionally |

`NoEarlyGiveUp`, inside `IInv`, holds either way; `ClaimIntact` speaks of rows that
have had no overrun.

**Bounds.** Two claimants of one row are enough for any violation of exclusion: a
third only repeats the second. Two faults are an overrun together with what it
meets – a crash, a lost answer, a failed statement or another overrun. Shutdowns
are left to the liveness run, where one catches a process with a job in hand or a
job without a handler, whose DELETE is on the context that Stop cancels; the
safety theorems hold for any number of them. In `JobQueueSafety` the lease is
exactly `ClaimDelay + JobTimeout + FinalizeTimeout + MaxSkew`, the tightest for
which the theorems hold; in `JobQueueLiveness` everything is due at once and the
lease is one tick, since there the question is who waits for whom, not for how
long. `MaxTime = 0` bounds idle time only: as long as a row waits for time, time
goes on, so no behaviour is cut short. Deadlock checking is off because every job
may be done, every process stopped, and one goroutine overdue for ever.

**Fairness** (`Fairness`): a goroutine that is not overdue is scheduled, time passes,
a started process reaches `Run` and leaves it when its goroutines have ended (Go's
scheduler and `sync.WaitGroup`), and a supervisor starts a process again that died
or that has exited, cleanly stopped ones included: a job enqueued between the last
stop and the next start is resolved only then. Nothing is assumed of clients,
signals or faults, and nothing of an overdue goroutine. There is no fairness
between two rows: `claim` takes the oldest available one, which the model keeps.

**The lease assumption.** `LeaseCoversJob` says the lease covers the claim, the
handler, the finalizing statement and the clock skew, each within the time meant
for it. In the code that is 360 s ≥ 300 s + 5 s + `ClaimDelay` + skew, so 55 s are
left for the commit of a claim and the difference between clocks. The theorems are
conditional on it: it makes every hold that ends in time end before its lease. A
hold that does not is an overrun, whatever the lease.

The comment at `database.go:28` says that a job whose handler expires is released
and claimed again after the lease; the code releases it at once, with backoff, or
deletes it on its last attempt. The model follows the code.

## 4. Sessions

### State and actions

Rows, access tokens and families are named by the request that created them: a
request creates at most one row, and a login starts one family. `row` is
`refresh_tokens` on the primary and `copy` what the replica shows; `View` is what
a query sees (`base.r()`); `denied[t]` is when the denylist entry of `t` ends. The
locals of a request are functions of the request, and `pc` says which statement
comes next.

| Code | Actions |
|---|---|
| `TokenIssuer.Issue`: `enforceSessionCap`, mint, save | `Login`, `EnforceSessionCap`, `Mint`, `Save` |
| `Refresh.Execute`: lookup, checks, `RevokeByIDIfActive`, then issue or revoke the family | `Refresh`, `Rotate`, `Mint`, `Save` |
| `Logout.Execute`, `SessionRevoke`, `ChangePassword` | `Logout`, `SessionRevoke`, `ChangePassword` |
| `revokeFamily`, `RevokeByUserID`: list the ids, deny each, revoke the rows | `ReadJtis`, `Deny`, `RevokeRows` |
| failure of a statement, death of the process | `Fail`; of a cache write, inside `Deny`, which the code only logs |
| replica, clock | `Replicate`, `Tick` |

Every statement is an action, so that every other request may run between any
two of one request.

### Runs

| Run | Instance | Question |
|---|---|---|
| `SessionsReplica` | 2 users, 3 requests at once, 1 failure, a lagging replica, tokens that expire | `RotatedOnce`, `SignedOutTokensRejected`, `EndedStaysEnded` and the inductive `SessionInv` (with `TypeOK` and `OneLiveToken`) under any overlap and with stale lookups |
| `SessionsSerial` | 1 user, 5 requests one after the other, 1 failure | what holds without overlap: `SessionCap`, `PasswordChangeSignsOut`, `ReuseRevokesFamily` |

**Bounds.** Three requests in flight are one that opens a session and two that
fight over it; in either of two accounts, so that one user may hold a token or
name a family of the other. With `MaxSessions = 2` in five serial requests the
cap evicts and is reached again. That no request revokes a row of another user
(`OwnSessionsOnly`) is proved and has no run.
`SessionsSerial` stays below the expiry of refresh tokens: at the very instant of
expiry `IsExpired` (`now > expires_at`) still takes a token that
`ListActiveFamilies` (`expires_at > now`) no longer counts. The clock's tick is
far coarser than the code's, so that would show an overlap of one microsecond as
if it lasted. The theorem `SessionsAreCapped` names that instant instead
(`RefreshesInTime`) and lets everything else expire. Requests are interchangeable, hence `SYMMETRY`; deadlock checking
is off because every request may be done.

What `Sessions` leaves arbitrary: which of several equally old sessions the cap
evicts, in which order ids are denied, and when the replica catches up (it
catches up at once, whole; a replica that applies transactions in order is at a
past state of the primary, and any such state is reached by replicating then).

## 5. VerificationCodes

### State and actions

The rows of one user (every statement names the user, or the hash of one link).
A code is named by the request that issued it. `row`, `attempts`, `madeAt` are the
columns; `copy`, `copied` the replica's picture; `target` the code a lookup
returned. `Kind` is a set of ⟨purpose, channel⟩ pairs, which decides what an issue
voids (`InScope`): contact codes void their own channel, the others their purpose
on every channel.

| Code | Action |
|---|---|
| `issueCode` / `ProcessForgotPassword`, `ProcessMagicLink` in a worker | `IssueOtp` / `IssueByWorker`, then `Void`, `Make`, `Save` |
| `VerifyEmail`, `VerifyPhone`, `ResetPassword` to the verdict of `validateCode` | `Check` |
| `MagicLinkVerify` | `CheckLink` |
| `IncrementAttempts` | `Count` |
| `Consume` | `Consume` |
| failures, replica, clock | `Fail`, `Replicate`, `Tick` |

`Make` is separate from `Save` because the creation time, by which the newest code
is chosen, is read before the row exists. `Save` is the INSERT
together with the delivery; a failed delivery leaves a code nobody has.

### Run

`VerificationCodes`: four requests, two at once, three kinds (e-mail and phone
verification, which must not void each other, and links, which have no channel),
a lagging replica, expiry, one failure, one attempt. It checks `CodeInv` (with
`TypeOK`), `SingleUse`, `AttemptBudget` and `RightCodeWorks`.

**Bounds.** Four requests are two issues and two guesses: enough for a code to be
voided between lookup and use, for two guesses to race for one attempt, and for
two right answers to race for one code. That a voided code is never accepted
(`NoVoidedCodeAccepted`) is proved and has no run. The budget of one attempt is the tightest;
for other budgets there is the proof.

What the properties do *not* say: `AttemptBudget` counts answers that a guess was
a plain mistake. A guess whose increment finds the budget spent is answered with
"too many attempts", but it has been compared with the code before, and a right
guess among the late ones is accepted. Two issues that overlap both void before
either saves, and leave two active codes; the newer one is found. No document
says there is only one.

## 6. Accounts

### State and actions

`users[u]` is a row (`contact`, `verified` by channel; `active`; `secret`,
`confirmed`); `pending` the open contact changes, oldest first; `code[u][ch]` and
`oldCode[u][ch]` where the active code for the new and for the old address was
sent; `recovery`, `challenge`, `mailed` the recovery codes, MFA challenges, reset
codes and links. `req[p]` holds the locals of a request, among them the row it
has read. E-mail and phone run through the same actions, with the channel as a
parameter: `verify_email.go` and `verify_phone.go` are line for line the same.

| Code | Actions |
|---|---|
| `Register` | `Register`, `SaveUser`, `IssueCode` |
| `UpdateProfile` | `UpdateProfile`, `CheckTaken`, `CheckPromised`, `SavePending`, `IssueCode`, `IssueOldCode`, `WriteProfile` |
| `VerifyEmail`, `VerifyPhone` with `applyPending` | `Verify`, `ReadOwner` or `ReadHolder`, `ConfirmOld`, `ConfirmNew`, `ApplyContact`, `MarkApplied` |
| `ChangePassword`, `ResetPassword` | `ChangePassword`, `ResetPassword`, `ConfirmReset`, `WritePassword` |
| `SetupTOTP`, `ConfirmTOTP`, `DisableTOTP` | `SetupTOTP`, `StageTOTP`; `ConfirmTOTP`, `SaveAll`, `EnableTOTP`; `DisableTOTP`, `Consume`, `ClearTOTP`, `DeleteAll` |
| `Login`, `MagicLinkVerify`, `VerifyMFA` | `Login`, `MagicLinkVerify`, `ConsumeLink`, `IssueChallenge`, `VerifyMFA`, `Redeem`, `Consume`, `Issue` |
| `users.Update` | `Update`, which writes the whole row the request read and changed; `UpdateRefused` on a unique index |
| a failed statement, a process that dies | `Fail`, between any two statements that write |
| an operator's SQL | `Suspend` |

### Run

`Accounts`: three requests of any of the eleven use cases, two at a time, two
users, two addresses, one channel. It checks

- `AccountsInv`, which is inductive: types; MFA is enforced only with a secret
  of which a code was accepted (`OnlyValidatedSecrets`), and with recovery codes
  stored unless writers of that row overlapped (`NoLockIn`); and what these, the
  second factor and the confirmation of changes rest on: what the copies in the
  hands of requests say (`SecretsInHand`, `UnlessRaced`, `Admitted`), that sets of
  recovery codes are not reused (`FreshSets`), that a pending change and its codes
  agree (`ChangesKnown`, `OneChange`);
- `VerifiedWasProved`, `OldAddressConfirms`: what stands behind a verified
  address, and what it takes to replace one;
- `SessionJustified`: nobody gets a session who at no moment of the request was
  entitled to one, and no recovery code justifies two.

**Bounds.** Three requests are the two that cross and the one that shows the
damage: a setup, a confirmation and a login; a change, a second change and a
verification. Two addresses are an old one and a new one, and either may be the
other user's. The users start without an account, or with one that registered
with one address, verified it or not and went through MFA activation or not, so
that those requests need not be counted. Deadlock checking is off since requests
end.

Two simplifications: a user registers with one address, while `register.go` takes
an e-mail and a phone number together (`:83-96`, two lookups, one insert, then a
code for each, `:128-146`), which would be the steps shown here once per channel;
and voiding the old code and saving the new one are one step `IssueCode`, while
`issue_verify_code.go:25-38` makes them two statements, so that issues that overlap
may leave two active codes. `VerificationCodes` has the two statements; here a code
counts for the address it was sent to.

The exceptions in the properties are where the code lets go, and each is a
behaviour of the model: `superseded` are users with two contact changes open,
`raced` those whose rows two requests wrote at once. Section 13 says what
happens to them.

## 7. RBAC

### State and actions

`log` is the sequence of committed states of the five tables and `applied` the
one a query sees, so that a lagging replica is a position in the log. `version` is
`rbac:ver`, `entry[u]` the cached answer for `u` with the version in its key.
`req[p]` and `chk[c]` are the locals of a use case and of a check.

| Code | Actions |
|---|---|
| `AssignRole`, `RevokeRole` | `AssignRole`, `AuthorizeSuperAdminGrant`; `RevokeRole`, `HoldsSuperAdmin`, `CountHolders` |
| `GrantPermission`, `RevokePermission`, `Create…`, `Update…`, `Delete…`, `Bootstrap` | an action of that name for the lookups |
| `SyncRolePermissions` | `SyncRolePermissions`, `FindPermission`, `MakePermission`, `AllEnsured`, `SetPermissions` |
| the repositories' statements, with foreign keys, unique keys and cascades | `InsertUserRole` … `PermissionSave` |
| `bumpBestEffort`, `bumpChecked` | `Bump`, `BumpFails`, the retry included |
| `PermissionCache.CurrentVersion`, `GetUser`, `GetUser.load`, `SetUser` | `CurrentVersion`, `GetUser`, `LoadRoles`, `LoadDirect`, `LoadInherited`, `SetUser`, `SetUserFails`, `Answer` |
| failures, ttl, replica | `RequestFails`, `Expire`, `Replicate` |

Links name rows, not codes: a role is its `RowId`, so a role deleted and created
again under the same code is a different one, and a write that names the old id
is refused by the foreign key.

### Run

`RBAC`: two requests of any of twelve use cases and one check, two users,
super_admin and one other role, one permission, a replica that lags, one failure.
It checks `RBACInv`, `AnswersAreFresh` and `NoEscalation`. `RBACInv` is inductive:
types; a super_admin remains (`AdminRemains`); a grant of super_admin is under way
only for a caller who held it (`Justified`); cache entries and half-loaded checks
agree with some state since the version they go by (`VersionDates`,
`EntriesAgree`, `LoadsAgree`).

**Bounds.** `AnswersAreFresh` is broken by a mutation and a fill that cross, or by
a mutation between the queries of a fill; a second request puts another bump
or another mutation in between. The role that is not protected can be renamed,
deleted and made again. One user is `Watched` by the checks; users are
interchangeable otherwise. `Founders` starts the model with the other user as the
only super_admin, or with both. `AdminRemains` excepts revocations that overlap
(`raced`).

`AnswersAreFresh` compares with what *queries* could see since the newest bump
that succeeded before the check began, not with the primary: with a replica the
code cannot promise more, because the fill after the bump reads the replica, and
what it stores there lives until the next bump or the entry's ttl.

## 8. RateLimits

### State and actions

`item[k]` is the entry of a key, `exclusive[k]` and `shared[k]` its row locks,
`client[c]` what a handler is doing.

| Code | Actions |
|---|---|
| `Increment` of memory and Redis | `IncrementInPlace` |
| `Increment` of the database: insert-ignore, SELECT … FOR UPDATE, write and COMMIT | `Seed`, `ReadForUpdate`, `CommitIncrement`; `Deadlock` on MySQL |
| `Expire` after the first increment; its failure | `ApplyWindow`, `WindowLost` |
| `rateLimiter.Check`, `RateLimitByIP` | the verdict in `AfterCheck`, `Counted` |
| `rateLimiter.Reset` | `Reset` |
| `mfaChallenges.issue`, `take`: `Set`, `GetDelete` | `IssueChallenge`; `TakeInPlace`, or `TakeRead`, `TakeDelete` |
| death, loss of the database; time | `Fail`, `Tick` |

What a row lock covers is the difference between the two databases, and it is
modelled from their documented behaviour: InnoDB locks the row it reads even if
the row does not match, and takes a shared lock when an insert meets a duplicate;
PostgreSQL (read committed) locks the rows that match, and an
`ON CONFLICT DO NOTHING` locks none.

`CacheContract` is what a module that uses the cache may think it has: each
operation changes one entry at one instant, whoever else uses the cache. Two
entries are enough, one that is counted and one that is to be taken once; at the
instant of its expiration a driver may take an entry for alive or not, as memory
and the others do. `GetDelete` may end later than it begins (`Find`), but who has
found the entry is alone with it. `exact` is what the contract has to ask about a
driver: PostgreSQL is not, and the contract then allows an `Increment` to start
the counter again (`StartAgain`, the behaviour of section 13), and nothing else.
`RateLimits` maps to it by what the database has committed: a counter that its
transaction has inserted is not there yet (`CommittedCounter`), the answer of an
`Increment` is what the handler holds until its `Expire` (`Answers`), and who is
between the locking read and the DELETE has found the challenge (`Takers`).

### Runs

| Run | Instance | Question |
|---|---|---|
| `RateLimits` | 2 handlers, 4 drivers, limit 2, window 2, 5 attempts, clock to 4, 1 failure | the inductive `LimiterInv` (types, `RefusedOnlyWhenBusy`, `RedeemedOnce`, the locks and the counter) and, but for PostgreSQL, `LimitHolds`; and `KeepsCache`, that the drivers implement `CacheContract` |
| `RateLimitPostgres` | the same on PostgreSQL, without failures | `AtMostMaxPerWindow` fails: section 13 |

**Bounds.** Five attempts are the limit, one over it, and a second window. Two
handlers are the two that race; a third would wait for the same lock. The clock
stands still while a request is between `Increment` and `Expire`: a
request is short against a window of minutes. So a Redis key that expires in
between, whose EXPIRE (`cache/redis.go:86`) is without effect, does not occur.

## 9. Media

### State and actions

A medium stands for its row and its object, since each AddMedia makes a fresh key.
`rows`, `object[m]` (`"none"`, `"part"`, `"whole"`), `add[m]`, `remove[r]`,
`read[d]` are where the requests are; `cancelled` the uploads whose client is gone.

| Code | Actions |
|---|---|
| `Service.AddMedia`: `Put`, `Save`, on failure `Delete` | `Put`, `PutFails`, `Save`, `SaveFails`, `Cleanup` |
| `Service.RemoveMedia` | `FindToRemove`, `DeleteObject`, `DeleteRow`, `RemovalFails` |
| `GetMedia`, then `Get` of the driver | `GetMedia`, `Get` |
| request's context, process | `Cancel`, `Crash` |

The drivers differ where it matters: `local` ignores the context, leaves behind
what it has copied, and misses an error of `Close`; `s3` does nothing once the
context is cancelled, and its objects are whole or absent.

### Run

`Media`: two media, two removals, a reader, both drivers, three failures. It
checks `OrphansExplained`, `RowHasObject`, `RowOutlivesObject` and the inductive
`MediaInv`, which implies that what is removed stays removed and that a reader's
miss is explained. Two removers and one reader of one medium are all the pairs
that can cross; three failures are one each in the upload, its cleanup and the
removal. For other numbers there is the proof.

## 10. Scheduler, PubSub and Pipeline

`Scheduler` and `PubSub` are components without a next-state relation of their
own; `Pipeline` extends both and says how they move together.

| Code | Actions |
|---|---|
| `cron.go`: `Parse`, `Spec.Match` | the operators `Parse` and `Match`, bit for bit; compared with `Allows`, the reading of an expression |
| `cronWorker.Run`, `loop`, `sleepUntilNextMinute`, `Stop` | `Run`, `Look`, `Asleep`, `LoopEnds`, `HandlerEnds`, `Stop`, `RunReturns` |
| time; `time.Date` in a repeated hour | `Pass`; `Resolve` with `zone`, the first or the second instant, as the location has it |
| `Publish` of memory, Redis, Kafka | `PublishNow`, `PublishFails` |
| `RabbitMQPublisher.Publish` and its confirms | `PublishSent`, `PublishRefused`, `PublishAnswered`, `PublishCut`, `PublishTimesOut`, `PublishCancelled`, `LinkLost` |
| `Subscribe`, `Run`, `Stop` of the four subscribers | `Subscribe`, `SubscribeFails`, `RunSubscriber`, `StopSubscriber`, `SubscriberReturns` |
| their receive loops | `Receive`, `Poll`, `PollErrors`, `Handle`, `AutoCommit` |
| broker and process | `ConnectionLost`, `Disconnected`, `Reconnected`, `Crash` |
| the tick handler of `homepage` | `TickPublishes`, `TickEnds`: the handler is inside Publish, on the scheduler's goroutine |

### Run

`Pipeline`: one job under either of two expressions (lists, ranges, steps, Sunday
as 7 and as the end of a range; a reversed range, which `Parse` refuses), a night
whose third minute repeats the second, two runs, a subscriber on each of the four
drivers, one fault, two starts of the subscriber, shutdowns at any time. It checks

- `DeliveryInv`: types, order of delivery, and that only a restart repeats a
  message. The order has one exception, which takes two faults: when the Kafka
  subscriber drops the records of a failed fetch, handles later ones, and dies
  before the offsets behind them are committed, the next process is given the
  dropped records after later ones were handled;
- `ConfirmedIsKept`: with durable queues and with Kafka, a confirmed message is
  handled, or still to be;
- `RunsExactlyWhenDue`, `OncePerMinute`: the timetable;
- `Shutdown`: both `Run`s return after a signal, and nothing runs or publishes
  after the scheduler's has.

**Bounds.** Two runs are two messages, enough for an answer that is taken for the
wrong one and for an order to be broken; two starts are a crash and what the next
process finds. The hour that repeats is shortened to a minute: what counts is
that two instants have one wall-clock time. One instance, in the publisher's
process, has every driver's path; what two instances see differs in nothing but
the queue. A timer may fire late, never early: a wall clock set back by hand
between the sleep and the wake-up is left out. Kafka is one log in the order of
publication, as on a topic of one partition; records have no key (`kafka.go:36`), so
on a topic of several their order is kept only within each. `OneJob` is no bound: `homepage.tick` is the only job that
`cmd/scheduler` registers and `Publish` has no other caller, so no two calls of it
overlap. The theorems need no bound at all (section 12).

**Fairness** (`Fairness`), weak throughout: a loop that can end does, `Run`
returns when its loops have, Publish ends – at the latest by its own timeout –
and a subscriber with a message in hand handles it or returns. Nothing is assumed
of the clock, signals, the broker or faults.

## 11. SmtpPool

### State and actions

`conns` are the connections in the channel, `createdConns` the atomic counter,
`open` the connections that exist, `broken` those the server has dropped;
`sender[s]` and `sweeper` the goroutines. A connection is out of `open` when it is
counted out, though the QUIT to it may still be under way.

| Code | Actions |
|---|---|
| `Send`: closed?, attempts | `Send`, `Refused`; `After` decides on another attempt |
| `borrowConn`: compare, add, dial, or wait | `Room`, `NoRoom`, `Count`, `NewConn`, `DialFails`, `Take`, `WaitEnds` |
| `sendOnConn`, `canRetry` | `Delivered`, `Rejected`, `BadRecipient`, `SendFails`, `AnswerLost` |
| `returnConn` | `Return`, `ReturnBroken`, `ReturnRefused` (with `Reusable`, `Discard`) |
| `sweepConns`: the load of the counter, then of `closed`; the pass | `PassLooks`, `PassBegins`, `SweepKeep`, `SweepClose`, `SweepBye` (the end of a QUIT), `SweepNone`, `PutBack`, `PassEnds` |
| `Close`; the server | `Close`, `Drop` |

### Run

`SmtpPool`: two senders, a pool of one connection, two attempts, three faults. It
checks the inductive `PoolInv` – one owner for each connection, an exact count, a
message taken at most once and exactly once by a Send that reports success –
`LeftoversAreLate` (Close drains the pool, but for connections counted after it, or
between the sweeper's two loads) and `GoroutinesEnd`. Two senders exceed a limit of
one by the race between compare and add, which is the whole hazard; three faults
are a dropped connection, a failed dial and a failed send.

**Fairness.** Bounded in the code are the connect (`waitTimeout`), the exchange of
`sendOnConn` (30 s, `smtp.go:382`) and the two waits of `borrowConn` and
`returnConn`; the sweeper sleeps 2 s. Not bounded are

- the greeting, EHLO, STARTTLS and AUTH after the connect (`smtp.go:221-255`),
- RSET before a connection goes back (`:306`), since `sendOnConn` has cleared the
  deadline on its way out (`:383`),
- the QUIT of the sweeper once the pool is closed (`:350`),

none of which takes a context either. `PoolFairSpec` is weakly fair to the other
steps only: not to a sender that is dialling or resetting (`InExchange`), nor to
`SweepBye`. A server that accepts and then says nothing holds such a goroutine for
ever, and that is a behaviour of the model. `GoroutinesEnd` says what is left: a
Send ends if its *own* exchanges do, even while another sender hangs with the only
connection the pool allows, because waiting for one has a timeout; and the sweeper
ends after Close if its QUITs and the exchanges of *all* senders do, because one
that hangs stays counted. Without any one of these conditions the property fails.
The connect is part of `NewConn`, so no fairness is assumed of it, although it has
a timeout: an exchange that the condition lets end covers it.

## 12. Proofs

All theorems hold for every value of the constants that the module's named
assumption allows (`ConstantsAssumption`, `SessionConstants`, `CodeConstants`, `AccountConstants`,
`RBACConstants`, `RateLimitConstants`, `MediaConstants`, `SmtpConstants`,
`SchedulerConstants`, `PubSubConstants`: types, `None` outside the other sets, a
refresh token that outlives the access token; finitely many senders and
connections of the pool, jobs and subscriber processes, and finitely many users in
`RBAC`, where holders are counted). The theorems of the queue assume
`LeaseCoversJob` besides, those of the pipeline `OneJob`. Sets of requests, jobs, processes, clients and media,
and users elsewhere, need not be finite; there is no bound on the requests that
overlap.

| Theorem | Says |
|---|---|
| `JobQueueProofs!InvariantHolds`, `TypeCorrect` | `IInv`, `TypeOK` |
| `ExecutionIsExclusive`, `ClaimsStayIntact` | no row in more hands than one and one for each overrun; without overruns, finalizing statements hit their own claim |
| `RetriesAreBudgeted`, `GiveUpIsNeverEarly`, `SuccessIsNotRepeated` | the accounts of attempts, lapses, overruns and successes |
| `QueueKeepsContract` | every behaviour of the queue is one of `TaskContract` |
| `SessionProofs!InvariantHolds`, `TypeCorrect` | `SessionInv`, `TypeOK` |
| `TokensRotateOnce`, `OneTokenPerSession`, `DenialHolds` | single exchange, one live token, denied for the nominal life |
| `EndedForGood`, `OthersAreLeftAlone` | action properties: an ended session stays ended, no row of another user is revoked |
| `SessionsAreCapped`, `PasswordChangesSignOut`, `ReuseEndsTheFamily` | where requests do not overlap: the cap (queries on the primary, no refresh minted when its token is no longer listed), and what a password change or a reused token ends |
| `CodeProofs!InvariantHolds`, `TypeCorrect` | `CodeInv`, `TypeOK` |
| `CodesAreSingleUse`, `BudgetHolds`, `VoidedForGood` | single use, attempt budget, voided for good |
| `RightCodesWork` | a right answer is refused only for a reason the user can be told |
| `AccountsProofs!AccountsInvariant` | `AccountsInv`, and with it `OnlyValidatedSecrets` and `NoLockIn` |
| `SessionsAreJustified` | action property: no session without a moment at which the row allowed it, and the second factor if the row asked for it |
| `OldAddressesConfirm` | action property: a verified address is replaced only after its own code was accepted |
| `VerifiedAddressesWereProved` | `VerifiedWasProved`: a verified address is one from which a code came, unless the user asked for another while one waited |
| `RBACProofs!RBACInvariant`, `AnAdministratorRemains` | `RBACInv`; somebody holds super_admin unless revocations of it overlap |
| `FreshAnswers` | an answer is one the database gave since the newest bump before the check |
| `NobodyEscalates` | action property: only a holder of super_admin, or bootstrap, makes another holder |
| `RateLimitProofs!LimiterInvariant`, `TheLimitHolds` | `LimiterInv`; at most `MaxRequests` in a window, on every driver but PostgreSQL |
| `DriversKeepCache` | every behaviour of the four drivers is one of `CacheContract` |
| `MediaProofs!InvariantHolds`, `TypeCorrect` | `MediaInv`, `TypeOK` |
| `OrphansAreExplained`, `RowsHaveObjects`, `RemovalIsFinal`, `MissesAreExplained`, `RowsOutliveObjects` | what an object, a row, a removal and a reader can be without, and why |
| `PlatformProofs!PoolInvariantHolds`, `PoolTypeCorrect` | `PoolInv`, `PoolTypeOK` |
| `ConnectionsHaveOneOwner`, `CountStaysExact`, `MailIsSentOnce` | ownership, count, single delivery |
| `LeftoversCameLate` | Close drains the pool, but for connections counted after it or between the sweeper's two loads |
| `Delivery` | `DeliveryInv`: order of delivery, and repetition only by a new process, on all four drivers |
| `ConfirmedKept` | `ConfirmedIsKept`: what the broker confirmed is lost to no lasting queue |
| `RunsWhenDue`, `AtMostOncePerMinute` | action properties: the timetable, for every expression and every course of the location's clock |
| `QuietAfterReturn` | action property `QuietAfterRun`, the safety part of `Shutdown` |

**The queue.** `ExclusiveExecution` is not inductive: nothing in a state in which
one goroutine holds a row forbids another to claim it, except that the lease has
not run out. `WithinLease` bounds the timer of every goroutine by the clock reading
of its claim, and says that only the `late` ones have passed theirs. A holder that
is not late and whose claim is the one the row shows is `Guarding` it: by
`LeaseCoversJob` the row is not claimable meanwhile (lemma `ClaimableIsUnguarded`; the
truncation to seconds is monotone, `UnixMonotone`). Every other holder is a stray,
and `StraysPaid` says that there are no more of them than the job has had
overruns. That is the step where an argument is needed: a guard becomes a stray by
its own overrun, which pays for it, or because another holder finishes or releases
the row under it; but that one was a stray itself, as two cannot guard one row,
and leaves with its own due, so that the number stays. Two guards would have the
same attempt number, which `Attempts` excludes: each holder has one of its own,
never released before, and the row counts the last. So there is one guard, or
none, beside the strays.

`AttemptAccount` says in each state of a row where its attempts have gone: released,
lapsed, or still held; with distinct numbers, `released` holds as many as there
were, and a release is always of an attempt below the maximum. That gives
`RetryBudget` and `NoEarlyGiveUp`. `SuccessAccount` does it for `OneSuccess`, with
`Hopeful` and `Succeeded` for the holders whose success is still to come or to be
deleted. All this is `Base`, which the proof shows to be inductive, with a lemma per
action; `ExclusiveExecution` and `ClaimIntact` follow (lemmas `Exclusive`, `Intact`),
the latter since without overruns there is no stray.

**Refinement.** A row is the task, the goroutines that hold it the executors.
`Claim` is `Grant` (of an executor that overstays from the start, if the claim was
late), `ClaimAnswerLost` is `GrantLost`, `Overrun` is `Overstay`, `Release` is
`Retry`, `Finish` is `Resolve`, `FinalizeFails` and `Crash` are `Lose`; every other
step is a stutter.

**Sessions.** `OneLiveToken` needs to know that a family's login has no sibling
before its own row (`FamilyShape`), and that a refresh issues only after the token
it was given has been revoked (`RotationShape`); `CopyIsPast` keeps stale lookups
harmless: the replica never shows a row the primary lacks, nor a revocation the
primary has not seen. `CoveredShape` follows, for every access token a request
has read, whether it is still to be denied, denied, or its row still to be revoked.

Three promises hold only where requests do not overlap (`MaxInFlight = 1` is a
hypothesis of the theorems; the run has the same value). A password change and a
reused token each revoke one scope, which they read once (`OneScope`); nobody else
is issuing in it meanwhile, so it has ended (`RevokedScope`), and stays so by the
argument of `EndedForGood`. For the cap, `LoginRoom` says that a login about to
save leaves room for itself, and that one still evicting will have it once the
families it has picked are gone (`Doomed`); `RefreshRoom` that a refresh, whose
family is out of the count between rotation and save, has its place kept: no
other request takes it. `RefreshesInTime` is the exception the code needs, and
it speaks of what has happened, not of constants.

**Codes.** A used or voided code is consumed on the primary (`UsedShape`), and
`Consume` asks the primary, so the age of the lookup does not matter.
`MistakesCounted` ties the answers given to the counter; it carries finiteness
along, since cardinalities say nothing without it. For `RightCodesWork` the proof
adds an invariant of its own: `Reasons` says that whoever was refused, or will be
for a wrong guess, had a reason, and that reasons last. A code that is active, but
not the one the lookup finds, has a later one beside it: that one of several is
the latest takes the least-number principle (`WFMin`, `NatLessThanWellFounded`).

**Accounts.** The hazard of this module is the whole-row write: a request writes
the row it read, with its own change in it. So the invariant speaks of every copy
in the hand of a request as it does of the row (`SecretsInHand`), and lemmas say
once what a write may do to another request's copy. `UnlessRaced` ties copy and row
together where no other writer is near. `OneChange` (`Settled`) says that the changes of a
contact which wait or are being verified lead from the present address or to it,
and that who is about to apply one to a set address has had the code sent there.
`FreshSets` says that a set of recovery codes which is still good was never
accepted. The requests are sorted by what a step does to them (`Keeps`, `Quits`,
`Looks`, `Names`, or takes a new row), and each part of the invariant is proved
once for each kind; only the steps that write tables need lemmas of their own.

`VerifiedWasProved` takes an invariant of its own (`Origins`), since a code is not
tied to the change it was sent for: one request may use the code of another, and
whether that matters depends on all codes that are out. `Matched` counts them: the
codes active, about to be sent, or accepted for a change that still waits are no
more than the changes that wait, or than the one first address, and all of these
are for the same address. So whoever has a code accepted has proved that address,
and when the last change is applied no code is left over. `Traced` follows the
proved addresses through the rows and the copies in hand, `Proving` through the
requests that verify. Each of the five things a step may do to codes and changes
(`MatchedStep`) is a count of finite sets that gain or lose one element. `Origins`
does not exclude racing requests, only users who asked for a second address.

**RBAC.** Freshness is about positions in the log of committed states. A version
stands for the position at which it was made (`VersionDates`); an entry under a
version holds what *every* state since then holds and only what *some* state does
(`EntriesAgree`), and so does what a fill has loaded after each of its queries
(`LoadsAgree`). Both halves survive a longer log, which is why a fill may cross
any mutation; a bump makes the entry unreachable, which is all that keeps a late
`SetUser` harmless. `RevocationSparesOne` says that a revocation about to write
leaves a holder; "more than one holder" gives another by finite cardinality.

**The limiter.** `Locks` says who may hold what on each driver, and from it
follows that nothing comes between `ReadForUpdate` and `CommitIncrement` where the
read locks the row. `Counter` keeps the counter within the attempts and its
expiry within a window of the last one, which is `RefusedOnlyWhenBusy`.
`Numbering` says that attempts are numbered in their order and start again only
after the windows have ended, so the admitted ones of a window map one-to-one
into `1..MaxRequests` (lemma `AtMostMax`). It says nothing of PostgreSQL, and section
13 shows why.

That the drivers keep the contract of the cache takes one more invariant, `Reads`:
what a transaction has read is still so when it writes, because it has the row for
itself, unless it is on PostgreSQL and has found nothing to lock, when it writes
1; and a row it has inserted counts 0. `CommitIncrement` is then the `Increment`
of the contract if the counter was alive, `Start` if it had expired or was
inserted, and otherwise `StartAgain`. `ApplyWindow` is `Expire`, `WindowLost` is
`Forget`, `Reset` is `Delete`, `TakeRead` is `Find`, `TakeDelete` and `TakeInPlace` are
`GetDelete`; `Fail` is `Forget`, `Withdraw` or nothing, since a rollback leaves
nothing to see; `Seed`, `ReadForUpdate` and `Deadlock` are stutters.

**Media.** `RowHasObject` says nothing of a medium whose row is still to come, so
a late `Save` or `Cleanup` could break it, or what a reader was told. `Unseen`
says such a medium is in nobody's view, `SavedWhole` that its object is there
when the row appears, and `SeenExplained` extends `RowHasObject` to every medium
somebody has seen, row or not, which is what readers and removers rely on later.

**The pool.** `CountIsExact` follows step by step once `OneOwner` says that a
connection given up by one goroutine is in nobody else's hands (lemma
`Counting`); `SweeperIdle` lets a pass begin with nothing. `Taken` gives, by the
place of a sender, how often the server has its message: not at all where another
attempt may follow. `Drained` says that once the sweeper has seen the counter at
zero, and after it has quit, whatever is open or being dialled was counted since.

**The pipeline.** `PipelineInv` has a part for the scheduler, one for each
subscriber and one for the publisher.

A subscriber's part (`Subscriber`) relates, for the process `p`, the messages it
has still to take (`store`), those handed to it, those handled and those dropped.
`OrderKept` and `ReplaysNeedRestart` look only at the list of handled messages and
are not inductive: what keeps them is where the next message comes from. `Queued`
says that the store is in the order of publication, `Holding` where the messages
in hand stand in it: on Kafka right behind those the process is through with, on
RabbitMQ at its head, on the others no longer in it. `Passed`
says that those the process is through with were handled or dropped, and
`InTurn` that a message still to come is later than all that were handled, unless
it is one of those itself, or was dropped. For `ReplaysNeedRestart`, `Fresh` and
`Once` bound how often a message can have been handled by whether it may still
come: one that may was handled fewer times than there were processes. Every step of a process does one of a few
things to the store – it is shortened at its head, loses an element, grows at its
end, or is emptied – and the lemmas `Moved` to `HandledTaken` say once what each
of these keeps.

For `ConfirmedIsKept`, `Publisher` says that the open Publish, if any, is the last
one, and that without a late answer (`Answered`) at most one confirmation is on
its way, its own; a positive one is on its way only if the message is with every
queue of its audience. `KeptInv` says that what is kept stays kept: a queue that
outlives its process (`Lasting`) loses a message only to `handled`
or to `skipped`. `PublishingInv` excludes a second Publish meanwhile.

For the timetable, `Waking` says that what a loop sleeps to was read off the clock
no earlier than its last run; so a second run in one minute means that the
boundary found was in the past, and only the first instant of a repeated time is
(`ResolveIs`, by the least and the greatest element of a finite set of instants).
`Filled`, the loop of `parsePart`, is a recursive function on the integers. That it
is the arithmetic progression of `Allows` for every range and step (`FilledIs`)
is proved by exhibiting the progression as one solution of its equation
and by showing, with the least-number principle, that there is no other.

**Only model-checked.** Liveness (`EveryJobResolved`, `StopEndsRun`,
`GoroutinesEnd`, and of `Shutdown` that both `Run`s do return), which is
out of the prover's reach.

## 13. Disagreements between documents and code

One is shown by a run of its own:

| Run | What the text says | What happens |
|---|---|---|
| `RateLimitPostgres` | "A transaction with a row lock keeps concurrent increments race-free" (`cache/database.go:113`) | on PostgreSQL the locking read (`:140`) asks for a row that has not expired; once the counter's window has ended it locks nothing, concurrent increments all read "no row", each writes 1, and more requests pass than the limit |

The others are behaviours of the models which the properties leave out by an
explicit exception, or met while reading the code for them.

*Queue.* "Bound the handler execution so a hung job cannot occupy a worker (or a
graceful Stop) forever" (`queue/database.go:192-193`, and likewise `:27-30`): the
code cancels a context and waits for the handler to return (`:195`), as Stop does;
a handler that ignores its context occupies the goroutine, the wait of `Run`
(`:122`) and, past the lease, runs beside a second execution of the same row. The
mail handlers are of that kind (see *SMTP*). "MaxRetry 0 yields a single attempt" (`queue/database.go:48`): the limit
is judged only after a handler has returned (`:217`), so an attempt lost in a
crash is repeated beyond it. "Run blocks … until Stop is called"
(`application/queue/queue.go:31`): a Stop before `Run` does nothing (`:129`), and
the signal is gone.

*Sessions.* "maxSessions caps concurrent session families per user"
(`issuer.go:33`): two logins list the sessions before either saves its own; and at
the instant of its expiry a token is not listed (`infrastructure/repository.go:265`)
but still refreshed (`refresh_token.go:51`), whose new row is then one too many. "A
password change must sign out every existing session immediately"
(`change_password.go:62`): a refresh between revoking the old row and saving the
new one (`refresh.go:75`) survives; the same goes for reuse detection. "An entry
always covers the token's remaining life" (`denylist.go:19`): tokens parse for 30 s
after their expiry (`jwt.go:75`), entries do not last that long.

*Accounts.* A code is tied to a user, purpose and channel, not to an address:
after a second contact change the code sent for it applies the first, whose
address is then verified unproved; and a pending row made before the account had
an address needs no proof of the one it has got since. A pending row of one user
captures the verification of another who registered that address. Whole-row
updates undo each other: a changed password comes back, a suspension is lifted,
and a confirmation that crosses a removal leaves MFA on without recovery codes,
which `confirm_totp.go:65-68` says cannot happen ("instead of being locked into an
enforced MFA with no codes"). The audit calls of `update_profile.go` pass subject
id and type in one order at lines 117 and 160 and in the other at 168.

*RBAC.* Two revocations that overlap each count the other's holder
(`revoke_role.go:72-73`) and leave no super_admin.

*Media.* "So no orphan is left behind" (`service.go:51`) holds but for the causes
`OrphansExplained` names. A removal that fails halfway leaves a row without an
object, not "an orphaned object" (`service.go:113`). `RemoveMedia` of a missing
record answers `ErrNotFound`, where the port's comment says it is a no-op.
`S3.Get` cancels its context before the body is read (`s3.go:83`).

*Publish/subscribe and scheduler.* After a confirm has timed out, the next Publish
takes the late answer for its own (`rabbitmq.go:72`). The consumer's connection is
not re-established: "reconnects automatically" (`rabbitmq.go:20`). Kafka drops
the records of a fetch that has an error for one partition (`kafka.go:113-118`);
a crash before the next commit brings them back, after later ones were handled.
Stop before Run is lost on Redis, RabbitMQ and Kafka, and later signals with it;
on the memory bus the handler stays subscribed. In the hour that clocks repeat, a
loop either spins or sleeps through, as the location has it, where
`schedule/README.md` says "each handler runs once per minute"; the doc of
`Worker.Stop` says it waits for Run, and it closes a channel. A step close to the
largest int overflows in `parsePart` (`cron.go:161`).

*SMTP.* "Bound the whole exchange so a stuck server cannot hang the worker
indefinitely" (`smtp.go:379-380`): the deadline covers `sendOnConn` only; the
handshake before it, the RSET after it and the sweeper's QUIT have none (section
11). "Close the client on any error from here onwards" (`:227`): the two returns
for a missing extension (`:240`, `:249`) do not set the `err` that the deferred
function looks at, and leave the socket open. A waiter is not woken when a connection is discarded: there is room, and
it waits out its timeout. A retry "on a fresh connection" may get another stale
one from the pool. Connections counted after Close are left open, as are those counted
between the sweeper's loads of the counter and of `closed` (`:332-333`).

## 14. What is not modelled

*Of the queue:* what handlers do (their results are any of the five the code tells
apart) and the arithmetic of `backoff`. *Sessions:* Authenticate's choice to
accept tokens when the cache cannot be read; the listing of sessions. *Codes:* the
retries of a delivery task. *Accounts:* a lagging replica, a request that changes
e-mail and phone at once, the password column, the seeder. *RBAC:* read-only lists, Bootstrap into an
empty database. *RateLimits:* `Get`; fractions of a second in expirations.
*Media:* attributes, presigning, the choice of URLs. *Publish/subscribe:* several
topics, several partitions of a Kafka topic, instances that share an id, overflowing channels of Redis. Each statement
is atomic, as the database makes it, and statements of a request run in program
order.

External code is modelled from its use: the database (statements, row locks, a
replica at a past state), Redis, brokers, object stores, the mail server, the
process supervisor, signals and clients.

*Left out altogether:* the asynq driver, whose leases and retries are the
library's; other mail drivers, SMS and views, which format and call an API;
configuration, database, logging, migration and seeding, which run once before
there is concurrency; tokens, hashes, ids and OTPs, which are cryptography and
randomness; HTTP servers and routing, where a request is a process of the models
above; the audit recorder, whose appends nothing reads.

## 15. Running the checks

```
tlc -workers 2 -config JobQueueSafety.cfg MCJobQueue.tla     # any run of PROJECT.json
tlapm JobQueueProofs.tla                                     # any *Proofs module
```

A run with `"expect": "violation"` ends with a counterexample: the behaviour of
section 13. The longest runs (`RBAC`, `Accounts`) take two minutes on two cores.
