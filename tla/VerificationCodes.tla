--------------------------- MODULE VerificationCodes ---------------------------
(***************************************************************************)
(* One-time codes of the auth module: the rows of verification_codes of    *)
(* one user (every statement names the user, or the hash of one link), the *)
(* use cases that issue a code and those that check one.                   *)
(*                                                                         *)
(* Issuing voids the outstanding codes of its kind, makes a new one, saves *)
(* and sends it; checking looks the newest active code up, compares, and   *)
(* then consumes it or counts a failed attempt.  Each of these is a        *)
(* statement of its own, and lookups may go to a replica that lags.        *)
(*                                                                         *)
(* A request issues at most one code, so a code is named by the request    *)
(* that issued it.                                                         *)
(***************************************************************************)
EXTENDS Integers, FiniteSets

CONSTANTS
    Request,     \* requests clients and queue workers may make
    None,        \* no code
    Wrong,       \* a guess that is nobody's code
    Kind,        \* <<purpose, channel>> pairs in use
    MaxAttempts, \* OTP_MAX_ATTEMPTS
    OtpTTL,      \* life of an OTP
    LinkTTL,     \* life of a magic link
    HasReplica,  \* lookups go to a read replica
    MaxInFlight, \* bound: requests executing at the same time
    MaxFaults,   \* bound: failures per behaviour
    MaxTime      \* bound: last value of the clock

Contact  == {"verify", "verify_old"} \X {"email", "phone"}
Reset    == {"reset"} \X {"email", "phone"}
LinkKind == <<"magic_link", "email">>

ASSUME CodeConstants ==
    /\ None \notin Request \cup {Wrong}
    /\ Wrong \notin Request
    /\ Kind \subseteq Contact \cup Reset \cup {LinkKind}
    /\ MaxAttempts \in Nat
    /\ OtpTTL \in Nat
    /\ LinkTTL \in Nat
    /\ HasReplica \in BOOLEAN
    /\ MaxInFlight \in Nat
    /\ MaxFaults \in Nat
    /\ MaxTime \in Nat

VARIABLES
    now,
    row,      \* verification_codes: "absent", "active" or "consumed"
    attempts,
    madeAt,   \* created_at
    copy,     \* row and attempts as the replica shows them
    copied,
    \* The requests, one function per local variable.
    op,       \* "none", "issue" or "check"
    pc,
    kind,     \* the kind of the code it issues or checks
    guess,    \* the code the client has entered
    target,   \* the code the lookup has found
    \* History, for the properties only.
    voided,   \* codes an issuing request found and voided
    lagged,   \* the lookup of the request differed from the primary
    faults

table  == <<row, attempts, madeAt>>
shown  == <<copy, copied>>
locals == <<op, kind, guess>>
found  == <<target, lagged>>
vars   == <<now, table, shown, locals, pc, found, voided, faults>>

RowState == {"absent", "active", "consumed"}

TypeOK ==
    /\ now \in Nat
    /\ row \in [Request -> RowState]
    /\ attempts \in [Request -> 0..MaxAttempts]
    /\ madeAt \in [Request -> Nat]
    /\ copy \in [Request -> RowState]
    /\ copied \in [Request -> 0..MaxAttempts]
    /\ op \in [Request -> {"none", "issue", "check"}]
    /\ pc \in [Request -> {"idle", "void", "make", "save", "issued",
                           "count", "consume", "accepted", "wrong", "lost",
                           "spent", "unknown", "failed"}]
    /\ kind \in [Request -> Kind \cup {None}]
    /\ guess \in [Request -> Request \cup {None, Wrong}]
    /\ target \in [Request -> Request \cup {None}]
    /\ voided \in [Request -> SUBSET Request]
    /\ lagged \in [Request -> BOOLEAN]
    /\ faults \in Nat

Init ==
    /\ now = 0
    /\ row = [c \in Request |-> "absent"]
    /\ attempts = [c \in Request |-> 0]
    /\ madeAt = [c \in Request |-> 0]
    /\ copy = row
    /\ copied = attempts
    /\ op = [r \in Request |-> "none"]
    /\ pc = [r \in Request |-> "idle"]
    /\ kind = [r \in Request |-> None]
    /\ guess = [r \in Request |-> None]
    /\ target = [r \in Request |-> None]
    /\ voided = [r \in Request |-> {}]
    /\ lagged = [r \in Request |-> FALSE]
    /\ faults = 0

-----------------------------------------------------------------------------
(* What statements see. *)

View == IF HasReplica THEN copy ELSE row
ViewedAttempts == IF HasReplica THEN copied ELSE attempts

InFlight(r) ==
    pc[r] \in {"void", "make", "save", "count", "consume"}

\* expires_at.
ExpiresAt(c) == madeAt[c] + IF kind[c] = LinkKind THEN LinkTTL ELSE OtpTTL

\* The rows a lookup of kind k may return.
Active(k) == {c \in Request : View[c] = "active" /\ kind[c] = k /\ ExpiresAt(c) > now}

\* FindLatestActive: ORDER BY created_at DESC LIMIT 1.
Latest(k) == {c \in Active(k) : \A d \in Active(k) : madeAt[d] <= madeAt[c]}

\* The WHERE clauses of InvalidateByUserChannel, for contact codes, and of
\* InvalidateByUser, for the others.
InScope(k, c) ==
    /\ kind[c] # None
    /\ IF k \in Contact THEN kind[c] = k ELSE kind[c][1] = k[1]

Goto(r, l) == pc' = [pc EXCEPT ![r] = l]

Start(r, o, k, g) ==
    /\ pc[r] = "idle"
    /\ Cardinality({s \in Request : InFlight(s)}) < MaxInFlight
    /\ op' = [op EXCEPT ![r] = o]
    /\ kind' = [kind EXCEPT ![r] = k]
    /\ guess' = [guess EXCEPT ![r] = g]

-----------------------------------------------------------------------------
(* Issuing. *)

\* issueCode, for the contacts of Register and UpdateProfile.
IssueOtp(r, k) ==
    /\ k \in Contact
    /\ Start(r, "issue", k, None)
    /\ Goto(r, "void")
    /\ UNCHANGED <<now, table, shown, found, voided, faults>>

\* ProcessForgotPassword and ProcessMagicLink, in a queue worker.
IssueByWorker(r, k) ==
    /\ k \notin Contact
    /\ Start(r, "issue", k, None)
    /\ Goto(r, "void")
    /\ UNCHANGED <<now, table, shown, found, voided, faults>>

\* Mutant of Void: the codes of every channel go.
Void_AnyChannel(r) ==
    LET codes == {c \in Request : row[c] # "absent" /\ kind[c][1] = kind[r][1]} IN
    /\ pc[r] = "void"
    /\ row' = [c \in Request |-> IF c \in codes THEN "consumed" ELSE row[c]]
    /\ voided' = [voided EXCEPT ![r] = codes]
    /\ Goto(r, "make")
    /\ UNCHANGED <<now, attempts, madeAt, shown, locals, found, faults>>

\* InvalidateByUserChannel or InvalidateByUser.
Void(r) ==
    LET codes == {c \in Request : row[c] # "absent" /\ InScope(kind[r], c)} IN
    /\ pc[r] = "void"
    /\ row' = [c \in Request |-> IF c \in codes THEN "consumed" ELSE row[c]]
    /\ voided' = [voided EXCEPT ![r] = codes]
    /\ Goto(r, "make")
    /\ UNCHANGED <<now, attempts, madeAt, shown, locals, found, faults>>

\* NewVerificationCode: the code gets its creation time and its expiry.
Make(r) ==
    /\ pc[r] = "make"
    /\ madeAt' = [madeAt EXCEPT ![r] = now]
    /\ Goto(r, "save")
    /\ UNCHANGED <<now, row, attempts, shown, locals, found, voided, faults>>

\* The INSERT, and the delivery: a task for the queue or, in a worker, the mail
\* or message itself.  When that fails the code stays, and nobody has it.
Save(r) ==
    /\ pc[r] = "save"
    /\ row' = [row EXCEPT ![r] = "active"]
    /\ \/ Goto(r, "issued") /\ UNCHANGED faults
       \/ faults < MaxFaults /\ Goto(r, "failed") /\ faults' = faults + 1
    /\ UNCHANGED <<now, attempts, madeAt, shown, locals, found, voided>>

-----------------------------------------------------------------------------
(* Checking. *)

\* The row the lookup has returned, and whether the replica is behind.
Look(r, c) ==
    /\ target' = [target EXCEPT ![r] = c]
    /\ lagged' = [lagged EXCEPT ![r] = View # row \/ ViewedAttempts # attempts]

\* VerifyEmail, VerifyPhone and ResetPassword, up to the verdict of validateCode
\* on the row that FindLatestActive returned.
Check(r, k, g) ==
    /\ k # LinkKind
    /\ Start(r, "check", k, g)
    /\ \/ Latest(k) = {} /\ Look(r, None) /\ Goto(r, "unknown")
       \/ \E c \in Latest(k) :
             /\ Look(r, c)
             /\ Goto(r, CASE ViewedAttempts[c] >= MaxAttempts -> "spent"
                          [] ViewedAttempts[c] < MaxAttempts /\ g = c -> "consume"
                          [] OTHER -> "count")
    /\ UNCHANGED <<now, table, shown, voided, faults>>

\* MagicLinkVerify: the row is found by the hash of the link itself.
CheckLink(r, k, g) ==
    /\ k = LinkKind
    /\ Start(r, "check", k, g)
    /\ IF g \in Active(k)
       THEN Look(r, g) /\ Goto(r, "consume")
       ELSE Look(r, None) /\ Goto(r, "unknown")
    /\ UNCHANGED <<now, table, shown, voided, faults>>

\* Mutant of Count: the counter is written back from the row that was read.
Count_ReadModifyWrite(r) ==
    LET c == target[r] IN
    /\ pc[r] = "count"
    /\ attempts' = [attempts EXCEPT ![c] = IF ViewedAttempts[c] < MaxAttempts
                                           THEN ViewedAttempts[c] + 1 ELSE @]
    /\ Goto(r, "wrong")
    /\ UNCHANGED <<now, row, madeAt, shown, locals, found, voided, faults>>

\* IncrementAttempts; its answer may be lost.
Count(r) ==
    LET c == target[r] IN
    /\ pc[r] = "count"
    /\ \/ /\ attempts[c] < MaxAttempts
          /\ attempts' = [attempts EXCEPT ![c] = @ + 1]
          /\ \/ Goto(r, "wrong") /\ UNCHANGED faults
             \/ faults < MaxFaults /\ Goto(r, "failed") /\ faults' = faults + 1
       \/ attempts[c] >= MaxAttempts /\ Goto(r, "spent") /\ UNCHANGED <<attempts, faults>>
    /\ UNCHANGED <<now, row, madeAt, shown, locals, found, voided>>

\* Mutant of Consume: the UPDATE does not ask whether the code is still active.
Consume_Unconditional(r) ==
    /\ pc[r] = "consume"
    /\ row' = [row EXCEPT ![target[r]] = "consumed"]
    /\ Goto(r, "accepted")
    /\ UNCHANGED <<now, attempts, madeAt, shown, locals, found, voided, faults>>

\* Consume: only one request finds the code active; its answer may be lost.
Consume(r) ==
    LET c == target[r] IN
    /\ pc[r] = "consume"
    /\ \/ /\ row[c] = "active"
          /\ row' = [row EXCEPT ![c] = "consumed"]
          /\ \/ Goto(r, "accepted") /\ UNCHANGED faults
             \/ faults < MaxFaults /\ Goto(r, "failed") /\ faults' = faults + 1
       \/ row[c] # "active" /\ Goto(r, "lost") /\ UNCHANGED <<row, faults>>
    /\ UNCHANGED <<now, attempts, madeAt, shown, locals, found, voided>>

-----------------------------------------------------------------------------
\* A statement or the delivery fails, or the process dies.
Fail(r) ==
    /\ InFlight(r)
    /\ faults < MaxFaults
    /\ faults' = faults + 1
    /\ Goto(r, "failed")
    /\ UNCHANGED <<now, table, shown, locals, found, voided>>

\* The replica catches up with the primary.
Replicate ==
    /\ HasReplica
    /\ copy' = row
    /\ copied' = attempts
    /\ <<copy, copied>> # <<row, attempts>>
    /\ UNCHANGED <<now, table, locals, pc, found, voided, faults>>

Tick ==
    /\ now < MaxTime
    /\ now' = now + 1
    /\ UNCHANGED <<table, shown, locals, pc, found, voided, faults>>

\* Clients enter a code they have received, or one they have not.
Delivered == {c \in Request : pc[c] = "issued"}

Begin(r) ==
    \E k \in Kind :
        \/ IssueOtp(r, k) \/ IssueByWorker(r, k)
        \/ \E g \in Delivered \cup {Wrong} : Check(r, k, g) \/ CheckLink(r, k, g)

Continue(r) ==
    \/ Void(r) \/ Make(r) \/ Save(r)
    \/ Count(r) \/ Consume(r)
    \/ Fail(r)

Next ==
    \/ \E r \in Request : Begin(r) \/ Continue(r)
    \/ Replicate
    \/ Tick

Spec == Init /\ [][Next]_vars

-----------------------------------------------------------------------------
(* Properties. *)

\* "It only succeeds when the code is still active, so two concurrent requests
\* cannot both win" (Consume): no code is accepted twice.
SingleUse ==
    \A r, s \in Request :
        r # s /\ pc[r] = "accepted" /\ pc[s] = "accepted" => target[r] # target[s]

\* "The attempt budget holds under concurrency" (IncrementAttempts): however
\* wrong guesses overlap, no more of them than the budget has are answered as
\* plain mistakes.
Mistakes(c) == {r \in Request : pc[r] = "wrong" /\ target[r] = c}

AttemptBudget == \A c \in Request : Cardinality(Mistakes(c)) <= MaxAttempts

\* A code that a later issue has voided is never accepted afterwards, however
\* old the lookup's picture of it was.
NoVoidedCodeAccepted ==
    [][\A r \in Request : pc[r] # "accepted" /\ pc'[r] = "accepted" =>
          \A d \in Request : target[r] \notin voided[d]]_vars

\* The request has been told that its code is no good.
Refused(r) == op[r] = "check" /\ pc[r] \in {"unknown", "spent", "wrong", "lost"}

\* The right code is refused only for a reason: somebody has used it, an issue
\* of its kind has voided it or saved a code no older, its time or its attempts
\* are up, or the replica was behind.
RightCodeWorks ==
    \A r \in Request :
        LET c == guess[r] IN
        Refused(r) /\ ~lagged[r] /\ c \in Request /\ kind[c] = kind[r] =>
            \/ \E s \in Request : target[s] = c /\ pc[s] \in {"accepted", "failed"}
            \/ \E d \in Request : c \in voided[d] /\ InScope(kind[d], c)
            \/ \E d \in Request :
                  /\ d # c /\ kind[d] = kind[c]
                  /\ row[d] # "absent" /\ madeAt[d] >= madeAt[c]
            \/ ExpiresAt(c) <= now
            \/ attempts[c] = MaxAttempts

(***************************************************************************)
(* The inductive invariant behind SingleUse, AttemptBudget and             *)
(* NoVoidedCodeAccepted.                                                   *)
(***************************************************************************)
\* A row belongs to an issue that has saved it, and to no other request.
RowShape ==
    \A c \in Request :
        /\ row[c] # "absent" => op[c] = "issue" /\ pc[c] \in {"issued", "failed"}
        /\ pc[c] \in {"void", "make", "save"} => op[c] = "issue"

\* What the replica shows has been saved, and so has what a lookup returned.
LookupShape ==
    /\ \A c \in Request : copy[c] # "absent" => row[c] # "absent"
    /\ \A r \in Request : target[r] # None => row[target[r]] # "absent"
    /\ \A r \in Request :
          pc[r] \in {"count", "consume", "wrong", "accepted"} =>
              op[r] = "check" /\ target[r] # None

\* A code once used or voided is consumed.
UsedShape ==
    /\ \A r \in Request : pc[r] = "accepted" => row[target[r]] = "consumed"
    /\ \A d \in Request : \A c \in voided[d] : row[c] = "consumed"

\* Every plain mistake has been counted.
MistakesCounted ==
    \A c \in Request :
        IsFiniteSet(Mistakes(c)) /\ Cardinality(Mistakes(c)) <= attempts[c]

CodeInv ==
    /\ TypeOK
    /\ RowShape
    /\ LookupShape
    /\ UsedShape
    /\ SingleUse
    /\ MistakesCounted
=============================================================================
