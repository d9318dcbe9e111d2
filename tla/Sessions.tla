------------------------------- MODULE Sessions -------------------------------
(***************************************************************************)
(* Login sessions of the auth module: rows of refresh_tokens grouped into  *)
(* families (one family per login, one row per rotation), the denylist of  *)
(* access-token ids in the cache, and the requests that open, rotate and   *)
(* end sessions.                                                           *)
(*                                                                         *)
(* No use case runs in a transaction: a request is a sequence of single    *)
(* SQL statements and cache writes, and other requests run in between.     *)
(* Queries may go to a read replica that lags behind the primary.          *)
(*                                                                         *)
(* A request creates at most one row, and a login names its own family, so *)
(* the model names rows, access tokens and families by the request that    *)
(* created them: `t' below is the row (or the access token) of request t.  *)
(***************************************************************************)
EXTENDS Integers, FiniteSets

CONSTANTS
    Request,     \* requests clients may make
    User,
    None,        \* no row, no family, no user
    All,         \* "every family of the user" as the target of a revocation
    MaxSessions, \* AUTH_MAX_SESSIONS; 0 disables the cap
    AccessTTL,   \* life of an access token, and of a denylist entry
    RefreshTTL,  \* life of a refresh token
    Leeway,      \* how long after its expiry an access token still parses
    HasReplica,  \* queries go to a read replica
    MaxInFlight, \* bound: requests executing at the same time
    MaxFaults,   \* bound: failures per behaviour
    MaxTime      \* bound: last value of the clock

ASSUME SessionConstants ==
    /\ None \notin Request \cup User
    /\ All \notin Request \cup {None}
    /\ MaxSessions \in Nat
    /\ AccessTTL \in Nat \ {0}
    /\ RefreshTTL \in Nat
    /\ RefreshTTL > AccessTTL
    /\ Leeway \in Nat
    /\ HasReplica \in BOOLEAN
    /\ MaxInFlight \in Nat
    /\ MaxFaults \in Nat
    /\ MaxTime \in Nat

\* No denylist entry.
NoEntry == -1

VARIABLES
    now,
    row,       \* refresh_tokens on the primary: "absent", "active" or "revoked"
    copy,      \* the same table on the replica
    mintedAt,  \* created_at of the row, which is also when its pair was minted
    denied,    \* when the denylist entry of the access token ends
    \* The requests, one function per local variable.
    op,        \* the use case
    pc,
    user,      \* the authenticated user, or the owner of what is issued
    family,    \* the session the request issues its pair into
    presented, \* the refresh token it was given
    targets,   \* families still to revoke
    target,    \* the family being revoked
    todo,      \* access tokens of `target' still to deny
    \* History, for the properties only.
    covered,   \* access tokens whose ids the request read, to deny them
    clean,     \* no lookup or denylist write of the request has failed
    faults

database == <<row, copy, mintedAt>>
locals   == <<op, user, family, presented>>
loop     == <<targets, target, todo, covered, clean>>
vars     == <<now, database, denied, locals, pc, loop, faults>>

RowState == {"absent", "active", "revoked"}

TypeOK ==
    /\ now \in Nat
    /\ row \in [Request -> RowState]
    /\ copy \in [Request -> RowState]
    /\ mintedAt \in [Request -> Nat]
    /\ denied \in [Request -> Nat \cup {NoEntry}]
    /\ op \in [Request -> {"none", "login", "refresh", "logout", "revoke", "password"}]
    /\ pc \in [Request -> {"idle", "cap", "rotate", "jtis", "deny", "mint", "save",
                           "done", "rejected", "failed"}]
    /\ user \in [Request -> User \cup {None}]
    /\ family \in [Request -> Request \cup {None}]
    /\ presented \in [Request -> Request \cup {None}]
    /\ targets \in [Request -> SUBSET (Request \cup {All})]
    /\ target \in [Request -> Request \cup {All, None}]
    /\ todo \in [Request -> SUBSET Request]
    /\ covered \in [Request -> SUBSET Request]
    /\ clean \in [Request -> BOOLEAN]
    /\ faults \in Nat

Init ==
    /\ now = 0
    /\ row = [t \in Request |-> "absent"]
    /\ copy = [t \in Request |-> "absent"]
    /\ mintedAt = [t \in Request |-> 0]
    /\ denied = [t \in Request |-> NoEntry]
    /\ op = [r \in Request |-> "none"]
    /\ pc = [r \in Request |-> "idle"]
    /\ user = [r \in Request |-> None]
    /\ family = [r \in Request |-> None]
    /\ presented = [r \in Request |-> None]
    /\ targets = [r \in Request |-> {}]
    /\ target = [r \in Request |-> None]
    /\ todo = [r \in Request |-> {}]
    /\ covered = [r \in Request |-> {}]
    /\ clean = [r \in Request |-> TRUE]
    /\ faults = 0

-----------------------------------------------------------------------------
(* What queries and statements see. *)

\* base.r() and base.w(): queries read the replica when there is one.
View == IF HasReplica THEN copy ELSE row

InFlight(r) == pc[r] \notin {"idle", "done", "rejected", "failed"}

\* The pair of t was handed out: anyone may present its refresh token.
Delivered(t) == pc[t] = "done" /\ op[t] \in {"login", "refresh"}

\* RefreshToken.IsExpired.
Expired(t) == now > mintedAt[t] + RefreshTTL

\* The rows ListActiveFamilies groups.
ActiveRows(u) ==
    {t \in Request : View[t] = "active" /\ user[t] = u /\ now < mintedAt[t] + RefreshTTL}

ActiveFamilies(u) == {family[t] : t \in ActiveRows(u)}

\* ORDER BY MAX(created_at): the newest active row of f is no newer than g's.
NoNewer(u, f, g) ==
    \A s \in ActiveRows(u) : family[s] = f =>
        \E t \in ActiveRows(u) : family[t] = g /\ mintedAt[s] <= mintedAt[t]

\* The rows the WHERE clause of a revocation of f by r selects.
Matches(r, f, t) == IF f = All THEN user[t] = user[r] ELSE family[t] = f

\* A request starts as use case o of user u with refresh token t.
Start(r, o, u, t, f) ==
    /\ pc[r] = "idle"
    /\ Cardinality({s \in Request : InFlight(s)}) < MaxInFlight
    /\ op' = [op EXCEPT ![r] = o]
    /\ user' = [user EXCEPT ![r] = u]
    /\ presented' = [presented EXCEPT ![r] = t]
    /\ family' = [family EXCEPT ![r] = f]

Goto(r, l) == pc' = [pc EXCEPT ![r] = l]

\* The request goes on to revoke the families in F.
GotoRevoke(r, F) ==
    /\ Goto(r, "jtis")
    /\ targets' = [targets EXCEPT ![r] = F]
    /\ UNCHANGED <<target, todo, covered, clean>>

-----------------------------------------------------------------------------
(* Issuing: TokenIssuer. *)

\* Issue for a user whose credentials were accepted: a new family.
Login(r, u) ==
    /\ Start(r, "login", u, None, r)
    /\ Goto(r, IF MaxSessions > 0 THEN "cap" ELSE "mint")
    /\ UNCHANGED <<now, database, denied, loop, faults>>

\* Mutant of EnforceSessionCap: no room is made for the session being opened.
EnforceSessionCap_OffByOne(r) ==
    LET listed == ActiveFamilies(user[r])
        excess == Cardinality(listed) - MaxSessions
    IN  /\ pc[r] = "cap"
        /\ \/ excess <= 0 /\ Goto(r, "mint") /\ UNCHANGED loop
           \/ /\ excess > 0
              /\ \E oldest \in SUBSET listed :
                    /\ Cardinality(oldest) = excess
                    /\ \A f \in oldest, g \in listed \ oldest : NoNewer(user[r], f, g)
                    /\ GotoRevoke(r, oldest)
        /\ UNCHANGED <<now, database, denied, locals, faults>>

\* enforceSessionCap: make room for one more session among those listed.
EnforceSessionCap(r) ==
    LET listed == ActiveFamilies(user[r])
        excess == Cardinality(listed) - (MaxSessions - 1)
    IN  /\ pc[r] = "cap"
        /\ \/ excess <= 0 /\ Goto(r, "mint") /\ UNCHANGED loop
           \/ /\ excess > 0
              /\ \E oldest \in SUBSET listed :
                    /\ Cardinality(oldest) = excess
                    /\ \A f \in oldest, g \in listed \ oldest : NoNewer(user[r], f, g)
                    /\ GotoRevoke(r, oldest)
        /\ UNCHANGED <<now, database, denied, locals, faults>>

\* The access token and the refresh token get their lifetimes.
Mint(r) ==
    /\ pc[r] = "mint"
    /\ mintedAt' = [mintedAt EXCEPT ![r] = now]
    /\ Goto(r, "save")
    /\ UNCHANGED <<now, row, copy, denied, locals, loop, faults>>

\* The INSERT; its answer may be lost, and the pair with it.
Save(r) ==
    /\ pc[r] = "save"
    /\ row' = [row EXCEPT ![r] = "active"]
    /\ \/ Goto(r, "done") /\ UNCHANGED faults
       \/ faults < MaxFaults /\ Goto(r, "failed") /\ faults' = faults + 1
    /\ UNCHANGED <<now, copy, mintedAt, denied, locals, loop>>

-----------------------------------------------------------------------------
(* Refresh. *)

\* FindByHash and the checks on what it returns.
Refresh(r, t) ==
    /\ Delivered(t)
    /\ Start(r, "refresh", user[t], t, family[t])
    /\ \/ View[t] = "revoked" /\ GotoRevoke(r, {family[t]})
       \/ /\ View[t] = "absent" \/ (View[t] = "active" /\ Expired(t))
          /\ Goto(r, "rejected") /\ UNCHANGED loop
       \/ View[t] = "active" /\ ~Expired(t) /\ Goto(r, "rotate") /\ UNCHANGED loop
    /\ UNCHANGED <<now, database, denied, faults>>

\* Mutant of Rotate: RevokeByID, which does not say whether it found the token.
Rotate_Unconditional(r) ==
    /\ pc[r] = "rotate"
    /\ row' = [row EXCEPT ![presented[r]] = "revoked"]
    /\ Goto(r, "mint")
    /\ UNCHANGED <<now, copy, mintedAt, denied, locals, loop, faults>>

\* Mutant of Rotate: the presented token stays good.
Rotate_KeepsToken(r) ==
    /\ pc[r] = "rotate"
    /\ row[presented[r]] = "active"
    /\ Goto(r, "mint")
    /\ UNCHANGED <<now, database, denied, locals, loop, faults>>

\* RevokeByIDIfActive: the winner issues the next pair of the family, a loser
\* treats the token as reused.
Rotate(r) ==
    LET t == presented[r] IN
    /\ pc[r] = "rotate"
    /\ \/ /\ row[t] = "active"
          /\ row' = [row EXCEPT ![t] = "revoked"]
          /\ Goto(r, "mint")
          /\ UNCHANGED loop
       \/ /\ row[t] # "active"
          /\ GotoRevoke(r, {family[r]})
          /\ UNCHANGED row
    /\ UNCHANGED <<now, copy, mintedAt, denied, locals, faults>>

-----------------------------------------------------------------------------
(* Ending sessions. *)

\* Logout by user u with refresh token t: other users' tokens are ignored.
Logout(r, u, t) ==
    /\ Delivered(t)
    /\ Start(r, "logout", u, t, None)
    /\ IF View[t] # "absent" /\ user[t] = u
       THEN GotoRevoke(r, {family[t]})
       ELSE Goto(r, "done") /\ UNCHANGED loop
    /\ UNCHANGED <<now, database, denied, faults>>

\* SessionRevoke: only families listed for u.
SessionRevoke(r, u, f) ==
    /\ Start(r, "revoke", u, None, None)
    /\ IF f \in ActiveFamilies(u)
       THEN GotoRevoke(r, {f})
       ELSE Goto(r, "rejected") /\ UNCHANGED loop
    /\ UNCHANGED <<now, database, denied, faults>>

\* ChangePassword and ResetPassword, once the new hash is stored.
ChangePassword(r, u) ==
    /\ Start(r, "password", u, None, None)
    /\ GotoRevoke(r, {All})
    /\ UNCHANGED <<now, database, denied, faults>>

-----------------------------------------------------------------------------
(* The revocation every use case repeats: read the ids of the access tokens, *)
(* deny each, revoke the rows.                                                *)

\* JtisByFamily or JtisByUser; when it fails nothing is denied.
ReadJtis(r, f) ==
    /\ pc[r] = "jtis"
    /\ f \in targets[r]
    /\ target' = [target EXCEPT ![r] = f]
    /\ targets' = [targets EXCEPT ![r] = @ \ {f}]
    /\ Goto(r, "deny")
    /\ \/ LET jtis == {t \in Request : View[t] # "absent" /\ Matches(r, f, t)} IN
          /\ todo' = [todo EXCEPT ![r] = jtis]
          /\ covered' = [covered EXCEPT ![r] = @ \cup jtis]
          /\ UNCHANGED <<clean, faults>>
       \/ /\ faults < MaxFaults
          /\ faults' = faults + 1
          /\ clean' = [clean EXCEPT ![r] = FALSE]
          /\ UNCHANGED <<todo, covered>>
    /\ UNCHANGED <<now, database, denied, locals>>

\* Mutant of Deny: rotated rows are taken for harmless.
Deny_ActiveOnly(r, t) ==
    /\ pc[r] = "deny"
    /\ t \in todo[r]
    /\ todo' = [todo EXCEPT ![r] = @ \ {t}]
    /\ denied' = [denied EXCEPT ![t] = IF row[t] = "active" THEN now + AccessTTL ELSE @]
    /\ UNCHANGED <<now, database, locals, pc, targets, target, covered, clean, faults>>

\* One turn of the loop in deny; a failed write is only logged.
Deny(r, t) ==
    /\ pc[r] = "deny"
    /\ t \in todo[r]
    /\ todo' = [todo EXCEPT ![r] = @ \ {t}]
    /\ \/ denied' = [denied EXCEPT ![t] = now + AccessTTL] /\ UNCHANGED <<clean, faults>>
       \/ /\ faults < MaxFaults
          /\ faults' = faults + 1
          /\ clean' = [clean EXCEPT ![r] = FALSE]
          /\ UNCHANGED denied
    /\ UNCHANGED <<now, database, locals, pc, targets, target, covered>>

\* Where the use case goes on after its last revocation.
AfterRevoke(r) ==
    IF targets[r] # {} THEN "jtis"
    ELSE CASE op[r] = "login"   -> "mint"
           [] op[r] = "refresh" -> "rejected"
           [] OTHER             -> "done"

\* Mutant of RevokeRows: a password change denies but revokes nothing.
RevokeRows_NotAll(r) ==
    /\ pc[r] = "deny"
    /\ todo[r] = {}
    /\ row' = [t \in Request |->
                  IF row[t] = "active" /\ target[r] # All /\ Matches(r, target[r], t)
                  THEN "revoked" ELSE row[t]]
    /\ Goto(r, AfterRevoke(r))
    /\ UNCHANGED <<now, copy, mintedAt, denied, locals, loop, faults>>

\* Mutant of RevokeRows: refresh revokes the reused token instead of its family.
RevokeRows_PresentedOnly(r) ==
    /\ pc[r] = "deny"
    /\ todo[r] = {}
    /\ row' = [t \in Request |->
                  IF /\ row[t] = "active"
                     /\ Matches(r, target[r], t)
                     /\ op[r] = "refresh" => t = presented[r]
                  THEN "revoked" ELSE row[t]]
    /\ Goto(r, AfterRevoke(r))
    /\ UNCHANGED <<now, copy, mintedAt, denied, locals, loop, faults>>

\* RevokeFamily or RevokeByUserID.
RevokeRows(r) ==
    /\ pc[r] = "deny"
    /\ todo[r] = {}
    /\ row' = [t \in Request |->
                  IF row[t] = "active" /\ Matches(r, target[r], t)
                  THEN "revoked" ELSE row[t]]
    /\ Goto(r, AfterRevoke(r))
    /\ UNCHANGED <<now, copy, mintedAt, denied, locals, loop, faults>>

-----------------------------------------------------------------------------
\* A statement fails and the request gives up, or its process dies.  (Refresh
\* does not report that its revocation of a family failed; it ends there too.)
Fail(r) ==
    /\ InFlight(r)
    /\ faults < MaxFaults
    /\ faults' = faults + 1
    /\ Goto(r, "failed")
    /\ UNCHANGED <<now, database, denied, locals, loop>>

\* The replica catches up with the primary.
Replicate ==
    /\ HasReplica
    /\ copy' = row
    /\ copy # row
    /\ UNCHANGED <<now, row, mintedAt, denied, locals, pc, loop, faults>>

Tick ==
    /\ now < MaxTime
    /\ now' = now + 1
    /\ UNCHANGED <<database, denied, locals, pc, loop, faults>>

Begin(r) ==
    \/ \E u \in User : Login(r, u) \/ ChangePassword(r, u)
    \/ \E t \in Request : Refresh(r, t)
    \/ \E u \in User, t \in Request : Logout(r, u, t)
    \/ \E u \in User, f \in Request : SessionRevoke(r, u, f)

Continue(r) ==
    \/ EnforceSessionCap(r)
    \/ Mint(r)
    \/ Save(r)
    \/ Rotate(r)
    \/ \E f \in Request \cup {All} : ReadJtis(r, f)
    \/ \E t \in Request : Deny(r, t)
    \/ RevokeRows(r)
    \/ Fail(r)

Next ==
    \/ \E r \in Request : Begin(r) \/ Continue(r)
    \/ Replicate
    \/ Tick

Spec == Init /\ [][Next]_vars

-----------------------------------------------------------------------------
(* Properties. *)

\* The request is about to save the next row of its family.
Issuing(r) == pc[r] \in {"mint", "save"}

Live(r) == row[r] = "active" \/ Issuing(r)

\* "It is used for atomic rotation so a token can only be exchanged once even
\* under concurrent requests" (RevokeByIDIfActive): no two requests issue a
\* pair for the same presented token.
RotatedOnce ==
    \A r, s \in Request :
        /\ r # s
        /\ op[r] = "refresh" /\ (Issuing(r) \/ row[r] # "absent")
        /\ op[s] = "refresh" /\ (Issuing(s) \/ row[s] # "absent")
        => presented[r] # presented[s]

\* A session has at most one live refresh token, the one being issued included,
\* however its rotations, revocations and the replica's lag interleave.
OneLiveToken ==
    \A r, s \in Request : r # s /\ Live(r) /\ Live(s) => family[r] # family[s]

\* ParseAccessToken takes the access token of t for unexpired ...
Parses(t) == row[t] # "absent" /\ now < mintedAt[t] + AccessTTL + Leeway

\* ... and Authenticate finds no denylist entry for it.
Accepted(t) == Parses(t) /\ ~(denied[t] # NoEntry /\ now < denied[t])

\* A request that ended sessions without a failure has revoked every row it
\* read, and for the rest of their nominal lives none of their access tokens is
\* accepted again.
SignedOutTokensRejected ==
    \A r \in Request :
        pc[r] \in {"done", "rejected"} /\ clean[r] =>
            \A t \in covered[r] :
                row[t] = "revoked" /\ (now < mintedAt[t] + AccessTTL => ~Accepted(t))

\* A session without a live token is over for good: no retry, reused token or
\* late answer brings it back.
Started(f) == \E t \in Request : row[t] # "absent" /\ family[t] = f
Ended(f) == Started(f) /\ \A t \in Request : Live(t) => family[t] # f
EndedStaysEnded == [][\A f \in Request : Ended(f) => Ended(f)']_vars

\* Only requests made for a user, or with a refresh token of that user's
\* session, revoke the user's rows.
OwnSessionsOnly ==
    [][\A t \in Request : row[t] = "active" /\ row'[t] = "revoked" =>
          \E r \in Request : pc'[r] # pc[r] /\ user[r] = user[t]]_vars

(***************************************************************************)
(* The inductive invariant behind them.                                    *)
(***************************************************************************)
\* Who is where in its code, and what that says of its row.
RequestShape ==
    \A r \in Request :
        /\ pc[r] = "idle" <=> op[r] = "none"
        /\ pc[r] = "idle" => family[r] = None /\ targets[r] = {} /\ covered[r] = {}
        /\ pc[r] = "cap" => op[r] = "login"
        /\ pc[r] = "rotate" => op[r] = "refresh"
        /\ Issuing(r) => op[r] \in {"login", "refresh"}
        /\ row[r] # "absent" => op[r] \in {"login", "refresh"} /\ pc[r] \in {"done", "failed"}
        /\ Delivered(r) => row[r] # "absent"
        /\ pc[r] = "save" \/ row[r] # "absent" => mintedAt[r] <= now

\* A family is named by its login; one user owns all of it, and it has no
\* second row before the login's own.
FamilyShape ==
    /\ \A r \in Request :
          /\ op[r] = "login" => family[r] = r /\ user[r] \in User
          /\ family[r] # None => op[family[r]] = "login" /\ user[family[r]] = user[r]
    /\ \A f, t \in Request : op[f] = "login" /\ InFlight(f) /\ family[t] = f => t = f

\* A refresh continues the family of the token it was given, and has revoked
\* that token once it issues the next one.
RotationShape ==
    \A r \in Request : op[r] = "refresh" =>
        /\ presented[r] \in Request
        /\ family[r] \in Request
        /\ row[presented[r]] # "absent"
        /\ family[r] = family[presented[r]]
        /\ user[r] = user[presented[r]]
        /\ Issuing(r) \/ row[r] # "absent" => row[presented[r]] = "revoked"

\* The replica shows a past of the primary.
CopyIsPast ==
    \A t \in Request : copy[t] # row[t] =>
        row[t] # "absent" /\ copy[t] # "revoked"

\* A request revokes only families of its own user.
TargetShape ==
    \A r \in Request :
        /\ \A f \in targets[r] \ {All} : op[f] = "login" /\ user[f] = user[r]
        /\ pc[r] = "deny" =>
              /\ target[r] # None
              /\ target[r] # All => op[target[r]] = "login" /\ user[target[r]] = user[r]
        /\ todo[r] # {} => pc[r] \in {"deny", "failed"}

\* What a request has done so far about the access tokens it has read.
CoveredShape ==
    \A r \in Request, t \in Request : t \in covered[r] =>
        /\ row[t] # "absent"
        /\ t \in todo[r] \/ ~clean[r] \/ denied[t] >= mintedAt[t] + AccessTTL
        /\ \/ row[t] = "revoked"
           \/ pc[r] = "deny" /\ Matches(r, target[r], t)
           \/ pc[r] = "failed"

SessionInv ==
    /\ TypeOK
    /\ RequestShape
    /\ FamilyShape
    /\ RotationShape
    /\ CopyIsPast
    /\ TargetShape
    /\ CoveredShape
    /\ OneLiveToken
    /\ RotatedOnce

\* "maxSessions caps concurrent session families per user" (TokenIssuer).
OpenSessions(u) ==
    {family[t] : t \in {s \in Request :
        row[s] = "active" /\ user[s] = u /\ now < mintedAt[s] + RefreshTTL}}

SessionCap == \A u \in User : Cardinality(OpenSessions(u)) <= MaxSessions

\* No row of a session whose tokens r has read to revoke them is active.
SignedOut(r) ==
    \A s \in covered[r], t \in Request :
        row[t] = "active" => family[t] # family[s]

\* "A password change must sign out every existing session immediately"
\* (ChangePassword).
PasswordChangeSignsOut ==
    \A r \in Request :
        op[r] = "password" /\ pc[r] = "done" /\ clean[r] => SignedOut(r)

\* "a reused (already rotated) token revokes the whole family" (Refresh).
ReuseRevokesFamily ==
    \A r \in Request :
        op[r] = "refresh" /\ pc[r] = "rejected" /\ clean[r] => SignedOut(r)
=============================================================================
