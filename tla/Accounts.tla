------------------------------- MODULE Accounts -------------------------------
(***************************************************************************)
(* User records of the auth module and the use cases that read and write   *)
(* them: registration, profile and contact changes, verification of email  *)
(* and phone, passwords, MFA with TOTP secrets, recovery codes and login   *)
(* challenges, and the three ways to a session.                            *)
(*                                                                         *)
(* A use case reads a whole row of `users', works on its copy, and writes  *)
(* every mutable column back with one UPDATE; nothing detects that the row *)
(* has changed in between.  Emails and phones are two channels with the    *)
(* same code.                                                              *)
(*                                                                         *)
(* Queries go to the primary (no replica).  Codes sent by mail or SMS are  *)
(* modelled in VerificationCodes; here a code is the address it was sent   *)
(* to, one per user, purpose and channel.  Sessions are modelled in        *)
(* Sessions; here one is issued, and no more.                              *)
(*                                                                         *)
(* A request makes at most one TOTP secret, set of recovery codes,         *)
(* challenge or pending change, which carries its name.  A code, link or   *)
(* challenge that expires is one that no request uses any more, or that a  *)
(* request finds wrong.                                                    *)
(***************************************************************************)
EXTENDS Integers, Sequences, FiniteSets

CONSTANTS
    User,
    Address,       \* emails and phone numbers
    Channel,       \* domain.ChannelEmail, domain.ChannelPhone
    Request,       \* requests clients may make
    First,         \* the secrets and recovery codes of the start
    None,          \* NULL, or the empty string
    Operation,     \* the use cases the requests may run
    RequireVerified, \* AUTH_REQUIRE_EMAIL_VERIFIED
    Email,         \* the channel that setting is about
    MaxInFlight    \* bound: requests executing at the same time

Value == Request \cup {First}

Row == [contact : [Channel -> Address \cup {None}], verified : [Channel -> BOOLEAN],
        secret : Value \cup {None}, confirmed : BOOLEAN, active : BOOLEAN]

ASSUME AccountConstants ==
    /\ None \notin Address \cup Request \cup User \cup Row \cup {First}
    /\ First \notin Request
    /\ Email \in Channel
    /\ RequireVerified \in BOOLEAN
    /\ MaxInFlight \in Nat

VARIABLES
    users,     \* the table of users
    pending,   \* pending_contact_changes with status 'pending', oldest first
    code,      \* code[u][ch]: where the active verify code of u was sent
    oldCode,   \* the same for codes that confirm the old address
    mailed,    \* users with an active reset code, and with a magic link
    recovery,  \* user_recovery_codes: the set stored, and whether a code is left
    challenge, \* MFA challenges in the cache
    req,
    \* History, for the properties only.
    seen,      \* seen[p]: the rows its user has had since request p began
    proved,    \* addresses from which an accepted code came, by user and channel
    validated, \* TOTP secrets of which a code was accepted, by user
    spent,     \* recovery codes and challenges accepted so far
    superseded,\* users who asked for a change while another waited for its code
    raced      \* users for whom two writing requests have overlapped

store   == <<users, pending, code, oldCode, mailed, recovery, challenge>>
history == <<seen, proved, validated, spent, superseded, raced>>
vars    == <<store, req, history>>

\* A row for which a user has just registered.
NewUser(ch, a) ==
    [contact |-> [c \in Channel |-> IF c = ch THEN a ELSE None],
     verified |-> [c \in Channel |-> FALSE],
     secret |-> None, confirmed |-> FALSE, active |-> TRUE]

NoRequest == [op |-> None, pc |-> "new", user |-> None, channel |-> None, address |-> None,
              row |-> None, change |-> None, old |-> None, factor |-> "none", item |-> None]

(***************************************************************************)
(* Accounts that registered with one address, verified it or not, and      *)
(* went through MFA activation or not; users who have no row yet.          *)
(***************************************************************************)
Init ==
    /\ \E there \in SUBSET User, verified, mfa \in BOOLEAN :
       \E at \in [there -> Address], ch \in Channel :
          /\ \A u, v \in there : at[u] = at[v] => u = v
          /\ users = [u \in User |->
                IF u \notin there THEN None
                ELSE [NewUser(ch, at[u]) EXCEPT
                        !.verified[ch] = verified, !.secret = IF mfa THEN First ELSE None,
                        !.confirmed = mfa]]
          /\ recovery = [u \in User |-> [set |-> IF mfa /\ u \in there THEN First ELSE None,
                                         left |-> TRUE]]
          /\ code = [u \in User |-> [c \in Channel |->
                       IF u \in there /\ c = ch /\ ~verified THEN at[u] ELSE None]]
          /\ mailed = [reset |-> there, link |-> there]
          /\ proved = IF verified THEN {<<u, ch, at[u]>> : u \in there} ELSE {}
          /\ validated = IF mfa THEN there \X {First} ELSE {}
    /\ pending = << >>
    /\ oldCode = [u \in User |-> [c \in Channel |-> None]]
    /\ challenge = {}
    /\ req = [p \in Request |-> NoRequest]
    /\ seen = [p \in Request |-> {}]
    /\ spent = {}
    /\ superseded = {}
    /\ raced = {}

(***************************************************************************)
(* Queries.                                                                *)
(***************************************************************************)
\* FindByEmail, FindByPhone: unique columns.
FindByContact(ch, a) == {u \in User : users[u] # None /\ users[u].contact[ch] = a}

\* FindPendingByNewValue: the newest pending change to the address.
PendingFor(ch, a) ==
    {i \in 1..Len(pending) : /\ pending[i].channel = ch /\ pending[i].new = a
                             /\ \A j \in i+1..Len(pending) :
                                   ~(pending[j].channel = ch /\ pending[j].new = a)}

(***************************************************************************)
(* Bookkeeping of requests.                                                *)
(***************************************************************************)
Idle == {"new", "ended", "issued"}

InFlight == {p \in Request : req[p].pc \notin Idle}

At(p, label) == req[p].pc = label

Writers == {"Register", "UpdateProfile", "Verify", "ChangePassword", "ResetPassword",
            "SetupTOTP", "ConfirmTOTP", "DisableTOTP"}

Entrances == {"Login", "MagicLinkVerify", "VerifyMFA"}

\* Requests for a session see the row of u become `row'.
Sees(u, row) ==
    [o \in Request |-> IF req[o].user = u /\ req[o].op \in Entrances /\ seen[o] # {}
                         THEN seen[o] \cup {row} ELSE seen[o]]

\* The request has read the row of u and, if it writes, races with the others
\* that will.
Reads(p, u, request) ==
    /\ req' = [req EXCEPT ![p] = [request EXCEPT !.user = u, !.row = users[u]]]
    /\ seen' = [seen EXCEPT ![p] = IF request.op \in Entrances THEN {users[u]} ELSE {}]
    /\ raced' = IF /\ request.op \in Writers
                   /\ \E o \in InFlight \ {p} : req[o].user = u /\ req[o].op \in Writers
                  THEN raced \cup {u} ELSE raced

Goto(p, label) == req' = [req EXCEPT ![p].pc = label]

Ended == [NoRequest EXCEPT !.pc = "ended"]
Ends(p) ==
    /\ req' = [req EXCEPT ![p] = Ended]
    /\ seen' = [seen EXCEPT ![p] = {}]

Start(p, op) ==
    /\ op \in Operation
    /\ req[p].pc = "new"
    /\ Cardinality(InFlight) < MaxInFlight

(***************************************************************************)
(* users.Update: the whole copy of the row is written back, with the       *)
(* changes the use case has made to it.  The contacts are unique.          *)
(***************************************************************************)
Unique(u, row) ==
    \A ch \in Channel : row.contact[ch] # None => FindByContact(ch, row.contact[ch]) \subseteq {u}

Update(p, row, label) ==
    LET u == req[p].user IN
    /\ Unique(u, row)
    /\ users' = [users EXCEPT ![u] = row]
    /\ IF label = "ended" THEN req' = [req EXCEPT ![p] = Ended] ELSE Goto(p, label)
    /\ seen' = Sees(u, row)
    /\ UNCHANGED <<code, oldCode, mailed, recovery, challenge, proved, validated, spent,
                   superseded, raced>>

\* The unique index refuses the row.
UpdateRefused(p) ==
    /\ \/ At(p, "apply") /\ req[p].address # None
          /\ ~Unique(req[p].user,
                     [req[p].row EXCEPT !.contact[req[p].channel] = req[p].address])
       \/ At(p, "update") /\ ~Unique(req[p].user, req[p].row)
    /\ Ends(p)
    /\ UNCHANGED <<store, proved, validated, spent, superseded, raced>>

(***************************************************************************)
(* UpdateProfile.  The display name is left out, so that a request without *)
(* a new contact, or with the present one, only writes the row back.       *)
(***************************************************************************)
UpdateProfile(p) ==
    \E u \in User, ch \in Channel, a \in Address \cup {None} :
       /\ Start(p, "UpdateProfile")
       /\ users[u] # None
       /\ a # users[u].contact[ch]
       /\ Reads(p, u,
             IF a = None THEN [NoRequest EXCEPT !.op = "UpdateProfile", !.pc = "update"]
             ELSE [NoRequest EXCEPT !.op = "UpdateProfile", !.pc = "taken", !.channel = ch,
                                    !.address = a, !.old = users[u].contact[ch]])
       /\ UNCHANGED <<store, proved, validated, spent, superseded>>

\* Is the address that of another user?
CheckTaken(p) ==
    /\ At(p, "taken")
    /\ IF FindByContact(req[p].channel, req[p].address) \subseteq {req[p].user}
         THEN Goto(p, IF req[p].op = "Register" THEN "save" ELSE "promised") /\ UNCHANGED seen
         ELSE Ends(p)
    /\ UNCHANGED <<store, proved, validated, spent, superseded, raced>>

\* Is it the newest pending address of another user?
CheckPromised(p) ==
    /\ At(p, "promised")
    /\ IF \A i \in PendingFor(req[p].channel, req[p].address) : pending[i].user = req[p].user
         THEN Goto(p, "pend") /\ UNCHANGED seen
         ELSE Ends(p)
    /\ UNCHANGED <<store, proved, validated, spent, superseded, raced>>

SavePending(p) ==
    LET u == req[p].user  ch == req[p].channel IN
    /\ At(p, "pend")
    /\ pending' = Append(pending, [id |-> p, user |-> u, channel |-> ch, old |-> req[p].old,
                                   new |-> req[p].address])
    /\ superseded' =
         IF \/ users[u].contact[ch] # None /\ ~users[u].verified[ch]
            \/ \E i \in 1..Len(pending) : /\ pending[i].user = u /\ pending[i].channel = ch
                                          /\ pending[i].new # req[p].address
         THEN superseded \cup {u} ELSE superseded
    /\ Goto(p, "issue")
    /\ UNCHANGED <<users, code, oldCode, mailed, recovery, challenge, seen, proved, validated,
                   spent, raced>>

\* issueVerificationCode: the new code voids the one before.
IssueCode(p) ==
    LET u == req[p].user  ch == req[p].channel IN
    /\ At(p, "issue")
    /\ code' = [code EXCEPT ![u][ch] = req[p].address]
    /\ IF req[p].op = "Register" THEN Ends(p)
       ELSE Goto(p, IF req[p].old # None THEN "issueOld" ELSE "update") /\ UNCHANGED seen
    /\ UNCHANGED <<users, pending, oldCode, mailed, recovery, challenge, proved, validated,
                   spent, superseded, raced>>

\* A change is also confirmed at the old address.
IssueOldCode(p) ==
    /\ At(p, "issueOld")
    /\ oldCode' = [oldCode EXCEPT ![req[p].user][req[p].channel] = req[p].old]
    /\ Goto(p, "update")
    /\ UNCHANGED <<users, pending, code, mailed, recovery, challenge, history>>

WriteProfile(p) ==
    /\ At(p, "update")
    /\ Update(p, req[p].row, "ended")
    /\ UNCHANGED pending

(***************************************************************************)
(* Register: two lookups, the insert, the default role, the code.          *)
(***************************************************************************)
Register(p) ==
    \E u \in User, ch \in Channel, a \in Address :
       /\ Start(p, "Register")
       /\ users[u] = None
       /\ \A o \in InFlight : req[o].user # u
       /\ Reads(p, u, [NoRequest EXCEPT !.op = "Register", !.pc = "taken", !.channel = ch,
                                        !.address = a])
       /\ UNCHANGED <<store, proved, validated, spent, superseded>>

\* AssignDefaultRole follows; when it fails the row stays and no code is issued.
SaveUser(p) ==
    LET row == NewUser(req[p].channel, req[p].address) IN
    /\ At(p, "save")
    /\ IF Unique(req[p].user, row)
         THEN /\ users' = [users EXCEPT ![req[p].user] = row]
              /\ Goto(p, "issue")
              /\ UNCHANGED seen
         ELSE Ends(p) /\ UNCHANGED users
    /\ UNCHANGED <<pending, code, oldCode, mailed, recovery, challenge, proved, validated,
                   spent, superseded, raced>>

(***************************************************************************)
(* VerifyEmail and VerifyPhone.  An address that is pending for somebody   *)
(* is verified for that user; otherwise for the user who has it.           *)
(***************************************************************************)
Verify(p) ==
    \E ch \in Channel, a \in Address :
       /\ Start(p, "Verify")
       /\ \/ \E i \in PendingFor(ch, a) :
               req' = [req EXCEPT ![p] =
                         [NoRequest EXCEPT !.op = "Verify", !.pc = "owner", !.channel = ch,
                            !.address = a, !.change = pending[i].id, !.old = pending[i].old,
                            !.user = pending[i].user]]
          \/ /\ PendingFor(ch, a) = {}
             /\ req' = [req EXCEPT ![p] =
                          [NoRequest EXCEPT !.op = "Verify", !.pc = "holder", !.channel = ch,
                                            !.address = a]]
       /\ UNCHANGED <<store, history>>

ReadOwner_NewCodeOnly(p) ==
    /\ At(p, "owner")
    /\ Reads(p, req[p].user, [req[p] EXCEPT !.pc = "newCode"])
    /\ UNCHANGED <<store, proved, validated, spent, superseded>>

\* applyPending reads the owner of the change.
ReadOwner(p) ==
    /\ At(p, "owner")
    /\ Reads(p, req[p].user,
             [req[p] EXCEPT !.pc = IF req[p].old # None THEN "oldCode" ELSE "newCode"])
    /\ UNCHANGED <<store, proved, validated, spent, superseded>>

\* No pending change: the user with that address; a verified one is answered
\* at once, and without a user there is nothing to verify.
ReadHolder(p) ==
    LET holders == FindByContact(req[p].channel, req[p].address) IN
    /\ At(p, "holder")
    /\ \/ \E u \in holders :
             /\ ~users[u].verified[req[p].channel]
             /\ Reads(p, u, [req[p] EXCEPT !.pc = "newCode"])
       \/ /\ \A u \in holders : users[u].verified[req[p].channel]
          /\ Ends(p)
          /\ UNCHANGED raced
    /\ UNCHANGED <<store, proved, validated, spent, superseded>>

\* validateCode for the old address comes first; without an active code, or
\* with a wrong one, the request ends here.
ConfirmOld(p) ==
    LET u == req[p].user  ch == req[p].channel IN
    /\ At(p, "oldCode")
    /\ \/ /\ oldCode[u][ch] # None
          /\ oldCode' = [oldCode EXCEPT ![u][ch] = None]
          /\ req' = [req EXCEPT ![p].pc = "newCode", ![p].item = oldCode[u][ch]]
          /\ UNCHANGED seen
       \/ Ends(p) /\ UNCHANGED oldCode
    /\ UNCHANGED <<users, pending, code, mailed, recovery, challenge, proved, validated, spent,
                   superseded, raced>>

ConfirmNew_NotNeeded(p) ==
    /\ At(p, "newCode")
    /\ Goto(p, "apply")
    /\ UNCHANGED <<store, history>>

\* validateCode for the address itself.
ConfirmNew(p) ==
    LET u == req[p].user  ch == req[p].channel IN
    /\ At(p, "newCode")
    /\ \/ /\ code[u][ch] # None
          /\ code' = [code EXCEPT ![u][ch] = None]
          /\ proved' = proved \cup {<<u, ch, code[u][ch]>>}
          /\ Goto(p, "apply")
          /\ UNCHANGED seen
       \/ Ends(p) /\ UNCHANGED <<code, proved>>
    /\ UNCHANGED <<users, pending, oldCode, mailed, recovery, challenge, validated, spent,
                   superseded, raced>>

\* SetEmail (for a pending change) and VerifyEmail, or the same for the phone.
ApplyContact(p) ==
    LET ch == req[p].channel IN
    /\ At(p, "apply")
    /\ Update(p, [req[p].row EXCEPT
                    !.contact[ch] = IF req[p].change # None THEN req[p].address
                                    ELSE req[p].row.contact[ch],
                    !.verified[ch] = TRUE],
              IF req[p].change # None THEN "mark" ELSE "ended")
    /\ UNCHANGED pending

MarkApplied(p) ==
    /\ At(p, "mark")
    /\ \/ \E i \in 1..Len(pending) :
            /\ pending[i].id = req[p].change
            /\ pending' = [j \in 1..Len(pending)-1 |-> IF j < i THEN pending[j] ELSE pending[j+1]]
       \/ /\ \A i \in 1..Len(pending) : pending[i].id # req[p].change
          /\ UNCHANGED pending
    /\ Ends(p)
    /\ UNCHANGED <<users, code, oldCode, mailed, recovery, challenge, proved, validated, spent,
                   superseded, raced>>

(***************************************************************************)
(* Passwords.  The client gives the right old password or reset code; the  *)
(* request ends at once otherwise.  The hash itself is left out: what      *)
(* matters here is that both write the rest of the row back.  The sessions *)
(* they revoke afterwards are those of Sessions.                           *)
(***************************************************************************)
ChangePassword(p) ==
    \E u \in User :
       /\ Start(p, "ChangePassword")
       /\ users[u] # None
       /\ Reads(p, u, [NoRequest EXCEPT !.op = "ChangePassword", !.pc = "password"])
       /\ UNCHANGED <<store, proved, validated, spent, superseded>>

ResetPassword(p) ==
    \E u \in User :
       /\ Start(p, "ResetPassword")
       /\ users[u] # None
       /\ Reads(p, u, [NoRequest EXCEPT !.op = "ResetPassword", !.pc = "resetCode"])
       /\ UNCHANGED <<store, proved, validated, spent, superseded>>

\* The code is used up before the password is written.
ConfirmReset(p) ==
    /\ At(p, "resetCode")
    /\ IF req[p].user \in mailed.reset
         THEN /\ mailed' = [mailed EXCEPT !.reset = @ \ {req[p].user}]
              /\ Goto(p, "password")
              /\ UNCHANGED seen
         ELSE Ends(p) /\ UNCHANGED mailed
    /\ UNCHANGED <<users, pending, code, oldCode, recovery, challenge, proved, validated, spent,
                   superseded, raced>>

WritePassword(p) ==
    /\ At(p, "password")
    /\ Update(p, req[p].row, "ended")
    /\ UNCHANGED pending

(***************************************************************************)
(* MFA.  A secret is staged, then confirmed with a code.                   *)
(***************************************************************************)
SetupTOTP(p) ==
    \E u \in User :
       /\ Start(p, "SetupTOTP")
       /\ users[u] # None
       /\ ~users[u].confirmed
       /\ Reads(p, u, [NoRequest EXCEPT !.op = "SetupTOTP", !.pc = "stage"])
       /\ UNCHANGED <<store, proved, validated, spent, superseded>>

StageTOTP_OnlySecret(p) ==
    LET u == req[p].user IN
    /\ At(p, "stage")
    /\ users' = [users EXCEPT ![u].secret = p]
    /\ Ends(p)
    /\ UNCHANGED <<pending, code, oldCode, mailed, recovery, challenge, proved, validated,
                   spent, superseded, raced>>

StageTOTP(p) ==
    /\ At(p, "stage")
    /\ Update(p, [req[p].row EXCEPT !.secret = p, !.confirmed = FALSE], "ended")
    /\ UNCHANGED pending

\* The code is right for the secret of the row that was read.
ConfirmTOTP(p) ==
    \E u \in User :
       /\ Start(p, "ConfirmTOTP")
       /\ users[u] # None
       /\ users[u].secret # None
       /\ ~users[u].confirmed
       /\ Reads(p, u, [NoRequest EXCEPT !.op = "ConfirmTOTP", !.pc = "saveAll"])
       /\ validated' = validated \cup {<<u, users[u].secret>>}
       /\ UNCHANGED <<store, proved, spent, superseded>>

SaveAll_ErrorIgnored(p) ==
    /\ At(p, "saveAll")
    /\ recovery' \in {recovery, [recovery EXCEPT ![req[p].user] = [set |-> p, left |-> TRUE]]}
    /\ Goto(p, "confirm")
    /\ UNCHANGED <<users, pending, code, oldCode, mailed, challenge, history>>

\* One transaction replaces the whole set, before MFA is switched on.
SaveAll(p) ==
    /\ At(p, "saveAll")
    /\ recovery' = [recovery EXCEPT ![req[p].user] = [set |-> p, left |-> TRUE]]
    /\ Goto(p, "confirm")
    /\ UNCHANGED <<users, pending, code, oldCode, mailed, challenge, history>>

EnableTOTP(p) ==
    /\ At(p, "confirm")
    /\ Update(p, [req[p].row EXCEPT !.confirmed = TRUE], "ended")
    /\ UNCHANGED pending

\* The recovery code that a client presents is one of the present set.
Presented(u, factor) == IF factor = "recovery" THEN recovery[u].set ELSE None

DisableTOTP(p) ==
    \E u \in User, factor \in {"totp", "recovery"} :
       /\ Start(p, "DisableTOTP")
       /\ users[u] # None
       /\ users[u].confirmed
       /\ Reads(p, u, [NoRequest EXCEPT !.op = "DisableTOTP", !.factor = factor,
                         !.item = Presented(u, factor),
                         !.pc = IF factor = "totp" THEN "disable" ELSE "consume"])
       /\ UNCHANGED <<store, proved, validated, spent, superseded>>

ClearTOTP(p) ==
    /\ At(p, "disable")
    /\ Update(p, [req[p].row EXCEPT !.secret = None, !.confirmed = FALSE], "deleteAll")
    /\ UNCHANGED pending

DeleteAll(p) ==
    /\ At(p, "deleteAll")
    /\ recovery' = [recovery EXCEPT ![req[p].user] = [set |-> None, left |-> FALSE]]
    /\ Ends(p)
    /\ UNCHANGED <<users, pending, code, oldCode, mailed, challenge, proved, validated, spent,
                   superseded, raced>>

(***************************************************************************)
(* Ways to a session.  Login has compared the password with the row it has *)
(* read; a wrong one ends the request at once.                             *)
(***************************************************************************)
Login(p) ==
    \E u \in User, factor \in {"none", "totp", "recovery"} :
       /\ Start(p, "Login")
       /\ users[u] # None
       /\ users[u].active
       /\ factor # "none" => users[u].confirmed  \* the code is not looked at otherwise
       /\ ~(RequireVerified /\ users[u].contact[Email] # None /\ ~users[u].verified[Email])
       /\ Reads(p, u, [NoRequest EXCEPT !.op = "Login", !.factor = factor,
                         !.item = Presented(u, factor),
                         !.pc = IF ~users[u].confirmed THEN "session"
                                ELSE CASE factor = "none" -> "challenge"
                                       [] factor = "totp" -> "session"
                                       [] factor = "recovery" -> "consume"])
       /\ UNCHANGED <<store, proved, validated, spent, superseded>>

\* MagicLinkVerify finds the active link, reads its user, then uses it up.
MagicLinkVerify(p) ==
    \E u \in mailed.link :
       /\ Start(p, "MagicLinkVerify")
       /\ users[u] # None
       /\ users[u].active
       /\ Reads(p, u, [NoRequest EXCEPT !.op = "MagicLinkVerify", !.pc = "link"])
       /\ UNCHANGED <<store, proved, validated, spent, superseded>>

ConsumeLink_IgnoreTOTP(p) ==
    /\ At(p, "link")
    /\ IF req[p].user \in mailed.link
         THEN /\ mailed' = [mailed EXCEPT !.link = @ \ {req[p].user}]
              /\ Goto(p, "session")
              /\ UNCHANGED seen
         ELSE Ends(p) /\ UNCHANGED mailed
    /\ UNCHANGED <<users, pending, code, oldCode, recovery, challenge, proved, validated, spent,
                   superseded, raced>>

ConsumeLink(p) ==
    /\ At(p, "link")
    /\ IF req[p].user \in mailed.link
         THEN /\ mailed' = [mailed EXCEPT !.link = @ \ {req[p].user}]
              /\ Goto(p, IF req[p].row.confirmed THEN "challenge" ELSE "session")
              /\ UNCHANGED seen
         ELSE Ends(p) /\ UNCHANGED mailed
    /\ UNCHANGED <<users, pending, code, oldCode, recovery, challenge, proved, validated, spent,
                   superseded, raced>>

IssueChallenge(p) ==
    /\ At(p, "challenge")
    /\ challenge' = challenge \cup {[id |-> p, user |-> req[p].user]}
    /\ Ends(p)
    /\ UNCHANGED <<users, pending, code, oldCode, mailed, recovery, proved, validated, spent,
                   superseded, raced>>

\* VerifyMFA takes the challenge out of the cache before it looks at anything.
VerifyMFA(p) ==
    \E c \in challenge, factor \in {"totp", "recovery"} :
       /\ Start(p, "VerifyMFA")
       /\ challenge' = challenge \ {c}
       /\ req' = [req EXCEPT ![p] = [NoRequest EXCEPT !.op = "VerifyMFA", !.pc = "redeem",
                                                      !.user = c.user, !.factor = factor]]
       /\ UNCHANGED <<users, pending, code, oldCode, mailed, recovery, history>>

Redeem(p) ==
    LET u == req[p].user IN
    /\ At(p, "redeem")
    /\ IF users[u].confirmed /\ users[u].active
         THEN Reads(p, u, [req[p] EXCEPT !.item = Presented(u, req[p].factor),
                             !.pc = IF req[p].factor = "totp" THEN "session" ELSE "consume"])
         ELSE Ends(p) /\ UNCHANGED raced
    /\ UNCHANGED <<store, proved, validated, spent, superseded>>

Consume_Unconditional(p) ==
    LET u == req[p].user IN
    /\ At(p, "consume")
    /\ IF recovery[u].set = req[p].item /\ req[p].item # None
         THEN /\ recovery' = [recovery EXCEPT ![u].left = FALSE]
              /\ spent' = spent \cup {<<u, req[p].item>>}
              /\ Goto(p, IF req[p].op = "DisableTOTP" THEN "disable" ELSE "session")
              /\ UNCHANGED seen
         ELSE Ends(p) /\ UNCHANGED <<recovery, spent>>
    /\ UNCHANGED <<users, pending, code, oldCode, mailed, challenge, proved, validated,
                   superseded, raced>>

\* RecoveryCodeRepository.Consume: one UPDATE of an unused code.  The set
\* stands for its codes; the client presents the one that was left.
Consume(p) ==
    LET u == req[p].user IN
    /\ At(p, "consume")
    /\ IF recovery[u] = [set |-> req[p].item, left |-> TRUE] /\ req[p].item # None
         THEN /\ recovery' = [recovery EXCEPT ![u].left = FALSE]
              /\ spent' = spent \cup {<<u, req[p].item>>}
              /\ Goto(p, IF req[p].op = "DisableTOTP" THEN "disable" ELSE "session")
              /\ UNCHANGED seen
         ELSE Ends(p) /\ UNCHANGED <<recovery, spent>>
    /\ UNCHANGED <<users, pending, code, oldCode, mailed, challenge, proved, validated,
                   superseded, raced>>

\* TokenIssuer.Issue: see Sessions.
Issue(p) ==
    /\ At(p, "session")
    /\ req' = [req EXCEPT ![p] = [NoRequest EXCEPT !.pc = "issued"]]
    /\ seen' = [seen EXCEPT ![p] = {}]
    /\ UNCHANGED <<store, proved, validated, spent, superseded, raced>>

(***************************************************************************)
(* The environment.                                                        *)
(***************************************************************************)
\* An operator suspends the account in the database; no use case does.
Suspend(u) ==
    /\ users[u] # None
    /\ users[u].active
    /\ users' = [users EXCEPT ![u].active = FALSE]
    /\ seen' = Sees(u, users'[u])
    /\ raced' = IF \E o \in InFlight : req[o].user = u THEN raced \cup {u} ELSE raced
    /\ UNCHANGED <<pending, code, oldCode, mailed, recovery, challenge, req, proved, validated,
                   spent, superseded>>

\* A statement fails, or the process dies: what is done stays done.  A request
\* that fails before it has written anything might as well not have been made.
Partway == {"issue", "issueOld", "update", "newCode", "apply", "mark", "password", "confirm",
            "disable", "deleteAll", "challenge"}

Fail(p) ==
    /\ req[p].pc \in Partway
    /\ Ends(p)
    /\ UNCHANGED <<store, proved, validated, spent, superseded, raced>>

Begin(p) ==
    \/ UpdateProfile(p) \/ Register(p) \/ Verify(p)
    \/ ChangePassword(p) \/ ResetPassword(p)
    \/ SetupTOTP(p) \/ ConfirmTOTP(p) \/ DisableTOTP(p)
    \/ Login(p) \/ MagicLinkVerify(p) \/ VerifyMFA(p)

Continue(p) ==
    \/ CheckTaken(p) \/ CheckPromised(p) \/ SavePending(p) \/ IssueCode(p) \/ IssueOldCode(p)
    \/ WriteProfile(p) \/ UpdateRefused(p) \/ SaveUser(p)
    \/ ReadOwner(p) \/ ReadHolder(p) \/ ConfirmOld(p) \/ ConfirmNew(p)
    \/ ApplyContact(p) \/ MarkApplied(p)
    \/ ConfirmReset(p) \/ WritePassword(p)
    \/ StageTOTP(p) \/ SaveAll(p) \/ EnableTOTP(p) \/ ClearTOTP(p) \/ DeleteAll(p)
    \/ ConsumeLink(p) \/ IssueChallenge(p) \/ Redeem(p) \/ Consume(p) \/ Issue(p)

Next ==
    \/ \E p \in Request : Begin(p) \/ Continue(p) \/ Fail(p)
    \/ \E u \in User : Suspend(u)

Spec == Init /\ [][Next]_vars

-----------------------------------------------------------------------------
(* Properties. *)

\* Where the requests of each use case can be.
Placed(op, label) ==
    \/ op = "Register" /\ label \in {"taken", "save", "issue"}
    \/ /\ op = "UpdateProfile"
       /\ label \in {"taken", "promised", "pend", "issue", "issueOld", "update"}
    \/ op = "Verify" /\ label \in {"owner", "holder", "oldCode", "newCode", "apply", "mark"}
    \/ op = "ChangePassword" /\ label = "password"
    \/ op = "ResetPassword" /\ label \in {"resetCode", "password"}
    \/ op = "SetupTOTP" /\ label = "stage"
    \/ op = "ConfirmTOTP" /\ label \in {"saveAll", "confirm"}
    \/ op = "DisableTOTP" /\ label \in {"consume", "disable", "deleteAll"}
    \/ op = "Login" /\ label \in {"challenge", "session", "consume"}
    \/ op = "MagicLinkVerify" /\ label \in {"link", "challenge", "session"}
    \/ op = "VerifyMFA" /\ label \in {"redeem", "consume", "session"}

\* Labels of requests that have not read the row of a user yet.
Unread == {"holder", "owner", "redeem"}

Labels == {"new", "taken", "promised", "pend", "issue", "issueOld", "update", "save", "owner",
           "holder", "oldCode", "newCode", "apply", "mark", "resetCode", "password", "stage",
           "saveAll", "confirm", "disable", "deleteAll", "challenge", "link", "redeem",
           "consume", "session", "ended", "issued"}

RequestState ==
    [op : Writers \cup Entrances \cup {None}, pc : Labels, user : User \cup {None},
     channel : Channel \cup {None}, address : Address \cup {None}, row : Row \cup {None},
     change : Request \cup {None}, old : Address \cup {None},
     factor : {"none", "totp", "recovery"}, item : Value \cup Address \cup {None}]

\* Which variables of a request are set where.
RequestOK(r) ==
    /\ r \in RequestState
    /\ r.pc \in Idle \cup {"holder"} => r.user = None
    /\ r.pc \notin Idle =>
          /\ Placed(r.op, r.pc)
          /\ r.pc # "holder" => r.user \in User
          /\ r.pc \notin Unread /\ r.op # "Register" => r.row \in Row
          /\ r.op \in {"Register", "Verify", "UpdateProfile"} /\ r.pc # "update" =>
                r.channel \in Channel /\ r.address \in Address
          /\ r.op = "UpdateProfile" /\ r.pc # "update" => r.old = r.row.contact[r.channel]
          /\ r.pc \in {"oldCode", "issueOld"} => r.old \in Address
          /\ r.pc = "holder" => r.change = None
          /\ r.pc = "redeem" => r.factor \in {"totp", "recovery"}

Change == [id : Request, user : User, channel : Channel, old : Address \cup {None}, new : Address]

\* Every column, code, cache entry and request variable keeps its type.
TypeOK ==
    /\ users \in [User -> Row \cup {None}]
    /\ pending \in Seq(Change)
    /\ code \in [User -> [Channel -> Address \cup {None}]]
    /\ oldCode \in [User -> [Channel -> Address \cup {None}]]
    /\ mailed \in [reset : SUBSET User, link : SUBSET User]
    /\ recovery \in [User -> [set : Value \cup {None}, left : BOOLEAN]]
    /\ challenge \subseteq [id : Request, user : User]
    /\ req = [p \in Request |-> req[p]] /\ \A p \in Request : RequestOK(req[p])
    /\ seen \in [Request -> SUBSET Row]
    /\ proved \subseteq User \X Channel \X Address
    /\ validated \subseteq User \X Value
    /\ spent \subseteq User \X Value
    /\ superseded \subseteq User /\ raced \subseteq User

\* Requests, changes, codes and challenges are those of users who have a row, but for
\* a registration, which has its user to itself until the row is there.
Present ==
    /\ \A p \in Request :
          req[p].user \in User /\ req[p].op # "Register" => users[req[p].user] # None
    /\ \A i \in 1..Len(pending) : users[pending[i].user] # None
    /\ \A c \in challenge : users[c.user] # None
    /\ \A u \in User, ch \in Channel : users[u] = None => oldCode[u][ch] = None
    /\ \A p \in Request : req[p].pc \in {"taken", "save"} /\ req[p].op = "Register" =>
          /\ users[req[p].user] = None
          /\ \A q \in Request \ {p} : req[q].user # req[p].user

\* A session goes to a user who at some moment of the request was active and
\* either had MFA off or gave a second factor to this request, however logins,
\* links, challenges and changes of the account overlap; and a recovery code is
\* the second factor of one request only.
SessionJustified ==
    [][\A p \in Request :
          /\ At(p, "session") /\ req'[p].pc = "issued" =>
                \E row \in seen[p] : row.active /\ (row.confirmed => req[p].factor # "none")
          /\ At(p, "consume") /\ req'[p].pc \in {"disable", "session"} =>
                <<req[p].user, req[p].item>> \notin spent]_vars

\* MFA is only ever enforced with a secret of which a code was accepted, even
\* when setups, confirmations and other updates of the row overlap: a secret
\* and its confirmation are always written together.
OnlyValidatedSecrets ==
    \A u \in User : users[u] # None /\ users[u].confirmed => <<u, users[u].secret>> \in validated

\* While MFA is enforced there is a set of recovery codes, unless requests that
\* write the row have overlapped.
NoLockIn ==
    \A u \in User \ raced :
       users[u] # None /\ users[u].confirmed => recovery[u].set # None

\* The copies in hand are as good as the rows, and MFA is switched on after a
\* code of the staged secret was accepted.
SecretsInHand ==
    \A p \in Request :
       /\ req[p].user \in User /\ req[p].row # None
       /\ req[p].row.confirmed \/ req[p].pc \in {"saveAll", "confirm"}
       => <<req[p].user, req[p].row.secret>> \in validated

\* The request has read the row of u and is going to write it, or has.
Holding(p, u) == req[p].user = u /\ req[p].op \in Writers /\ req[p].pc # "owner"

\* Where nothing has overlapped, one request at a time holds a copy of the row,
\* the copy is what the row is until it is written, and recovery codes are
\* there before MFA is on and go after it is off.
UnlessRaced ==
    \A u \in User \ raced : \A p \in Request : Holding(p, u) =>
       /\ \A q \in Request : Holding(q, u) => q = p
       /\ req[p].op # "Register" /\ req[p].pc \notin {"mark", "deleteAll"} => req[p].row = users[u]
       /\ req[p].pc = "confirm" => recovery[u].set # None
       /\ req[p].pc = "deleteAll" => ~users[u].confirmed

\* What a request for a session has seen and given at each of its steps.
Admitted ==
    \A p \in Request :
       /\ req[p].pc = "session" =>
             \E row \in seen[p] : row.active /\ (row.confirmed => req[p].factor # "none")
       /\ req[p].pc = "consume" /\ req[p].op # "DisableTOTP" =>
             req[p].factor = "recovery" /\ \E row \in seen[p] : row.active
       /\ req[p].pc = "link" => req[p].row \in seen[p] /\ req[p].row.active

\* A set of recovery codes that is still good has not been accepted, and a new
\* one was in no table before.
FreshSets ==
    \A u \in User :
       /\ recovery[u].left /\ recovery[u].set # None => <<u, recovery[u].set>> \notin spent
       /\ \A p \in Request : recovery[u].set = p \/ <<u, p>> \in spent =>
             req[p].pc \in {"confirm", "ended"}

\* A request that verifies the change of a contact and has not written it yet.
Changing(p, u, ch) ==
    /\ req[p].op = "Verify" /\ req[p].change # None /\ req[p].pc # "mark"
    /\ req[p].user = u /\ req[p].channel = ch

IsPending(id) == \E i \in 1..Len(pending) : pending[i].id = id

\* A change is looked up after it was made, and belongs to one user.
ChangesKnown ==
    /\ \A i, j \in 1..Len(pending) : pending[i].id = pending[j].id => pending[i] = pending[j]
    /\ \A p, q \in Request : (req[p].op = "Verify" /\ req[p].change = q) \/ IsPending(q) =>
          req[q].pc \in {"issue", "issueOld", "update", "ended"}
    /\ \A p \in Request : \A i \in 1..Len(pending) :
          req[p].op = "Verify" /\ req[p].change = pending[i].id =>
             /\ req[p].user = pending[i].user /\ req[p].channel = pending[i].channel
             /\ req[p].address = pending[i].new

\* The changes of a contact that wait for their codes.
Waiting(u, ch) == {i \in 1..Len(pending) : pending[i].user = u /\ pending[i].channel = ch}

\* The changes of a contact that wait or are being verified lead from the
\* present address or to it, all to the same one, and the code for the old
\* address is for the present one.
Settled(u, ch) ==
    LET now == users[u].contact[ch] IN
    /\ oldCode[u][ch] \in {None, now}
    /\ \A i \in Waiting(u, ch) : now \in {pending[i].old, pending[i].new}
    /\ \A i, j \in Waiting(u, ch) : pending[i].new = pending[j].new
    /\ \A p \in Request : Changing(p, u, ch) =>
          /\ now \in {req[p].old, req[p].address}
          /\ \A i \in Waiting(u, ch) : pending[i].new = req[p].address
          /\ \A q \in Request : Changing(q, u, ch) => req[q].address = req[p].address
          /\ \/ IsPending(req[p].change)
             \/ \A q \in Request \ {p} : ~Holding(q, u)
          /\ req[p].pc \in {"newCode", "apply"} /\ now \notin {None, req[p].address} =>
                req[p].item = now /\ oldCode[u][ch] = None

\* Which holds while no other change was asked for and nothing overlapped.
OneChange ==
    \A u \in User \ (superseded \cup raced) :
       users[u] # None => \A ch \in Channel : Settled(u, ch)

\* What holds of every account: the types, that MFA is enforced only with a
\* validated secret and, where nothing overlapped, with recovery codes; and what
\* that, the second factor and the confirmation of changes rest on.
AccountsInv ==
    /\ TypeOK /\ Present
    /\ OnlyValidatedSecrets /\ SecretsInHand
    /\ NoLockIn /\ UnlessRaced
    /\ Admitted /\ FreshSets
    /\ ChangesKnown /\ OneChange

\* A verified address is one from which a code of this user was accepted,
\* unless the user asked for another address while one waited for its code.
VerifiedWasProved ==
    \A u \in User \ superseded : users[u] # None =>
       \A ch \in Channel : users[u].verified[ch] => <<u, ch, users[u].contact[ch]>> \in proved

\* A verified address of an account is replaced only by a request that has
\* accepted a code sent to it, with the same exception and unless overlapping
\* updates wrote an older row back.
OldAddressConfirms ==
    [][\A u \in User \ (superseded \cup raced) : users[u] # None =>
          \A ch \in Channel :
             LET old == users[u].contact[ch] IN
             old # None /\ users'[u].contact[ch] # old =>
                \E p \in Request : At(p, "apply") /\ req[p].user = u /\ req[p].item = old]_vars
=============================================================================
