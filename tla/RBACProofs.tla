----------------------------- MODULE RBACProofs -----------------------------
(* The safety properties of RBAC for every value of its constants. *)
EXTENDS RBAC, FiniteSetTheorems, TLAPS

USE RBACConstants DEF RowId

\* The two halves of the invariant: what requests do, and what checks read.
RequestInv ==
    /\ \A p \in Request : Shape(req[p]) /\ Justified(req[p])
    /\ AdminRemains /\ RevocationsTakeTurns /\ RevocationSparesOne
CacheInv == VersionDates /\ EntriesAgree /\ LoadsAgree

\* A step keeps the committed states, and may add to them and to what queries
\* show.
Grows ==
    /\ Len(log) <= Len(log') /\ \A i \in 1..Len(log) : log'[i] = log[i]
    /\ log' \in Seq(Database) /\ applied <= applied' /\ applied' \in 1..Len(log')

-----------------------------------------------------------------------------
(* Facts about the operators. *)

\* A statement adds its state to the history, as the newest one.
LEMMA CommitGrows ==
    ASSUME TypeOK, NEW db \in Database, Commit(db)
    PROVE  Grows /\ Primary' = db
<1>1. log \in Seq(Database) /\ applied \in 1..Len(log) BY DEF TypeOK
<1>2. CASE db = Primary
  BY <1>1, <1>2 DEF Commit, Grows, Primary
<1>3. CASE db # Primary
  <2>1. log' = Append(log, db) BY <1>3 DEF Commit
  <2>2. /\ Len(log') = Len(log) + 1 /\ log' \in Seq(Database)
        /\ \A i \in 1..Len(log) : log'[i] = log[i]
        /\ log'[Len(log) + 1] = db
    BY <1>1, <2>1
  <2>3. applied' = applied \/ applied' = Len(log') BY DEF Commit
  <2>4. QED BY <1>1, <2>2, <2>3 DEF Grows, Primary
<1>4. QED BY <1>2, <1>3

\* A step that leaves the database alone.
LEMMA StillGrows == TypeOK /\ UNCHANGED database => Grows
BY DEF TypeOK, Grows, database

\* What may have been shown since state k may still have been.
LEMMA SinceGrows == TypeOK /\ Grows => \A k \in Nat : Since(k) \subseteq Since(k)'
BY DEF TypeOK, Grows, Since

\* What queries show now is in the history since anything they have shown.
LEMMA ViewIsRecent == TypeOK => View \in Database /\ \A k \in 0..applied : View \in Since(k)
BY DEF TypeOK, View, Since

LEMMA PrimaryType == TypeOK => Primary \in Database
BY DEF TypeOK, Primary

\* A longer history asks no more of an answer.
LEMMA RolesAgreeLonger ==
    ASSUME NEW rs, NEW u, NEW now, NEW later, now \subseteq later, RolesAgree(rs, u, now)
    PROVE  RolesAgree(rs, u, later)
BY DEF RolesAgree

LEMMA DirectAgreeLonger ==
    ASSUME NEW qs, NEW u, NEW now, NEW later, now \subseteq later, DirectAgree(qs, u, now)
    PROVE  DirectAgree(qs, u, later)
BY DEF DirectAgree

LEMMA PermsAgreeLonger ==
    ASSUME NEW qs, NEW u, NEW now, NEW later, now \subseteq later, PermsAgree(qs, u, now)
    PROVE  PermsAgree(qs, u, later)
BY DEF PermsAgree

\* A set with more than one element has another one.
LEMMA AnotherHolder ==
    ASSUME NEW db, NEW u, ~(Cardinality(Holders(db)) <= 1)
    PROVE  \E v \in Holders(db) : v # u
<1>1. SUFFICES ASSUME Holders(db) \subseteq {u} PROVE FALSE OBVIOUS
<1>2. IsFiniteSet({u}) /\ Cardinality({u}) = 1 BY FS_Singleton
<1>3. Cardinality(Holders(db)) <= Cardinality({u}) BY <1>1, <1>2, FS_Subset
<1>4. QED BY <1>2, <1>3

-----------------------------------------------------------------------------
(* Frames: what a step of one half needs to leave the other half alone. *)

\* The cache and the checks agree with a history that only grows.
LEMMA CacheFrame ==
    ASSUME TypeOK, CacheInv, Grows, UNCHANGED <<cache, chk, settled>>
    PROVE  CacheInv'
<1>1. \A k \in Nat : Since(k) \subseteq Since(k)' BY SinceGrows
<1>2. settled \in Nat /\ \A c \in Checker : chk[c].since \in Nat
  BY DEF TypeOK, CheckState
<1>3. VersionDates'
  BY DEF CacheInv, VersionDates, At, cache
<1>4. \A u, k : k \in Nat /\ EntryAgrees(u, Since(k)) => EntryAgrees(u, Since(k))'
  <2> SUFFICES ASSUME NEW u, NEW k \in Nat, EntryAgrees(u, Since(k))
               PROVE  EntryAgrees(u, Since(k))'
    OBVIOUS
  <2> HIDE DEF Since
  <2>1. Since(k) \subseteq Since(k)' BY <1>1
  <2>2. QED BY <2>1, RolesAgreeLonger, PermsAgreeLonger DEF EntryAgrees, cache
<1>5. EntriesAgree'
  BY <1>2, <1>4 DEF CacheInv, EntriesAgree, At, cache
<1>6. LoadsAgree'
  BY <1>1, <1>2, RolesAgreeLonger, DirectAgreeLonger, PermsAgreeLonger
     DEF CacheInv, LoadsAgree, At
<1>7. QED BY <1>3, <1>5, <1>6 DEF CacheInv

\* Checks do not touch requests.
LEMMA RequestFrame ==
    ASSUME RequestInv, TypeOK, UNCHANGED <<log, req, raced>>
    PROVE  RequestInv'
BY DEF RequestInv, Shape, Justified, AdminRemains, RevocationsTakeTurns, RevocationSparesOne,
       Revoking, Primary, Since

\* A request that does not start to revoke super_admin moves on.  What it has
\* written took super_admin from nobody, or from the user of a revocation that
\* leaves another holder.
LEMMA RequestMoves ==
    ASSUME TypeOK, RequestInv, Grows, NEW p \in Request, NEW x \in RequestState,
           req' = [req EXCEPT ![p] = x], raced => raced',
           Shape(x), Justified(x)', ~Revoking(x),
           \/ Holders(Primary) \subseteq Holders(Primary')
           \/ /\ Revoking(req[p]) /\ req[p].pc = "write"
              /\ Holders(Primary) \ {req[p].user} \subseteq Holders(Primary')
    PROVE  RequestInv'
<1>1. /\ req \in [Request -> RequestState] /\ req'[p] = x
      /\ \A o \in Request \ {p} : req'[o] = req[o]
  BY DEF TypeOK
<1>2. \A o \in Request : req[o].since \in Nat BY <1>1 DEF RequestState
<1>3. \A o \in Request : Shape(req[o])'
  BY <1>1 DEF RequestInv, Shape
<1>4. \A o \in Request : Justified(req[o])'
  <2>1. \A o \in Request \ {p} : Justified(req[o])'
    BY <1>1, <1>2, SinceGrows DEF RequestInv, Justified
  <2>2. Justified(req[p])' BY <1>1 DEF Justified
  <2>3. QED BY <2>1, <2>2
<1>5. RevocationsTakeTurns'
  BY <1>1 DEF RequestInv, RevocationsTakeTurns
<1>6. CASE raced'
  BY <1>3, <1>4, <1>5, <1>6 DEF RequestInv, AdminRemains, RevocationSparesOne
<1>7. CASE ~raced'
  <2>1. ASSUME NEW o \in Request, Revoking(req'[o]), req'[o].pc = "write"
        PROVE  \E u \in Holders(Primary') : u # req'[o].user
    <3>1. o # p /\ req'[o] = req[o] BY <1>1, <2>1
    <3>2. Revoking(req[o]) /\ req[o].pc = "write" BY <2>1, <3>1
    <3>3. ~Revoking(req[p]) BY <1>7, <3>1, <3>2 DEF RequestInv, RevocationsTakeTurns
    <3>4. Holders(Primary) \subseteq Holders(Primary') BY <3>3
    <3>5. PICK u \in Holders(Primary) : u # req[o].user
      BY <1>7, <3>2 DEF RequestInv, RevocationSparesOne
    <3>6. QED BY <3>1, <3>4, <3>5
  <2>2. Holders(Primary') # {}
    <3>1. CASE Holders(Primary) \subseteq Holders(Primary')
      BY <1>7, <3>1 DEF RequestInv, AdminRemains
    <3>2. CASE /\ Revoking(req[p]) /\ req[p].pc = "write"
               /\ Holders(Primary) \ {req[p].user} \subseteq Holders(Primary')
      BY <1>7, <3>2 DEF RequestInv, RevocationSparesOne
    <3>3. QED BY <3>1, <3>2
  <2>3. QED
    BY <1>3, <1>4, <1>5, <1>7, <2>1, <2>2 DEF RequestInv, AdminRemains, RevocationSparesOne
<1>8. QED BY <1>6, <1>7

\* The rest of the state keeps its type.
LEMMA TypeFrame ==
    ASSUME TypeOK, Grows, NEW p \in Request, NEW x \in RequestState,
           req' = [req EXCEPT ![p] = x], x.commit <= Len(log'), x.since <= applied',
           UNCHANGED <<cache, chk, settled>>, raced' \in BOOLEAN
    PROVE  TypeOK'
<1>1. /\ req \in [Request -> RequestState] /\ req'[p] = x
      /\ \A o \in Request \ {p} : req'[o] = req[o]
      /\ req' \in [Request -> RequestState]
  BY DEF TypeOK
<1>2. /\ log \in Seq(Database) /\ applied \in Nat /\ settled \in Nat
      /\ \A o \in Request : req[o].commit \in Nat /\ req[o].since \in Nat
  BY <1>1 DEF TypeOK, RequestState
<1>3. \A o \in Request : req'[o].commit <= Len(log') /\ req'[o].since <= applied'
  BY <1>1, <1>2 DEF TypeOK, Grows
<1>4. settled' \in 0..applied' BY <1>2 DEF TypeOK, Grows
<1>5. QED BY <1>1, <1>3, <1>4 DEF TypeOK, Grows, cache

LEMMA Parts == RBACInv <=> TypeOK /\ RequestInv /\ CacheInv
BY DEF RBACInv, RequestInv, CacheInv

\* A request that moves on without touching the cache keeps the invariant.
LEMMA RequestStep ==
    ASSUME RBACInv, Grows, NEW p \in Request, NEW x \in RequestState,
           req' = [req EXCEPT ![p] = x], x.commit <= Len(log'), x.since <= applied',
           UNCHANGED <<cache, chk, settled>>, raced => raced', raced' \in BOOLEAN,
           Shape(x), Justified(x)', ~Revoking(x),
           \/ Holders(Primary) \subseteq Holders(Primary')
           \/ /\ Revoking(req[p]) /\ req[p].pc = "write"
              /\ Holders(Primary) \ {req[p].user} \subseteq Holders(Primary')
    PROVE  RBACInv'
<1>1. TypeOK' BY TypeFrame, Parts
<1>2. RequestInv' BY RequestMoves, Parts
<1>3. CacheInv' BY CacheFrame, Parts
<1>4. QED BY <1>1, <1>2, <1>3, Parts, PTL

Resting == {"bumpBestEffort", "bumpChecked", "retry", "done", "refused", "failed"}

\* A request that rests decides nothing any more.
LEMMA RestingShape ==
    ASSUME NEW x, x.pc \in Resting PROVE Shape(x) /\ Justified(x)' /\ ~Revoking(x)
BY DEF Resting, Shape, Justified, Revoking

LEMMA NoRequestType ==
    NoRequest \in RequestState /\ NoRequest.commit = 0 /\ NoRequest.since = 0
<1>1. [q \in Permission |-> 0] \in [Permission -> Nat] OBVIOUS
<1>2. QED BY <1>1 DEF NoRequest, RequestState, Labels

\* A statement that keeps the holders of super_admin, or takes it from the user
\* of a revocation that was decided.
LEMMA AppliesStep ==
    ASSUME RBACInv, NEW p \in Request, NEW db \in Database,
           NEW label \in {"bumpChecked", "failed", "done"}, Applies(p, db, label),
           \/ Holders(Primary) \subseteq Holders(db)
           \/ /\ Revoking(req[p]) /\ req[p].pc = "write"
              /\ Holders(Primary) \ {req[p].user} \subseteq Holders(db)
    PROVE  RBACInv'
<1>1. Grows /\ Primary' = db BY CommitGrows, Parts DEF Applies
<1>2. Len(log') \in Nat BY <1>1 DEF Grows
<1>3. PICK x : /\ req' = [req EXCEPT ![p] = x]
               /\ \/ x = [NoRequest EXCEPT !.pc = label]
                  \/ x = [NoRequest EXCEPT !.pc = label, !.commit = Len(log')]
  BY DEF Applies, Goto
<1>4. x \in RequestState /\ x.pc = label /\ x.commit \in {0, Len(log')} /\ x.since = 0
  <2>1. label \in Labels BY DEF Labels
  <2>2. CASE x = [NoRequest EXCEPT !.pc = label]
    BY <2>1, <2>2, NoRequestType DEF RequestState
  <2>3. CASE x = [NoRequest EXCEPT !.pc = label, !.commit = Len(log')]
    BY <1>2, <2>1, <2>3, NoRequestType DEF RequestState
  <2>4. QED BY <1>3, <2>2, <2>3
<1>5. Shape(x) /\ Justified(x)' /\ ~Revoking(x)
  BY <1>4, RestingShape DEF Resting
<1>6. x.commit <= Len(log') /\ x.since <= applied' BY <1>1, <1>2, <1>4 DEF Grows
<1>7. (raced => raced') /\ raced' \in BOOLEAN BY DEF Applies, RBACInv, TypeOK
<1>8. QED BY <1>1, <1>3, <1>4, <1>5, <1>6, <1>7, RequestStep DEF Applies

\* A request that only changes its label.
LEMMA GotoStep ==
    ASSUME RBACInv, NEW p \in Request, NEW label \in Labels, Goto(p, label),
           UNCHANGED <<database, cache, chk, settled>>, raced => raced', raced' \in BOOLEAN,
           label \in Resting \/ (label = "write" /\ Shape([req[p] EXCEPT !.pc = label])
                                /\ Justified([req[p] EXCEPT !.pc = label])
                                /\ req[p].op # "RevokeRole")
    PROVE  RBACInv'
<1>1. req[p] \in RequestState /\ req[p].since <= applied /\ req[p].commit <= Len(log)
  BY DEF RBACInv, TypeOK
<1>2. Grows BY StillGrows, Parts
<1>3. Len(log) \in Nat /\ applied \in Nat BY DEF RBACInv, TypeOK
<1>4. Holders(Primary) \subseteq Holders(Primary') BY DEF database, Primary
<1>5. CASE label \in Resting
  <2>1. PICK x : /\ req' = [req EXCEPT ![p] = x]
                 /\ x = [NoRequest EXCEPT !.pc = label] \/ x = [req[p] EXCEPT !.pc = label]
    BY DEF Goto
  <2>2. /\ x \in RequestState /\ x.pc = label
        /\ x.commit \in {0, req[p].commit} /\ x.since \in {0, req[p].since}
    <3>1. CASE x = [NoRequest EXCEPT !.pc = label]
      BY <3>1, NoRequestType DEF RequestState
    <3>2. CASE x = [req[p] EXCEPT !.pc = label]
      BY <1>1, <3>2 DEF RequestState
    <3>3. QED BY <2>1, <3>1, <3>2
  <2>3. Shape(x) /\ Justified(x)' /\ ~Revoking(x) BY <1>5, <2>2, RestingShape
  <2>4. x.commit <= Len(log') /\ x.since <= applied'
    BY <1>1, <1>3, <2>2 DEF database
  <2>5. QED BY <1>2, <1>4, <2>1, <2>2, <2>3, <2>4, RequestStep
<1>6. CASE label = "write"
  <2>1. PICK x : req' = [req EXCEPT ![p] = x] /\ x = [req[p] EXCEPT !.pc = label]
    BY <1>6 DEF Goto, Ends
  <2>2. /\ x \in RequestState /\ x.pc = label /\ x.op = req[p].op
        /\ x.commit = req[p].commit /\ x.since = req[p].since
    BY <1>1, <2>1 DEF RequestState
  <2>3. Shape(x) /\ Justified(x)
    BY <1>6, <2>1 DEF Resting
  <2>4. Justified(x)' BY <2>3 DEF Justified, Since, database
  <2>5. ~Revoking(x) BY <1>6, <2>2 DEF Revoking, Resting
  <2>6. x.commit <= Len(log') /\ x.since <= applied'
    BY <1>1, <1>3, <2>2 DEF database
  <2>7. QED BY <1>2, <1>4, <2>1, <2>2, <2>3, <2>4, <2>5, <2>6, RequestStep
<1>7. QED BY <1>5, <1>6

\* The first lookup of a request.
LEMMA LookupStep ==
    ASSUME RBACInv, NEW p \in Request, NEW op, NEW u \in User \cup {None},
           NEW r \in Role \cup {None}, NEW qs \in SUBSET Permission,
           NEW caller \in User \cup {None},
           NEW first \in {"authorize", "holds", "ensure", "create", "write"},
           Lookup(p, op, u, r, qs, caller, first),
           Shape([op |-> op, pc |-> first, user |-> u, role |-> r]),
           first = "write" /\ r = SuperAdmin =>
              op # "RevokeRole" /\ (op = "AssignRole" => caller = None)
    PROVE  RBACInv'
<1>1. req[p] \in RequestState /\ req[p].since <= applied /\ req[p].commit <= Len(log)
  BY DEF RBACInv, TypeOK
<1>2. Grows BY StillGrows, Parts DEF Lookup
<1>3. Len(log) \in Nat /\ applied \in Nat BY DEF RBACInv, TypeOK
<1>4. View \in Database BY ViewIsRecent, Parts
<1>5. PICK x : /\ req' = [req EXCEPT ![p] = x]
               /\ x = [req[p] EXCEPT !.op = op, !.pc = first, !.user = u, !.role = r,
                                     !.perms = qs, !.caller = caller,
                                     !.since = IF caller = None THEN 0 ELSE applied,
                                     !.row = IF r = None THEN 0 ELSE View.role[r],
                                     !.ids = [q \in Permission |->
                                                IF q \in qs THEN View.permission[q] ELSE 0],
                                     !.todo = IF first = "ensure" THEN qs ELSE {}]
  BY DEF Lookup
<1>6. /\ x.op = op /\ x.pc = first /\ x.user = u /\ x.role = r /\ x.caller = caller
      /\ x.commit = req[p].commit /\ x.since \in {0, applied}
  BY <1>1, <1>5 DEF RequestState
<1>7. op \in Operation BY DEF Lookup
<1>8. (IF r = None THEN 0 ELSE View.role[r]) \in Nat BY <1>4 DEF Database
<1>9. [q \in Permission |-> IF q \in qs THEN View.permission[q] ELSE 0] \in [Permission -> Nat]
  BY <1>4 DEF Database
<1>10. x \in RequestState
  <2>1. (IF first = "ensure" THEN qs ELSE {}) \in SUBSET Permission OBVIOUS
  <2>2. (IF caller = None THEN 0 ELSE applied) \in Nat BY <1>3
  <2>3. first \in Labels BY DEF Labels
  <2>4. PICK todo \in SUBSET Permission, since \in Nat, row \in Nat, ids \in [Permission -> Nat] :
           x = [req[p] EXCEPT !.op = op, !.pc = first, !.user = u, !.role = r, !.perms = qs,
                              !.caller = caller, !.since = since, !.row = row, !.ids = ids,
                              !.todo = todo]
    BY <1>5, <1>8, <1>9, <2>1, <2>2
  <2>5. QED BY <1>1, <1>7, <2>3, <2>4 DEF RequestState
<1>11. Shape(x) BY <1>6 DEF Shape
<1>12. Justified(x)' BY <1>6 DEF Justified
<1>13. ~Revoking(x) BY <1>6 DEF Revoking
<1>14. Holders(Primary) \subseteq Holders(Primary') BY DEF Lookup, database, Primary
<1>15. x.since <= applied' /\ x.commit <= Len(log')
  BY <1>1, <1>3, <1>6 DEF Lookup, database
<1>16. (raced => raced') /\ raced' \in BOOLEAN BY DEF Lookup, RBACInv, TypeOK
<1>17. req' = [req EXCEPT ![p] = x] /\ UNCHANGED <<cache, chk, settled>>
  BY <1>5 DEF Lookup
<1>18. QED
  BY <1>2, <1>16, <1>17, <1>10, <1>11, <1>12, <1>13, <1>14, <1>15, RequestStep

-----------------------------------------------------------------------------
(* Requests. *)

\* Renames have nothing to write.
LEMMA RenamesStep ==
    ASSUME RBACInv, NEW p \in Request, Renames(p)
    PROVE  RBACInv'
<1>1. (raced => raced') /\ raced' \in BOOLEAN BY DEF Renames, RBACInv, TypeOK
<1>2. QED BY <1>1, GotoStep DEF Renames, Labels, Resting

\* Every request begins with a lookup, of a row where it needs one.
LEMMA BeginStep ==
    ASSUME RBACInv, NEW p \in Request, Begin(p)
    PROVE  RBACInv'
<1>1. CASE AssignRole(p)
  <2>1. PICK u \in User, r \in Role, caller \in User \cup {None} :
           /\ r # SuperAdmin => caller = None
           /\ Lookup(p, "AssignRole", u, r, {}, caller,
                     IF caller = None THEN "write" ELSE "authorize")
    BY <1>1 DEF AssignRole
  <2>2. CASE caller = None
    <3>1. Lookup(p, "AssignRole", u, r, {}, caller, "write") BY <2>1, <2>2
    <3>2. QED BY <2>2, <3>1, LookupStep DEF Shape
  <2>3. CASE caller # None
    <3>1. Lookup(p, "AssignRole", u, r, {}, caller, "authorize") BY <2>1, <2>3
    <3>2. QED BY <3>1, LookupStep DEF Shape
  <2>4. QED BY <2>2, <2>3
<1>2. CASE RevokeRole(p)
  <2>1. PICK u \in User, r \in Role :
           Lookup(p, "RevokeRole", u, r, {}, None, IF r = SuperAdmin THEN "holds" ELSE "write")
    BY <1>2 DEF RevokeRole
  <2>2. CASE r = SuperAdmin
    <3>1. Lookup(p, "RevokeRole", u, r, {}, None, "holds") BY <2>1, <2>2
    <3>2. QED BY <2>2, <3>1, LookupStep DEF Shape
  <2>3. CASE r # SuperAdmin
    <3>1. Lookup(p, "RevokeRole", u, r, {}, None, "write") BY <2>1, <2>3
    <3>2. QED BY <2>3, <3>1, LookupStep DEF Shape
  <2>4. QED BY <2>2, <2>3
<1>3. CASE GrantPermission(p)
  BY <1>3, LookupStep DEF GrantPermission, Shape
<1>4. CASE RevokePermission(p)
  BY <1>4, LookupStep DEF RevokePermission, Shape
<1>5. CASE SyncRolePermissions(p)
  BY <1>5, LookupStep DEF SyncRolePermissions, Shape
<1>6. CASE CreateRole(p)
  BY <1>6, LookupStep DEF CreateRole, Shape
<1>7. CASE CreatePermission(p)
  BY <1>7, LookupStep DEF CreatePermission, Shape
<1>8. CASE DeleteRole(p)
  BY <1>8, LookupStep DEF DeleteRole, Shape
<1>9. CASE DeletePermission(p)
  BY <1>9, LookupStep DEF DeletePermission, Shape
<1>10. CASE UpdateRole(p) \/ UpdatePermission(p) \/ Bootstrap(p)
  BY <1>10, RenamesStep DEF UpdateRole, UpdatePermission, Bootstrap
<1>11. QED
  BY <1>1, <1>2, <1>3, <1>4, <1>5, <1>6, <1>7, <1>8, <1>9, <1>10 DEF Begin

\* A request goes on, and only its label changes.
LEMMA ProceedsStep ==
    ASSUME RBACInv, NEW p \in Request, NEW label \in Labels, Proceeds(p, label),
           label \in Resting \/ (label = "write" /\ Shape([req[p] EXCEPT !.pc = label])
                                /\ Justified([req[p] EXCEPT !.pc = label])
                                /\ req[p].op # "RevokeRole")
    PROVE  RBACInv'
<1>1. (raced => raced') /\ raced' \in BOOLEAN BY DEF Proceeds, RBACInv, TypeOK
<1>2. QED BY <1>1, GotoStep DEF Proceeds

\* The guard of a grant is what justifies it.
LEMMA AuthorizeStep ==
    ASSUME RBACInv, NEW p \in Request, AuthorizeSuperAdminGrant(p)
    PROVE  RBACInv'
<1>1. /\ req[p] \in RequestState /\ req[p].pc = "authorize" /\ req[p].op = "AssignRole"
      /\ req[p].since \in 0..applied
      /\ Shape(req[p])
  BY DEF AuthorizeSuperAdminGrant, RBACInv, TypeOK, Shape, RequestState
<1>2. CASE req[p].caller # req[p].user /\ SuperAdmin \in RolesOf(View, req[p].caller)
  <2>1. Proceeds(p, "write") BY <1>2 DEF AuthorizeSuperAdminGrant
  <2>2. PICK x : x = [req[p] EXCEPT !.pc = "write"] OBVIOUS
  <2>3. /\ x.pc = "write" /\ x.op = "AssignRole" /\ x.user = req[p].user
        /\ x.role = req[p].role /\ x.caller = req[p].caller /\ x.since = req[p].since
    BY <1>1, <2>2 DEF RequestState
  <2>4. Shape(x) BY <1>1, <2>3 DEF Shape
  <2>5. View \in Since(x.since) BY <1>1, <2>3, ViewIsRecent DEF RBACInv
  <2>6. x.caller = None \/ x.caller \in User BY <1>1, <2>3 DEF RequestState
  <2>7. x.caller # None => x.caller \in Holders(View)
    BY <1>2, <2>3, <2>6 DEF Holders, RolesOf
  <2>8. Justified(x) BY <1>2, <2>3, <2>5, <2>7 DEF Justified
  <2>9. QED BY <1>1, <2>1, <2>2, <2>4, <2>8, ProceedsStep DEF Labels
<1>3. CASE ~(req[p].caller # req[p].user /\ SuperAdmin \in RolesOf(View, req[p].caller))
  <2>1. Proceeds(p, "refused") BY <1>3 DEF AuthorizeSuperAdminGrant
  <2>2. QED BY <2>1, ProceedsStep DEF Labels, Resting
<1>4. QED BY <1>2, <1>3

\* A check of a revocation that is not outdated sees the holders as they are and
\* stay until the write.
LEMMA CheckAdminsStep ==
    ASSUME RBACInv, NEW p \in Request, req[p].pc \in {"holds", "count"},
           NEW label \in {"count", "write"}, CheckAdmins(p, label),
           label = "write" => Outdated(p) \/ raced \/ \E u \in Holders(View) : u # req[p].user
    PROVE  RBACInv'
<1>1. /\ req[p] \in RequestState /\ req[p].since <= applied /\ req[p].commit <= Len(log)
      /\ req \in [Request -> RequestState]
      /\ log \in Seq(Database) /\ applied \in 1..Len(log) /\ raced \in BOOLEAN
  BY DEF RBACInv, TypeOK
<1>2. req[p].op = "RevokeRole" /\ req[p].role = SuperAdmin /\ req[p].user \in User
  BY DEF RBACInv, Shape
<1>3. Grows BY StillGrows, Parts DEF CheckAdmins
<1>4. PICK x : req' = [req EXCEPT ![p] = x] /\ x = [req[p] EXCEPT !.pc = label]
  BY DEF CheckAdmins, Goto, Ends
<1>5. /\ x \in RequestState /\ x.pc = label /\ x.op = "RevokeRole" /\ x.role = SuperAdmin
      /\ x.user = req[p].user /\ x.since = req[p].since /\ x.commit = req[p].commit
  BY <1>1, <1>2, <1>4 DEF RequestState, Labels
<1>6. req'[p] = x /\ \A o \in Request \ {p} : req'[o] = req[o] BY <1>1, <1>4
<1>7. UNCHANGED <<log, applied>> /\ raced' = (raced \/ Outdated(p))
  BY DEF CheckAdmins, database
<1>8. TypeOK'
  <2>1. raced' \in BOOLEAN BY <1>7
  <2>2. x.commit <= Len(log') /\ x.since <= applied' BY <1>1, <1>5, <1>7
  <2>3. QED BY <1>3, <1>4, <1>5, <2>1, <2>2, TypeFrame, Parts DEF CheckAdmins
<1>9. CacheInv' BY <1>3, CacheFrame, Parts DEF CheckAdmins
<1>10. \A o \in Request : Shape(req[o])' /\ Justified(req[o])'
  <2>1. Shape(x) /\ Justified(x)' BY <1>2, <1>5 DEF Shape, Justified
  <2>2. \A o \in Request : Shape(req[o]) /\ Justified(req[o]) BY DEF RBACInv
  <2>3. ASSUME NEW o \in Request PROVE Shape(req[o])' /\ Justified(req[o])'
    BY <1>6, <1>7, <2>1, <2>2 DEF Shape, Justified, Since
  <2>4. QED BY <2>3
<1>11. CASE raced'
  <2>1. RequestInv'
    BY <1>10, <1>11
       DEF RequestInv, AdminRemains, RevocationsTakeTurns, RevocationSparesOne
  <2>2. QED BY <1>8, <1>9, <2>1, Parts, PTL
<1>12. CASE ~raced'
  <2>1. /\ ~raced /\ ~Outdated(p) /\ applied = Len(log)
        /\ \A o \in Request \ {p} : ~Revoking(req[o])
    <3>1. ~raced /\ ~Outdated(p) BY <1>7, <1>12
    <3>2. QED BY <1>1, <3>1 DEF Outdated
  <2>2. View = Primary BY <2>1 DEF View, Primary
  <2>3. Primary' = Primary BY <1>7 DEF Primary
  <2>4. AdminRemains' BY <2>1, <2>3 DEF RBACInv, AdminRemains
  <2>5. \A o \in Request : Revoking(req'[o]) => o = p BY <1>6, <2>1
  <2>6. RevocationsTakeTurns' BY <2>5 DEF RevocationsTakeTurns
  <2>7. RevocationSparesOne'
    BY <1>5, <1>6, <2>1, <2>2, <2>3, <2>5 DEF RevocationSparesOne
  <2>8. RequestInv' BY <1>10, <2>4, <2>6, <2>7 DEF RequestInv
  <2>9. QED BY <1>8, <1>9, <2>8, Parts, PTL
<1>13. QED BY <1>11, <1>12

\* Who does not hold super_admin is not its last holder.
LEMMA HoldsStep ==
    ASSUME RBACInv, NEW p \in Request, HoldsSuperAdmin(p)
    PROVE  RBACInv'
<1>1. CASE SuperAdmin \in RolesOf(View, req[p].user)
  BY <1>1, CheckAdminsStep DEF HoldsSuperAdmin
<1>2. CASE SuperAdmin \notin RolesOf(View, req[p].user)
  <2>1. CheckAdmins(p, "write") BY <1>2 DEF HoldsSuperAdmin
  <2>2. ASSUME ~Outdated(p), ~raced PROVE \E u \in Holders(View) : u # req[p].user
    <3>1. log \in Seq(Database) /\ applied \in 1..Len(log) BY DEF RBACInv, TypeOK
    <3>2. View = Primary BY <2>2, <3>1 DEF Outdated, View, Primary
    <3>3. Holders(View) # {} BY <2>2, <3>2 DEF RBACInv, AdminRemains
    <3>4. \A u \in Holders(View) : SuperAdmin \in RolesOf(View, u)
      BY DEF Holders, RolesOf
    <3>5. QED BY <1>2, <3>3, <3>4
  <2>3. QED BY <2>1, <2>2, CheckAdminsStep DEF HoldsSuperAdmin
<1>3. QED BY <1>1, <1>2

LEMMA CountStep ==
    ASSUME RBACInv, NEW p \in Request, CountHolders(p)
    PROVE  RBACInv'
<1>1. CASE Cardinality(Holders(View)) <= 1
  <2>1. CheckAdmins(p, "refused") BY <1>1 DEF CountHolders
  <2>2. (raced => raced') /\ raced' \in BOOLEAN
    BY <2>1 DEF CheckAdmins
  <2>3. QED BY <2>1, <2>2, GotoStep DEF CheckAdmins, Labels, Resting
<1>2. CASE ~(Cardinality(Holders(View)) <= 1)
  BY <1>2, CheckAdminsStep, AnotherHolder DEF CountHolders
<1>3. QED BY <1>1, <1>2

\* A link to a row that is gone is dropped or refused, which changes nothing.
LEMMA IgnoredStep ==
    ASSUME RBACInv, NEW p \in Request, Ignored(p)
    PROVE  RBACInv'
<1>1. Primary \in Database BY PrimaryType, Parts
<1>2. QED BY <1>1, AppliesStep DEF Ignored

\* Links are added and removed; the only link to super_admin that goes is the one
\* of a revocation that was decided.
LEMMA LinkStep ==
    ASSUME RBACInv, NEW p \in Request,
           \/ InsertUserRole(p) \/ DeleteUserRole(p)
           \/ InsertUserPermission(p) \/ DeleteUserPermission(p)
    PROVE  RBACInv'
<1>1. Primary \in Database BY PrimaryType, Parts
<1>2. req[p] \in RequestState /\ Shape(req[p]) BY DEF RBACInv, TypeOK
<1>3. CASE InsertUserRole(p)
  <2> DEFINE db == [Primary EXCEPT !.userRoles = @ \cup {<<req[p].user, req[p].role>>}]
  <2>1. req[p].user \in User /\ req[p].role \in Role
    BY <1>2, <1>3 DEF InsertUserRole, Writing, Shape
  <2>2. db \in Database /\ Holders(Primary) \subseteq Holders(db)
    BY <1>1, <2>1 DEF Database, Holders
  <2>3. Applies(p, db, "bumpChecked") \/ Ignored(p) BY <1>3 DEF InsertUserRole
  <2> HIDE DEF db
  <2>4. QED BY <2>2, <2>3, AppliesStep, IgnoredStep
<1>4. CASE DeleteUserRole(p)
  <2> DEFINE db == [Primary EXCEPT !.userRoles =
                      IF RoleThere(p) THEN @ \ {<<req[p].user, req[p].role>>} ELSE @]
  <2>1. db \in Database BY <1>1 DEF Database
  <2>2. db.userRoles = Primary.userRoles
           \/ db.userRoles = Primary.userRoles \ {<<req[p].user, req[p].role>>}
    BY <1>1 DEF Database
  <2>3. Holders(Primary) \ {req[p].user} \subseteq Holders(db)
    BY <2>2 DEF Holders
  <2>4. req[p].role # SuperAdmin => Holders(Primary) \subseteq Holders(db)
    BY <2>2 DEF Holders
  <2>5. req[p].role = SuperAdmin => Revoking(req[p]) /\ req[p].pc = "write"
    BY <1>4 DEF DeleteUserRole, Writing, Revoking
  <2>6. Applies(p, db, "bumpChecked") BY <1>4 DEF DeleteUserRole
  <2> HIDE DEF db
  <2>7. QED BY <2>1, <2>3, <2>4, <2>5, <2>6, AppliesStep
<1>5. CASE InsertUserPermission(p)
  <2> DEFINE db == [Primary EXCEPT !.userPerms = @ \cup UserPermissionLinks(p)]
  <2>1. UserPermissionLinks(p) \subseteq User \X Permission
    BY <1>2, <1>5 DEF InsertUserPermission, Writing, Shape, RequestState, UserPermissionLinks
  <2>2. db \in Database /\ Holders(Primary) \subseteq Holders(db)
    BY <1>1, <2>1 DEF Database, Holders
  <2>3. Applies(p, db, "bumpChecked") \/ Ignored(p) BY <1>5 DEF InsertUserPermission
  <2> HIDE DEF db
  <2>4. QED BY <2>2, <2>3, AppliesStep, IgnoredStep
<1>6. CASE DeleteUserPermission(p)
  <2> DEFINE db == [Primary EXCEPT !.userPerms =
                      IF PermsThere(p) THEN @ \ UserPermissionLinks(p) ELSE @]
  <2>1. db \in Database /\ Holders(Primary) \subseteq Holders(db)
    BY <1>1 DEF Database, Holders
  <2>2. Applies(p, db, "bumpChecked") BY <1>6 DEF DeleteUserPermission
  <2> HIDE DEF db
  <2>3. QED BY <2>1, <2>2, AppliesStep
<1>7. QED BY <1>3, <1>4, <1>5, <1>6

\* The links of a role are replaced; those of users stay.
LEMMA SetPermissionsStep ==
    ASSUME RBACInv, NEW p \in Request, SetPermissions(p)
    PROVE  RBACInv'
<1>1. Primary \in Database BY PrimaryType, Parts
<1>2. req[p] \in RequestState /\ req[p].role \in Role
  BY DEF RBACInv, TypeOK, Shape, SetPermissions, Writing
<1> DEFINE links == {req[p].role} \X req[p].perms
           others == {l \in Primary.rolePerms : l[1] # req[p].role}
           db == [Primary EXCEPT !.rolePerms = IF RoleThere(p) THEN others \cup links ELSE @]
<1>3. links \subseteq Role \X Permission BY <1>2 DEF RequestState
<1>4. others \subseteq Role \X Permission BY <1>1 DEF Database
<1>5. db \in Database /\ Holders(Primary) \subseteq Holders(db)
  BY <1>1, <1>3, <1>4 DEF Database, Holders
<1>6. Applies(p, db, "bumpChecked") \/ Proceeds(p, "failed") BY DEF SetPermissions
<1> HIDE DEF db
<1>7. QED BY <1>5, <1>6, AppliesStep, ProceedsStep DEF Labels, Resting

\* A protected role is never deleted, so that its holders stay.
LEMMA DeleteStep ==
    ASSUME RBACInv, NEW p \in Request, RoleDelete(p) \/ PermissionDelete(p)
    PROVE  RBACInv'
<1>1. Primary \in Database BY PrimaryType, Parts
<1>2. req[p] \in RequestState BY DEF RBACInv, TypeOK
<1>3. CASE RoleDelete(p)
  <2>1. req[p].role \in Role \ ProtectedRole
    BY <1>3 DEF RBACInv, Shape, RoleDelete, Writing
  <2> DEFINE db == [Primary EXCEPT !.role[req[p].role] = 0,
                                   !.userRoles = {l \in @ : l[2] # req[p].role},
                                   !.rolePerms = {l \in @ : l[1] # req[p].role}]
  <2>2. db \in Database BY <1>1, <2>1 DEF Database
  <2>3. db.userRoles = {l \in Primary.userRoles : l[2] # req[p].role}
    BY <1>1 DEF Database
  <2>4. Holders(Primary) \subseteq Holders(db)
    BY <2>1, <2>3 DEF Holders
  <2>5. Applies(p, db, "bumpChecked") \/ Applies(p, Primary, "bumpChecked")
    BY <1>3 DEF RoleDelete
  <2> HIDE DEF db
  <2>6. QED BY <1>1, <2>2, <2>4, <2>5, AppliesStep
<1>4. CASE PermissionDelete(p)
  <2> DEFINE db == [Primary EXCEPT
                      !.permission = [q \in Permission |->
                                        IF q \in req[p].perms THEN 0 ELSE @[q]],
                      !.userPerms = {l \in @ : l[2] \notin req[p].perms},
                      !.rolePerms = {l \in @ : l[2] \notin req[p].perms}]
  <2>1. [q \in Permission |-> IF q \in req[p].perms THEN 0 ELSE Primary.permission[q]]
           \in [Permission -> Nat]
    BY <1>1 DEF Database
  <2>2. db \in Database /\ Holders(Primary) \subseteq Holders(db)
    BY <1>1, <2>1 DEF Database, Holders
  <2>3. Applies(p, db, "bumpChecked") \/ Applies(p, Primary, "bumpChecked")
    BY <1>4 DEF PermissionDelete
  <2> HIDE DEF db
  <2>4. QED BY <1>1, <2>2, <2>3, AppliesStep
<1>5. QED BY <1>3, <1>4

LEMMA NewRowType == TypeOK => NewRow \in Nat
BY DEF TypeOK, NewRow

\* New rows have no links.
LEMMA NewRoleStep ==
    ASSUME RBACInv, NEW p \in Request, RoleSave(p) \/ PermissionSave(p)
    PROVE  RBACInv'
<1>1. Primary \in Database /\ NewRow \in Nat BY PrimaryType, NewRowType, Parts
<1>2. CASE RoleSave(p)
  <2> DEFINE db == [Primary EXCEPT !.role[req[p].role] = NewRow]
  <2>1. db \in Database /\ Holders(Primary) \subseteq Holders(db)
    BY <1>1 DEF Database, Holders
  <2>2. Applies(p, db, "done") \/ Proceeds(p, "failed") BY <1>2 DEF RoleSave
  <2> HIDE DEF db
  <2>3. QED BY <2>1, <2>2, AppliesStep, ProceedsStep DEF Labels, Resting
<1>3. CASE PermissionSave(p)
  <2>1. PICK q : \/ Applies(p, [Primary EXCEPT !.permission[q] = NewRow], "done")
                 \/ Proceeds(p, "failed")
    BY <1>3 DEF PermissionSave
  <2> DEFINE db == [Primary EXCEPT !.permission[q] = NewRow]
  <2>2. db \in Database /\ Holders(Primary) \subseteq Holders(db)
    BY <1>1 DEF Database, Holders
  <2> HIDE DEF db
  <2>3. QED BY <2>1, <2>2, AppliesStep, ProceedsStep DEF Labels, Resting, db
<1>4. QED BY <1>2, <1>3

\* A request that is looking codes up has written no link yet.
LEMMA EnsuringStep ==
    ASSUME RBACInv, Grows, NEW p \in Request, NEW x \in RequestState,
           req' = [req EXCEPT ![p] = x], UNCHANGED <<cache, chk, settled, raced>>,
           x.pc \in {"ensure", "make"}, x.op = "SyncRolePermissions", x.role \in Role,
           x.pc = "make" => x.making \in Permission,
           x.commit = req[p].commit, x.since = req[p].since,
           Holders(Primary) \subseteq Holders(Primary')
    PROVE  RBACInv'
<1>1. Shape(x) /\ Justified(x)' /\ ~Revoking(x) BY DEF Shape, Justified, Revoking
<1>2. /\ req[p] \in RequestState /\ Len(log) \in Nat /\ applied \in Nat
      /\ req[p].commit <= Len(log) /\ req[p].since <= applied /\ raced \in BOOLEAN
  BY DEF RBACInv, TypeOK
<1>3. x.commit <= Len(log') /\ x.since <= applied'
  BY <1>2 DEF Grows, RequestState
<1>4. (raced => raced') /\ raced' \in BOOLEAN BY <1>2
<1>5. QED BY <1>1, <1>3, <1>4, RequestStep

\* Codes are looked up and created one by one, before the links are replaced.
LEMMA EnsureStep ==
    ASSUME RBACInv, NEW p \in Request,
           \/ \E q \in Permission : FindPermission(p, q)
           \/ MakePermission(p) \/ AllEnsured(p)
    PROVE  RBACInv'
<1>1. /\ req[p] \in RequestState /\ req[p].pc \in {"ensure", "make"} /\ Shape(req[p])
      /\ req[p].op = "SyncRolePermissions" /\ req[p].role \in Role
  BY DEF RBACInv, TypeOK, Shape, FindPermission, MakePermission, AllEnsured
<1>2. View \in Database /\ Primary \in Database /\ NewRow \in Nat
  BY ViewIsRecent, PrimaryType, NewRowType, Parts
<1>3. ASSUME NEW q \in Permission, FindPermission(p, q) PROVE RBACInv'
  <2>1. Grows /\ Primary' = Primary /\ UNCHANGED <<cache, chk, settled, raced>>
    BY <1>3, StillGrows, Parts DEF FindPermission, database, Primary
  <2>2. CASE View.permission[q] = 0
    <3>1. PICK x : x = [req[p] EXCEPT !.pc = "make", !.making = q] OBVIOUS
    <3>2. req' = [req EXCEPT ![p] = x]
      BY <1>3, <2>2, <3>1 DEF FindPermission
    <3>3. /\ x \in RequestState /\ x.pc = "make" /\ x.op = req[p].op /\ x.making = q
          /\ x.role = req[p].role /\ x.commit = req[p].commit /\ x.since = req[p].since
      BY <1>1, <3>1 DEF RequestState, Labels
    <3>4. QED BY <1>1, <2>1, <3>2, <3>3, EnsuringStep
  <2>3. CASE View.permission[q] # 0
    <3>1. req \in [Request -> RequestState] /\ req[p].pc = "ensure"
      BY <1>3 DEF FindPermission, RBACInv, TypeOK
    <3>2. PICK x : x = req'[p] /\ req' = [req EXCEPT ![p] = x]
      BY <1>3, <2>3, <3>1 DEF FindPermission
    <3>3. View.permission[q] \in Nat BY <1>2 DEF Database
    <3>4. /\ x \in RequestState /\ x.pc = "ensure" /\ x.op = req[p].op
          /\ x.role = req[p].role /\ x.commit = req[p].commit /\ x.since = req[p].since
      <4>1. x = [req[p] EXCEPT !.todo = req[p].todo \ {q},
                               !.ids = [req[p].ids EXCEPT ![q] = View.permission[q]]]
        BY <1>3, <2>3, <3>1, <3>2 DEF FindPermission
      <4>2. [req[p].ids EXCEPT ![q] = View.permission[q]] \in [Permission -> Nat]
        BY <1>1, <3>3 DEF RequestState
      <4>3. QED BY ONLY <1>1, <3>1, <4>1, <4>2 DEF RequestState
    <3>5. QED BY <1>1, <2>1, <3>2, <3>4, EnsuringStep
  <2>4. QED BY <2>2, <2>3
<1>4. CASE MakePermission(p)
  <2>1. CASE Proceeds(p, "failed")
    BY <2>1, ProceedsStep DEF Labels, Resting
  <2>2. CASE ~Proceeds(p, "failed")
    <3> DEFINE m == req[p].making
               db == [Primary EXCEPT !.permission[m] = NewRow]
    <3>1. m \in Permission BY <1>1, <1>4 DEF MakePermission, Shape
    <3>2. /\ Commit(db)
          /\ req' = [req EXCEPT ![p] = [req[p] EXCEPT !.pc = "ensure", !.todo = req[p].todo \ {m},
                                                      !.ids = [req[p].ids EXCEPT ![m] = NewRow]]]
          /\ UNCHANGED <<cache, chk, settled, raced>>
      BY <1>4, <2>2 DEF MakePermission
    <3>3. db \in Database /\ Holders(Primary) \subseteq Holders(db)
      BY <1>2 DEF Database, Holders
    <3>4. Grows /\ Primary' = db BY <3>2, <3>3, CommitGrows, Parts
    <3>5. req \in [Request -> RequestState] BY DEF RBACInv, TypeOK
    <3>6. PICK x : x = req'[p] /\ req' = [req EXCEPT ![p] = x] BY <3>2, <3>5
    <3>7. /\ x \in RequestState /\ x.pc = "ensure" /\ x.op = req[p].op
          /\ x.role = req[p].role /\ x.commit = req[p].commit /\ x.since = req[p].since
      <4>1. x = [req[p] EXCEPT !.pc = "ensure", !.todo = req[p].todo \ {m},
                               !.ids = [req[p].ids EXCEPT ![m] = NewRow]]
        BY <3>2, <3>5, <3>6
      <4>2. [req[p].ids EXCEPT ![m] = NewRow] \in [Permission -> Nat]
        BY <1>1, <1>2 DEF RequestState
      <4>3. QED BY ONLY <1>1, <3>5, <4>1, <4>2 DEF RequestState, Labels
    <3>8. UNCHANGED <<cache, chk, settled, raced>> BY <3>2
    <3>9. QED BY <1>1, <3>3, <3>4, <3>6, <3>7, <3>8, EnsuringStep
  <2>3. QED BY <2>1, <2>2
<1>5. CASE AllEnsured(p)
  <2>1. PICK x : x = [req[p] EXCEPT !.pc = "write"] OBVIOUS
  <2>2. /\ x.pc = "write" /\ x.op = "SyncRolePermissions" /\ x.role \in Role
    BY <1>1, <2>1 DEF RequestState
  <2>3. Shape(x) /\ Justified(x) BY <2>2 DEF Shape, Justified
  <2>4. QED BY <1>1, <1>5, <2>1, <2>3, ProceedsStep DEF AllEnsured, Labels
<1>6. QED BY <1>3, <1>4, <1>5

-----------------------------------------------------------------------------
(* The version of the cache. *)

\* No entry has the new version, and no check has read it.
LEMMA AdvanceStep ==
    ASSUME TypeOK, CacheInv, Advance, UNCHANGED <<database, chk>>, settled' \in 0..applied
    PROVE  CacheInv'
<1>1. version \in Nat /\ \A c \in Checker : chk[c].ver \in Nat /\ chk[c].ver <= version
  BY DEF TypeOK, CheckState
<1>2. \A u \in User : entry[u] # None => entry[u].ver \in Nat /\ entry[u].ver <= version
  BY DEF TypeOK
<1>3. VersionDates'
  BY <1>1 DEF CacheInv, VersionDates, At, Advance
<1>4. ASSUME NEW c \in Checker PROVE Since(chk[c].since)' = Since(chk[c].since)
  BY DEF Since, database
<1>5. EntriesAgree'
  <2>1. ASSUME NEW u \in User, entry'[u] # None PROVE entry'[u].ver # version'
    BY <1>1, <1>2, <2>1 DEF Advance
  <2>2. ASSUME NEW u \in User, NEW c \in Checker, entry'[u] # None,
               ~At(c, "idle")', chk'[c].user = u, chk'[c].ver = entry'[u].ver
        PROVE  EntryAgrees(u, Since(chk[c].since))'
    <3>1. EntryAgrees(u, Since(chk[c].since))
      BY <2>2 DEF CacheInv, EntriesAgree, At, Advance
    <3>2. EntryAgrees(u, Since(chk[c].since))' <=> EntryAgrees(u, Since(chk[c].since))
      BY <1>4 DEF EntryAgrees, Advance
    <3>3. QED BY <3>1, <3>2
  <2>3. QED BY <2>1, <2>2 DEF EntriesAgree
<1>6. LoadsAgree'
  BY <1>4 DEF CacheInv, LoadsAgree, At
<1>7. QED BY <1>3, <1>5, <1>6 DEF CacheInv

\* A request ends, or turns to its second bump, and may raise the version.
LEMMA BumpedStep ==
    ASSUME RBACInv, NEW p \in Request, NEW label \in {"done", "retry", "failed"}, Goto(p, label),
           UNCHANGED <<database, chk, raced>>, settled' \in settled..applied,
           \/ Advance
           \/ UNCHANGED <<cache, settled>>
    PROVE  RBACInv'
<1>1. CASE UNCHANGED <<cache, settled>>
  <2>1. (raced => raced') /\ raced' \in BOOLEAN BY DEF RBACInv, TypeOK
  <2>2. label \in Labels /\ label \in Resting BY DEF Labels, Resting
  <2>3. UNCHANGED <<database, cache, chk, settled>> BY <1>1
  <2>4. QED BY <2>1, <2>2, <2>3, GotoStep
<1>2. CASE Advance
  <2>1. /\ req[p] \in RequestState /\ req[p].since <= applied /\ req[p].commit <= Len(log)
        /\ Len(log) \in Nat /\ applied \in Nat /\ settled \in Nat
    BY DEF RBACInv, TypeOK
  <2>2. Grows BY StillGrows, Parts
  <2>3. PICK x : /\ req' = [req EXCEPT ![p] = x]
                 /\ x = [NoRequest EXCEPT !.pc = label] \/ x = [req[p] EXCEPT !.pc = label]
    BY DEF Goto
  <2>4. /\ x \in RequestState /\ x.pc = label
        /\ x.commit \in {0, req[p].commit} /\ x.since \in {0, req[p].since}
    <3>1. CASE x = [NoRequest EXCEPT !.pc = label]
      BY <3>1, NoRequestType DEF RequestState, Labels
    <3>2. CASE x = [req[p] EXCEPT !.pc = label]
      BY <2>1, <3>2 DEF RequestState, Labels
    <3>3. QED BY <2>3, <3>1, <3>2
  <2>5. Shape(x) /\ Justified(x)' /\ ~Revoking(x) BY <2>4, RestingShape DEF Resting
  <2>6. Holders(Primary) \subseteq Holders(Primary') BY DEF database, Primary
  <2>7. RequestInv'
    BY <2>2, <2>3, <2>4, <2>5, <2>6, RequestMoves, Parts
  <2>8. CacheInv' BY <1>2, <2>1, AdvanceStep, Parts
  <2>9. TypeOK'
    <3>1. /\ \A o \in Request : req'[o].commit <= Len(log') /\ req'[o].since <= applied'
          /\ req' \in [Request -> RequestState]
      BY <2>1, <2>3, <2>4 DEF RBACInv, TypeOK, database
    <3>2. /\ version \in Nat /\ version' = version + 1 /\ entry' = entry
          /\ \A u \in User : entry[u] # None => entry[u].ver \in 0..version
          /\ \A c \in Checker : chk[c] \in CheckState /\ chk[c].ver <= version
                                /\ chk[c].since <= settled
      BY <1>2 DEF Advance, RBACInv, TypeOK
    <3>3. \A c \in Checker : chk'[c].ver <= version' /\ chk'[c].since <= settled'
      BY <2>1, <3>2 DEF CheckState
    <3>4. \A u \in User :
             \/ entry'[u] = None
             \/ entry'[u] \in [ver : 0..version', roles : SUBSET Role, perms : SUBSET Permission]
      BY <3>2 DEF RBACInv, TypeOK
    <3>5. settled' \in 0..applied' BY <2>1 DEF database
    <3>6. QED BY <3>1, <3>2, <3>3, <3>4, <3>5 DEF RBACInv, TypeOK, database
  <2>10. QED BY <2>7, <2>8, <2>9, Parts, PTL
<1>3. QED BY <1>1, <1>2

\* A bump that succeeds ends the request; what queries show of its write is
\* settled.
LEMMA BumpStep ==
    ASSUME RBACInv, NEW p \in Request, Bump(p)
    PROVE  RBACInv'
<1>1. /\ req[p].commit \in Nat /\ settled \in Nat /\ applied \in Nat /\ settled <= applied
  BY DEF RBACInv, TypeOK, RequestState
<1>2. settled' \in settled..applied BY <1>1 DEF Bump
<1>3. QED BY <1>2, BumpedStep DEF Bump

\* A bump that fails may have raised the version all the same.
LEMMA BumpFailsStep ==
    ASSUME RBACInv, NEW p \in Request, BumpFails(p)
    PROVE  RBACInv'
<1>1. PICK label \in {"done", "retry"} : Goto(p, label) BY DEF BumpFails
<1>2. UNCHANGED settled /\ settled' \in settled..applied
  BY DEF BumpFails, RBACInv, TypeOK
<1>3. QED BY <1>1, <1>2, BumpedStep DEF BumpFails

LEMMA RequestFailsStep ==
    ASSUME RBACInv, NEW p \in Request, RequestFails(p)
    PROVE  RBACInv'
<1>1. settled' \in settled..applied BY DEF RequestFails, RBACInv, TypeOK
<1>2. QED BY <1>1, BumpedStep DEF RequestFails

LEMMA ContinueStep ==
    ASSUME RBACInv, NEW p \in Request, Continue(p)
    PROVE  RBACInv'
BY AuthorizeStep, HoldsStep, CountStep, LinkStep, SetPermissionsStep, DeleteStep, NewRoleStep,
   EnsureStep, BumpStep
   DEF Continue

-----------------------------------------------------------------------------
(* Checks. *)

\* A check reads, and fills at most the entry of its user.
LEMMA CheckStep ==
    ASSUME RBACInv, NEW c \in Checker, NEW x \in CheckState, Check(c, x),
           x.ver <= version, x.since <= settled,
           entry' = entry \/ (/\ x.user \in User
                             /\ entry' = [entry EXCEPT ![x.user] =
                                             [ver |-> x.ver, roles |-> x.roles, perms |-> x.perms]]),
           CacheInv'
    PROVE  RBACInv'
<1>1. /\ chk \in [Checker -> CheckState] /\ chk' = [chk EXCEPT ![c] = x]
      /\ UNCHANGED <<log, applied, version, req, settled, raced>>
      /\ version \in Nat /\ DOMAIN entry = User
  BY DEF Check, RBACInv, TypeOK
<1>2. \A u \in User :
         \/ entry'[u] = None
         \/ entry'[u] \in [ver : 0..version', roles : SUBSET Role, perms : SUBSET Permission]
  <2>1. x.ver \in 0..version /\ x.roles \subseteq Role /\ x.perms \subseteq Permission
    BY <1>1 DEF CheckState
  <2>2. \A u \in User :
           \/ entry[u] = None
           \/ entry[u] \in [ver : 0..version, roles : SUBSET Role, perms : SUBSET Permission]
    BY DEF RBACInv, TypeOK
  <2>3. QED BY <1>1, <2>1, <2>2
<1>3. DOMAIN entry' = User BY <1>1
<1>4. /\ chk' \in [Checker -> CheckState]
      /\ \A d \in Checker : chk'[d].ver <= version' /\ chk'[d].since <= settled'
  BY <1>1 DEF RBACInv, TypeOK
<1>5. TypeOK' BY <1>1, <1>2, <1>3, <1>4 DEF RBACInv, TypeOK
<1>6. RequestInv' BY <1>1, RequestFrame, Parts
<1>7. QED BY <1>5, <1>6, Parts, PTL

\* The three invariants of the cache, after a step of one check that leaves the
\* entries alone.
LEMMA ReadStep ==
    ASSUME RBACInv, NEW c \in Checker, NEW x \in CheckState, Check(c, x), entry' = entry,
           ~At(c, "idle"), x.pc # "idle", x.user = chk[c].user, x.ver = chk[c].ver,
           x.since = chk[c].since,
           x.pc \in {"direct", "inherited", "set", "answered"} =>
              RolesAgree(x.roles, x.user, Since(x.since)),
           x.pc = "inherited" => DirectAgree(x.perms, x.user, Since(x.since)),
           x.pc \in {"set", "answered"} => PermsAgree(x.perms, x.user, Since(x.since))
    PROVE  RBACInv'
<1>1. /\ chk \in [Checker -> CheckState] /\ chk' = [chk EXCEPT ![c] = x]
      /\ UNCHANGED <<log, applied, version, settled>>
  BY DEF Check, RBACInv, TypeOK
<1>2. chk'[c] = x /\ \A d \in Checker \ {c} : chk'[d] = chk[d] BY <1>1
<1>3. \A d \in Checker :
         /\ chk'[d].user = chk[d].user /\ chk'[d].ver = chk[d].ver
         /\ chk'[d].since = chk[d].since /\ (chk'[d].pc = "idle" <=> chk[d].pc = "idle")
  BY <1>2 DEF At
<1>4. \A k : Since(k)' = Since(k) BY <1>1 DEF Since
<1>5. VersionDates'
  BY <1>1, <1>3 DEF RBACInv, VersionDates, At
<1>6. EntriesAgree'
  <2>1. ASSUME NEW u, NEW k PROVE EntryAgrees(u, Since(k))' <=> EntryAgrees(u, Since(k))
    BY <1>4 DEF EntryAgrees
  <2>2. EntriesAgree BY DEF RBACInv
  <2>3. QED BY <1>1, <1>3, <1>4, <2>1, <2>2 DEF EntriesAgree, At, EntryAgrees
<1>7. LoadsAgree'
  BY <1>2, <1>4 DEF RBACInv, LoadsAgree, At
<1>8. x.ver <= version /\ x.since <= settled BY DEF RBACInv, TypeOK
<1>9. QED BY <1>5, <1>6, <1>7, <1>8, CheckStep DEF CacheInv

\* The version read now stands for the changes settled by now.
LEMMA VersionStep ==
    ASSUME RBACInv, NEW c \in Checker, CurrentVersion(c)
    PROVE  RBACInv'
<1>1. PICK u \in Watched : Check(c, [NoCheck EXCEPT !.pc = "get", !.user = u, !.ver = version,
                                                   !.since = settled])
  BY DEF CurrentVersion
<1>2. PICK x : /\ x = [NoCheck EXCEPT !.pc = "get", !.user = u, !.ver = version, !.since = settled]
               /\ Check(c, x)
  BY <1>1
<1>3. version \in Nat /\ settled \in Nat BY DEF RBACInv, TypeOK
<1>4. /\ x \in CheckState /\ x.pc = "get" /\ x.user = u /\ x.ver = version /\ x.since = settled
  BY <1>2, <1>3 DEF NoCheck, CheckState
<1>5. /\ chk \in [Checker -> CheckState] /\ chk' = [chk EXCEPT ![c] = x]
      /\ UNCHANGED <<log, applied, version, settled, entry>>
  BY <1>2 DEF Check, CurrentVersion, RBACInv, TypeOK
<1>6. chk'[c] = x /\ \A d \in Checker \ {c} : chk'[d] = chk[d] BY <1>5
<1>7. \A k : Since(k)' = Since(k) BY <1>5 DEF Since
<1>8. VersionDates'
  BY <1>4, <1>5, <1>6 DEF RBACInv, VersionDates, At
<1>9. EntriesAgree'
  <2>1. ASSUME NEW v, NEW k PROVE EntryAgrees(v, Since(k))' <=> EntryAgrees(v, Since(k))
    BY <1>5, <1>7 DEF EntryAgrees
  <2>2. EntriesAgree BY DEF RBACInv
  <2>3. ASSUME NEW v \in User, entry'[v] # None, entry'[v].ver = version'
        PROVE  EntryAgrees(v, Since(settled))'
    BY <1>5, <1>7, <2>2, <2>3 DEF EntriesAgree, EntryAgrees
  <2>4. ASSUME NEW v \in User, entry'[v] # None, NEW d \in Checker, ~At(d, "idle")',
               chk'[d].user = v, chk'[d].ver = entry'[v].ver
        PROVE  EntryAgrees(v, Since(chk[d].since))'
    <3>1. CASE d = c
      BY <1>4, <1>5, <1>6, <1>7, <2>3, <2>4, <3>1 DEF EntryAgrees
    <3>2. CASE d # c
      BY <1>5, <1>6, <1>7, <2>2, <2>4, <3>2 DEF EntriesAgree, EntryAgrees, At
    <3>3. QED BY <3>1, <3>2
  <2>5. QED BY <2>3, <2>4 DEF EntriesAgree
<1>10. LoadsAgree'
  BY <1>4, <1>6, <1>7 DEF RBACInv, LoadsAgree, At
<1>11. x.ver <= version /\ x.since <= settled BY <1>3, <1>4
<1>12. QED BY <1>2, <1>4, <1>5, <1>8, <1>9, <1>10, <1>11, CheckStep DEF CacheInv

\* What queries show now agrees with the history it is part of.
LEMMA ViewAgrees ==
    ASSUME RBACInv, NEW c \in Checker, ~At(c, "idle"),
           NEW u, u = chk[c].user, NEW now, now = Since(chk[c].since)
    PROVE  /\ u \in User /\ chk[c] \in CheckState
           /\ RolesAgree(RolesOf(View, u), u, now)
           /\ DirectAgree(DirectOf(View, u), u, now)
           /\ \A qs : DirectAgree(qs, u, now) => PermsAgree(qs \cup InheritedOf(View, u), u, now)
<1>1. View \in now
  BY ViewIsRecent DEF RBACInv, TypeOK, CheckState
<1>2. u \in User /\ chk[c] \in CheckState BY DEF RBACInv, VersionDates, TypeOK
<1>3. RolesAgree(RolesOf(View, u), u, now) BY <1>1 DEF RolesAgree
<1>4. DirectAgree(DirectOf(View, u), u, now) BY <1>1 DEF DirectAgree
<1>5. \A qs : DirectAgree(qs, u, now) => PermsAgree(qs \cup InheritedOf(View, u), u, now)
  BY <1>1 DEF DirectAgree, PermsAgree
<1>6. QED BY <1>2, <1>3, <1>4, <1>5

\* An entry under the version a check has read answers it.
LEMMA GetUserStep ==
    ASSUME RBACInv, NEW c \in Checker, GetUser(c)
    PROVE  RBACInv'
<1>1. /\ chk[c] \in CheckState /\ chk[c].pc = "get" /\ chk[c].user \in User /\ ~At(c, "idle")
  BY DEF RBACInv, TypeOK, VersionDates, GetUser, At
<1> DEFINE u == chk[c].user
           e == entry[u]
<1>2. CASE e # None /\ e.ver = chk[c].ver
  <2>1. PICK x : x = [chk[c] EXCEPT !.pc = "answered", !.roles = e.roles, !.perms = e.perms]
    OBVIOUS
  <2>2. Check(c, x) /\ entry' = entry BY <1>2, <2>1 DEF GetUser
  <2>3. e.roles \subseteq Role /\ e.perms \subseteq Permission BY <1>1, <1>2 DEF RBACInv, TypeOK
  <2>4. /\ x \in CheckState /\ x.pc = "answered" /\ x.user = chk[c].user /\ x.ver = chk[c].ver
        /\ x.since = chk[c].since /\ x.roles = e.roles /\ x.perms = e.perms
    BY <1>1, <2>1, <2>3 DEF CheckState
  <2>5. EntryAgrees(u, Since(chk[c].since)) BY <1>1, <1>2 DEF RBACInv, EntriesAgree
  <2>6. QED BY <1>1, <2>2, <2>4, <2>5, ReadStep DEF EntryAgrees
<1>3. CASE ~(e # None /\ e.ver = chk[c].ver)
  <2>1. PICK x : x = [chk[c] EXCEPT !.pc = "roles"] OBVIOUS
  <2>2. Check(c, x) /\ entry' = entry BY <1>3, <2>1 DEF GetUser
  <2>3. /\ x \in CheckState /\ x.pc = "roles" /\ x.user = chk[c].user /\ x.ver = chk[c].ver
        /\ x.since = chk[c].since
    BY <1>1, <2>1 DEF CheckState
  <2>4. QED BY <1>1, <2>2, <2>3, ReadStep
<1>4. QED BY <1>2, <1>3

\* Each query shows something of the history since the version was read.
LEMMA LoadStep ==
    ASSUME RBACInv, NEW c \in Checker, LoadRoles(c) \/ LoadDirect(c) \/ LoadInherited(c)
    PROVE  RBACInv'
<1> DEFINE u == chk[c].user
           now == Since(chk[c].since)
<1>1. ~At(c, "idle") BY DEF LoadRoles, LoadDirect, LoadInherited, At
<1>2. /\ u \in User /\ chk[c] \in CheckState
      /\ RolesAgree(RolesOf(View, u), u, now)
      /\ DirectAgree(DirectOf(View, u), u, now)
      /\ \A qs : DirectAgree(qs, u, now) => PermsAgree(qs \cup InheritedOf(View, u), u, now)
  BY <1>1, ViewAgrees
<1>3. CASE LoadRoles(c)
  <2>1. PICK x : x = [chk[c] EXCEPT !.pc = "direct", !.roles = RolesOf(View, u)] OBVIOUS
  <2>2. Check(c, x) /\ entry' = entry BY <1>3, <2>1 DEF LoadRoles
  <2>3. /\ x \in CheckState /\ x.pc = "direct" /\ x.user = u /\ x.ver = chk[c].ver
        /\ x.since = chk[c].since /\ x.roles = RolesOf(View, u)
    BY <1>2, <2>1 DEF CheckState, RolesOf
  <2>4. QED BY <1>1, <1>2, <2>2, <2>3, ReadStep
<1>4. CASE LoadDirect(c)
  <2>1. PICK x : x = [chk[c] EXCEPT !.pc = "inherited", !.perms = DirectOf(View, u)] OBVIOUS
  <2>2. Check(c, x) /\ entry' = entry BY <1>4, <2>1 DEF LoadDirect
  <2>3. /\ x \in CheckState /\ x.pc = "inherited" /\ x.user = u /\ x.ver = chk[c].ver
        /\ x.since = chk[c].since /\ x.roles = chk[c].roles /\ x.perms = DirectOf(View, u)
    BY <1>2, <2>1 DEF CheckState, DirectOf
  <2>4. RolesAgree(chk[c].roles, u, now) BY <1>4 DEF LoadDirect, At, RBACInv, LoadsAgree
  <2>5. QED BY <1>1, <1>2, <2>2, <2>3, <2>4, ReadStep
<1>5. CASE LoadInherited(c)
  <2>1. PICK x : x = [chk[c] EXCEPT !.pc = "set",
                                    !.perms = chk[c].perms \cup InheritedOf(View, u)]
    OBVIOUS
  <2>2. Check(c, x) /\ entry' = entry BY <1>5, <2>1 DEF LoadInherited
  <2>3. /\ x \in CheckState /\ x.pc = "set" /\ x.user = u /\ x.ver = chk[c].ver
        /\ x.since = chk[c].since /\ x.roles = chk[c].roles
        /\ x.perms = chk[c].perms \cup InheritedOf(View, u)
    BY <1>2, <2>1 DEF CheckState, InheritedOf
  <2>4. RolesAgree(chk[c].roles, u, now) /\ DirectAgree(chk[c].perms, u, now)
    BY <1>5 DEF LoadInherited, At, RBACInv, LoadsAgree
  <2>5. QED BY <1>1, <1>2, <2>2, <2>3, <2>4, ReadStep
<1>6. QED BY <1>3, <1>4, <1>5

\* Checks that have read the same version ask for the same changes, so that each
\* may use what the other one stores.
LEMMA SetUserStep ==
    ASSUME RBACInv, NEW c \in Checker, SetUser(c)
    PROVE  RBACInv'
<1> DEFINE u == chk[c].user
<1>1. /\ chk[c] \in CheckState /\ u \in User /\ ~At(c, "idle") /\ chk[c].pc = "set"
      /\ chk \in [Checker -> CheckState]
      /\ chk[c].ver <= version /\ chk[c].since <= settled /\ DOMAIN entry = User
  BY DEF RBACInv, TypeOK, VersionDates, SetUser, At
<1>2. PICK x : x = [chk[c] EXCEPT !.pc = "answered"] OBVIOUS
<1>3. /\ Check(c, x)
      /\ entry' = [entry EXCEPT ![u] = [ver |-> chk[c].ver, roles |-> chk[c].roles,
                                        perms |-> chk[c].perms]]
  BY <1>2 DEF SetUser
<1>4. /\ x \in CheckState /\ x.pc = "answered" /\ x.user = u /\ x.ver = chk[c].ver
      /\ x.since = chk[c].since /\ x.roles = chk[c].roles /\ x.perms = chk[c].perms
  BY <1>1, <1>2 DEF CheckState
<1>5. chk' = [chk EXCEPT ![c] = x] /\ UNCHANGED <<log, applied, version, settled>>
  BY <1>3 DEF Check
<1>6. chk'[c] = x /\ \A d \in Checker \ {c} : chk'[d] = chk[d] BY <1>1, <1>5
<1>7. \A d \in Checker :
         /\ chk'[d].user = chk[d].user /\ chk'[d].ver = chk[d].ver
         /\ chk'[d].since = chk[d].since /\ (chk'[d].pc = "idle" <=> chk[d].pc = "idle")
  BY <1>1, <1>4, <1>6
<1>8. \A k : Since(k)' = Since(k) BY <1>5 DEF Since
<1>9. /\ entry'[u].ver = chk[c].ver /\ entry'[u].roles = chk[c].roles
      /\ entry'[u].perms = chk[c].perms
      /\ \A v \in User \ {u} : entry'[v] = entry[v]
  BY <1>1, <1>3
<1>10. RolesAgree(chk[c].roles, u, Since(chk[c].since))
       /\ PermsAgree(chk[c].perms, u, Since(chk[c].since))
  BY <1>1 DEF RBACInv, LoadsAgree
<1>11. VersionDates'
  BY <1>5, <1>7 DEF RBACInv, VersionDates, At
<1>12. EntriesAgree'
  <2>1. EntriesAgree BY DEF RBACInv
  <2>2. EntryAgrees(u, Since(chk[c].since))'
    BY <1>7, <1>8, <1>9, <1>10 DEF EntryAgrees
  <2>3. ASSUME entry'[u].ver = version' PROVE EntryAgrees(u, Since(settled))'
    <3>1. chk[c].since = settled
      BY <1>1, <1>5, <1>9, <2>3 DEF RBACInv, VersionDates
    <3>2. Since(settled)' = Since(chk[c].since)' BY <1>5, <1>7, <3>1 DEF Since
    <3>3. QED BY <2>2, <3>2 DEF EntryAgrees
  <2>4. ASSUME NEW d \in Checker, ~At(d, "idle")', chk'[d].user = u, chk'[d].ver = entry'[u].ver
        PROVE  EntryAgrees(u, Since(chk[d].since))'
    <3>1. chk[d].since = chk[c].since
      BY <1>1, <1>7, <1>9, <2>4 DEF RBACInv, VersionDates, At
    <3>2. Since(chk[d].since)' = Since(chk[c].since)' BY <1>7, <3>1 DEF Since
    <3>3. QED BY <2>2, <3>2 DEF EntryAgrees
  <2>5. ASSUME NEW v \in User \ {u}, entry'[v] # None
        PROVE  /\ entry'[v].ver = version' => EntryAgrees(v, Since(settled))'
               /\ \A d \in Checker :
                     ~At(d, "idle")' /\ chk'[d].user = v /\ chk'[d].ver = entry'[v].ver =>
                        EntryAgrees(v, Since(chk[d].since))'
    <3>1. \A k : EntryAgrees(v, Since(k))' <=> EntryAgrees(v, Since(k))
      BY <1>8, <1>9 DEF EntryAgrees
    <3>2. Since(settled)' = Since(settled)
          /\ \A d \in Checker : Since(chk[d].since)' = Since(chk[d].since)
      BY <1>5, <1>7 DEF Since
    <3>3. QED BY <1>5, <1>7, <1>9, <2>1, <2>5, <3>1, <3>2 DEF EntriesAgree, EntryAgrees, At
  <2>6. ASSUME NEW v \in User, entry'[v] # None
        PROVE  /\ entry'[v].ver = version' => EntryAgrees(v, Since(settled))'
               /\ \A d \in Checker :
                     ~At(d, "idle")' /\ chk'[d].user = v /\ chk'[d].ver = entry'[v].ver =>
                        EntryAgrees(v, Since(chk[d].since))'
    <3>1. CASE v = u BY <1>7, <2>3, <2>4, <3>1 DEF EntryAgrees
    <3>2. CASE v # u BY <2>5, <2>6, <3>2
    <3>3. QED BY <3>1, <3>2
  <2>7. QED BY <2>6 DEF EntriesAgree
<1>13. LoadsAgree'
  BY <1>4, <1>6, <1>8, <1>10 DEF RBACInv, LoadsAgree, At
<1>14. QED
  BY <1>1, <1>3, <1>4, <1>11, <1>12, <1>13, CheckStep DEF CacheInv

\* Without the write the check answers the same.
LEMMA SetUserFailsStep ==
    ASSUME RBACInv, NEW c \in Checker, SetUserFails(c)
    PROVE  RBACInv'
<1>1. chk[c] \in CheckState /\ ~At(c, "idle") /\ chk[c].pc = "set"
  BY DEF RBACInv, TypeOK, SetUserFails, At
<1>2. PICK x : x = [chk[c] EXCEPT !.pc = "answered"] OBVIOUS
<1>3. Check(c, x) /\ entry' = entry BY <1>2 DEF SetUserFails
<1>4. /\ x \in CheckState /\ x.pc = "answered" /\ x.user = chk[c].user /\ x.ver = chk[c].ver
      /\ x.since = chk[c].since /\ x.roles = chk[c].roles /\ x.perms = chk[c].perms
  BY <1>1, <1>2 DEF CheckState
<1>5. RolesAgree(x.roles, x.user, Since(x.since)) /\ PermsAgree(x.perms, x.user, Since(x.since))
  BY <1>1, <1>4 DEF RBACInv, LoadsAgree
<1>6. QED BY <1>1, <1>3, <1>4, <1>5, ReadStep

\* A check that has answered forgets what it has read.
LEMMA AnswerStep ==
    ASSUME RBACInv, NEW c \in Checker, Answer(c)
    PROVE  RBACInv'
<1>1. Check(c, NoCheck) /\ entry' = entry BY DEF Answer
<1>2. NoCheck \in CheckState /\ NoCheck.pc = "idle" /\ NoCheck.ver = 0 /\ NoCheck.since = 0
  BY DEF NoCheck, CheckState
<1>3. /\ chk \in [Checker -> CheckState] /\ chk' = [chk EXCEPT ![c] = NoCheck]
      /\ UNCHANGED <<log, applied, version, settled>> /\ version \in Nat /\ settled \in Nat
  BY <1>1 DEF Check, RBACInv, TypeOK
<1>4. chk'[c].pc = "idle" /\ \A d \in Checker \ {c} : chk'[d] = chk[d] BY <1>2, <1>3
<1>5. \A k : Since(k)' = Since(k) BY <1>3 DEF Since
<1>6. VersionDates' BY <1>3, <1>4 DEF RBACInv, VersionDates, At
<1>7. EntriesAgree'
  <2>1. EntriesAgree BY DEF RBACInv
  <2>2. ASSUME NEW u, NEW k PROVE EntryAgrees(u, Since(k))' <=> EntryAgrees(u, Since(k))
    BY <1>1, <1>5 DEF EntryAgrees
  <2>3. QED BY <1>1, <1>3, <1>4, <1>5, <2>1, <2>2 DEF EntriesAgree, EntryAgrees, At
<1>8. LoadsAgree' BY <1>4, <1>5 DEF RBACInv, LoadsAgree, At
<1>9. NoCheck.ver <= version /\ NoCheck.since <= settled BY <1>2, <1>3
<1>10. QED BY <1>1, <1>2, <1>6, <1>7, <1>8, <1>9, CheckStep DEF CacheInv

\* An entry that has expired answers nobody.
LEMMA ExpireStep ==
    ASSUME RBACInv, NEW u \in User, Expire(u)
    PROVE  RBACInv'
<1>1. /\ UNCHANGED <<database, version, req, chk, settled, raced>>
      /\ entry' = [entry EXCEPT ![u] = None] /\ DOMAIN entry = User
  BY DEF Expire, RBACInv, TypeOK
<1>2. UNCHANGED <<log, applied>> BY <1>1 DEF database
<1>3. TypeOK' BY <1>1, <1>2 DEF RBACInv, TypeOK
<1>4. RequestInv' BY <1>1, <1>2, RequestFrame, Parts
<1>5. \A k : Since(k)' = Since(k) BY <1>2 DEF Since
<1>6. VersionDates' BY <1>1 DEF RBACInv, VersionDates, At
<1>7. EntriesAgree'
  <2>1. EntriesAgree BY DEF RBACInv
  <2>2. \A v \in User : entry'[v] # None => v # u /\ entry'[v] = entry[v] BY <1>1
  <2>3. \A v \in User : entry'[v] # None =>
           \A k : EntryAgrees(v, Since(k))' <=> EntryAgrees(v, Since(k))
    BY <1>5, <2>2 DEF EntryAgrees
  <2>4. QED BY <1>1, <1>5, <2>1, <2>2, <2>3 DEF EntriesAgree, EntryAgrees, At
<1>8. LoadsAgree' BY <1>1, <1>5 DEF RBACInv, LoadsAgree, At
<1>9. QED BY <1>3, <1>4, <1>6, <1>7, <1>8, Parts, PTL DEF CacheInv

\* Queries show more of the history.
LEMMA ReplicateStep ==
    ASSUME RBACInv, Replicate
    PROVE  RBACInv'
<1>1. /\ log \in Seq(Database) /\ applied \in 1..Len(log) /\ applied < Len(log)
      /\ applied' = applied + 1 /\ UNCHANGED <<log, version, entry, req, chk, settled, raced>>
      /\ settled \in 0..applied
      /\ \A p \in Request : req[p].since \in Nat /\ req[p].since <= applied
  BY DEF Replicate, RBACInv, TypeOK, RequestState, cache
<1>2. Grows BY <1>1 DEF Grows
<1>3. TypeOK' BY <1>1 DEF RBACInv, TypeOK
<1>4. RequestInv' BY <1>1, RequestFrame, Parts
<1>5. CacheInv' BY <1>1, <1>2, CacheFrame, Parts DEF cache
<1>6. QED BY <1>3, <1>4, <1>5, Parts, PTL

-----------------------------------------------------------------------------
(* The theorems. *)

LEMMA InitInvariant == Init => RBACInv
<1> SUFFICES ASSUME Init PROVE RBACInv OBVIOUS
<1>1. PICK holders \in Founders :
         log = << [role |-> [r \in Role |-> 1], permission |-> [q \in Permission |-> 1],
                   userRoles |-> (holders \X {SuperAdmin})
                                   \cup ((User \ holders) \X (Role \ ProtectedRole)),
                   rolePerms |-> (Role \ ProtectedRole) \X Permission,
                   userPerms |-> {}] >>
  BY DEF Init
<1>1a. holders \in SUBSET User /\ holders # {} BY <1>1, RBACConstants
<1> DEFINE db == log[1]
<1>2. /\ db.role = [r \in Role |-> 1] /\ db.permission = [q \in Permission |-> 1]
      /\ db.userRoles = (holders \X {SuperAdmin}) \cup ((User \ holders) \X (Role \ ProtectedRole))
      /\ db.rolePerms = (Role \ ProtectedRole) \X Permission /\ db.userPerms = {}
      /\ Len(log) = 1
  BY <1>1
<1>3. db \in Database /\ log \in Seq(Database)
  <2>1. [r \in Role |-> 1] \in [Role -> Nat] /\ [q \in Permission |-> 1] \in [Permission -> Nat]
    OBVIOUS
  <2>2. (holders \X {SuperAdmin}) \cup ((User \ holders) \X (Role \ ProtectedRole))
           \subseteq User \X Role
    BY <1>1a, RBACConstants
  <2>3. (Role \ ProtectedRole) \X Permission \subseteq Role \X Permission OBVIOUS
  <2>4. db \in Database BY <1>1, <2>1, <2>2, <2>3 DEF Database
  <2>5. QED BY <1>1, <2>4
<1>4. TypeOK
  <2>1. NoCheck \in CheckState /\ NoCheck.ver = 0 /\ NoCheck.since = 0
    BY DEF NoCheck, CheckState
  <2>2. req \in [Request -> RequestState] /\ chk \in [Checker -> CheckState]
    BY <2>1, NoRequestType DEF Init
  <2>3. /\ \A p \in Request : req[p].commit = 0 /\ req[p].since = 0
        /\ \A c \in Checker : chk[c].ver = 0 /\ chk[c].since = 0
    BY <2>1, NoRequestType DEF Init
  <2>4. /\ applied = 1 /\ version = 0 /\ settled = 0 /\ raced = FALSE
        /\ entry = [u \in User |-> None]
    BY DEF Init
  <2>5. applied \in 1..Len(log) /\ Len(log) = 1 BY <1>2, <2>4
  <2>6. \A u \in User : entry[u] = None BY <2>4
  <2>7. version \in Nat /\ settled \in 0..applied /\ DOMAIN entry = User BY <2>4
  <2>8. raced \in BOOLEAN BY <2>4
  <2>9. QED BY <1>3, <2>2, <2>3, <2>4, <2>5, <2>6, <2>7, <2>8 DEF TypeOK
<1>5. \A p \in Request : req[p].pc = "new"
  BY DEF Init, NoRequest
<1>6. \A c \in Checker : chk[c].pc = "idle"
  BY DEF Init, NoCheck
<1>7. AdminRemains
  <2>1. PICK u \in User : u \in holders BY <1>1a
  <2>2. <<u, SuperAdmin>> \in db.userRoles BY <1>2, <2>1
  <2>3. Primary = db BY <1>2 DEF Primary
  <2>4. QED BY <2>2, <2>3 DEF AdminRemains, Holders
<1>8. RequestInv
  BY <1>5, <1>7 DEF RequestInv, Shape, Justified, RevocationsTakeTurns, RevocationSparesOne,
                    Revoking
<1>9. CacheInv
  BY <1>6 DEF Init, CacheInv, VersionDates, EntriesAgree, LoadsAgree, At
<1>10. QED BY <1>4, <1>8, <1>9, Parts

LEMMA NextInvariant == RBACInv /\ [Next]_vars => RBACInv'
<1> SUFFICES ASSUME RBACInv, [Next]_vars PROVE RBACInv' OBVIOUS
<1>1. ASSUME NEW p \in Request, Begin(p) \/ Continue(p) \/ BumpFails(p) \/ RequestFails(p)
      PROVE  RBACInv'
  BY <1>1, BeginStep, ContinueStep, BumpFailsStep, RequestFailsStep
<1>2. ASSUME NEW c \in Checker, CurrentVersion(c) \/ Authorize(c) \/ SetUserFails(c)
      PROVE  RBACInv'
  BY <1>2, VersionStep, GetUserStep, LoadStep, SetUserStep, AnswerStep, SetUserFailsStep
     DEF Authorize
<1>3. CASE UNCHANGED vars
  <2>1. UNCHANGED <<log, applied, version, entry, req, chk, settled, raced>>
    BY <1>3 DEF vars, database, cache
  <2>2. TypeOK' BY <2>1 DEF RBACInv, TypeOK
  <2>3. RequestInv' BY <2>1, RequestFrame, Parts
  <2>4. CacheInv'
    BY <2>1, CacheFrame, StillGrows, Parts DEF cache, database
  <2>5. QED BY <2>2, <2>3, <2>4, Parts, PTL
<1>4. QED BY <1>1, <1>2, <1>3, ExpireStep, ReplicateStep DEF Next

\* In every reachable state the tables, the cache and the requests keep their
\* types, somebody holds super_admin unless revocations raced, and what the
\* cache and half-loaded checks hold agrees with the database.
THEOREM RBACInvariant == Spec => []RBACInv
BY InitInvariant, NextInvariant, PTL DEF Spec

LEMMA AgreementIsFresh == RBACInv => AnswersAreFresh
<1> SUFFICES ASSUME RBACInv, NEW c \in Checker, At(c, "answered")
             PROVE  LET u == chk[c].user  now == Since(chk[c].since) IN
                    /\ \A r \in chk[c].roles : \E db \in now : r \in RolesOf(db, u)
                    /\ \A r \in Role : (\A db \in now : r \in RolesOf(db, u)) => r \in chk[c].roles
                    /\ \A q \in Permission :
                          HasPermission(chk[c].roles, chk[c].perms, q) =>
                             \E db \in now : PermittedBy(db, u, q)
                    /\ \A q \in Permission :
                          \/ \A db \in now : q \in DirectOf(db, u)
                          \/ \A db \in now : q \in InheritedOf(db, u)
                          => q \in chk[c].perms
  BY DEF AnswersAreFresh
<1> DEFINE u == chk[c].user
           now == Since(chk[c].since)
<1>1. RolesAgree(chk[c].roles, u, now) /\ PermsAgree(chk[c].perms, u, now)
  BY DEF RBACInv, LoadsAgree, At
<1> HIDE DEF u, now
<1>2. ASSUME NEW q \in Permission, HasPermission(chk[c].roles, chk[c].perms, q)
      PROVE  \E db \in now : PermittedBy(db, u, q)
  BY <1>1, <1>2 DEF HasPermission, PermittedBy, RolesAgree, PermsAgree
<1>3. QED BY <1>1, <1>2 DEF RolesAgree, PermsAgree, u, now

\* No check, whoever fills the cache meanwhile, answers with access that was
\* removed, or without access that was given, before the newest change that was
\* settled when it began.
THEOREM FreshAnswers == Spec => []AnswersAreFresh
BY RBACInvariant, AgreementIsFresh, PTL

\* Somebody holds super_admin as long as no two revocations of it overlap and none
\* is decided on a replica that lags, for any number of requests.
THEOREM AnAdministratorRemains == Spec => []AdminRemains
<1>1. RBACInv => AdminRemains BY DEF RBACInv
<1>2. QED BY <1>1, RBACInvariant, PTL

\* A statement that only removes links, or adds links and rows of other kinds,
\* gives super_admin to nobody.
LEMMA AppliesHolders ==
    ASSUME RBACInv, NEW p \in Request, NEW db \in Database, NEW label, Applies(p, db, label),
           Holders(db) \subseteq Holders(Primary)
    PROVE  Holders(Primary') \subseteq Holders(Primary)
BY CommitGrows DEF Applies, RBACInv

LEMMA SameLogHolders ==
    ASSUME UNCHANGED log PROVE Holders(Primary') \subseteq Holders(Primary)
BY DEF Primary

LEMMA BeginHolders ==
    ASSUME NEW p \in Request, Begin(p) PROVE UNCHANGED log
BY DEF Begin, AssignRole, RevokeRole, GrantPermission, RevokePermission, SyncRolePermissions,
       CreateRole, CreatePermission, DeleteRole, DeletePermission, UpdateRole, UpdatePermission,
       Bootstrap, Renames, Lookup, database

LEMMA ContinueHolders ==
    ASSUME RBACInv, NEW p \in Request, Continue(p), ~InsertUserRole(p)
    PROVE  Holders(Primary') \subseteq Holders(Primary)
<1>1. Primary \in Database BY PrimaryType, Parts
<1>2. NewRow \in Nat BY NewRowType, Parts
<1>3. CASE AuthorizeSuperAdminGrant(p) \/ HoldsSuperAdmin(p) \/ CountHolders(p) \/ AllEnsured(p)
           \/ Bump(p) \/ \E q \in Permission : FindPermission(p, q)
  BY <1>3, SameLogHolders
     DEF AuthorizeSuperAdminGrant, HoldsSuperAdmin, CountHolders, AllEnsured, Bump,
         FindPermission, CheckAdmins, Proceeds, database
<1>4. CASE DeleteUserRole(p)
  <2> DEFINE db == [Primary EXCEPT !.userRoles =
                      IF RoleThere(p) THEN @ \ {<<req[p].user, req[p].role>>} ELSE @]
  <2>1. db \in Database /\ Holders(db) \subseteq Holders(Primary)
    BY <1>1 DEF Database, Holders
  <2>2. Applies(p, db, "bumpChecked") BY <1>4 DEF DeleteUserRole
  <2> HIDE DEF db
  <2>3. QED BY <2>1, <2>2, AppliesHolders
<1>5. CASE InsertUserPermission(p)
  <2> DEFINE db == [Primary EXCEPT !.userPerms = @ \cup UserPermissionLinks(p)]
  <2>1. req[p] \in RequestState /\ Shape(req[p]) BY DEF RBACInv, TypeOK
  <2>2. UserPermissionLinks(p) \subseteq User \X Permission
    BY <1>5, <2>1 DEF InsertUserPermission, Writing, Shape, RequestState, UserPermissionLinks
  <2>3. db \in Database /\ Holders(db) \subseteq Holders(Primary)
    BY <1>1, <2>2 DEF Database, Holders
  <2>4. Applies(p, db, "bumpChecked") \/ Ignored(p) BY <1>5 DEF InsertUserPermission
  <2> HIDE DEF db
  <2>5. QED BY <1>1, <2>3, <2>4, AppliesHolders DEF Ignored
<1>6. CASE DeleteUserPermission(p)
  <2> DEFINE db == [Primary EXCEPT !.userPerms =
                      IF PermsThere(p) THEN @ \ UserPermissionLinks(p) ELSE @]
  <2>1. db \in Database /\ Holders(db) \subseteq Holders(Primary)
    BY <1>1 DEF Database, Holders
  <2>2. Applies(p, db, "bumpChecked") BY <1>6 DEF DeleteUserPermission
  <2> HIDE DEF db
  <2>3. QED BY <2>1, <2>2, AppliesHolders
<1>7. CASE SetPermissions(p)
  <2> DEFINE links == {req[p].role} \X req[p].perms
             others == {l \in Primary.rolePerms : l[1] # req[p].role}
             db == [Primary EXCEPT !.rolePerms = IF RoleThere(p) THEN others \cup links ELSE @]
  <2>1. req[p] \in RequestState /\ req[p].role \in Role
    BY <1>7 DEF RBACInv, TypeOK, Shape, SetPermissions, Writing
  <2>2. links \subseteq Role \X Permission BY <2>1 DEF RequestState
  <2>3. others \subseteq Role \X Permission BY <1>1 DEF Database
  <2>4. db \in Database /\ Holders(db) \subseteq Holders(Primary)
    BY <1>1, <2>2, <2>3 DEF Database, Holders
  <2>5. Applies(p, db, "bumpChecked") \/ UNCHANGED log
    BY <1>7 DEF SetPermissions, Proceeds, database
  <2> HIDE DEF db
  <2>6. QED BY <2>4, <2>5, AppliesHolders, SameLogHolders
<1>8. CASE RoleDelete(p)
  <2> DEFINE db == [Primary EXCEPT !.role[req[p].role] = 0,
                                   !.userRoles = {l \in @ : l[2] # req[p].role},
                                   !.rolePerms = {l \in @ : l[1] # req[p].role}]
  <2>1. db \in Database BY <1>1 DEF Database
  <2>2. db.userRoles = {l \in Primary.userRoles : l[2] # req[p].role} BY <1>1 DEF Database
  <2>3. Holders(db) \subseteq Holders(Primary) BY <2>2 DEF Holders
  <2>4. Applies(p, db, "bumpChecked") \/ Applies(p, Primary, "bumpChecked")
    BY <1>8 DEF RoleDelete
  <2> HIDE DEF db
  <2>5. QED BY <1>1, <2>1, <2>3, <2>4, AppliesHolders
<1>9. CASE PermissionDelete(p)
  <2> DEFINE db == [Primary EXCEPT
                      !.permission = [q \in Permission |->
                                        IF q \in req[p].perms THEN 0 ELSE @[q]],
                      !.userPerms = {l \in @ : l[2] \notin req[p].perms},
                      !.rolePerms = {l \in @ : l[2] \notin req[p].perms}]
  <2>1. [q \in Permission |-> IF q \in req[p].perms THEN 0 ELSE Primary.permission[q]]
           \in [Permission -> Nat]
    BY <1>1 DEF Database
  <2>2. db \in Database /\ Holders(db) \subseteq Holders(Primary)
    BY <1>1, <2>1 DEF Database, Holders
  <2>3. Applies(p, db, "bumpChecked") \/ Applies(p, Primary, "bumpChecked")
    BY <1>9 DEF PermissionDelete
  <2> HIDE DEF db
  <2>4. QED BY <1>1, <2>2, <2>3, AppliesHolders
<1>10. CASE RoleSave(p)
  <2> DEFINE db == [Primary EXCEPT !.role[req[p].role] = NewRow]
  <2>1. db \in Database /\ Holders(db) \subseteq Holders(Primary)
    BY <1>1, <1>2 DEF Database, Holders
  <2>2. Applies(p, db, "done") \/ UNCHANGED log BY <1>10 DEF RoleSave, Proceeds, database
  <2> HIDE DEF db
  <2>3. QED BY <2>1, <2>2, AppliesHolders, SameLogHolders
<1>11. CASE PermissionSave(p)
  <2>1. PICK q : \/ Applies(p, [Primary EXCEPT !.permission[q] = NewRow], "done")
                 \/ UNCHANGED log
    BY <1>11 DEF PermissionSave, Proceeds, database
  <2> DEFINE db == [Primary EXCEPT !.permission[q] = NewRow]
  <2>2. db \in Database /\ Holders(db) \subseteq Holders(Primary)
    BY <1>1, <1>2 DEF Database, Holders
  <2> HIDE DEF db
  <2>3. QED BY <2>1, <2>2, AppliesHolders, SameLogHolders DEF db
<1>12. CASE MakePermission(p)
  <2> DEFINE db == [Primary EXCEPT !.permission[req[p].making] = NewRow]
  <2>1. db \in Database /\ Holders(db) \subseteq Holders(Primary)
    BY <1>1, <1>2 DEF Database, Holders
  <2>2. Commit(db) \/ UNCHANGED log BY <1>12 DEF MakePermission, Proceeds, database
  <2> HIDE DEF db
  <2>3. QED BY <2>1, <2>2, CommitGrows, SameLogHolders DEF RBACInv
<1>13. QED
  BY <1>3, <1>4, <1>5, <1>6, <1>7, <1>8, <1>9, <1>10, <1>11, <1>12 DEF Continue

\* What an assignment adds is the link it was asked for.
LEMMA InsertHolders ==
    ASSUME RBACInv, NEW p \in Request, InsertUserRole(p),
           NEW u \in Holders(Primary') \ Holders(Primary)
    PROVE  /\ Writing(p, "AssignRole") /\ req[p].user = u /\ req'[p].pc # "write"
           /\ \/ req[p].caller = None
              \/ /\ req[p].caller # u
                 /\ \E db \in Since(req[p].since) : req[p].caller \in Holders(db)
<1>1. Primary \in Database BY PrimaryType, Parts
<1>2. /\ req \in [Request -> RequestState] /\ req[p].user \in User /\ req[p].role \in Role
      /\ Writing(p, "AssignRole")
  BY DEF RBACInv, TypeOK, Shape, InsertUserRole, Writing
<1> DEFINE db == [Primary EXCEPT !.userRoles = @ \cup {<<req[p].user, req[p].role>>}]
<1>3. db \in Database BY <1>1, <1>2 DEF Database
<1>4. db.userRoles = Primary.userRoles \cup {<<req[p].user, req[p].role>>} BY <1>1 DEF Database
<1>5. Applies(p, db, "bumpChecked") \/ Ignored(p) BY DEF InsertUserRole
<1> HIDE DEF db
<1>6. ~Ignored(p) BY <1>1, AppliesHolders DEF Ignored
<1>7. Applies(p, db, "bumpChecked") BY <1>5, <1>6
<1>8. Primary' = db BY <1>3, <1>7, CommitGrows DEF Applies, RBACInv
<1>9. req[p].user = u /\ req[p].role = SuperAdmin BY <1>4, <1>8 DEF Holders
<1>10. req'[p].pc = "bumpChecked"
  <2>1. "bumpChecked" \notin Ends BY DEF Ends
  <2>2. PICK n : req' = [req EXCEPT ![p] = [NoRequest EXCEPT !.pc = "bumpChecked", !.commit = n]]
    BY <1>7, <2>1 DEF Applies
  <2>3. req'[p] = [NoRequest EXCEPT !.pc = "bumpChecked", !.commit = n] BY <1>2, <2>2
  <2>4. QED BY <2>3 DEF NoRequest
<1>11. QED BY <1>2, <1>9, <1>10 DEF RBACInv, Justified, Writing

LEMMA NextEscalation ==
    ASSUME RBACInv, [Next]_vars, NEW u \in Holders(Primary') \ Holders(Primary)
    PROVE  \E p \in Request :
              /\ Writing(p, "AssignRole") /\ req[p].user = u /\ req'[p].pc # "write"
              /\ \/ req[p].caller = None
                 \/ /\ req[p].caller # u
                    /\ \E db \in Since(req[p].since) : req[p].caller \in Holders(db)
<1>1. ~UNCHANGED log BY SameLogHolders
<1>2. PICK p \in Request : Continue(p)
  BY <1>1, BeginHolders
     DEF Next, BumpFails, RequestFails, CurrentVersion, Authorize, GetUser, LoadRoles, LoadDirect,
         LoadInherited, SetUser, SetUserFails, Answer, Check, Expire, Replicate, vars, database
<1>3. InsertUserRole(p) BY <1>2, ContinueHolders
<1>4. QED BY <1>3, InsertHolders

\* Nobody becomes a super_admin on his own word: somebody else asked for it who
\* was shown to hold it while the request ran, or the program itself did.
THEOREM NobodyEscalates == Spec => NoEscalation
<1>1. RBACInv /\ [Next]_vars =>
         [\A u \in Holders(log'[Len(log')]) \ Holders(Primary) :
             \E p \in Request :
                /\ Writing(p, "AssignRole") /\ req[p].user = u /\ req'[p].pc # "write"
                /\ \/ req[p].caller = None
                   \/ /\ req[p].caller # u
                      /\ \E db \in Since(req[p].since) : req[p].caller \in Holders(db)]_vars
  BY NextEscalation DEF Primary
<1>2. QED BY <1>1, RBACInvariant, PTL DEF Spec, NoEscalation

=============================================================================
