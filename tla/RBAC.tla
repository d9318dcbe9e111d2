--------------------------------- MODULE RBAC ---------------------------------
(***************************************************************************)
(* Roles and permissions of the rbac module: the five tables, the admin    *)
(* use cases that change them, and the versioned permission cache that     *)
(* answers authorization checks.                                           *)
(*                                                                         *)
(* A use case looks up its rows, possibly on a lagging replica, writes     *)
(* with one statement (or one transaction) on the primary, and then bumps  *)
(* the version of the cache.  A check reads the version, looks for an      *)
(* entry under it, and otherwise loads three queries and stores them under *)
(* the version it has read.  Nothing makes these sequences atomic.         *)
(*                                                                         *)
(* The database is the sequence `log' of its committed states; a replica   *)
(* is a position in it.  Display names and groups are left out, so that a  *)
(* rename changes no state but the version.                                *)
(***************************************************************************)
EXTENDS Integers, Sequences, FiniteSets

CONSTANTS
    User,
    Role,                \* codes of roles
    Permission,          \* codes of permissions
    SuperAdmin,          \* authorization.RoleSuperAdmin
    ProtectedRole,       \* the built-in roles
    ProtectedPermission, \* the built-in permissions
    Request,             \* calls of the admin use cases
    Checker,             \* goroutines that authorize requests
    Operation,           \* the use cases the requests may run
    None,
    HasReplica,          \* queries go to a read replica
    Watched,             \* bound: the users whose access is checked
    Founders,            \* bound: who may hold super_admin when the model starts
    MaxFaults            \* bound: failures per behaviour

ASSUME RBACConstants ==
    /\ SuperAdmin \in ProtectedRole
    /\ ProtectedRole \subseteq Role
    /\ ProtectedPermission \subseteq Permission
    /\ Watched \subseteq User
    /\ Founders \subseteq (SUBSET User) \ {{}}
    /\ None \notin User \cup Role
    /\ IsFiniteSet(User)
    /\ HasReplica \in BOOLEAN
    /\ MaxFaults \in Nat

VARIABLES
    log,      \* the committed states of the database, oldest first
    applied,  \* the state of `log' that queries see
    version,  \* rbac:ver, 0 while the key is missing
    entry,    \* rbac:user:<id>
    req,      \* the requests
    chk,      \* the checks
    \* History, for the properties only.
    settled,  \* newest write that queries showed when its bump succeeded
    raced,    \* two revocations of super_admin overlapped, or the replica lagged
    faults

database == <<log, applied>>
cache    == <<version, entry>>
vars     == <<database, cache, req, chk, settled, raced, faults>>

Primary == log[Len(log)]
View    == log[applied]

RowId == Nat  \* 0: no row with that code

Database == [role : [Role -> RowId], permission : [Permission -> RowId],
             userRoles : SUBSET (User \X Role), rolePerms : SUBSET (Role \X Permission),
             userPerms : SUBSET (User \X Permission)]

RolesOf(db, u)     == {r \in Role : <<u, r>> \in db.userRoles}
DirectOf(db, u)    == {q \in Permission : <<u, q>> \in db.userPerms}
InheritedOf(db, u) == {q \in Permission : \E r \in RolesOf(db, u) : <<r, q>> \in db.rolePerms}
Holders(db)        == {u \in User : <<u, SuperAdmin>> \in db.userRoles}

\* Service.HasPermission: super_admin passes every check.
HasPermission(roles, perms, q) == SuperAdmin \in roles \/ q \in perms
PermittedBy(db, u, q) ==
    HasPermission(RolesOf(db, u), DirectOf(db, u) \cup InheritedOf(db, u), q)

NoRequest == [op |-> None, pc |-> "new", user |-> None, role |-> None, perms |-> {},
              caller |-> None, row |-> 0, ids |-> [q \in Permission |-> 0],
              todo |-> {}, making |-> None, commit |-> 0, since |-> 0]
NoCheck   == [pc |-> "idle", user |-> None, ver |-> 0, roles |-> {}, perms |-> {},
              since |-> 0]

(***************************************************************************)
(* A database after Bootstrap, in which administrators have created the    *)
(* other roles, given each every permission, and assigned them to whoever  *)
(* does not hold super_admin.                                              *)
(***************************************************************************)
Init ==
    /\ \E holders \in Founders :
          log = << [role |-> [r \in Role |-> 1], permission |-> [q \in Permission |-> 1],
                    userRoles |-> (holders \X {SuperAdmin})
                                    \cup ((User \ holders) \X (Role \ ProtectedRole)),
                    rolePerms |-> (Role \ ProtectedRole) \X Permission,
                    userPerms |-> {}] >>
    /\ applied = 1
    /\ version = 0
    /\ entry = [u \in User |-> None]
    /\ req = [p \in Request |-> NoRequest]
    /\ chk = [c \in Checker |-> NoCheck]
    /\ settled = 0
    /\ raced = FALSE
    /\ faults = 0

(***************************************************************************)
(* Statements.                                                             *)
(***************************************************************************)
\* A statement that changes no row leaves no trace.
Commit(db) ==
    /\ log' = IF db = Primary THEN log ELSE Append(log, db)
    /\ applied' = IF HasReplica THEN applied ELSE Len(log')

\* A new row gets an id that no row has had.
NewRow == Len(log) + 1

Ends == {"done", "refused", "failed"}

\* A request that has ended keeps nothing.
Goto(p, label) ==
    req' = [req EXCEPT ![p] = IF label \in Ends THEN [NoRequest EXCEPT !.pc = label]
                                               ELSE [@ EXCEPT !.pc = label]]

\* The request does nothing to the shared state and goes on at `label'.
Proceeds(p, label) ==
    /\ Goto(p, label)
    /\ UNCHANGED <<database, cache, chk, settled, raced, faults>>

\* The request's statement leaves the database as `db'.
Applies(p, db, label) ==
    /\ Commit(db)
    /\ IF label \in Ends THEN Goto(p, label)
       ELSE req' = [req EXCEPT ![p] = [NoRequest EXCEPT !.pc = label, !.commit = Len(log')]]
    /\ UNCHANGED <<cache, chk, settled, raced, faults>>

(***************************************************************************)
(* Requests.  A request starts with its first lookup; one that is refused  *)
(* there, because of a protected code or of a row the queries do not show, *)
(* changes nothing and is left out.                                        *)
(***************************************************************************)
Lookup(p, op, u, r, qs, caller, first) ==
    /\ op \in Operation
    /\ req[p].pc = "new"
    /\ req' = [req EXCEPT ![p] =
                 [@ EXCEPT !.op = op, !.pc = first, !.user = u, !.role = r, !.perms = qs,
                           !.caller = caller, !.since = IF caller = None THEN 0 ELSE applied,
                           !.row = IF r = None THEN 0 ELSE View.role[r],
                           !.ids = [q \in Permission |->
                                      IF q \in qs THEN View.permission[q] ELSE 0],
                           !.todo = IF first = "ensure" THEN qs ELSE {}]]
    /\ UNCHANGED <<database, cache, chk, settled, raced, faults>>

AssignRole_Unguarded(p) ==
    \E u \in User, r \in Role, caller \in User \cup {None} :
       /\ View.role[r] # 0
       /\ Lookup(p, "AssignRole", u, r, {}, caller, "write")

\* Who asks matters for super_admin only; the program's own calls (by the
\* seeder, or by Register for the default role) carry no identity.
AssignRole(p) ==
    \E u \in User, r \in Role :
       \E caller \in (IF r = SuperAdmin THEN User \cup {None} ELSE {None}) :
          /\ View.role[r] # 0
          /\ Lookup(p, "AssignRole", u, r, {}, caller,
                    IF caller = None THEN "write" ELSE "authorize")

\* authorizeSuperAdminGrant: nobody grants super_admin to himself, and only a
\* holder grants it to others.
AuthorizeSuperAdminGrant(p) ==
    /\ req[p].pc = "authorize"
    /\ Proceeds(p, IF /\ req[p].caller # req[p].user
                      /\ SuperAdmin \in RolesOf(View, req[p].caller)
                     THEN "write" ELSE "refused")

RevokeRole(p) ==
    \E u \in User, r \in Role :
       /\ View.role[r] # 0
       /\ Lookup(p, "RevokeRole", u, r, {}, None, IF r = SuperAdmin THEN "holds" ELSE "write")

\* Request r is past the first check of a revocation of super_admin.
Revoking(r) == r.op = "RevokeRole" /\ r.role = SuperAdmin /\ r.pc \in {"count", "write"}

\* The checks of a revocation of super_admin say nothing about a database that
\* has moved on, or that another revocation is about to change.
Outdated(p) ==
    \/ applied < Len(log)
    \/ \E o \in Request \ {p} : Revoking(req[o])

CheckAdmins(p, label) ==
    /\ Goto(p, label)
    /\ raced' = (raced \/ Outdated(p))
    /\ UNCHANGED <<database, cache, chk, settled, faults>>

\* ensureSuperAdminRemains, first query: only a holder needs another one.
HoldsSuperAdmin(p) ==
    /\ req[p].pc = "holds"
    /\ CheckAdmins(p, IF SuperAdmin \in RolesOf(View, req[p].user) THEN "count" ELSE "write")

CountHolders_OffByOne(p) ==
    /\ req[p].pc = "count"
    /\ CheckAdmins(p, IF Cardinality(Holders(View)) <= 0 THEN "refused" ELSE "write")

\* ensureSuperAdminRemains, second query.
CountHolders(p) ==
    /\ req[p].pc = "count"
    /\ CheckAdmins(p, IF Cardinality(Holders(View)) <= 1 THEN "refused" ELSE "write")

GrantPermission(p) ==
    \E u \in User, q \in Permission :
       /\ View.permission[q] # 0
       /\ Lookup(p, "GrantPermission", u, None, {q}, None, "write")

RevokePermission(p) ==
    \E u \in User, q \in Permission :
       /\ View.permission[q] # 0
       /\ Lookup(p, "RevokePermission", u, None, {q}, None, "write")

SyncRolePermissions(p) ==
    \E r \in Role, qs \in SUBSET Permission :
       /\ View.role[r] # 0
       /\ Lookup(p, "SyncRolePermissions", None, r, qs, None, "ensure")

CreateRole(p) ==
    \E r \in Role :
       /\ View.role[r] = 0
       /\ Lookup(p, "CreateRole", None, r, {}, None, "create")

CreatePermission(p) ==
    \E q \in Permission :
       /\ View.permission[q] = 0
       /\ Lookup(p, "CreatePermission", None, None, {q}, None, "create")

DeleteRole(p) ==
    \E r \in Role \ ProtectedRole :
       /\ View.role[r] # 0
       /\ Lookup(p, "DeleteRole", None, r, {}, None, "write")

DeletePermission(p) ==
    \E q \in Permission \ ProtectedPermission :
       /\ View.permission[q] # 0
       /\ Lookup(p, "DeletePermission", None, None, {q}, None, "write")

\* Changes that only the version of the cache shows.
Renames(p) ==
    /\ req[p].pc = "new"
    /\ Goto(p, "bumpBestEffort")
    /\ UNCHANGED <<database, cache, chk, settled, raced, faults>>

\* A new display name or group.
UpdateRole(p) ==
    /\ "UpdateRole" \in Operation
    /\ \E r \in Role \ ProtectedRole : View.role[r] # 0
    /\ Renames(p)

UpdatePermission(p) ==
    /\ "UpdatePermission" \in Operation
    /\ \E q \in Permission \ ProtectedPermission : View.permission[q] # 0
    /\ Renames(p)

\* At start-up: the built-in rows exist, since nothing can delete them.
Bootstrap(p) == "Bootstrap" \in Operation /\ Renames(p)

(***************************************************************************)
(* Writes.  They name rows by the id found at the lookup; the row may have *)
(* been deleted since, and its code given to a new row.                    *)
(***************************************************************************)
Writing(p, op) == req[p].pc = "write" /\ req[p].op = op

RoleThere(p) == Primary.role[req[p].role] = req[p].row
PermsThere(p) ==
    \A q \in req[p].perms : req[p].ids[q] # 0 /\ Primary.permission[q] = req[p].ids[q]

\* INSERT IGNORE (MySQL) drops a link to a row that is gone; PostgreSQL
\* reports the broken reference.
Ignored(p) == \E label \in {"bumpChecked", "failed"} : Applies(p, Primary, label)

InsertUserRole(p) ==
    /\ Writing(p, "AssignRole")
    /\ IF RoleThere(p)
         THEN Applies(p, [Primary EXCEPT !.userRoles = @ \cup {<<req[p].user, req[p].role>>}],
                      "bumpChecked")
         ELSE Ignored(p)

DeleteUserRole(p) ==
    /\ Writing(p, "RevokeRole")
    /\ Applies(p, [Primary EXCEPT !.userRoles =
                     IF RoleThere(p) THEN @ \ {<<req[p].user, req[p].role>>} ELSE @],
               "bumpChecked")

UserPermissionLinks(p) == {req[p].user} \X req[p].perms

InsertUserPermission(p) ==
    /\ Writing(p, "GrantPermission")
    /\ IF PermsThere(p)
         THEN Applies(p, [Primary EXCEPT !.userPerms = @ \cup UserPermissionLinks(p)],
                      "bumpChecked")
         ELSE Ignored(p)

DeleteUserPermission(p) ==
    /\ Writing(p, "RevokePermission")
    /\ Applies(p, [Primary EXCEPT !.userPerms =
                     IF PermsThere(p) THEN @ \ UserPermissionLinks(p) ELSE @],
               "bumpChecked")

\* The transaction of SetPermissions: a reference to a row that is gone rolls
\* it back, and without links there is no reference.
SetPermissions(p) ==
    LET links == {req[p].role} \X req[p].perms
        others == {l \in Primary.rolePerms : l[1] # req[p].role}
    IN /\ Writing(p, "SyncRolePermissions")
       /\ IF (RoleThere(p) /\ PermsThere(p)) \/ links = {}
            THEN Applies(p, [Primary EXCEPT !.rolePerms =
                               IF RoleThere(p) THEN others \cup links ELSE @], "bumpChecked")
            ELSE Proceeds(p, "failed")

\* ON DELETE CASCADE removes the links of the row.
RoleDelete(p) ==
    /\ Writing(p, "DeleteRole")
    /\ Applies(p, IF RoleThere(p)
                    THEN [Primary EXCEPT !.role[req[p].role] = 0,
                                         !.userRoles = {l \in @ : l[2] # req[p].role},
                                         !.rolePerms = {l \in @ : l[1] # req[p].role}]
                    ELSE Primary, "bumpChecked")

PermissionDelete(p) ==
    /\ Writing(p, "DeletePermission")
    /\ Applies(p, IF PermsThere(p)
                    THEN [Primary EXCEPT
                            !.permission = [q \in Permission |->
                                              IF q \in req[p].perms THEN 0 ELSE @[q]],
                            !.userPerms = {l \in @ : l[2] \notin req[p].perms},
                            !.rolePerms = {l \in @ : l[2] \notin req[p].perms}]
                    ELSE Primary, "bumpChecked")

\* A new role or permission has no links, so that nothing needs a bump; the
\* code is unique.
RoleSave(p) ==
    /\ req[p].pc = "create" /\ req[p].op = "CreateRole"
    /\ IF Primary.role[req[p].role] = 0
         THEN Applies(p, [Primary EXCEPT !.role[req[p].role] = NewRow], "done")
         ELSE Proceeds(p, "failed")

PermissionSave(p) ==
    /\ req[p].pc = "create" /\ req[p].op = "CreatePermission"
    /\ \E q \in req[p].perms :
          IF Primary.permission[q] = 0
            THEN Applies(p, [Primary EXCEPT !.permission[q] = NewRow], "done")
            ELSE Proceeds(p, "failed")

(***************************************************************************)
(* SyncRolePermissions looks every code up and creates the missing ones    *)
(* before it replaces the links; each of these inserts commits by itself.  *)
(***************************************************************************)
FindPermission(p, q) ==
    LET r == req[p] IN
    /\ r.pc = "ensure"
    /\ q \in r.todo
    /\ req' = [req EXCEPT ![p] =
                 IF View.permission[q] = 0
                   THEN [r EXCEPT !.pc = "make", !.making = q]
                   ELSE [r EXCEPT !.todo = r.todo \ {q},
                                  !.ids = [r.ids EXCEPT ![q] = View.permission[q]]]]
    /\ UNCHANGED <<database, cache, chk, settled, raced, faults>>

MakePermission(p) ==
    LET r == req[p]
        q == r.making
    IN /\ r.pc = "make"
       /\ IF Primary.permission[q] = 0
            THEN /\ Commit([Primary EXCEPT !.permission[q] = NewRow])
                 /\ req' = [req EXCEPT ![p] = [r EXCEPT !.pc = "ensure", !.todo = r.todo \ {q},
                                                        !.ids = [r.ids EXCEPT ![q] = NewRow]]]
                 /\ UNCHANGED <<cache, chk, settled, raced, faults>>
            ELSE Proceeds(p, "failed")

AllEnsured(p) ==
    /\ req[p].pc = "ensure"
    /\ req[p].todo = {}
    /\ Proceeds(p, "write")

(***************************************************************************)
(* Invalidation.  A bump that succeeds is the end of the request; bumps    *)
(* that fail are only logged, and may have taken effect all the same.      *)
(***************************************************************************)
Advance ==
    /\ version' = version + 1
    /\ UNCHANGED entry

\* What queries show of the request's write when its bump succeeds, they show
\* from then on.
Bump(p) ==
    /\ req[p].pc \in {"bumpBestEffort", "bumpChecked", "retry"}
    /\ Advance
    /\ Goto(p, "done")
    /\ settled' = IF applied >= req[p].commit /\ req[p].commit > settled
                    THEN req[p].commit ELSE settled
    /\ UNCHANGED <<database, chk, raced, faults>>

\* Only bumpChecked tries again.
BumpFails(p) ==
    /\ req[p].pc \in {"bumpBestEffort", "bumpChecked", "retry"}
    /\ faults < MaxFaults
    /\ faults' = faults + 1
    /\ Goto(p, IF req[p].pc = "bumpChecked" THEN "retry" ELSE "done")
    /\ Advance \/ UNCHANGED cache
    /\ UNCHANGED <<database, chk, settled, raced>>

\* A statement fails, or the process dies.
RequestFails(p) ==
    /\ req[p].pc \notin Ends \cup {"new"}
    /\ faults < MaxFaults
    /\ faults' = faults + 1
    /\ Goto(p, "failed")
    /\ UNCHANGED <<database, cache, chk, settled, raced>>

(***************************************************************************)
(* Checks: GetUser, for HasPermission, HasRole and RolesAndPermissions.    *)
(***************************************************************************)
At(c, label) == chk[c].pc = label

Check(c, check) ==
    /\ chk' = [chk EXCEPT ![c] = check]
    /\ UNCHANGED <<log, applied, version, req, settled, raced>>

CurrentVersion(c) ==
    \E u \in Watched :
       /\ At(c, "idle")
       /\ Check(c, [NoCheck EXCEPT !.pc = "get", !.user = u, !.ver = version,
                                   !.since = settled])
       /\ UNCHANGED <<entry, faults>>

GetUser(c) ==
    LET e == entry[chk[c].user] IN
    /\ At(c, "get")
    /\ Check(c, IF e # None /\ e.ver = chk[c].ver
                  THEN [chk[c] EXCEPT !.pc = "answered", !.roles = e.roles, !.perms = e.perms]
                  ELSE [chk[c] EXCEPT !.pc = "roles"])
    /\ UNCHANGED <<entry, faults>>

\* load: three queries, between which the database may change.
LoadRoles(c) ==
    /\ At(c, "roles")
    /\ Check(c, [chk[c] EXCEPT !.pc = "direct", !.roles = RolesOf(View, chk[c].user)])
    /\ UNCHANGED <<entry, faults>>

LoadDirect(c) ==
    /\ At(c, "direct")
    /\ Check(c, [chk[c] EXCEPT !.pc = "inherited", !.perms = DirectOf(View, chk[c].user)])
    /\ UNCHANGED <<entry, faults>>

LoadInherited(c) ==
    /\ At(c, "inherited")
    /\ Check(c, [chk[c] EXCEPT !.pc = "set",
                               !.perms = @ \cup InheritedOf(View, chk[c].user)])
    /\ UNCHANGED <<entry, faults>>

SetUser_NewestVersion(c) ==
    /\ At(c, "set")
    /\ Check(c, [chk[c] EXCEPT !.pc = "answered"])
    /\ entry' = [entry EXCEPT ![chk[c].user] =
                   [ver |-> version, roles |-> chk[c].roles, perms |-> chk[c].perms]]
    /\ UNCHANGED faults

\* The result is stored under the version read before the first query.
SetUser(c) ==
    /\ At(c, "set")
    /\ Check(c, [chk[c] EXCEPT !.pc = "answered"])
    /\ entry' = [entry EXCEPT ![chk[c].user] =
                   [ver |-> chk[c].ver, roles |-> chk[c].roles, perms |-> chk[c].perms]]
    /\ UNCHANGED faults

\* A failed write to the cache is only logged.
SetUserFails(c) ==
    /\ At(c, "set")
    /\ faults < MaxFaults
    /\ faults' = faults + 1
    /\ Check(c, [chk[c] EXCEPT !.pc = "answered"])
    /\ UNCHANGED entry

\* The check is answered, or one of its reads fails and it answers an error.
Answer(c) ==
    /\ ~At(c, "idle")
    /\ \/ At(c, "answered") /\ UNCHANGED faults
       \/ ~At(c, "answered") /\ faults < MaxFaults /\ faults' = faults + 1
    /\ Check(c, NoCheck)
    /\ UNCHANGED entry

\* The ttl of the entry ends.
Expire(u) ==
    /\ entry[u] # None
    /\ entry' = [entry EXCEPT ![u] = None]
    /\ UNCHANGED <<database, version, req, chk, settled, raced, faults>>

Replicate ==
    /\ applied < Len(log)
    /\ applied' = applied + 1
    /\ UNCHANGED <<log, cache, req, chk, settled, raced, faults>>

Begin(p) ==
    \/ AssignRole(p) \/ RevokeRole(p)
    \/ GrantPermission(p) \/ RevokePermission(p) \/ SyncRolePermissions(p)
    \/ CreateRole(p) \/ CreatePermission(p) \/ DeleteRole(p) \/ DeletePermission(p)
    \/ UpdateRole(p) \/ UpdatePermission(p) \/ Bootstrap(p)

Continue(p) ==
    \/ AuthorizeSuperAdminGrant(p) \/ HoldsSuperAdmin(p) \/ CountHolders(p)
    \/ InsertUserRole(p) \/ DeleteUserRole(p)
    \/ InsertUserPermission(p) \/ DeleteUserPermission(p)
    \/ SetPermissions(p) \/ RoleDelete(p) \/ PermissionDelete(p)
    \/ RoleSave(p) \/ PermissionSave(p)
    \/ \E q \in Permission : FindPermission(p, q)
    \/ MakePermission(p) \/ AllEnsured(p)
    \/ Bump(p)

Authorize(c) ==
    \/ GetUser(c) \/ LoadRoles(c) \/ LoadDirect(c) \/ LoadInherited(c) \/ SetUser(c)
    \/ Answer(c)

Next ==
    \/ \E p \in Request : Begin(p) \/ Continue(p) \/ BumpFails(p) \/ RequestFails(p)
    \/ \E c \in Checker : CurrentVersion(c) \/ Authorize(c) \/ SetUserFails(c)
    \/ \E u \in User : Expire(u)
    \/ Replicate

Spec == Init /\ [][Next]_vars

-----------------------------------------------------------------------------
(* Properties. *)

Labels == {"new", "authorize", "holds", "count", "ensure", "make", "create", "write",
           "bumpBestEffort", "bumpChecked", "retry", "done", "refused", "failed"}

RequestState ==
    [op : Operation \cup {None}, pc : Labels, user : User \cup {None}, role : Role \cup {None},
     perms : SUBSET Permission, caller : User \cup {None}, row : RowId,
     ids : [Permission -> RowId], todo : SUBSET Permission,
     making : Permission \cup {None}, commit : Nat, since : Nat]

CheckState ==
    [pc : {"idle", "get", "roles", "direct", "inherited", "set", "answered"},
     user : User \cup {None}, ver : Nat, roles : SUBSET Role, perms : SUBSET Permission,
     since : Nat]

\* Every table, cache entry and local variable keeps its type.
TypeOK ==
    /\ log \in Seq(Database) /\ applied \in 1..Len(log)
    /\ version \in Nat /\ settled \in 0..applied /\ raced \in BOOLEAN
    /\ \A u \in User :
          \/ entry[u] = None
          \/ entry[u] \in [ver : 0..version, roles : SUBSET Role, perms : SUBSET Permission]
    /\ DOMAIN entry = User
    /\ req \in [Request -> RequestState]
    /\ \A p \in Request : req[p].commit <= Len(log) /\ req[p].since <= applied
    /\ chk \in [Checker -> CheckState]
    /\ \A c \in Checker : chk[c].ver <= version /\ chk[c].since <= settled

\* The states of the database that queries may have shown since state k.
Since(k) == {log[i] : i \in (IF k = 0 THEN 1 ELSE k)..Len(log)}

\* An answer (and so an access that is allowed or denied) agrees with the
\* database as queries have shown it since the newest change whose bump had
\* succeeded when the check began: no removed access is granted and no granted
\* access is denied by an entry, whoever fills it while the change goes on.
AnswersAreFresh ==
    \A c \in Checker : At(c, "answered") =>
       LET u == chk[c].user  now == Since(chk[c].since) IN
       /\ \A r \in chk[c].roles : \E db \in now : r \in RolesOf(db, u)
       /\ \A r \in Role : (\A db \in now : r \in RolesOf(db, u)) => r \in chk[c].roles
       /\ \A q \in Permission :
             HasPermission(chk[c].roles, chk[c].perms, q) => \E db \in now : PermittedBy(db, u, q)
       /\ \A q \in Permission :
             \/ \A db \in now : q \in DirectOf(db, u)
             \/ \A db \in now : q \in InheritedOf(db, u)
             => q \in chk[c].perms

\* super_admin reaches a user only through an assignment by another user whom
\* queries have shown to hold it since that request began, or by the program
\* itself.
NoEscalation ==
    [][\A u \in Holders(log'[Len(log')]) \ Holders(Primary) :
          \E p \in Request :
             /\ Writing(p, "AssignRole") /\ req[p].user = u /\ req'[p].pc # "write"
             /\ \/ req[p].caller = None
                \/ /\ req[p].caller # u
                   /\ \E db \in Since(req[p].since) : req[p].caller \in Holders(db)]_vars

\* Somebody holds super_admin, as long as no two revocations of it overlap and
\* none is decided on a replica that lags.
AdminRemains == raced \/ Holders(Primary) # {}

\* What a request that has not written yet is about.
Shape(r) ==
    /\ r.pc = "authorize" => r.op = "AssignRole"
    /\ r.pc \in {"holds", "count"} => r.op = "RevokeRole" /\ r.role = SuperAdmin
    /\ r.pc \in {"ensure", "make"} => r.op = "SyncRolePermissions"
    /\ r.pc = "make" => r.making \in Permission
    /\ r.pc \in {"authorize", "holds", "count", "write"} =>
          /\ r.op \in {"AssignRole", "RevokeRole"} => r.user \in User /\ r.role \in Role
          /\ r.op \in {"GrantPermission", "RevokePermission"} => r.user \in User
          /\ r.op = "DeleteRole" => r.role \in Role \ ProtectedRole
    /\ r.pc \in {"ensure", "make", "write"} /\ r.op = "SyncRolePermissions" => r.role \in Role
    /\ r.pc = "create" /\ r.op = "CreateRole" => r.role \in Role

\* An assignment of super_admin that is about to write has passed its guard.
Justified(r) ==
    r.pc = "write" /\ r.op = "AssignRole" /\ r.role = SuperAdmin =>
       \/ r.caller = None
       \/ r.caller # r.user /\ \E db \in Since(r.since) : r.caller \in Holders(db)

\* Without a race one revocation at a time is decided, and it leaves another
\* holder.
RevocationsTakeTurns ==
    raced \/ \A o, p \in Request : Revoking(req[o]) /\ Revoking(req[p]) => o = p
RevocationSparesOne ==
    raced \/ \A p \in Request : Revoking(req[p]) /\ req[p].pc = "write" =>
                \E u \in Holders(Primary) : u # req[p].user

\* Sets that contain what every state of `now' holds, and only what some does.
RolesAgree(rs, u, now) ==
    /\ \A r \in rs : \E db \in now : r \in RolesOf(db, u)
    /\ \A r \in Role : (\A db \in now : r \in RolesOf(db, u)) => r \in rs
DirectAgree(qs, u, now) ==
    /\ \A q \in qs : \E db \in now : q \in DirectOf(db, u)
    /\ \A q \in Permission : (\A db \in now : q \in DirectOf(db, u)) => q \in qs
PermsAgree(qs, u, now) ==
    /\ \A q \in qs : \E db \in now : q \in DirectOf(db, u) \cup InheritedOf(db, u)
    /\ \A q \in Permission : (\A db \in now : q \in DirectOf(db, u)) => q \in qs
    /\ \A q \in Permission : (\A db \in now : q \in InheritedOf(db, u)) => q \in qs

\* The version a check has read stands for the changes it must see.
VersionDates ==
    \A c, d \in Checker :
       ~At(c, "idle") =>
          /\ chk[c].user \in User
          /\ chk[c].ver = version => chk[c].since = settled
          /\ ~At(d, "idle") /\ chk[d].ver = chk[c].ver => chk[d].since = chk[c].since

EntryAgrees(u, now) == RolesAgree(entry[u].roles, u, now) /\ PermsAgree(entry[u].perms, u, now)

\* An entry that a check may still find agrees with what that check must see.
EntriesAgree ==
    \A u \in User : entry[u] # None =>
       /\ entry[u].ver = version => EntryAgrees(u, Since(settled))
       /\ \A c \in Checker :
             ~At(c, "idle") /\ chk[c].user = u /\ chk[c].ver = entry[u].ver =>
                EntryAgrees(u, Since(chk[c].since))

\* So does what a check has loaded so far.
LoadsAgree ==
    \A c \in Checker :
       LET u == chk[c].user  now == Since(chk[c].since) IN
       /\ chk[c].pc \in {"direct", "inherited", "set", "answered"} =>
             RolesAgree(chk[c].roles, u, now)
       /\ At(c, "inherited") => DirectAgree(chk[c].perms, u, now)
       /\ chk[c].pc \in {"set", "answered"} => PermsAgree(chk[c].perms, u, now)

\* What holds in every state of the tables, the cache and the requests: the
\* types, that an administrator remains, whatever is deleted, renamed or
\* revoked between the lookups of a request and its write, and that entries and
\* half-loaded checks agree with the database since the version they go by.
RBACInv ==
    /\ TypeOK
    /\ \A p \in Request : Shape(req[p]) /\ Justified(req[p])
    /\ AdminRemains /\ RevocationsTakeTurns /\ RevocationSparesOne
    /\ VersionDates /\ EntriesAgree /\ LoadsAgree
=============================================================================
