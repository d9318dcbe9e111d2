---------------------------- MODULE SessionProofs ----------------------------
(* The safety properties of Sessions for every value of its constants, and
   those that hold where requests do not overlap.                            *)
EXTENDS Sessions, TLAPS, FiniteSetTheorems

USE SessionConstants
    DEF SessionInv, TypeOK, RowState, NoEntry, database, locals, loop,
        Issuing, Live, InFlight, Delivered, Matches

\* A row belongs to a family its user opened with a login.
LEMMA RowFamily ==
    ASSUME SessionInv, NEW t \in Request, row[t] # "absent"
    PROVE  family[t] \in Request /\ op[family[t]] = "login" /\ user[family[t]] = user[t]
BY DEF RequestShape, FamilyShape, RotationShape

\* A row that a query shows exists, replica or not.
LEMMA ViewedRow ==
    ASSUME SessionInv, NEW t \in Request, View[t] # "absent"
    PROVE  row[t] # "absent"
BY DEF CopyIsPast, View

\* There are no rows and no requests at first.
LEMMA InitInvariant == Init => SessionInv
BY DEF Init, RequestShape, FamilyShape, RotationShape, CopyIsPast, TargetShape,
       CoveredShape, OneLiveToken, RotatedOnce

\* A login opens a family that no row and no request knows yet.
LEMMA LoginStep ==
    ASSUME SessionInv, NEW r \in Request, NEW u \in User, Login(r, u)
    PROVE  SessionInv'
<1>1. TypeOK'
  BY DEF Login, Start, Goto
<1>2. RequestShape'
  BY DEF RequestShape, Login, Start, Goto
<1>3. FamilyShape'
  BY DEF RequestShape, FamilyShape, RotationShape, Login, Start, Goto
<1>4. RotationShape'
  BY DEF RequestShape, FamilyShape, RotationShape, Login, Start, Goto
<1>5. CopyIsPast'
  BY DEF CopyIsPast, RequestShape, Login, Start, Goto
<1>6. TargetShape'
  BY DEF RequestShape, FamilyShape, TargetShape, Login, Start, Goto
<1>7. CoveredShape'
  BY DEF RequestShape, CopyIsPast, TargetShape, CoveredShape, Login, Start, Goto
<1>8. OneLiveToken'
  BY DEF RequestShape, FamilyShape, RotationShape, OneLiveToken, Login, Start,
         Goto
<1>9. RotatedOnce'
  BY DEF RequestShape, RotationShape, RotatedOnce, Login, Start, Goto
<1>. QED BY <1>1, <1>2, <1>3, <1>4, <1>5, <1>6, <1>7, <1>8, <1>9

\* The families picked for eviction are sessions of the same user.
LEMMA CapStep ==
    ASSUME SessionInv, NEW r \in Request, EnforceSessionCap(r)
    PROVE  SessionInv'
<1>a. \A f \in ActiveFamilies(user[r]) :
         f \in Request /\ op[f] = "login" /\ user[f] = user[r]
  BY RowFamily, ViewedRow DEF ActiveFamilies, ActiveRows
<1>b. pc[r] = "cap" /\ todo[r] = {}
  BY DEF EnforceSessionCap, TargetShape
<1>c. \/ targets' = targets
      \/ \E oldest \in SUBSET ActiveFamilies(user[r]) :
            targets' = [targets EXCEPT ![r] = oldest]
  BY DEF EnforceSessionCap, GotoRevoke
<1>d. \A s \in Request : s # r => targets'[s] = targets[s]
  BY <1>c
<1>e. targets'[r] = targets[r] \/ targets'[r] \subseteq ActiveFamilies(user[r])
  BY <1>c
<1>f. targets' \in [Request -> SUBSET (Request \cup {All})]
  BY <1>a, <1>c
<1>1. TypeOK'
  BY <1>f DEF EnforceSessionCap, GotoRevoke, Goto
<1>2. RequestShape'
  BY DEF RequestShape, EnforceSessionCap, GotoRevoke, Goto
<1>3. FamilyShape'
  BY DEF RequestShape, FamilyShape, RotationShape, EnforceSessionCap, GotoRevoke,
         Goto
<1>4. RotationShape'
  BY DEF RequestShape, FamilyShape, RotationShape, EnforceSessionCap, GotoRevoke,
         Goto
<1>5. CopyIsPast'
  BY DEF CopyIsPast, RequestShape, EnforceSessionCap, GotoRevoke, Goto
<1>6. TargetShape'
  BY <1>a, <1>b, <1>d, <1>e DEF RequestShape, FamilyShape, TargetShape,
         EnforceSessionCap, GotoRevoke, Goto
<1>7. CoveredShape'
  BY DEF RequestShape, CopyIsPast, TargetShape, CoveredShape, EnforceSessionCap,
         GotoRevoke, Goto
<1>8. OneLiveToken'
  BY DEF RequestShape, FamilyShape, RotationShape, OneLiveToken,
         EnforceSessionCap, GotoRevoke, Goto
<1>9. RotatedOnce'
  BY DEF RequestShape, RotationShape, RotatedOnce, EnforceSessionCap, GotoRevoke,
         Goto
<1>. QED BY <1>1, <1>2, <1>3, <1>4, <1>5, <1>6, <1>7, <1>8, <1>9

\* The pair gets its lifetimes.
LEMMA MintStep ==
    ASSUME SessionInv, NEW r \in Request, Mint(r)
    PROVE  SessionInv'
<1>1. TypeOK'
  BY DEF Mint, Goto
<1>2. RequestShape'
  BY DEF RequestShape, Mint, Goto
<1>3. FamilyShape'
  BY DEF RequestShape, FamilyShape, RotationShape, Mint, Goto
<1>4. RotationShape'
  BY DEF RequestShape, FamilyShape, RotationShape, Mint, Goto
<1>5. CopyIsPast'
  BY DEF CopyIsPast, RequestShape, Mint, Goto
<1>6. TargetShape'
  BY DEF RequestShape, FamilyShape, TargetShape, Mint, Goto
<1>7. CoveredShape'
  BY DEF RequestShape, CopyIsPast, TargetShape, CoveredShape, Mint, Goto
<1>8. OneLiveToken'
  BY DEF RequestShape, FamilyShape, RotationShape, OneLiveToken, Mint, Goto
<1>9. RotatedOnce'
  BY DEF RequestShape, RotationShape, RotatedOnce, Mint, Goto
<1>. QED BY <1>1, <1>2, <1>3, <1>4, <1>5, <1>6, <1>7, <1>8, <1>9

\* The row of a pair is saved as the live token of its family.
LEMMA SaveStep ==
    ASSUME SessionInv, NEW r \in Request, Save(r)
    PROVE  SessionInv'
<1>1. TypeOK'
  BY DEF Save, Goto
<1>2. RequestShape'
  BY DEF RequestShape, Save, Goto
<1>3. FamilyShape'
  BY DEF RequestShape, FamilyShape, RotationShape, Save, Goto
<1>4. RotationShape'
  BY DEF RequestShape, FamilyShape, RotationShape, Save, Goto
<1>5. CopyIsPast'
  BY DEF CopyIsPast, RequestShape, Save, Goto
<1>6. TargetShape'
  BY DEF RequestShape, FamilyShape, TargetShape, Save, Goto
<1>7. CoveredShape'
  BY DEF RequestShape, CopyIsPast, TargetShape, CoveredShape, Save, Goto
<1>8. OneLiveToken'
  BY DEF RequestShape, FamilyShape, RotationShape, OneLiveToken, Save, Goto
<1>9. RotatedOnce'
  BY DEF RequestShape, RotationShape, RotatedOnce, Save, Goto
<1>. QED BY <1>1, <1>2, <1>3, <1>4, <1>5, <1>6, <1>7, <1>8, <1>9

\* A refresh joins the family of the token it is given.
LEMMA RefreshStep ==
    ASSUME SessionInv, NEW r \in Request, NEW t \in Request, Refresh(r, t)
    PROVE  SessionInv'
<1>1. TypeOK'
  BY RowFamily, ViewedRow DEF Refresh, Start, GotoRevoke, Goto
<1>2. RequestShape'
  BY ViewedRow DEF RequestShape, Refresh, Start, GotoRevoke, Goto, View
<1>3. FamilyShape'
  BY DEF RequestShape, FamilyShape, RotationShape, Refresh, Start, GotoRevoke,
         Goto, View
<1>4. RotationShape'
  BY RowFamily, ViewedRow DEF RequestShape, FamilyShape, RotationShape, Refresh,
         Start, GotoRevoke, Goto
<1>5. CopyIsPast'
  BY DEF CopyIsPast, RequestShape, Refresh, Start, GotoRevoke, Goto
<1>6. TargetShape'
  BY RowFamily, ViewedRow DEF RequestShape, FamilyShape, TargetShape, Refresh,
         Start, GotoRevoke, Goto
<1>7. CoveredShape'
  BY DEF RequestShape, CopyIsPast, TargetShape, CoveredShape, Refresh, Start,
         GotoRevoke, Goto, View
<1>8. OneLiveToken'
  BY DEF RequestShape, FamilyShape, RotationShape, OneLiveToken, Refresh, Start,
         GotoRevoke, Goto, View
<1>9. RotatedOnce'
  BY DEF RequestShape, RotationShape, RotatedOnce, Refresh, Start, GotoRevoke,
         Goto, View
<1>. QED BY <1>1, <1>2, <1>3, <1>4, <1>5, <1>6, <1>7, <1>8, <1>9

\* The statement that wins a rotation ends the old token's life as it starts the
\* new one's, so the family never has two.
LEMMA RotateStep ==
    ASSUME SessionInv, NEW r \in Request, Rotate(r)
    PROVE  SessionInv'
<1>a. /\ family[r] \in Request
      /\ op[family[r]] = "login"
      /\ user[family[r]] = user[r]
  BY DEF Rotate, RequestShape, FamilyShape, RotationShape
<1>b. pc[r] = "rotate" /\ todo[r] = {}
  BY DEF Rotate, TargetShape
<1>c. /\ targets' = targets \/ targets' = [targets EXCEPT ![r] = {family[r]}]
      /\ pc' \in [Request -> {"idle", "cap", "rotate", "jtis", "deny", "mint", "save",
                              "done", "rejected", "failed"}]
      /\ row' = row \/ row' = [row EXCEPT ![presented[r]] = "revoked"]
      /\ UNCHANGED <<now, copy, mintedAt, denied, locals, target, todo, covered, clean, faults>>
  BY DEF Rotate, GotoRevoke, Goto
<1>d. targets' \in [Request -> SUBSET (Request \cup {All})]
  BY <1>a, <1>c
<1>e. \A s \in Request : s # r => targets'[s] = targets[s] /\ pc'[s] = pc[s]
  BY DEF Rotate, GotoRevoke, Goto
<1>f. targets'[r] = targets[r] \/ targets'[r] = {family[r]}
  BY <1>c
<1>g. pc'[r] # "deny"
  BY DEF Rotate, GotoRevoke, Goto
<1>1. TypeOK'
  BY <1>c, <1>d
<1>2. RequestShape'
  BY DEF RequestShape, Rotate, GotoRevoke, Goto
<1>3. FamilyShape'
  BY DEF RequestShape, FamilyShape, RotationShape, Rotate, GotoRevoke, Goto
<1>4. RotationShape'
  BY DEF RequestShape, FamilyShape, RotationShape, Rotate, GotoRevoke, Goto
<1>5. CopyIsPast'
  BY DEF CopyIsPast, RequestShape, Rotate, GotoRevoke, Goto
<1>6. TargetShape'
  BY <1>a, <1>b, <1>c, <1>e, <1>f, <1>g DEF TargetShape
<1>7. CoveredShape'
  BY DEF RequestShape, CopyIsPast, TargetShape, CoveredShape, Rotate, GotoRevoke,
         Goto
<1>8. OneLiveToken'
  BY DEF RequestShape, FamilyShape, RotationShape, OneLiveToken, Rotate,
         GotoRevoke, Goto
<1>9. RotatedOnce'
  BY DEF RequestShape, RotationShape, RotatedOnce, Rotate, GotoRevoke, Goto
<1>. QED BY <1>1, <1>2, <1>3, <1>4, <1>5, <1>6, <1>7, <1>8, <1>9

\* Logout targets the family of a token that its caller owns.
LEMMA LogoutStep ==
    ASSUME SessionInv, NEW r \in Request, NEW u \in User, NEW t \in Request, Logout(r, u, t)
    PROVE  SessionInv'
<1>1. TypeOK'
  BY RowFamily, ViewedRow DEF Logout, Start, GotoRevoke, Goto
<1>2. RequestShape'
  BY DEF RequestShape, Logout, Start, GotoRevoke, Goto
<1>3. FamilyShape'
  BY DEF RequestShape, FamilyShape, RotationShape, Logout, Start, GotoRevoke, Goto
<1>4. RotationShape'
  BY DEF RequestShape, FamilyShape, RotationShape, Logout, Start, GotoRevoke, Goto
<1>5. CopyIsPast'
  BY DEF CopyIsPast, RequestShape, Logout, Start, GotoRevoke, Goto
<1>6. TargetShape'
  BY RowFamily, ViewedRow DEF RequestShape, FamilyShape, TargetShape, Logout,
         Start, GotoRevoke, Goto
<1>7. CoveredShape'
  BY DEF RequestShape, CopyIsPast, TargetShape, CoveredShape, Logout, Start,
         GotoRevoke, Goto
<1>8. OneLiveToken'
  BY DEF RequestShape, FamilyShape, RotationShape, OneLiveToken, Logout, Start,
         GotoRevoke, Goto
<1>9. RotatedOnce'
  BY DEF RequestShape, RotationShape, RotatedOnce, Logout, Start, GotoRevoke, Goto
<1>. QED BY <1>1, <1>2, <1>3, <1>4, <1>5, <1>6, <1>7, <1>8, <1>9

\* SessionRevoke targets a family listed for its caller.
LEMMA SessionRevokeStep ==
    ASSUME SessionInv, NEW r \in Request, NEW u \in User, NEW f \in Request, SessionRevoke(r, u, f)
    PROVE  SessionInv'
<1>a. /\ targets' = targets \/ targets' = [targets EXCEPT ![r] = {f}]
      /\ pc' \in [Request -> {"idle", "cap", "rotate", "jtis", "deny", "mint", "save",
                              "done", "rejected", "failed"}]
  BY DEF SessionRevoke, GotoRevoke, Goto
<1>b. targets' \in [Request -> SUBSET (Request \cup {All})]
  BY <1>a
<1>c. UNCHANGED <<target, todo, covered, clean>>
  BY DEF SessionRevoke, GotoRevoke
<1>1. TypeOK'
  BY <1>a, <1>b, <1>c DEF SessionRevoke, Start
<1>2. RequestShape'
  BY DEF RequestShape, SessionRevoke, Start, GotoRevoke, Goto
<1>3. FamilyShape'
  BY DEF RequestShape, FamilyShape, RotationShape, SessionRevoke, Start,
         GotoRevoke, Goto
<1>4. RotationShape'
  BY DEF RequestShape, FamilyShape, RotationShape, SessionRevoke, Start,
         GotoRevoke, Goto
<1>5. CopyIsPast'
  BY DEF CopyIsPast, RequestShape, SessionRevoke, Start, GotoRevoke, Goto
<1>6. TargetShape'
  BY RowFamily, ViewedRow DEF RequestShape, FamilyShape, TargetShape,
         SessionRevoke, Start, GotoRevoke, Goto, ActiveFamilies, ActiveRows
<1>7. CoveredShape'
  BY DEF RequestShape, CopyIsPast, TargetShape, CoveredShape, SessionRevoke,
         Start, GotoRevoke, Goto
<1>8. OneLiveToken'
  BY DEF RequestShape, FamilyShape, RotationShape, OneLiveToken, SessionRevoke,
         Start, GotoRevoke, Goto
<1>9. RotatedOnce'
  BY DEF RequestShape, RotationShape, RotatedOnce, SessionRevoke, Start,
         GotoRevoke, Goto
<1>. QED BY <1>1, <1>2, <1>3, <1>4, <1>5, <1>6, <1>7, <1>8, <1>9

\* A password change targets everything its user owns.
LEMMA ChangePasswordStep ==
    ASSUME SessionInv, NEW r \in Request, NEW u \in User, ChangePassword(r, u)
    PROVE  SessionInv'
<1>1. TypeOK'
  BY DEF ChangePassword, Start, GotoRevoke, Goto
<1>2. RequestShape'
  BY DEF RequestShape, ChangePassword, Start, GotoRevoke, Goto
<1>3. FamilyShape'
  BY DEF RequestShape, FamilyShape, RotationShape, ChangePassword, Start,
         GotoRevoke, Goto
<1>4. RotationShape'
  BY DEF RequestShape, FamilyShape, RotationShape, ChangePassword, Start,
         GotoRevoke, Goto
<1>5. CopyIsPast'
  BY DEF CopyIsPast, RequestShape, ChangePassword, Start, GotoRevoke, Goto
<1>6. TargetShape'
  BY DEF RequestShape, FamilyShape, TargetShape, ChangePassword, Start,
         GotoRevoke, Goto
<1>7. CoveredShape'
  BY DEF RequestShape, CopyIsPast, TargetShape, CoveredShape, ChangePassword,
         Start, GotoRevoke, Goto
<1>8. OneLiveToken'
  BY DEF RequestShape, FamilyShape, RotationShape, OneLiveToken, ChangePassword,
         Start, GotoRevoke, Goto
<1>9. RotatedOnce'
  BY DEF RequestShape, RotationShape, RotatedOnce, ChangePassword, Start,
         GotoRevoke, Goto
<1>. QED BY <1>1, <1>2, <1>3, <1>4, <1>5, <1>6, <1>7, <1>8, <1>9

\* The ids read belong to rows the request is about to revoke.
LEMMA ReadJtisStep ==
    ASSUME SessionInv, NEW r \in Request, NEW f \in Request \cup {All}, ReadJtis(r, f)
    PROVE  SessionInv'
<1>a. /\ targets' = [targets EXCEPT ![r] = @ \ {f}]
      /\ target' = [target EXCEPT ![r] = f]
      /\ pc' = [pc EXCEPT ![r] = "deny"]
      /\ UNCHANGED <<now, database, denied, locals>>
  BY DEF ReadJtis, Goto
<1>b. /\ todo' \in [Request -> SUBSET Request]
      /\ covered' \in [Request -> SUBSET Request]
      /\ clean' \in [Request -> BOOLEAN]
      /\ faults' \in Nat
  <2>1. CASE UNCHANGED <<clean, faults>>
    BY <2>1 DEF ReadJtis
  <2>2. CASE /\ faults' = faults + 1
             /\ clean' = [clean EXCEPT ![r] = FALSE]
             /\ UNCHANGED <<todo, covered>>
    BY <2>2
  <2>. QED BY <2>1, <2>2 DEF ReadJtis
<1>1. TypeOK'
  BY <1>a, <1>b
<1>2. RequestShape'
  BY DEF RequestShape, ReadJtis, Goto, View
<1>3. FamilyShape'
  BY DEF RequestShape, FamilyShape, RotationShape, ReadJtis, Goto, View
<1>4. RotationShape'
  BY DEF RequestShape, FamilyShape, RotationShape, ReadJtis, Goto, View
<1>5. CopyIsPast'
  BY DEF CopyIsPast, RequestShape, ReadJtis, Goto, View
<1>6. TargetShape'
  BY DEF RequestShape, FamilyShape, TargetShape, ReadJtis, Goto, View
<1>7. CoveredShape'
  BY DEF RequestShape, CopyIsPast, TargetShape, CoveredShape, ReadJtis, Goto, View
<1>8. OneLiveToken'
  BY DEF RequestShape, FamilyShape, RotationShape, OneLiveToken, ReadJtis, Goto,
         View
<1>9. RotatedOnce'
  BY DEF RequestShape, RotationShape, RotatedOnce, ReadJtis, Goto, View
<1>. QED BY <1>1, <1>2, <1>3, <1>4, <1>5, <1>6, <1>7, <1>8, <1>9

\* A denied access token stays denied for a whole token life.
LEMMA DenyStep ==
    ASSUME SessionInv, NEW r \in Request, NEW t \in Request, Deny(r, t)
    PROVE  SessionInv'
<1>a. denied' \in [Request -> Nat \cup {NoEntry}]
  <2>1. now + AccessTTL \in Nat
    OBVIOUS
  <2>2. denied' = denied \/ denied' = [denied EXCEPT ![t] = now + AccessTTL]
    BY DEF Deny
  <2>. QED BY <2>1, <2>2
<1>b. faults' \in Nat /\ clean' \in [Request -> BOOLEAN]
  <2>1. \/ UNCHANGED <<clean, faults>>
        \/ faults' = faults + 1 /\ clean' = [clean EXCEPT ![r] = FALSE]
    BY DEF Deny
  <2>2. faults' \in Nat
    BY <2>1
  <2>3. clean' \in [Request -> BOOLEAN]
    BY <2>1
  <2>. QED BY <2>2, <2>3
<1>c. todo' \in [Request -> SUBSET Request]
  BY DEF Deny
<1>1. TypeOK'
  BY <1>a, <1>b, <1>c DEF Deny
<1>2. RequestShape'
  BY DEF RequestShape, Deny
<1>3. FamilyShape'
  BY DEF RequestShape, FamilyShape, RotationShape, Deny
<1>4. RotationShape'
  BY DEF RequestShape, FamilyShape, RotationShape, Deny
<1>5. CopyIsPast'
  BY DEF CopyIsPast, RequestShape, Deny
<1>6. TargetShape'
  BY DEF RequestShape, FamilyShape, TargetShape, Deny
<1>7. CoveredShape'
  BY DEF RequestShape, CopyIsPast, TargetShape, CoveredShape, Deny
<1>8. OneLiveToken'
  BY DEF RequestShape, FamilyShape, RotationShape, OneLiveToken, Deny
<1>9. RotatedOnce'
  BY DEF RequestShape, RotationShape, RotatedOnce, Deny
<1>. QED BY <1>1, <1>2, <1>3, <1>4, <1>5, <1>6, <1>7, <1>8, <1>9

\* After the UPDATE no row of the target is live, save one still to be inserted.
LEMMA RevokeRowsStep ==
    ASSUME SessionInv, NEW r \in Request, RevokeRows(r)
    PROVE  SessionInv'
<1>1. TypeOK'
  BY DEF RevokeRows, AfterRevoke, Goto
<1>2. RequestShape'
  BY DEF RequestShape, RevokeRows, AfterRevoke, Goto
<1>3. FamilyShape'
  BY DEF RequestShape, FamilyShape, RotationShape, RevokeRows, AfterRevoke, Goto
<1>4. RotationShape'
  BY DEF RequestShape, FamilyShape, RotationShape, RevokeRows, AfterRevoke, Goto
<1>5. CopyIsPast'
  BY DEF CopyIsPast, RequestShape, RevokeRows, AfterRevoke, Goto
<1>6. TargetShape'
  BY DEF RequestShape, FamilyShape, TargetShape, RevokeRows, AfterRevoke, Goto
<1>7. CoveredShape'
  BY DEF RequestShape, CopyIsPast, TargetShape, CoveredShape, RevokeRows,
         AfterRevoke, Goto
<1>8. OneLiveToken'
  BY DEF RequestShape, FamilyShape, RotationShape, OneLiveToken, RevokeRows,
         AfterRevoke, Goto
<1>9. RotatedOnce'
  BY DEF RequestShape, RotationShape, RotatedOnce, RevokeRows, AfterRevoke, Goto
<1>. QED BY <1>1, <1>2, <1>3, <1>4, <1>5, <1>6, <1>7, <1>8, <1>9

\* A failed request leaves its rows as they are.
LEMMA FailStep ==
    ASSUME SessionInv, NEW r \in Request, Fail(r)
    PROVE  SessionInv'
<1>1. TypeOK'
  BY DEF Fail, Goto
<1>2. RequestShape'
  BY DEF RequestShape, Fail, Goto
<1>3. FamilyShape'
  BY DEF RequestShape, FamilyShape, RotationShape, Fail, Goto
<1>4. RotationShape'
  BY DEF RequestShape, FamilyShape, RotationShape, Fail, Goto
<1>5. CopyIsPast'
  BY DEF CopyIsPast, RequestShape, Fail, Goto
<1>6. TargetShape'
  BY DEF RequestShape, FamilyShape, TargetShape, Fail, Goto
<1>7. CoveredShape'
  BY DEF RequestShape, CopyIsPast, TargetShape, CoveredShape, Fail, Goto
<1>8. OneLiveToken'
  BY DEF RequestShape, FamilyShape, RotationShape, OneLiveToken, Fail, Goto
<1>9. RotatedOnce'
  BY DEF RequestShape, RotationShape, RotatedOnce, Fail, Goto
<1>. QED BY <1>1, <1>2, <1>3, <1>4, <1>5, <1>6, <1>7, <1>8, <1>9

\* The replica takes over the primary's rows.
LEMMA ReplicateStep ==
    ASSUME SessionInv, Replicate
    PROVE  SessionInv'
<1>1. TypeOK'
  BY DEF Replicate
<1>2. RequestShape'
  BY DEF RequestShape, Replicate
<1>3. FamilyShape'
  BY DEF RequestShape, FamilyShape, RotationShape, Replicate
<1>4. RotationShape'
  BY DEF RequestShape, FamilyShape, RotationShape, Replicate
<1>5. CopyIsPast'
  BY DEF CopyIsPast, RequestShape, Replicate
<1>6. TargetShape'
  BY DEF RequestShape, FamilyShape, TargetShape, Replicate
<1>7. CoveredShape'
  BY DEF RequestShape, CopyIsPast, TargetShape, CoveredShape, Replicate
<1>8. OneLiveToken'
  BY DEF RequestShape, FamilyShape, RotationShape, OneLiveToken, Replicate
<1>9. RotatedOnce'
  BY DEF RequestShape, RotationShape, RotatedOnce, Replicate
<1>. QED BY <1>1, <1>2, <1>3, <1>4, <1>5, <1>6, <1>7, <1>8, <1>9

\* Time passes.
LEMMA TickStep ==
    ASSUME SessionInv, Tick
    PROVE  SessionInv'
<1>1. TypeOK'
  BY DEF Tick
<1>2. RequestShape'
  BY DEF RequestShape, Tick
<1>3. FamilyShape'
  BY DEF RequestShape, FamilyShape, RotationShape, Tick
<1>4. RotationShape'
  BY DEF RequestShape, FamilyShape, RotationShape, Tick
<1>5. CopyIsPast'
  BY DEF CopyIsPast, RequestShape, Tick
<1>6. TargetShape'
  BY DEF RequestShape, FamilyShape, TargetShape, Tick
<1>7. CoveredShape'
  BY DEF RequestShape, CopyIsPast, TargetShape, CoveredShape, Tick
<1>8. OneLiveToken'
  BY DEF RequestShape, FamilyShape, RotationShape, OneLiveToken, Tick
<1>9. RotatedOnce'
  BY DEF RequestShape, RotationShape, RotatedOnce, Tick
<1>. QED BY <1>1, <1>2, <1>3, <1>4, <1>5, <1>6, <1>7, <1>8, <1>9

\* Nothing happens.
LEMMA StutterStep ==
    ASSUME SessionInv, UNCHANGED vars
    PROVE  SessionInv'
<1>1. TypeOK'
  BY DEF vars
<1>2. RequestShape'
  BY DEF RequestShape, vars
<1>3. FamilyShape'
  BY DEF RequestShape, FamilyShape, RotationShape, vars
<1>4. RotationShape'
  BY DEF RequestShape, FamilyShape, RotationShape, vars
<1>5. CopyIsPast'
  BY DEF CopyIsPast, RequestShape, vars
<1>6. TargetShape'
  BY DEF RequestShape, FamilyShape, TargetShape, vars
<1>7. CoveredShape'
  BY DEF RequestShape, CopyIsPast, TargetShape, CoveredShape, vars
<1>8. OneLiveToken'
  BY DEF RequestShape, FamilyShape, RotationShape, OneLiveToken, vars
<1>9. RotatedOnce'
  BY DEF RequestShape, RotationShape, RotatedOnce, vars
<1>. QED BY <1>1, <1>2, <1>3, <1>4, <1>5, <1>6, <1>7, <1>8, <1>9

\* Every step preserves the invariant.
LEMMA NextStep == SessionInv /\ [Next]_vars => SessionInv'
<1>1. ASSUME SessionInv, NEW r \in Request, Begin(r) PROVE SessionInv'
  BY <1>1, LoginStep, ChangePasswordStep, RefreshStep, LogoutStep, SessionRevokeStep DEF Begin
<1>2. ASSUME SessionInv, NEW r \in Request, Continue(r) PROVE SessionInv'
  BY <1>2, CapStep, MintStep, SaveStep, RotateStep, ReadJtisStep, DenyStep, RevokeRowsStep,
     FailStep DEF Continue
<1>. QED
  BY <1>1, <1>2, ReplicateStep, TickStep, StutterStep DEF Next

\* The invariant holds in every reachable state.
THEOREM InvariantHolds == Spec => []SessionInv
BY InitInvariant, NextStep, PTL DEF Spec

\* Every column and every local variable keeps its type.
THEOREM TypeCorrect == Spec => []TypeOK
<1>1. SessionInv => TypeOK
  OBVIOUS
<1>. QED BY <1>1, InvariantHolds, PTL

\* No refresh token is exchanged for two pairs, with or without a replica.
THEOREM TokensRotateOnce == Spec => []RotatedOnce
<1>1. SessionInv => RotatedOnce
  OBVIOUS
<1>. QED BY <1>1, InvariantHolds, PTL

\* No session ever has two live refresh tokens.
THEOREM OneTokenPerSession == Spec => []OneLiveToken
<1>1. SessionInv => OneLiveToken
  OBVIOUS
<1>. QED BY <1>1, InvariantHolds, PTL

\* What a request has denied and revoked is never accepted again.
THEOREM DenialHolds == Spec => []SignedOutTokensRejected
<1>1. SessionInv => SignedOutTokensRejected
  BY DEF SignedOutTokensRejected, Accepted, RequestShape, TargetShape, CoveredShape
<1>. QED BY <1>1, InvariantHolds, PTL

\* A step that makes a family live finds it live, or without a row.
LEMMA EndedStep ==
    ASSUME SessionInv, [Next]_vars, NEW f \in Request, Ended(f)
    PROVE  Ended(f)'
<1> USE DEF Ended, Started, RequestShape, FamilyShape, RotationShape
<1>1. ASSUME NEW r \in Request, Begin(r) PROVE Ended(f)'
  <2>1. CASE \E u \in User : Login(r, u)
    BY <2>1 DEF Login, Start, Goto
  <2>2. CASE \E u \in User : ChangePassword(r, u)
    BY <2>2 DEF ChangePassword, Start, GotoRevoke, Goto
  <2>3. CASE \E t \in Request : Refresh(r, t)
    BY <2>3 DEF Refresh, Start, GotoRevoke, Goto
  <2>4. CASE \E u \in User, t \in Request : Logout(r, u, t)
    BY <2>4 DEF Logout, Start, GotoRevoke, Goto
  <2>5. CASE \E u \in User, g \in Request : SessionRevoke(r, u, g)
    BY <2>5 DEF SessionRevoke, Start, GotoRevoke, Goto
  <2>. QED BY <1>1, <2>1, <2>2, <2>3, <2>4, <2>5 DEF Begin
<1>2. ASSUME NEW r \in Request, Continue(r) PROVE Ended(f)'
  <2>1. CASE EnforceSessionCap(r)
    BY <2>1 DEF EnforceSessionCap, GotoRevoke, Goto
  <2>2. CASE Mint(r) \/ Save(r)
    BY <2>2 DEF Mint, Save, Goto
  <2>3. CASE Rotate(r)
    BY <2>3 DEF Rotate, GotoRevoke, Goto
  <2>4. CASE \E g \in Request \cup {All} : ReadJtis(r, g)
    BY <2>4 DEF ReadJtis, Goto
  <2>5. CASE \E t \in Request : Deny(r, t)
    BY <2>5 DEF Deny
  <2>6. CASE RevokeRows(r)
    BY <2>6 DEF RevokeRows, AfterRevoke, Goto
  <2>7. CASE Fail(r)
    BY <2>7 DEF Fail, Goto
  <2>. QED BY <1>2, <2>1, <2>2, <2>3, <2>4, <2>5, <2>6, <2>7 DEF Continue
<1>3. CASE Replicate
  BY <1>3 DEF Replicate
<1>4. CASE Tick
  BY <1>4 DEF Tick
<1>5. CASE UNCHANGED vars
  BY <1>5 DEF vars
<1>. QED BY <1>1, <1>2, <1>3, <1>4, <1>5 DEF Next

\* A session that is over stays over: revocation loses to a rotation in flight,
\* never to one that comes later.
THEOREM EndedForGood == Spec => EndedStaysEnded
<1>1. SessionInv /\ [Next]_vars => \A f \in Request : Ended(f) => Ended(f)'
  BY EndedStep
<1>. QED BY <1>1, InvariantHolds, PTL DEF Spec, EndedStaysEnded

\* Only Rotate and RevokeRows revoke, and both stay within their user's rows.
LEMMA OwnStep ==
    ASSUME SessionInv, Next, NEW t \in Request, row[t] = "active", row'[t] = "revoked"
    PROVE  \E r \in Request : pc'[r] # pc[r] /\ user[r] = user[t]
<1>1. ASSUME NEW r \in Request, Rotate(r) PROVE pc'[r] # pc[r] /\ user[r] = user[t]
  BY <1>1 DEF Rotate, Goto, GotoRevoke, RequestShape, RotationShape
<1>2. ASSUME NEW r \in Request, RevokeRows(r) PROVE pc'[r] # pc[r] /\ user[r] = user[t]
  <2>1. pc'[r] # pc[r]
    BY <1>2 DEF RevokeRows, AfterRevoke, Goto
  <2>2. pc[r] = "deny" /\ Matches(r, target[r], t)
    BY <1>2 DEF RevokeRows
  <2>3. target[r] # All => user[t] = user[target[r]] /\ user[target[r]] = user[r]
    BY <2>2, RowFamily DEF TargetShape
  <2>. QED BY <2>1, <2>2, <2>3
<1>3. ASSUME NEW r \in Request, Begin(r) PROVE FALSE
  BY <1>3 DEF Begin, Login, ChangePassword, Refresh, Logout, SessionRevoke
<1>4. ASSUME NEW r \in Request, Save(r) PROVE FALSE
  BY <1>4 DEF Save
<1>5. ASSUME NEW r \in Request, Continue(r) PROVE Rotate(r) \/ RevokeRows(r)
  BY <1>4, <1>5 DEF Continue, EnforceSessionCap, Mint, ReadJtis, Deny, Fail
<1>6. ~Replicate /\ ~Tick
  BY DEF Replicate, Tick
<1>. QED BY <1>1, <1>2, <1>3, <1>5, <1>6 DEF Next

\* No request ends another user's session.
THEOREM OthersAreLeftAlone == Spec => OwnSessionsOnly
<1> DEFINE A == \A t \in Request : row[t] = "active" /\ row'[t] = "revoked" =>
                  \E r \in Request : pc'[r] # pc[r] /\ user[r] = user[t]
<1>1. SessionInv /\ [Next]_vars => [A]_vars
  BY OwnStep
<1>. QED BY <1>1, InvariantHolds, PTL DEF Spec, OwnSessionsOnly

-----------------------------------------------------------------------------
(* Requests that do not overlap, as when MaxInFlight is 1. *)
Alone == \A r, s \in Request : InFlight(r) /\ InFlight(s) => r = s

\* What a password change or a reused token ends.
Scope(r) == IF op[r] = "password" THEN All ELSE family[r]

\* It is read once, and then revoked.
OneScope ==
    \A r \in Request : op[r] \in {"password", "refresh"} =>
        /\ targets[r] \subseteq {Scope(r)}
        /\ \A t \in covered[r] : Matches(r, Scope(r), t)
        /\ pc[r] \in {"rotate", "mint", "save", "jtis"} => covered[r] = {}
        /\ pc[r] = "deny" => target[r] = Scope(r) /\ targets[r] = {}

\* The request is through with it.
Through(r) ==
    (op[r] = "password" /\ pc[r] = "done") \/ (op[r] = "refresh" /\ pc[r] = "rejected")

EndedThrough == \A r \in Request : Through(r) => \A s \in covered[r] : Ended(family[s])

SerialInv == Alone /\ OneScope /\ EndedThrough

\* A step of a request leaves the others alone; once begun it stays what it is.
LEMMA OneMoves ==
    ASSUME SessionInv, NEW r \in Request, Begin(r) \/ Continue(r)
    PROVE  /\ \A s \in Request \ {r} :
                 /\ pc'[s] = pc[s] /\ op'[s] = op[s] /\ user'[s] = user[s]
                 /\ family'[s] = family[s] /\ targets'[s] = targets[s]
                 /\ target'[s] = target[s] /\ covered'[s] = covered[s]
           /\ pc[r] # "idle" =>
                 /\ op'[r] = op[r] /\ user'[r] = user[r] /\ family'[r] = family[r]
                 /\ Continue(r) /\ InFlight(r)
           /\ pc[r] = "idle" =>
                 /\ Begin(r) /\ Cardinality({s \in Request : InFlight(s)}) < MaxInFlight
                 /\ row' = row /\ covered' = covered
<1>1. ASSUME Begin(r)
      PROVE  /\ pc[r] = "idle" /\ Cardinality({s \in Request : InFlight(s)}) < MaxInFlight
             /\ row' = row /\ covered' = covered
             /\ \A s \in Request \ {r} :
                   /\ pc'[s] = pc[s] /\ op'[s] = op[s] /\ user'[s] = user[s]
                   /\ family'[s] = family[s] /\ targets'[s] = targets[s]
                   /\ target'[s] = target[s] /\ covered'[s] = covered[s]
  <2>1. CASE \E u \in User : Login(r, u)
    BY <2>1 DEF Login, Start, Goto
  <2>2. CASE \E u \in User : ChangePassword(r, u)
    BY <2>2 DEF ChangePassword, Start, GotoRevoke, Goto
  <2>3. CASE \E t \in Request : Refresh(r, t)
    BY <2>3 DEF Refresh, Start, GotoRevoke, Goto
  <2>4. CASE \E u \in User, t \in Request : Logout(r, u, t)
    BY <2>4 DEF Logout, Start, GotoRevoke, Goto
  <2>5. CASE \E u \in User, g \in Request : SessionRevoke(r, u, g)
    BY <2>5 DEF SessionRevoke, Start, GotoRevoke, Goto
  <2>. QED BY <1>1, <2>1, <2>2, <2>3, <2>4, <2>5 DEF Begin
<1>2. ASSUME Continue(r)
      PROVE  /\ InFlight(r) /\ op' = op /\ user' = user /\ family' = family
             /\ \A s \in Request \ {r} :
                   /\ pc'[s] = pc[s] /\ targets'[s] = targets[s]
                   /\ target'[s] = target[s] /\ covered'[s] = covered[s]
  <2>1. CASE EnforceSessionCap(r)
    BY <2>1 DEF EnforceSessionCap, GotoRevoke, Goto
  <2>2. CASE Mint(r) \/ Save(r)
    BY <2>2 DEF Mint, Save, Goto
  <2>3. CASE Rotate(r)
    BY <2>3 DEF Rotate, GotoRevoke, Goto
  <2>4. CASE \E g \in Request \cup {All} : ReadJtis(r, g)
    BY <2>4 DEF ReadJtis, Goto
  <2>5. CASE \E t \in Request : Deny(r, t)
    BY <2>5 DEF Deny
  <2>6. CASE RevokeRows(r)
    BY <2>6 DEF RevokeRows, AfterRevoke, Goto
  <2>7. CASE Fail(r)
    BY <2>7 DEF Fail, Goto
  <2>. QED BY <1>2, <2>1, <2>2, <2>3, <2>4, <2>5, <2>6, <2>7 DEF Continue
<1>. QED BY <1>1, <1>2

LEMMA OthersKept ==
    ASSUME SessionInv, NEW r \in Request, Begin(r) \/ Continue(r), NEW s \in Request, s # r
    PROVE  /\ pc'[s] = pc[s] /\ op'[s] = op[s] /\ user'[s] = user[s]
           /\ family'[s] = family[s] /\ targets'[s] = targets[s]
           /\ target'[s] = target[s] /\ covered'[s] = covered[s]
BY OneMoves

LEMMA NobodyElse ==
    ASSUME MaxInFlight = 1, Cardinality({s \in Request : InFlight(s)}) < MaxInFlight, Alone
    PROVE  \A s \in Request : ~InFlight(s)
<1>. SUFFICES ASSUME NEW s \in Request, InFlight(s) PROVE FALSE
  OBVIOUS
<1>1. {t \in Request : InFlight(t)} = {s} BY DEF Alone
<1>2. Cardinality({s}) = 1 BY FS_Singleton
<1>. QED BY <1>1, <1>2

LEMMA AloneStep ==
    ASSUME SessionInv, MaxInFlight = 1, Alone, NEW r \in Request, Begin(r) \/ Continue(r)
    PROVE  Alone' /\ \A s \in Request : InFlight(s) => s = r
<1>1. ASSUME NEW s \in Request, InFlight(s) PROVE s = r
  <2>1. CASE pc[r] = "idle" BY <1>1, <2>1, OneMoves, NobodyElse
  <2>2. CASE pc[r] # "idle" BY <1>1, <2>2, OneMoves DEF Alone
  <2>. QED BY <2>1, <2>2
<1>2. ASSUME NEW s \in Request, InFlight(s)' PROVE s = r
  BY <1>1, <1>2, OthersKept
<1>. QED BY <1>1, <1>2 DEF Alone

LEMMA OneScopeStep ==
    ASSUME SessionInv, OneScope, NEW r \in Request, Begin(r) \/ Continue(r)
    PROVE  OneScope'
<1>1. \A t \in Request : row[t] # "absent" => pc[t] # "idle" BY DEF RequestShape
<1>2. \A s, t \in Request : t \in covered[s] => row[t] # "absent" BY DEF CoveredShape
<1>3. \A t \in Request : pc[t] # "idle" =>
         op'[t] = op[t] /\ user'[t] = user[t] /\ family'[t] = family[t]
  BY OneMoves
<1>4. ASSUME NEW s \in Request, s # r, op'[s] \in {"password", "refresh"}
      PROVE  /\ targets'[s] \subseteq {Scope(s)'}
             /\ \A t \in covered'[s] : Matches(s, Scope(s), t)'
             /\ pc'[s] \in {"rotate", "mint", "save", "jtis"} => covered'[s] = {}
             /\ pc'[s] = "deny" => target'[s] = Scope(s)' /\ targets'[s] = {}
  <2>1. /\ pc'[s] = pc[s] /\ op'[s] = op[s] /\ user'[s] = user[s] /\ family'[s] = family[s]
        /\ targets'[s] = targets[s] /\ target'[s] = target[s] /\ covered'[s] = covered[s]
    BY <1>4, OthersKept
  <2>2. Scope(s)' = Scope(s) BY <2>1 DEF Scope
  <2>3. \A t \in covered[s] : t \in Request /\ Matches(s, Scope(s), t)
    BY <1>4, <2>1 DEF OneScope
  <2>4. \A t \in covered[s] : user'[t] = user[t] /\ family'[t] = family[t]
    BY <1>1, <1>2, <1>3, <2>3
  <2>. QED BY <1>4, <2>1, <2>2, <2>3, <2>4 DEF OneScope
<1>5. ASSUME op'[r] \in {"password", "refresh"}
      PROVE  /\ targets'[r] \subseteq {Scope(r)'}
             /\ \A t \in covered'[r] : Matches(r, Scope(r), t)'
             /\ pc'[r] \in {"rotate", "mint", "save", "jtis"} => covered'[r] = {}
             /\ pc'[r] = "deny" => target'[r] = Scope(r)' /\ targets'[r] = {}
  <2>1. CASE Begin(r)
    <3>1. pc[r] = "idle" /\ covered[r] = {} /\ covered'[r] = {} /\ targets[r] = {}
      <4>1. pc[r] = "idle" BY <2>1 DEF Begin, Login, ChangePassword, Refresh, Logout, SessionRevoke, Start
      <4>. QED BY <4>1, OneMoves DEF RequestShape
    <3>2. CASE \E u \in User : ChangePassword(r, u)
      BY <1>5, <3>1, <3>2 DEF ChangePassword, Start, GotoRevoke, Goto, Scope
    <3>3. CASE \E t \in Request : Refresh(r, t)
      BY <1>5, <3>1, <3>3 DEF Refresh, Start, GotoRevoke, Goto, Scope
    <3>4. CASE \E u \in User : Login(r, u)
      BY <1>5, <3>4 DEF Login, Start
    <3>5. CASE \E u \in User, t \in Request : Logout(r, u, t)
      BY <1>5, <3>5 DEF Logout, Start
    <3>6. CASE \E u \in User, g \in Request : SessionRevoke(r, u, g)
      BY <1>5, <3>6 DEF SessionRevoke, Start
    <3>. QED BY <2>1, <3>2, <3>3, <3>4, <3>5, <3>6 DEF Begin
  <2>2. CASE Continue(r)
    <3>1. /\ op' = op /\ user' = user /\ family' = family /\ Scope(r)' = Scope(r)
      BY <2>2 DEF Continue, EnforceSessionCap, Mint, Save, Rotate, ReadJtis, Deny, RevokeRows, Fail, Scope
    <3>2. /\ targets[r] \subseteq {Scope(r)}
          /\ \A t \in covered[r] : Matches(r, Scope(r), t)
          /\ pc[r] \in {"rotate", "mint", "save", "jtis"} => covered[r] = {}
          /\ pc[r] = "deny" => target[r] = Scope(r) /\ targets[r] = {}
      BY <1>5, <3>1 DEF OneScope
    <3>3. ~EnforceSessionCap(r) BY <1>5, <3>1 DEF EnforceSessionCap, RequestShape
    <3>4. CASE Mint(r) \/ Save(r)
      BY <3>1, <3>2, <3>4 DEF Mint, Save, Goto
    <3>5. CASE Rotate(r)
      <4>1. op[r] = "refresh" /\ Scope(r) = family[r] BY <3>5 DEF Rotate, RequestShape, Scope
      <4>. QED BY <3>1, <3>2, <3>5, <4>1 DEF Rotate, GotoRevoke, Goto
    <3>6. CASE \E g \in Request \cup {All} : ReadJtis(r, g)
      BY <3>1, <3>2, <3>6 DEF ReadJtis, Goto
    <3>7. CASE \E t \in Request : Deny(r, t)
      BY <3>1, <3>2, <3>7 DEF Deny
    <3>8. CASE RevokeRows(r)
      <4>1. pc[r] = "deny" /\ targets[r] = {} BY <3>2, <3>8 DEF RevokeRows
      <4>2. /\ pc'[r] \in {"mint", "rejected", "done"}
            /\ pc'[r] = "mint" => op[r] = "login"
        BY <3>8, <4>1 DEF RevokeRows, AfterRevoke, Goto
      <4>3. targets' = targets /\ covered' = covered BY <3>8 DEF RevokeRows
      <4>. QED BY <1>5, <3>1, <3>2, <4>2, <4>3
    <3>9. CASE Fail(r)
      BY <3>1, <3>2, <3>9 DEF Fail, Goto
    <3>. QED BY <2>2, <3>3, <3>4, <3>5, <3>6, <3>7, <3>8, <3>9 DEF Continue
  <2>. QED BY <2>1, <2>2
<1>. QED BY <1>4, <1>5 DEF OneScope

\* Who revokes a scope alone leaves no live token in it.
LEMMA RevokedScope ==
    ASSUME SessionInv, OneScope, Alone, NEW r \in Request, RevokeRows(r),
           op[r] \in {"password", "refresh"}, NEW s \in covered[r]
    PROVE  Ended(family[s])'
<1>1. /\ pc[r] = "deny" /\ target[r] = Scope(r) /\ targets[r] = {} /\ Matches(r, Scope(r), s)
      /\ s \in Request
  BY DEF OneScope, RevokeRows
<1>2. row[s] # "absent" BY <1>1 DEF CoveredShape
<1>3. family' = family /\ user' = user
      /\ row' = [t \in Request |-> IF row[t] = "active" /\ Matches(r, target[r], t)
                                   THEN "revoked" ELSE row[t]]
  BY DEF RevokeRows
<1>4. pc'[r] \in {"rejected", "done"} BY <1>1 DEF RevokeRows, AfterRevoke, Goto
<1>5. \A t \in Request : t # r => pc'[t] = pc[t] BY DEF RevokeRows, Goto
<1>6. ASSUME NEW t \in Request, Live(t)', family[t] = family[s] PROVE FALSE
  <2>1. ~Issuing(t)'
    <3>1. CASE t = r BY <1>4, <3>1
    <3>2. CASE t # r BY <1>1, <1>5, <3>2 DEF Alone
    <3>. QED BY <3>1, <3>2
  <2>2. row[t] = "active" /\ ~Matches(r, target[r], t) BY <1>3, <1>6, <2>1
  <2>3. CASE op[r] = "password"
    <3>1. Scope(r) = All BY <2>3 DEF Scope
    <3>2. user[s] = user[r] BY <1>1, <3>1
    <3>3. user[t] = user[s] BY <1>1, <1>2, <1>6, <2>2, RowFamily
    <3>. QED BY <1>1, <2>2, <3>1, <3>2, <3>3
  <2>4. CASE op[r] = "refresh"
    <3>1. Scope(r) = family[r] /\ family[r] \in Request BY <2>4 DEF Scope, RotationShape
    <3>. QED BY <1>1, <1>6, <2>2, <3>1
  <2>. QED BY <2>3, <2>4
<1>7. row'[s] # "absent" /\ family'[s] = family[s] BY <1>1, <1>2, <1>3
<1>. QED BY <1>1, <1>3, <1>6, <1>7 DEF Ended, Started

LEMMA EndedThroughStep ==
    ASSUME SessionInv, SerialInv, NEW r \in Request, Begin(r) \/ Continue(r)
    PROVE  EndedThrough'
<1>1. [Next]_vars BY DEF Next
<1>2. \A q \in Request : \A s \in covered[q] :
         s \in Request /\ row[s] # "absent" /\ pc[s] # "idle" /\ family[s] \in Request
  BY RowFamily DEF CoveredShape, RequestShape
<1>3. \A q \in Request : \A s \in covered[q] : family'[s] = family[s]
  <2>1. ASSUME NEW q \in Request, NEW s \in covered[q] PROVE family'[s] = family[s]
    <3>1. s \in Request /\ pc[s] # "idle" BY <1>2, <2>1
    <3>2. CASE s = r BY <3>1, <3>2, OneMoves
    <3>3. CASE s # r BY <3>1, <3>3, OthersKept
    <3>. QED BY <3>2, <3>3
  <2>. QED BY <2>1
<1>4. ASSUME NEW q \in Request, Through(q), NEW s \in covered[q]
      PROVE  Ended(family[s])'
  <2>1. PICK f \in Request : f = family[s] BY <1>2, <1>4
  <2>2. Ended(f) BY <1>4, <2>1 DEF SerialInv, EndedThrough
  <2>3. Ended(f)' BY <1>1, <2>2, EndedStep
  <2>4. family'[s] = f BY <1>3, <1>4, <2>1
  <2>. QED BY <2>3, <2>4
<1>5. ASSUME NEW q \in Request, Through(q)', NEW s \in covered'[q]
      PROVE  Ended(family[s])'
  <2>1. CASE q # r
    <3>1. covered'[q] = covered[q] /\ Through(q) BY <1>5, <2>1, OthersKept DEF Through
    <3>2. family'[s] = family[s] BY <1>3, <1>5, <3>1
    <3>. QED BY <1>4, <1>5, <3>1, <3>2
  <2>2. CASE q = r /\ pc[r] = "idle"
    <3>1. covered'[r] = {} BY <2>2, OneMoves DEF RequestShape
    <3>. QED BY <1>5, <2>2, <3>1
  <2>3. CASE q = r /\ pc[r] # "idle"
    <3>1. Continue(r) /\ op'[r] = op[r] /\ InFlight(r) BY <2>3, OneMoves
    <3>2. op[r] \in {"password", "refresh"} /\ pc'[r] \in {"done", "rejected"}
          /\ (pc'[r] = "done" => op[r] = "password")
      BY <1>5, <2>3, <3>1 DEF Through
    <3>3. RevokeRows(r)
      <4>1. ~EnforceSessionCap(r) BY <3>2 DEF EnforceSessionCap, GotoRevoke, Goto
      <4>2. ~Mint(r) /\ ~Rotate(r) /\ ~Fail(r)
        BY <3>2 DEF Mint, Rotate, Fail, GotoRevoke, Goto
      <4>3. ~Save(r) BY <3>2 DEF Save, Goto, RequestShape
      <4>4. ~(\E g \in Request \cup {All} : ReadJtis(r, g)) BY <3>2 DEF ReadJtis, Goto
      <4>5. ~(\E t \in Request : Deny(r, t)) BY <3>2 DEF Deny
      <4>. QED BY <3>1, <4>1, <4>2, <4>3, <4>4, <4>5 DEF Continue
    <3>4. covered' = covered BY <3>3 DEF RevokeRows
    <3>5. s \in covered[r] /\ family'[s] = family[s] BY <1>3, <1>5, <2>3, <3>4
    <3>6. Ended(family[s])' BY <3>2, <3>3, <3>5, RevokedScope DEF SerialInv
    <3>. QED BY <3>5, <3>6
  <2>. QED BY <2>1, <2>2, <2>3
<1>. QED BY <1>5 DEF EndedThrough

\* Where one request at a time is executing, what a password change or a reused
\* token was to end has ended.
LEMMA SerialStep ==
    ASSUME SessionInv, [Next]_vars, MaxInFlight = 1 => SerialInv
    PROVE  (MaxInFlight = 1 => SerialInv)'
<1>. SUFFICES ASSUME MaxInFlight = 1, SerialInv PROVE SerialInv'
  OBVIOUS
<1>1. ASSUME NEW r \in Request, Begin(r) \/ Continue(r) PROVE SerialInv'
  BY <1>1, AloneStep, OneScopeStep, EndedThroughStep DEF SerialInv
<1>2. CASE Replicate \/ Tick \/ UNCHANGED vars
  <2>1. UNCHANGED <<row, mintedAt, locals, pc, loop>> BY <1>2 DEF Replicate, Tick, vars
  <2>2. Alone' /\ OneScope' BY <2>1 DEF SerialInv, Alone, OneScope, Scope
  <2>3. EndedThrough' BY <2>1 DEF SerialInv, EndedThrough, Through, Ended, Started
  <2>. QED BY <2>2, <2>3 DEF SerialInv
<1>. QED BY <1>1, <1>2 DEF Next

LEMMA SerialHolds == Spec => [](MaxInFlight = 1 => SerialInv)
<1>1. Init => (MaxInFlight = 1 => SerialInv)
  BY DEF Init, SerialInv, Alone, OneScope, EndedThrough, Through
<1>2. SessionInv /\ (MaxInFlight = 1 => SerialInv) /\ [Next]_vars => (MaxInFlight = 1 => SerialInv)'
  BY SerialStep
<1>. QED BY <1>1, <1>2, InvariantHolds, PTL DEF Spec

\* Where requests do not overlap, a password change leaves no active row in any
\* session it has read the tokens of, a lagging replica notwithstanding.
THEOREM PasswordChangesSignOut == Spec => [](MaxInFlight = 1 => PasswordChangeSignsOut)
<1>1. (MaxInFlight = 1 => SerialInv) => (MaxInFlight = 1 => PasswordChangeSignsOut)
  BY DEF SerialInv, EndedThrough, Through, Ended, PasswordChangeSignsOut, SignedOut
<1>. QED BY <1>1, SerialHolds, PTL

\* And a token that is used again ends its whole session.
THEOREM ReuseEndsTheFamily == Spec => [](MaxInFlight = 1 => ReuseRevokesFamily)
<1>1. (MaxInFlight = 1 => SerialInv) => (MaxInFlight = 1 => ReuseRevokesFamily)
  BY DEF SerialInv, EndedThrough, Through, Ended, ReuseRevokesFamily, SignedOut
<1>. QED BY <1>1, SerialHolds, PTL

-----------------------------------------------------------------------------
(* The cap on sessions. *)

\* A refresh mints while the token it was given is still listed as a session.
\* (At the very instant of its expiry ListActiveFamilies passes a token over,
\* which IsExpired still lets through.)
RefreshesInTime ==
    \A r \in Request : op[r] = "refresh" /\ row[r] # "absent" =>
        mintedAt[r] < mintedAt[presented[r]] + RefreshTTL

\* Families whose rows r is about to revoke.
Doomed(r) == targets[r] \cup (IF pc[r] = "deny" THEN {target[r]} ELSE {})

\* When the pair of r was minted, or the earliest it can be.
MintTime(r) == IF pc[r] = "save" THEN mintedAt[r] ELSE now

AtMost(n, S) == IsFiniteSet(S) /\ Cardinality(S) <= n

\* A login has room for its session, or is making it.
LoginRoom(r) ==
    op[r] = "login" =>
        /\ Issuing(r) => AtMost(MaxSessions - 1, OpenSessions(user[r]))
        /\ pc[r] \in {"jtis", "deny"} =>
              /\ All \notin Doomed(r)
              /\ AtMost(MaxSessions - 1, OpenSessions(user[r]) \ Doomed(r))

\* A refresh on time has kept the room its session had.
RefreshRoom(r) ==
    /\ op[r] = "refresh"
    /\ pc[r] = "rotate" \/ Issuing(r)
    /\ MintTime(r) < mintedAt[presented[r]] + RefreshTTL
    => AtMost(MaxSessions, OpenSessions(user[r]) \cup {family[r]})

CapInv ==
    /\ \A u \in User : AtMost(MaxSessions, OpenSessions(u))
    /\ \A r \in Request : LoginRoom(r) /\ RefreshRoom(r)

LEMMA FewerStill ==
    ASSUME NEW n \in Int, NEW S, NEW T, AtMost(n, S), T \subseteq S
    PROVE  AtMost(n, T)
<1>1. IsFiniteSet(T) /\ Cardinality(T) <= Cardinality(S)
  BY FS_Subset DEF AtMost
<1>2. Cardinality(T) \in Nat /\ Cardinality(S) \in Nat
  BY <1>1, FS_CardinalityType DEF AtMost
<1>. QED BY <1>1, <1>2 DEF AtMost

LEMMA RoomForOne ==
    ASSUME NEW n \in Int, NEW S, NEW x, AtMost(n - 1, S)
    PROVE  AtMost(n, S \cup {x})
<1>1. /\ IsFiniteSet(S \cup {x})
      /\ Cardinality(S \cup {x}) = Cardinality(S)
            \/ Cardinality(S \cup {x}) = Cardinality(S) + 1
  BY FS_AddElement DEF AtMost
<1>2. Cardinality(S) \in Nat BY FS_CardinalityType DEF AtMost
<1>. QED BY <1>1, <1>2 DEF AtMost

\* A row, once there, keeps all but its state; only Save makes one active.
LEMMA RowsKept ==
    ASSUME SessionInv, NEW r \in Request, Begin(r) \/ Continue(r)
    PROVE  /\ now' = now
           /\ \A t \in Request : row[t] # "absent" =>
                 /\ row'[t] # "absent" /\ op'[t] = op[t] /\ user'[t] = user[t]
                 /\ family'[t] = family[t] /\ presented'[t] = presented[t]
                 /\ mintedAt'[t] = mintedAt[t]
           /\ \A t \in Request : row'[t] = "active" /\ row[t] # "active" =>
                 t = r /\ Save(r) /\ row[t] = "absent"
<1>1. \A t \in Request : row[t] # "absent" => pc[t] \in {"done", "failed"}
  BY DEF RequestShape
<1>2. CASE Begin(r)
  <2>1. pc[r] = "idle" /\ now' = now /\ row' = row /\ mintedAt' = mintedAt
    BY <1>2 DEF Begin, Login, ChangePassword, Refresh, Logout, SessionRevoke, Start
  <2>2. \A t \in Request : row[t] # "absent" => t # r
    BY <1>1, <2>1
  <2>3. \A t \in Request \ {r} : presented'[t] = presented[t]
    <3>1. \E o, u, t, f : Start(r, o, u, t, f)
      BY <1>2 DEF Begin, Login, ChangePassword, Refresh, Logout, SessionRevoke
    <3>. QED BY <3>1 DEF Start
  <2>. QED BY <1>2, <2>1, <2>2, <2>3, OthersKept
<1>3. CASE EnforceSessionCap(r) \/ (\E f \in Request \cup {All} : ReadJtis(r, f))
           \/ (\E t \in Request : Deny(r, t)) \/ Fail(r)
  BY <1>3 DEF EnforceSessionCap, ReadJtis, Deny, Fail
<1>4. CASE Mint(r)
  BY <1>1, <1>4 DEF Mint
<1>5. CASE Save(r)
  BY <1>1, <1>5 DEF Save
<1>6. CASE Rotate(r)
  BY <1>6 DEF Rotate, RotationShape, RequestShape
<1>7. CASE RevokeRows(r)
  BY <1>7 DEF RevokeRows
<1>. QED BY <1>2, <1>3, <1>4, <1>5, <1>6, <1>7 DEF Continue

\* Refreshes that were on time have been so all along.
LEMMA InTimeBefore ==
    ASSUME SessionInv, NEW r \in Request, Begin(r) \/ Continue(r), RefreshesInTime'
    PROVE  RefreshesInTime
<1>. SUFFICES ASSUME NEW t \in Request, op[t] = "refresh", row[t] # "absent"
              PROVE  mintedAt[t] < mintedAt[presented[t]] + RefreshTTL
  BY DEF RefreshesInTime
<1>1. PICK p \in Request : p = presented[t] /\ row[p] # "absent" BY DEF RotationShape
<1>2. /\ op'[t] = "refresh" /\ row'[t] # "absent" /\ presented'[t] = p
      /\ mintedAt'[t] = mintedAt[t] /\ mintedAt'[p] = mintedAt[p]
  BY <1>1, RowsKept
<1>. QED BY <1>1, <1>2 DEF RefreshesInTime

\* Sessions open with Save and with nothing else.
LEMMA OpenShrinks ==
    ASSUME SessionInv, NEW r \in Request, Begin(r) \/ Continue(r), NEW u
    PROVE  /\ OpenSessions(u)' \subseteq OpenSessions(u) \cup {family[r]}
           /\ ~Save(r) \/ user[r] # u => OpenSessions(u)' \subseteq OpenSessions(u)
<1>. SUFFICES ASSUME NEW t \in Request, row'[t] = "active", user'[t] = u,
                     now' < mintedAt'[t] + RefreshTTL
              PROVE  \/ family'[t] \in OpenSessions(u)
                     \/ family'[t] = family[r] /\ Save(r) /\ user[r] = u
  BY DEF OpenSessions
<1>1. CASE row[t] = "active"
  <2>1. family'[t] = family[t] /\ user[t] = u /\ now < mintedAt[t] + RefreshTTL
    BY <1>1, RowsKept
  <2>. QED BY <1>1, <2>1 DEF OpenSessions
<1>2. CASE row[t] # "active"
  <2>1. t = r /\ Save(r) BY <1>2, RowsKept
  <2>. QED BY <2>1 DEF Save
<1>. QED BY <1>1, <1>2

\* A revocation closes the family it is about.
LEMMA RevokedIsClosed ==
    ASSUME SessionInv, NEW r \in Request, RevokeRows(r), target[r] # All, NEW u
    PROVE  OpenSessions(u)' \subseteq OpenSessions(u) \ {target[r]}
<1>1. OpenSessions(u)' \subseteq OpenSessions(u)
  <2>1. ~Save(r) BY DEF Save, RevokeRows
  <2>. QED BY <2>1, OpenShrinks DEF Continue
<1>2. target[r] \notin OpenSessions(u)'
  <2>. SUFFICES ASSUME NEW t \in Request, row'[t] = "active", family'[t] = target[r]
                PROVE  FALSE
    BY DEF OpenSessions, RevokeRows
  <2>. QED BY DEF RevokeRows
<1>. QED BY <1>1, <1>2

\* What the cap has to cover of an instance: a limit, queries on the primary, and
\* requests that do not overlap.
Serial == MaxInFlight = 1 /\ ~HasReplica /\ MaxSessions > 0

\* The owner of what is being issued is a user.
LEMMA IssuerIsUser ==
    ASSUME SessionInv, NEW r \in Request, op[r] \in {"login", "refresh"}
    PROVE  user[r] \in User /\ (op[r] = "refresh" => family[r] \in Request)
<1>1. CASE op[r] = "login" BY <1>1 DEF FamilyShape
<1>2. CASE op[r] = "refresh"
  <2>1. PICK f \in Request : f = family[r] BY <1>2 DEF RotationShape
  <2>2. op[f] = "login" /\ user[f] = user[r] BY <2>1 DEF FamilyShape
  <2>. QED BY <2>1, <2>2 DEF FamilyShape
<1>. QED BY <1>1, <1>2

\* A login that revokes nothing has room; one that does will have it.
LEMMA CapMakesRoom ==
    ASSUME SessionInv, Serial, NEW r \in Request, EnforceSessionCap(r),
           AtMost(MaxSessions, OpenSessions(user[r]))
    PROVE  LoginRoom(r)'
<1> DEFINE listed == OpenSessions(user[r])
           excess == Cardinality(listed) - (MaxSessions - 1)
<1>1. ActiveFamilies(user[r]) = listed
  BY DEF Serial, ActiveFamilies, ActiveRows, View, OpenSessions
<1>2. /\ IsFiniteSet(listed) /\ Cardinality(listed) \in Nat
      /\ listed \subseteq Request
      /\ op[r] = "login" /\ pc[r] = "cap"
  <2>1. listed \subseteq Request BY RowFamily DEF OpenSessions
  <2>. QED BY <2>1, FS_CardinalityType DEF AtMost, EnforceSessionCap, RequestShape
<1>3. OpenSessions(user[r])' = listed /\ op' = op
  BY DEF EnforceSessionCap, OpenSessions
<1>4. CASE excess <= 0 /\ pc' = [pc EXCEPT ![r] = "mint"]
  <2>1. AtMost(MaxSessions - 1, listed) BY <1>2, <1>4 DEF AtMost
  <2>2. pc'[r] = "mint" BY <1>4
  <2>. QED BY <1>3, <2>1, <2>2 DEF LoginRoom, AtMost
<1>5. CASE excess > 0 /\ \E oldest \in SUBSET listed :
              Cardinality(oldest) = excess /\ GotoRevoke(r, oldest)
  <2>1. PICK oldest \in SUBSET listed : Cardinality(oldest) = excess /\ GotoRevoke(r, oldest)
    BY <1>5
  <2>2. /\ IsFiniteSet(listed \ oldest)
        /\ Cardinality(listed \ oldest) = Cardinality(listed) - Cardinality(listed \cap oldest)
    BY <1>2, FS_Difference
  <2>3. listed \cap oldest = oldest OBVIOUS
  <2>4. Cardinality(listed \ oldest) = MaxSessions - 1
    <3>1. Cardinality(listed \ oldest) = Cardinality(listed) - Cardinality(oldest)
      BY <2>2, <2>3
    <3>2. Cardinality(oldest) = Cardinality(listed) - (MaxSessions - 1) BY <2>1
    <3>3. Cardinality(listed) \in Int /\ MaxSessions - 1 \in Int BY <1>2
    <3>. HIDE DEF listed
    <3>. QED BY <3>1, <3>2, <3>3
  <2>5. pc'[r] = "jtis" /\ targets'[r] = oldest BY <2>1 DEF GotoRevoke, Goto
  <2>6. Doomed(r)' = oldest BY <2>5 DEF Doomed
  <2>7. All \notin oldest BY <1>2
  <2>8. MaxSessions - 1 <= MaxSessions - 1 OBVIOUS
  <2>. QED BY <1>3, <2>2, <2>4, <2>5, <2>6, <2>7, <2>8 DEF LoginRoom, AtMost
<1>. QED BY <1>1, <1>4, <1>5 DEF EnforceSessionCap, Goto

\* On its way from the cap to the row a login keeps its room.
LEMMA LoginKeepsRoom ==
    ASSUME SessionInv, Serial, NEW r \in Request, LoginRoom(r), Begin(r) \/ Continue(r),
           \A u \in User : AtMost(MaxSessions, OpenSessions(u))
    PROVE  LoginRoom(r)'
<1>. SUFFICES ASSUME op'[r] = "login" PROVE LoginRoom(r)'
  BY DEF LoginRoom
<1>1. CASE pc[r] = "idle"
  <2>1. Begin(r) /\ pc'[r] = "cap"
    <3>1. Begin(r) BY <1>1, OneMoves
    <3>2. \A u \in User : ~ChangePassword(r, u) BY DEF ChangePassword, Start
    <3>3. \A t \in Request : ~Refresh(r, t) BY DEF Refresh, Start
    <3>4. \A u \in User, t \in Request : ~Logout(r, u, t) BY DEF Logout, Start
    <3>5. \A u \in User, g \in Request : ~SessionRevoke(r, u, g) BY DEF SessionRevoke, Start
    <3>6. PICK u \in User : Login(r, u) BY <3>1, <3>2, <3>3, <3>4, <3>5 DEF Begin
    <3>. QED BY <3>1, <3>6 DEF Login, Goto, Serial
  <2>. QED BY <2>1 DEF LoginRoom
<1>2. CASE pc[r] # "idle"
  <2>1. Continue(r) /\ op[r] = "login" /\ user'[r] = user[r] BY <1>2, OneMoves
  <2>2. user[r] \in User BY <2>1 DEF FamilyShape
  <2>3. PICK u \in User : u = user[r] BY <2>2
  <2>4. AtMost(MaxSessions, OpenSessions(u)) BY <2>3
  <2>5. OpenSessions(user[r])' = OpenSessions(u)' BY <2>1, <2>3
  <2>6. ~Save(r) => OpenSessions(u)' \subseteq OpenSessions(u) BY OpenShrinks
  <2>7. MaxSessions - 1 \in Int OBVIOUS
  <2>8. CASE EnforceSessionCap(r) BY <2>3, <2>4, <2>8, CapMakesRoom
  <2>9. CASE Mint(r)
    <3>1. ~Save(r) /\ pc[r] = "mint" /\ pc'[r] = "save" BY <2>9 DEF Mint, Save, Goto
    <3>2. AtMost(MaxSessions - 1, OpenSessions(u)) BY <2>1, <2>3, <3>1 DEF LoginRoom
    <3>3. AtMost(MaxSessions - 1, OpenSessions(u)') BY <2>6, <2>7, <3>1, <3>2, FewerStill
    <3>. QED BY <2>5, <3>1, <3>3 DEF LoginRoom, AtMost
  <2>10. CASE Save(r) \/ Fail(r)
    <3>1. pc'[r] \in {"done", "failed"} BY <2>10 DEF Save, Fail, Goto
    <3>. QED BY <3>1 DEF LoginRoom
  <2>11. CASE Rotate(r) BY <2>1, <2>11 DEF Rotate, RequestShape
  <2>12. CASE \E f \in Request \cup {All} : ReadJtis(r, f)
    <3>1. PICK f \in Request \cup {All} : ReadJtis(r, f) BY <2>12
    <3>2. ~Save(r) /\ pc[r] = "jtis" /\ pc'[r] = "deny" /\ Doomed(r)' = Doomed(r)
      BY <3>1 DEF ReadJtis, Save, Goto, Doomed
    <3>3. All \notin Doomed(r) /\ AtMost(MaxSessions - 1, OpenSessions(u) \ Doomed(r))
      BY <2>1, <2>3, <3>2 DEF LoginRoom
    <3>4. AtMost(MaxSessions - 1, OpenSessions(u)' \ Doomed(r))
      BY <2>6, <2>7, <3>2, <3>3, FewerStill
    <3>. QED BY <2>5, <3>2, <3>3, <3>4 DEF LoginRoom, AtMost
  <2>13. CASE \E t \in Request : Deny(r, t)
    <3>1. ~Save(r) /\ pc[r] = "deny" /\ pc'[r] = "deny" /\ Doomed(r)' = Doomed(r)
      BY <2>13 DEF Deny, Save, Doomed
    <3>2. All \notin Doomed(r) /\ AtMost(MaxSessions - 1, OpenSessions(u) \ Doomed(r))
      BY <2>1, <2>3, <3>1 DEF LoginRoom
    <3>3. AtMost(MaxSessions - 1, OpenSessions(u)' \ Doomed(r))
      BY <2>6, <2>7, <3>1, <3>2, FewerStill
    <3>. QED BY <2>5, <3>1, <3>2, <3>3 DEF LoginRoom, AtMost
  <2>14. CASE RevokeRows(r)
    <3>1. pc[r] = "deny" /\ targets' = targets /\ Doomed(r) = targets[r] \cup {target[r]}
      BY <2>14 DEF RevokeRows, Doomed
    <3>2. All \notin Doomed(r) /\ AtMost(MaxSessions - 1, OpenSessions(u) \ Doomed(r))
      BY <2>1, <2>3, <3>1 DEF LoginRoom
    <3>3. OpenSessions(u)' \subseteq OpenSessions(u) \ {target[r]}
      BY <2>14, <3>1, <3>2, RevokedIsClosed
    <3>4. AtMost(MaxSessions - 1, OpenSessions(u)' \ targets[r])
      BY <2>7, <3>1, <3>2, <3>3, FewerStill
    <3>5. CASE targets[r] # {}
      <4>1. pc'[r] = "jtis" BY <2>14, <3>5 DEF RevokeRows, AfterRevoke, Goto
      <4>2. Doomed(r)' = targets[r] BY <3>1, <4>1 DEF Doomed
      <4>. QED BY <2>5, <3>1, <3>2, <3>4, <4>1, <4>2 DEF LoginRoom, AtMost
    <3>6. CASE targets[r] = {}
      <4>1. pc'[r] = "mint" BY <2>1, <2>14, <3>6 DEF RevokeRows, AfterRevoke, Goto
      <4>2. OpenSessions(u)' \ targets[r] = OpenSessions(u)' BY <3>6
      <4>. QED BY <2>5, <3>4, <4>1, <4>2 DEF LoginRoom, AtMost
    <3>. QED BY <3>5, <3>6
  <2>. QED BY <2>1, <2>8, <2>9, <2>10, <2>11, <2>12, <2>13, <2>14 DEF Continue
<1>. QED BY <1>1, <1>2

\* A refresh on time adds no session to those it found.
LEMMA RefreshKeepsRoom ==
    ASSUME SessionInv, Serial, NEW r \in Request, RefreshRoom(r), Begin(r) \/ Continue(r),
           \A u \in User : AtMost(MaxSessions, OpenSessions(u))
    PROVE  RefreshRoom(r)'
<1>. SUFFICES ASSUME op'[r] = "refresh", pc'[r] = "rotate" \/ Issuing(r)',
                     MintTime(r)' < mintedAt'[presented'[r]] + RefreshTTL
              PROVE  AtMost(MaxSessions, OpenSessions(user[r]) \cup {family[r]})'
  BY DEF RefreshRoom
<1>0. ASSUME NEW u \in User, user'[r] = u,
              AtMost(MaxSessions, OpenSessions(u)' \cup {family'[r]})
      PROVE  AtMost(MaxSessions, OpenSessions(user[r]) \cup {family[r]})'
  <2>1. OpenSessions(user[r])' = OpenSessions(u)' BY <1>0
  <2>. QED BY <1>0, <2>1 DEF AtMost
<1>1. CASE pc[r] = "idle"
  <2>1. Begin(r) /\ row' = row BY <1>1, OneMoves
  <2>2. PICK t \in Request : Refresh(r, t)
    <3>1. \A u \in User : ~ChangePassword(r, u) BY DEF ChangePassword, Start
    <3>2. \A u \in User : ~Login(r, u) BY DEF Login, Start
    <3>3. \A u \in User, t \in Request : ~Logout(r, u, t) BY DEF Logout, Start
    <3>4. \A u \in User, g \in Request : ~SessionRevoke(r, u, g) BY DEF SessionRevoke, Start
    <3>. QED BY <2>1, <3>1, <3>2, <3>3, <3>4 DEF Begin
  <2>3. /\ presented'[r] = t /\ user'[r] = user[t] /\ family'[r] = family[t]
        /\ mintedAt' = mintedAt /\ now' = now
    BY <2>2 DEF Refresh, Start
  <2>4. View[t] = "active" /\ pc'[r] = "rotate"
    BY <2>2 DEF Refresh, GotoRevoke, Goto
  <2>5. row[t] = "active" BY <2>4 DEF Serial, View
  <2>6. now < mintedAt[t] + RefreshTTL BY <2>3, <2>4 DEF MintTime
  <2>7. PICK u \in User : u = user[t]
    <3>1. op[t] \in {"login", "refresh"} BY <2>5 DEF RequestShape
    <3>. QED BY <3>1, IssuerIsUser
  <2>8. family[t] \in OpenSessions(u) BY <2>5, <2>6, <2>7 DEF OpenSessions
  <2>9. ~Save(r) BY <1>1 DEF Save
  <2>10. OpenSessions(u)' \subseteq OpenSessions(u) BY <2>9, OpenShrinks
  <2>11. OpenSessions(u)' \cup {family'[r]} \subseteq OpenSessions(u) BY <2>3, <2>8, <2>10
  <2>12. AtMost(MaxSessions, OpenSessions(u)' \cup {family'[r]}) BY <2>11, FewerStill
  <2>13. user'[r] = u BY <2>3, <2>7
  <2>. QED BY <1>0, <2>12, <2>13
<1>2. CASE pc[r] # "idle"
  <2>1. Continue(r) /\ op[r] = "refresh" /\ user'[r] = user[r] /\ family'[r] = family[r]
    BY <1>2, OneMoves
  <2>2. PICK u \in User : u = user[r] BY <2>1, IssuerIsUser
  <2>3. PICK p \in Request : p = presented[r] /\ row[p] # "absent"
    BY <2>1 DEF RotationShape
  <2>4. mintedAt'[p] = mintedAt[p] /\ now' = now BY <2>3, RowsKept
  <2>5. (Mint(r) \/ Rotate(r)) /\ ~Save(r) /\ presented' = presented
    <3>1. ~EnforceSessionCap(r) BY <2>1 DEF EnforceSessionCap, RequestShape
    <3>2. ~Save(r) /\ ~Fail(r) BY DEF Save, Fail, Goto
    <3>3. ~(\E g \in Request \cup {All} : ReadJtis(r, g)) BY DEF ReadJtis, Goto
    <3>4. ~(\E t \in Request : Deny(r, t)) BY DEF Deny
    <3>5. ~RevokeRows(r) BY <2>1 DEF RevokeRows, AfterRevoke, Goto
    <3>6. Mint(r) \/ Rotate(r) BY <2>1, <3>1, <3>2, <3>3, <3>4, <3>5 DEF Continue
    <3>. QED BY <3>2, <3>6 DEF Mint, Rotate
  <2>6. /\ pc[r] \in {"mint", "rotate"} /\ MintTime(r) = now
        /\ MintTime(r)' = now
    <3>1. CASE Mint(r) BY <2>4, <3>1 DEF Mint, Goto, MintTime
    <3>2. CASE Rotate(r)
      <4>1. pc[r] = "rotate" /\ pc'[r] # "save"
        BY <3>2 DEF Rotate, GotoRevoke, Goto
      <4>. QED BY <2>4, <4>1 DEF MintTime
    <3>. QED BY <2>5, <3>1, <3>2
  <2>7. now < mintedAt[p] + RefreshTTL BY <2>3, <2>4, <2>5, <2>6
  <2>8. AtMost(MaxSessions, OpenSessions(u) \cup {family[r]})
    BY <2>1, <2>2, <2>3, <2>6, <2>7 DEF RefreshRoom
  <2>9. OpenSessions(u)' \cup {family'[r]} \subseteq OpenSessions(u) \cup {family[r]}
    BY <2>1, <2>5, OpenShrinks
  <2>10. AtMost(MaxSessions, OpenSessions(u)' \cup {family'[r]}) BY <2>8, <2>9, FewerStill
  <2>11. user'[r] = u BY <2>1, <2>2
  <2>. QED BY <1>0, <2>10, <2>11
<1>. QED BY <1>1, <1>2

\* What a row more adds, the request that saves it has kept room for.
LEMMA SaveStaysUnderCap ==
    ASSUME SessionInv, NEW r \in Request, Save(r), LoginRoom(r), RefreshRoom(r),
           RefreshesInTime', NEW u \in User, user[r] = u
    PROVE  AtMost(MaxSessions, OpenSessions(u)')
<1>1. /\ pc[r] = "save" /\ op[r] \in {"login", "refresh"}
      /\ row'[r] = "active" /\ op' = op /\ presented' = presented /\ mintedAt' = mintedAt
  BY DEF Save, RequestShape
<1>2. OpenSessions(u)' \subseteq OpenSessions(u) \cup {family[r]}
  BY OpenShrinks DEF Continue
<1>3. CASE op[r] = "login"
  <2>1. AtMost(MaxSessions - 1, OpenSessions(u)) BY <1>1, <1>3 DEF LoginRoom
  <2>2. AtMost(MaxSessions, OpenSessions(u) \cup {family[r]})
    <3>1. MaxSessions \in Int OBVIOUS
    <3>. QED BY <2>1, <3>1, RoomForOne
  <2>. QED BY <1>2, <2>2, FewerStill
<1>4. CASE op[r] = "refresh"
  <2>1. mintedAt[r] < mintedAt[presented[r]] + RefreshTTL
    BY <1>1, <1>4 DEF RefreshesInTime
  <2>2. AtMost(MaxSessions, OpenSessions(u) \cup {family[r]})
    BY <1>1, <1>4, <2>1 DEF RefreshRoom, MintTime
  <2>. QED BY <1>2, <2>2, FewerStill
<1>. QED BY <1>1, <1>3, <1>4

\* Only the request that runs can have room to keep, and it keeps it.
LEMMA CapHeld ==
    ASSUME SessionInv, Serial, Alone, NEW r \in Request, Begin(r) \/ Continue(r),
           RefreshesInTime => CapInv, RefreshesInTime'
    PROVE  CapInv'
<1>1. CapInv BY InTimeBefore
<1>2. \A u \in User : AtMost(MaxSessions, OpenSessions(u)) BY <1>1 DEF CapInv
<1>3. LoginRoom(r) /\ RefreshRoom(r) BY <1>1 DEF CapInv
<1>4. LoginRoom(r)' BY <1>2, <1>3, LoginKeepsRoom
<1>5. RefreshRoom(r)' BY <1>2, <1>3, RefreshKeepsRoom
<1>6. ASSUME NEW q \in Request, q # r PROVE LoginRoom(q)' /\ RefreshRoom(q)'
  <2>1. ~InFlight(q) BY <1>6, AloneStep DEF Serial
  <2>2. pc'[q] = pc[q] BY <1>6, OthersKept
  <2>. QED BY <2>1, <2>2 DEF LoginRoom, RefreshRoom
<1>7. ASSUME NEW u \in User PROVE AtMost(MaxSessions, OpenSessions(u)')
  <2>1. CASE Save(r) /\ user[r] = u BY <1>3, <2>1, SaveStaysUnderCap
  <2>2. CASE ~Save(r) \/ user[r] # u
    <3>1. OpenSessions(u)' \subseteq OpenSessions(u) BY <2>2, OpenShrinks
    <3>. QED BY <1>2, <3>1, FewerStill
  <2>. QED BY <2>1, <2>2
<1>8. (\A u \in User : AtMost(MaxSessions, OpenSessions(u)))' BY <1>7 DEF AtMost
<1>9. (\A q \in Request : LoginRoom(q) /\ RefreshRoom(q))' BY <1>4, <1>5, <1>6
<1>. QED BY <1>8, <1>9 DEF CapInv

LEMMA CapStays ==
    ASSUME SessionInv, Alone, [Next]_vars, RefreshesInTime',
           Serial /\ RefreshesInTime => CapInv, Serial
    PROVE  CapInv'
<1>1. ASSUME NEW r \in Request, Begin(r) \/ Continue(r) PROVE CapInv'
  BY <1>1, CapHeld
<1>2. CASE Replicate \/ Tick \/ UNCHANGED vars
  <2>1. UNCHANGED <<row, mintedAt, locals, pc, loop>> /\ now' \in Int /\ now' >= now
    BY <1>2 DEF Replicate, Tick, vars
  <2>2. CapInv BY <2>1 DEF RefreshesInTime
  <2>3. \A u : OpenSessions(u)' \subseteq OpenSessions(u)
    BY <2>1 DEF OpenSessions
  <2>4. ASSUME NEW u \in User PROVE AtMost(MaxSessions, OpenSessions(u)')
    BY <2>2, <2>3, FewerStill DEF CapInv
  <2>5. ASSUME NEW r \in Request PROVE LoginRoom(r)'
    <3>. SUFFICES ASSUME op[r] = "login" PROVE LoginRoom(r)'
      BY <2>1 DEF LoginRoom
    <3>1. PICK u \in User : u = user[r] BY DEF FamilyShape
    <3>2. LoginRoom(r) BY <2>2 DEF CapInv
    <3>3. OpenSessions(user[r])' = OpenSessions(u)' BY <2>1, <3>1
    <3>4. Doomed(r)' = Doomed(r) /\ pc' = pc BY <2>1 DEF Doomed
    <3>5. MaxSessions - 1 \in Int OBVIOUS
    <3>6. Issuing(r) => AtMost(MaxSessions - 1, OpenSessions(u)')
      BY <2>3, <3>1, <3>2, <3>5, FewerStill DEF LoginRoom
    <3>7. pc[r] \in {"jtis", "deny"} =>
             All \notin Doomed(r) /\ AtMost(MaxSessions - 1, OpenSessions(u)' \ Doomed(r))
      <4>1. OpenSessions(u)' \ Doomed(r) \subseteq OpenSessions(u) \ Doomed(r) BY <2>3
      <4>. QED BY <3>1, <3>2, <3>5, <4>1, FewerStill DEF LoginRoom
    <3>. QED BY <3>3, <3>4, <3>6, <3>7 DEF LoginRoom, AtMost
  <2>6. ASSUME NEW r \in Request PROVE RefreshRoom(r)'
    <3>. SUFFICES ASSUME op[r] = "refresh", pc[r] = "rotate" \/ Issuing(r),
                         MintTime(r)' < mintedAt[presented[r]] + RefreshTTL
                  PROVE  AtMost(MaxSessions, OpenSessions(user[r]) \cup {family[r]})'
      BY <2>1 DEF RefreshRoom
    <3>1. PICK u \in User : u = user[r] BY IssuerIsUser
    <3>2. MintTime(r) < mintedAt[presented[r]] + RefreshTTL
      <4>1. MintTime(r) <= MintTime(r)' /\ MintTime(r) \in Int /\ MintTime(r)' \in Int
        BY <2>1 DEF MintTime
      <4>2. mintedAt[presented[r]] + RefreshTTL \in Int BY DEF RotationShape
      <4>. QED BY <4>1, <4>2
    <3>3. AtMost(MaxSessions, OpenSessions(u) \cup {family[r]})
      BY <2>2, <3>1, <3>2 DEF CapInv, RefreshRoom
    <3>4. AtMost(MaxSessions, OpenSessions(u)' \cup {family[r]})
      <4>1. OpenSessions(u)' \cup {family[r]} \subseteq OpenSessions(u) \cup {family[r]}
        BY <2>3
      <4>. QED BY <3>3, <4>1, FewerStill
    <3>5. OpenSessions(user[r])' = OpenSessions(u)' /\ family' = family BY <2>1, <3>1
    <3>. QED BY <3>4, <3>5 DEF AtMost
  <2>7. (\A u \in User : AtMost(MaxSessions, OpenSessions(u)))' BY <2>4 DEF AtMost
  <2>8. (\A r \in Request : LoginRoom(r) /\ RefreshRoom(r))' BY <2>5, <2>6
  <2>. QED BY <2>7, <2>8 DEF CapInv
<1>. QED BY <1>1, <1>2 DEF Next

LEMMA CapHolds == Spec => [](Serial /\ RefreshesInTime => CapInv)
<1>1. Init => (Serial /\ RefreshesInTime => CapInv)
  <2>. SUFFICES ASSUME Init PROVE CapInv
    OBVIOUS
  <2>1. \A u : OpenSessions(u) = {} BY DEF Init, OpenSessions
  <2>2. AtMost(MaxSessions, {}) BY FS_EmptySet DEF AtMost
  <2>. QED BY <2>1, <2>2 DEF Init, CapInv, LoginRoom, RefreshRoom
<1>2. /\ SessionInv
      /\ MaxInFlight = 1 => SerialInv
      /\ Serial /\ RefreshesInTime => CapInv
      /\ [Next]_vars
      => (Serial /\ RefreshesInTime => CapInv)'
  <2>. SUFFICES ASSUME SessionInv, MaxInFlight = 1 => SerialInv, [Next]_vars,
                       Serial /\ RefreshesInTime => CapInv, Serial, RefreshesInTime'
                PROVE  CapInv'
    BY DEF Serial
  <2>. QED BY CapStays DEF Serial, SerialInv
<1>. QED BY <1>1, <1>2, InvariantHolds, SerialHolds, PTL DEF Spec

\* Where logins, refreshes and the rest do not overlap and queries reach the
\* primary, no user ever has more sessions than the cap, whatever has expired,
\* failed or been reused, until a refresh is accepted at the instant its token
\* leaves the list of sessions, or mints after it.
THEOREM SessionsAreCapped ==
    Spec => [](Serial /\ RefreshesInTime => SessionCap)
<1>1. (Serial /\ RefreshesInTime => CapInv) => (Serial /\ RefreshesInTime => SessionCap)
  BY DEF CapInv, AtMost, SessionCap
<1>. QED BY <1>1, CapHolds, PTL

=============================================================================
