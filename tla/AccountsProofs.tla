---------------------------- MODULE AccountsProofs ----------------------------
(***************************************************************************)
(* Proofs about Accounts: its inductive invariant (AccountsInv), by which  *)
(* MFA is enforced only with a validated secret and, where no updates      *)
(* overlapped, with recovery codes; that a session goes only to a user who *)
(* gave the second factor the row asked for (SessionJustified); and that   *)
(* an address is replaced only after a code sent to it was accepted        *)
(* (OldAddressConfirms), and that a verified address is one from which a   *)
(* code was accepted (VerifiedWasProved).                                  *)
(*                                                                         *)
(* A step of a request does one of four things to its own variables        *)
(* (RequestStep): it keeps them but for its place (Keeps), drops them      *)
(* (Quits), takes over a row (Looks), or only the name of a user (Names).  *)
(* Most parts of the invariant need no more than that and the few actions  *)
(* that write the tables the part is about.                                *)
(***************************************************************************)
EXTENDS Accounts, TLAPS, FiniteSetTheorems

\* The request writes its copy of a row back.
Writing(p) ==
    WriteProfile(p) \/ ApplyContact(p) \/ WritePassword(p) \/ StageTOTP(p) \/ EnableTOTP(p)
    \/ ClearTOTP(p)

\* Where a request can go on to, and from where.
Edge(p, label) ==
    LET r == req[p] IN
    /\ label \notin Idle \cup Unread \cup {"oldCode", "saveAll", "consume", "link"}
    /\ label \in {"taken", "save", "promised"} => r.pc = "taken"
    /\ label = "pend" => r.pc = "promised"
    /\ label = "newCode" => ConfirmOld(p)
    /\ label = "apply" => r.pc = "newCode" /\ ConfirmNew(p)
    /\ label = "issue" => SavePending(p) \/ SaveUser(p)
    /\ label = "mark" => ApplyContact(p)
    /\ label = "confirm" => SaveAll(p)
    /\ label \in {"mark", "deleteAll"} => Writing(p)
    /\ label = "session" => \/ r.pc = "consume" /\ r.op # "DisableTOTP"
                            \/ r.pc = "link" /\ ~r.row.confirmed
    /\ label = "disable" => r.pc = "consume"
    /\ r.pc = "consume" => Consume(p)

\* The request stays with its user and its copy of the row.
Keeps(p) ==
    LET r == req[p]  s == req'[p] IN
    /\ r.pc \notin Idle \cup Unread
    /\ Edge(p, s.pc)
    /\ s = [r EXCEPT !.pc = s.pc, !.item = s.item]
    /\ s.pc # "newCode" => s.item = r.item
    /\ raced' = raced

\* The request is over.
Quits(p) ==
    /\ req'[p].pc = "ended" \/ (req'[p].pc = "issued" /\ req[p].pc = "session")
    /\ req'[p] = [NoRequest EXCEPT !.pc = req'[p].pc]
    /\ raced' = raced

\* The request reads the row of u, in which it may find a reason for a session.
Looks(p, u) ==
    LET r == req[p]  s == req'[p] IN
    /\ r.pc \in {"new"} \cup Unread /\ s.pc \notin Idle \cup Unread
    /\ r.pc = "new" => s.op # "Verify"
    /\ r.pc # "new" =>
          /\ s.op = r.op /\ r.user \in {u, None}
          /\ s.channel = r.channel /\ s.address = r.address /\ s.change = r.change /\ s.old = r.old
    /\ s.pc = "newCode" => r.pc = "holder" \/ s.old = None
    /\ r.pc = "holder" => users[u].contact[r.channel] = r.address /\ s.pc = "newCode"
    /\ s.pc \notin {"apply", "issue"}
    /\ s.user = u /\ s.row = users[u]
    /\ s.op # "Register" => users[u] # None
    /\ s.op = "Register" => users[u] = None /\ \A o \in InFlight : req[o].user # u
    /\ s.op \in Writers =>
          \A o \in Request \ {p} :
             req[o].pc \notin Idle /\ req[o].user = u /\ req[o].op \in Writers => u \in raced'
    /\ s.pc \in {"saveAll", "confirm"} => s.pc = "saveAll" /\ <<u, users[u].secret>> \in validated'
    /\ s.op \in Entrances => users[u] \in seen'[p]
    /\ s.pc = "session" => users[u].active /\ (users[u].confirmed => s.factor # "none")
    /\ s.pc = "consume" /\ s.op # "DisableTOTP" => users[u].active /\ s.factor = "recovery"
    /\ s.pc = "link" => users[u].active
    /\ s.pc \notin {"mark", "deleteAll"}
    /\ raced' \in {raced, raced \cup {u}}
    /\ UNCHANGED store

\* The request knows whose row it is going to read, or that it must look.
Names(p) ==
    LET s == req'[p] IN
    /\ req[p].pc = "new" /\ s.pc \in Unread
    /\ s.op \in {"Verify", "VerifyMFA"}
    /\ s.user \in User => users[s.user] # None
    /\ s.row = None
    /\ s.op = "Verify" /\ s.pc # "holder" => s.change # None
    /\ s.op = "Verify" /\ s.change # None =>
          \E i \in 1..Len(pending) :
             /\ s.change = pending[i].id /\ s.user = pending[i].user
             /\ s.channel = pending[i].channel /\ s.address = pending[i].new
             /\ s.old = pending[i].old
    /\ UNCHANGED <<users, pending, recovery, raced, superseded, oldCode, spent, validated, seen>>

Others(p) == req' = [req EXCEPT ![p] = req'[p]]

Moves(p) ==
    /\ RequestOK(req'[p])
    /\ Others(p)
    /\ Keeps(p) \/ Quits(p) \/ (\E u \in User : Looks(p, u)) \/ Names(p)

LEMMA Assumed ==
    /\ None \notin Address /\ None \notin Request /\ None \notin User /\ None \notin Row
    /\ First \notin Request /\ First # None
BY AccountConstants

\* A request that has written its copy and is done.
LEMMA UpdatedMoves ==
  ASSUME TypeOK, NEW p \in Request, req' = [req EXCEPT ![p] = Ended], raced' = raced
  PROVE  Moves(p)
<1>1. NoRequest \in RequestState BY DEF NoRequest, RequestState, Labels
<1>2. req'[p] = Ended BY DEF TypeOK
<1>3. RequestOK(req'[p])
  BY <1>1, <1>2 DEF Ended, NoRequest, RequestOK, RequestState, Idle, Labels
<1>4. Quits(p) BY <1>2 DEF Quits, Ended, NoRequest
<1>5. Others(p) BY <1>2 DEF Others, TypeOK
<1>6. QED BY <1>3, <1>4, <1>5 DEF Moves

\* A request that ends.
LEMMA EndsMoves ==
  ASSUME TypeOK, NEW p \in Request, Ends(p), raced' = raced
  PROVE  Moves(p)
BY UpdatedMoves DEF Ends

\* The type of a request that is given an item.
LEMMA ItemType ==
  ASSUME NEW r \in RequestState, NEW label \in Labels, NEW i \in Value \cup Address \cup {None}
  PROVE  /\ [r EXCEPT !.pc = label, !.item = i] \in RequestState
         /\ [r EXCEPT !.item = i, !.pc = label] \in RequestState
<1>1. ASSUME NEW s \in RequestState PROVE [s EXCEPT !.item = i] \in RequestState
  BY DEF RequestState
<1>2. ASSUME NEW s \in RequestState PROVE [s EXCEPT !.pc = label] \in RequestState
  BY DEF RequestState
<1>3. /\ [r EXCEPT !.pc = label, !.item = i] = [[r EXCEPT !.pc = label] EXCEPT !.item = i]
      /\ [r EXCEPT !.item = i, !.pc = label] = [[r EXCEPT !.item = i] EXCEPT !.pc = label]
  OBVIOUS
<1>4. QED BY <1>1, <1>2, <1>3

\* A request that goes on to the next statement.
LEMMA GotoMoves ==
  ASSUME TypeOK, NEW p \in Request, NEW label \in Labels, Goto(p, label), raced' = raced,
         req[p].pc \notin Idle \cup Unread, Edge(p, label), label # "newCode",
         Placed(req[p].op, label),
         req[p].pc = "update" => label = "update",
         label \in {"oldCode", "issueOld"} => req[p].old \in Address
  PROVE  Moves(p)
<1>. DEFINE r == req[p]
            s == [r EXCEPT !.pc = label]
<1>1. RequestOK(r) BY DEF TypeOK
<1>2. req'[p] = s /\ s.pc = label /\ Others(p) BY DEF Goto, TypeOK, Others, RequestOK, RequestState
<1>3. s \in RequestState BY <1>1 DEF RequestOK, RequestState
<1>4. /\ s.op = r.op /\ s.user = r.user /\ s.row = r.row /\ s.channel = r.channel
      /\ s.address = r.address /\ s.old = r.old
  BY <1>1 DEF RequestOK, RequestState
<1>5. r.pc \notin Idle /\ r.pc \notin Unread
      /\ label \notin Idle /\ label # "holder" /\ label # "redeem"
      /\ r.pc # "holder" /\ (r.pc = "update" => label = "update")
      /\ (label \in {"oldCode", "issueOld"} => r.old \in Address)
  BY DEF Unread, Edge
<1>6. s.pc = label /\ Placed(s.op, label) BY <1>2, <1>4
<1>7. Keeps(p) BY <1>1, <1>2 DEF Keeps, RequestOK, RequestState
<1>. HIDE DEF r, s
<1>8. RequestOK(s) BY <1>1, <1>3, <1>4, <1>5, <1>6 DEF RequestOK
<1>9. QED BY <1>2, <1>7, <1>8 DEF Moves

\* A request that reads the row of a user.
LEMMA ReadsMoves ==
  ASSUME TypeOK, NEW p \in Request, NEW u \in User, NEW r \in RequestState, Reads(p, u, r),
         UNCHANGED store,
         r.pc \notin Idle \cup Unread, Placed(r.op, r.pc), req[p].pc \in {"new"} \cup Unread,
         req[p].pc # "new" => r.op = req[p].op /\ req[p].user \in {u, None},
         r.op # "Register" => users[u] # None,
         r.op = "Register" => users[u] = None /\ \A o \in InFlight : req[o].user # u,
         r.op \in {"Register", "Verify", "UpdateProfile"} /\ r.pc # "update" =>
            r.channel \in Channel /\ r.address \in Address,
         r.op = "UpdateProfile" /\ r.pc # "update" => r.old = users[u].contact[r.channel],
         r.pc \in {"oldCode", "issueOld"} => r.old \in Address,
         req[p].pc = "new" => r.op # "Verify",
         req[p].pc # "new" => /\ r.channel = req[p].channel /\ r.address = req[p].address
                              /\ r.change = req[p].change /\ r.old = req[p].old,
         r.pc = "newCode" => req[p].pc = "holder" \/ r.old = None,
         req[p].pc = "holder" => users[u].contact[r.channel] = r.address /\ r.pc = "newCode",
         r.pc \notin {"apply", "issue", "mark", "deleteAll", "confirm"},
         r.pc = "saveAll" => <<u, users[u].secret>> \in validated',
         r.pc = "session" => users[u].active /\ (users[u].confirmed => r.factor # "none"),
         r.pc = "consume" /\ r.op # "DisableTOTP" => users[u].active /\ r.factor = "recovery",
         r.pc = "link" => users[u].active
  PROVE  Moves(p) /\ Looks(p, u) /\ req'[p] = [r EXCEPT !.user = u, !.row = users[u]]
<1>. DEFINE s == [r EXCEPT !.user = u, !.row = users[u]]
<1>1. req'[p] = s /\ Others(p) BY DEF Reads, TypeOK, Others
<1>2. s \in RequestState BY DEF RequestState, TypeOK
<1>3. /\ s.op = r.op /\ s.user = u /\ s.row = users[u] /\ s.channel = r.channel
      /\ s.address = r.address /\ s.old = r.old /\ s.pc = r.pc /\ s.change = r.change
      /\ s.factor = r.factor
  BY DEF RequestState
<1>4. /\ r.pc \notin Idle /\ r.pc \notin Unread /\ r.pc # "holder" /\ r.pc # "redeem"
      /\ r.op # "Register" => users[u] \in Row
  BY DEF Unread, TypeOK
<1>5. Looks(p, u)
  <2>1. r.op \in Writers =>
          \A o \in Request \ {p} :
             req[o].pc \notin Idle /\ req[o].user = u /\ req[o].op \in Writers => u \in raced'
    BY DEF Reads, InFlight
  <2>2. /\ raced' \in {raced, raced \cup {u}}
        /\ r.op \in Entrances => users[u] \in seen'[p]
    BY DEF Reads, TypeOK
  <2>. HIDE DEF s
  <2>3. QED BY <1>1, <1>3, <1>4, <2>1, <2>2 DEF Looks
<1>. HIDE DEF s
<1>6. RequestOK(s) BY <1>2, <1>3, <1>4 DEF RequestOK
<1>7. QED BY <1>1, <1>5, <1>6 DEF Moves, s

\* Every step of a request that goes on, after its row was read.
LEMMA ContinueMoves ==
  ASSUME TypeOK, Present, NEW p \in Request, Continue(p)
  PROVE  Moves(p)
<1>. DEFINE r == req[p]
<1>0. RequestOK(r) /\ r \in RequestState BY DEF TypeOK, RequestOK
<1>a. ASSUME NEW label \in Labels, At(p, label), label \notin Idle PROVE Placed(r.op, label)
  BY <1>0, <1>a DEF At, RequestOK
<1>b. /\ r.old \in Address \cup {None} /\ r.op \in Writers \cup Entrances \cup {None}
      /\ None \notin Address /\ None \notin User
  BY <1>0, Assumed DEF RequestState
<1>. USE DEF Idle, Unread, Labels
<1>1. CASE CheckTaken(p)
  <2>1. At(p, "taken") /\ raced' = raced BY <1>1 DEF CheckTaken
  <2>2. r.op \in {"Register", "UpdateProfile"} BY <1>a, <2>1 DEF Placed
  <2>3. CASE Ends(p) BY <2>1, <2>3, EndsMoves
  <2>4. CASE Goto(p, IF r.op = "Register" THEN "save" ELSE "promised")
    <3>1. CASE r.op = "Register"
      BY <2>1, <2>4, <3>1, GotoMoves DEF At, Placed, Edge
    <3>2. CASE r.op = "UpdateProfile"
      BY <2>1, <2>4, <3>2, GotoMoves DEF At, Placed, Edge
    <3>3. QED BY <2>2, <3>1, <3>2
  <2>5. QED BY <1>1, <2>3, <2>4 DEF CheckTaken
<1>2. CASE CheckPromised(p)
  <2>1. At(p, "promised") /\ raced' = raced BY <1>2 DEF CheckPromised
  <2>2. r.op = "UpdateProfile" BY <1>a, <2>1 DEF Placed
  <2>3. CASE Ends(p) BY <2>1, <2>3, EndsMoves
  <2>4. CASE Goto(p, "pend") BY <2>1, <2>2, <2>4, GotoMoves DEF At, Placed, Edge
  <2>5. QED BY <1>2, <2>3, <2>4 DEF CheckPromised
<1>3. CASE SavePending(p)
  <2>1. At(p, "pend") /\ raced' = raced /\ Goto(p, "issue") BY <1>3 DEF SavePending
  <2>2. r.op = "UpdateProfile" BY <1>a, <2>1 DEF Placed
  <2>3. QED BY <1>3, <2>1, <2>2, GotoMoves DEF At, Placed, Edge
<1>4. CASE IssueCode(p)
  <2>1. At(p, "issue") /\ raced' = raced BY <1>4 DEF IssueCode
  <2>2. r.op \in {"Register", "UpdateProfile"} BY <1>a, <2>1 DEF Placed
  <2>3. CASE Ends(p) BY <2>1, <2>3, EndsMoves
  <2>4. CASE r.op # "Register" /\ Goto(p, IF r.old # None THEN "issueOld" ELSE "update")
    <3>1. r.op = "UpdateProfile" BY <2>2, <2>4
    <3>2. CASE r.old = None BY <2>1, <2>4, <3>1, <3>2, GotoMoves DEF At, Placed, Edge
    <3>3. CASE r.old # None BY <1>b, <2>1, <2>4, <3>1, <3>3, GotoMoves DEF At, Placed, Edge
    <3>4. QED BY <3>2, <3>3
  <2>5. QED BY <1>4, <2>3, <2>4 DEF IssueCode
<1>5. CASE IssueOldCode(p)
  <2>1. At(p, "issueOld") /\ raced' = raced /\ Goto(p, "update")
    BY <1>5 DEF IssueOldCode, history
  <2>2. r.op = "UpdateProfile" BY <1>a, <2>1 DEF Placed
  <2>3. QED BY <2>1, <2>2, GotoMoves DEF At, Placed, Edge
<1>6. CASE \/ WriteProfile(p) \/ WritePassword(p) \/ StageTOTP(p) \/ EnableTOTP(p)
  <2>1. req' = [req EXCEPT ![p] = Ended] /\ raced' = raced
    BY <1>6 DEF WriteProfile, WritePassword, StageTOTP, EnableTOTP, Update
  <2>2. QED BY <2>1, UpdatedMoves
<1>7. CASE \/ UpdateRefused(p) \/ MarkApplied(p) \/ DeleteAll(p) \/ IssueChallenge(p)
  BY <1>7, EndsMoves DEF UpdateRefused, MarkApplied, DeleteAll, IssueChallenge
<1>8. CASE Issue(p)
  <2>1. /\ req' = [req EXCEPT ![p] = [NoRequest EXCEPT !.pc = "issued"]] /\ raced' = raced
        /\ req[p].pc = "session"
    BY <1>8 DEF Issue, At
  <2>2. req'[p] = [NoRequest EXCEPT !.pc = "issued"] BY <2>1 DEF TypeOK
  <2>3. RequestOK(req'[p]) BY <2>2 DEF NoRequest, RequestOK, RequestState
  <2>4. QED BY <2>1, <2>2, <2>3 DEF Moves, Quits, Others, NoRequest
<1>9. CASE SaveUser(p)
  <2>1. At(p, "save") /\ raced' = raced /\ (Goto(p, "issue") \/ Ends(p)) BY <1>9 DEF SaveUser
  <2>2. r.op = "Register" BY <1>a, <2>1 DEF Placed
  <2>3. QED BY <1>9, <2>1, <2>2, GotoMoves, EndsMoves DEF At, Placed, Edge
<1>10. CASE ReadOwner(p)
  <2>. DEFINE s == [r EXCEPT !.pc = IF r.old # None THEN "oldCode" ELSE "newCode"]
  <2>1. At(p, "owner") /\ Reads(p, r.user, s) /\ UNCHANGED store BY <1>10 DEF ReadOwner
  <2>2. r.op = "Verify" BY <1>a, <2>1 DEF Placed
  <2>3. r.user \in User /\ r.channel \in Channel /\ r.address \in Address
    BY <1>0, <2>1, <2>2 DEF RequestOK, At
  <2>4. users[r.user] # None BY <2>2, <2>3 DEF Present
  <2>5. /\ s \in RequestState /\ s.op = r.op /\ s.channel = r.channel /\ s.address = r.address
        /\ s.old = r.old /\ s.change = r.change
        /\ s.pc = IF r.old # None THEN "oldCode" ELSE "newCode"
    BY <1>0 DEF RequestState
  <2>6. /\ s.pc \in {"oldCode", "newCode"} /\ (s.pc = "oldCode" => r.old \in Address)
        /\ s.pc = "newCode" => s.old = None
    BY <1>b, <2>5
  <2>. HIDE DEF s
  <2>7. QED BY <2>1, <2>2, <2>3, <2>4, <2>5, <2>6, ReadsMoves DEF Placed, At
<1>11. CASE ReadHolder(p)
  <2>1. At(p, "holder") /\ UNCHANGED store BY <1>11 DEF ReadHolder
  <2>2. r.op = "Verify" BY <1>a, <2>1 DEF Placed
  <2>3. CASE Ends(p) /\ raced' = raced BY <2>3, EndsMoves
  <2>4. ASSUME NEW u \in FindByContact(r.channel, r.address),
               Reads(p, u, [r EXCEPT !.pc = "newCode"])
        PROVE  Moves(p)
    <3>. DEFINE s == [r EXCEPT !.pc = "newCode"]
    <3>1. u \in User /\ users[u] # None /\ users[u].contact[r.channel] = r.address
      BY DEF FindByContact
    <3>2. r.user = None /\ r.channel \in Channel /\ r.address \in Address
      BY <1>0, <2>1, <2>2 DEF RequestOK, At
    <3>3. /\ s \in RequestState /\ s.op = r.op /\ s.channel = r.channel /\ s.address = r.address
          /\ s.old = r.old /\ s.change = r.change /\ s.pc = "newCode"
      BY <1>0 DEF RequestState
    <3>. HIDE DEF s
    <3>4. QED BY <2>1, <2>2, <2>4, <3>1, <3>2, <3>3, ReadsMoves DEF Placed, At, s
  <2>5. QED BY <1>11, <2>3, <2>4 DEF ReadHolder
<1>12. CASE ConfirmOld(p)
  <2>1. At(p, "oldCode") /\ raced' = raced BY <1>12 DEF ConfirmOld
  <2>2. r.op = "Verify" BY <1>a, <2>1 DEF Placed
  <2>3. CASE Ends(p) BY <2>1, <2>3, EndsMoves
  <2>4. CASE /\ req' = [req EXCEPT ![p].pc = "newCode", ![p].item = oldCode[r.user][r.channel]]
    <3>. DEFINE s == [r EXCEPT !.pc = "newCode", !.item = oldCode[r.user][r.channel]]
    <3>1. r.user \in User /\ r.channel \in Channel /\ r.address \in Address /\ r.row \in Row
      BY <1>0, <2>1, <2>2 DEF RequestOK, At
    <3>2. oldCode[r.user][r.channel] \in Address \cup {None} BY <3>1 DEF TypeOK
    <3>3. req'[p] = s /\ Others(p) BY <2>4 DEF TypeOK, Others
    <3>4. s \in RequestState BY <1>0, <3>2, ItemType
    <3>5. /\ s.op = r.op /\ s.user = r.user /\ s.row = r.row /\ s.channel = r.channel
          /\ s.address = r.address /\ s.pc = "newCode" /\ s.item = oldCode[r.user][r.channel]
      BY <1>0 DEF RequestState
    <3>6. s = [r EXCEPT !.pc = s.pc, !.item = s.item] BY <3>5
    <3>7. Keeps(p) BY <1>12, <2>1, <3>3, <3>5, <3>6 DEF Keeps, At, Edge
    <3>. HIDE DEF s
    <3>8. RequestOK(s) BY <2>2, <3>1, <3>4, <3>5 DEF RequestOK, Placed
    <3>9. QED BY <3>3, <3>7, <3>8 DEF Moves
  <2>5. QED BY <1>12, <2>3, <2>4 DEF ConfirmOld
<1>13. CASE ConfirmNew(p)
  <2>1. At(p, "newCode") /\ raced' = raced /\ (Goto(p, "apply") \/ Ends(p)) BY <1>13 DEF ConfirmNew
  <2>2. r.op = "Verify" BY <1>a, <2>1 DEF Placed
  <2>3. QED BY <1>13, <2>1, <2>2, GotoMoves, EndsMoves DEF At, Placed, Edge
<1>14. CASE ApplyContact(p)
  <2>1. At(p, "apply") /\ raced' = raced /\ (Goto(p, "mark") \/ req' = [req EXCEPT ![p] = Ended])
    BY <1>14 DEF ApplyContact, Update
  <2>2. r.op = "Verify" BY <1>a, <2>1 DEF Placed
  <2>3. Writing(p) BY <1>14 DEF Writing
  <2>4. QED BY <1>14, <2>1, <2>2, <2>3, GotoMoves, UpdatedMoves DEF At, Placed, Edge
<1>15. CASE ConfirmReset(p)
  <2>1. At(p, "resetCode") /\ raced' = raced /\ (Goto(p, "password") \/ Ends(p))
    BY <1>15 DEF ConfirmReset
  <2>2. r.op = "ResetPassword" BY <1>a, <2>1 DEF Placed
  <2>3. QED BY <2>1, <2>2, GotoMoves, EndsMoves DEF At, Placed, Edge
<1>16. CASE SaveAll(p)
  <2>1. At(p, "saveAll") /\ raced' = raced /\ Goto(p, "confirm") BY <1>16 DEF SaveAll, history
  <2>2. r.op = "ConfirmTOTP" BY <1>a, <2>1 DEF Placed
  <2>3. QED BY <1>16, <2>1, <2>2, GotoMoves DEF At, Placed, Edge
<1>17. CASE ClearTOTP(p)
  <2>1. At(p, "disable") /\ raced' = raced /\ Goto(p, "deleteAll") BY <1>17 DEF ClearTOTP, Update
  <2>2. r.op = "DisableTOTP" BY <1>a, <2>1 DEF Placed
  <2>3. Writing(p) BY <1>17 DEF Writing
  <2>4. QED BY <2>1, <2>2, <2>3, GotoMoves DEF At, Placed, Edge
<1>18. CASE ConsumeLink(p)
  <2>1. /\ At(p, "link") /\ raced' = raced
        /\ Goto(p, IF r.row.confirmed THEN "challenge" ELSE "session") \/ Ends(p)
    BY <1>18 DEF ConsumeLink
  <2>2. r.op = "MagicLinkVerify" BY <1>a, <2>1 DEF Placed
  <2>3. CASE Goto(p, "challenge") BY <2>1, <2>2, <2>3, GotoMoves DEF At, Placed, Edge
  <2>4. CASE Goto(p, "session") /\ ~r.row.confirmed
    BY <2>1, <2>2, <2>4, GotoMoves DEF At, Placed, Edge
  <2>5. QED BY <2>1, <2>3, <2>4, EndsMoves
<1>19. CASE Redeem(p)
  <2>. DEFINE s == [r EXCEPT !.item = Presented(r.user, r.factor),
                             !.pc = IF r.factor = "totp" THEN "session" ELSE "consume"]
  <2>1. At(p, "redeem") /\ UNCHANGED store BY <1>19 DEF Redeem
  <2>2. r.op = "VerifyMFA" BY <1>a, <2>1 DEF Placed
  <2>3. CASE Ends(p) /\ raced' = raced BY <2>3, EndsMoves
  <2>4. CASE Reads(p, r.user, s) /\ users[r.user].active
    <3>1. r.user \in User BY <1>0, <2>1, <2>2 DEF RequestOK, At
    <3>2. users[r.user] # None BY <2>2, <3>1 DEF Present
    <3>3. Presented(r.user, r.factor) \in Value \cup {None} BY <3>1 DEF Presented, TypeOK
    <3>4. s \in RequestState BY <1>0, <3>3, ItemType
    <3>5. /\ s.op = r.op /\ s.channel = r.channel /\ s.address = r.address /\ s.change = r.change
          /\ s.old = r.old /\ s.factor = r.factor
          /\ s.pc = IF r.factor = "totp" THEN "session" ELSE "consume"
      BY <1>0 DEF RequestState
    <3>e. r.factor \in {"totp", "recovery"} BY <1>0, <2>1, <2>2 DEF RequestOK, At
    <3>f. /\ s.pc \in {"session", "consume"} /\ (s.pc = "session" => s.factor # "none")
          /\ s.pc = "consume" => s.factor = "recovery"
      BY <3>5, <3>e
    <3>. HIDE DEF s
    <3>6. QED BY <2>1, <2>2, <2>4, <3>1, <3>2, <3>4, <3>5, <3>f, ReadsMoves DEF Placed, At
  <2>5. QED BY <1>19, <2>3, <2>4 DEF Redeem
<1>20. CASE Consume(p)
  <2>1. /\ At(p, "consume") /\ raced' = raced
        /\ Goto(p, IF r.op = "DisableTOTP" THEN "disable" ELSE "session") \/ Ends(p)
    BY <1>20 DEF Consume
  <2>2. r.op \in {"DisableTOTP", "Login", "VerifyMFA"} BY <1>a, <2>1 DEF Placed
  <2>3. CASE Ends(p) BY <2>1, <2>3, EndsMoves
  <2>4. CASE Goto(p, "disable") /\ r.op = "DisableTOTP"
    BY <1>20, <2>1, <2>4, GotoMoves DEF At, Placed, Edge
  <2>5. CASE Goto(p, "session") /\ r.op \in {"Login", "VerifyMFA"}
    BY <1>20, <2>1, <2>5, GotoMoves DEF At, Placed, Edge
  <2>6. QED BY <2>1, <2>2, <2>3, <2>4, <2>5
<1>21. QED
  BY <1>1, <1>2, <1>3, <1>4, <1>5, <1>6, <1>7, <1>8, <1>9, <1>10, <1>11, <1>12, <1>13, <1>14,
     <1>15, <1>16, <1>17, <1>18, <1>19, <1>20 DEF Continue

\* The variables of a request that begins with a given record.
LEMMA NewType ==
  ASSUME NEW op \in Writers \cup Entrances, NEW label \in Labels
  PROVE  /\ [NoRequest EXCEPT !.op = op, !.pc = label] \in RequestState
         /\ \A ch \in Channel \cup {None}, a \in Address \cup {None} :
               [NoRequest EXCEPT !.op = op, !.pc = label, !.channel = ch, !.address = a]
                  \in RequestState
BY DEF NoRequest, RequestState

LEMMA NewChangeType ==
  ASSUME NEW op \in Writers \cup Entrances, NEW label \in Labels,
         NEW ch \in Channel, NEW a \in Address \cup {None}, NEW o \in Address \cup {None}
  PROVE  [NoRequest EXCEPT !.op = op, !.pc = label, !.channel = ch, !.address = a, !.old = o]
            \in RequestState
BY DEF NoRequest, RequestState

LEMMA NewFactorType ==
  ASSUME NEW op \in Writers \cup Entrances, NEW label \in Labels,
         NEW factor \in {"none", "totp", "recovery"}, NEW i \in Value \cup {None}
  PROVE  [NoRequest EXCEPT !.op = op, !.factor = factor, !.item = i, !.pc = label] \in RequestState
BY DEF NoRequest, RequestState

\* Every step with which a request begins.
LEMMA BeginMoves ==
  ASSUME TypeOK, Present, NEW p \in Request, Begin(p)
  PROVE  Moves(p)
<1>0. None \notin Address /\ None \notin User BY Assumed
<1>p. ASSUME NEW u \in User, NEW f \in {"none", "totp", "recovery"}
      PROVE  Presented(u, f) \in Value \cup {None}
  BY DEF Presented, TypeOK
<1>. USE DEF Idle, Unread, Labels, Writers, Entrances
<1>1. CASE UpdateProfile(p)
  <2>1. req[p].pc = "new" /\ UNCHANGED store BY <1>1 DEF UpdateProfile, Start
  <2>2. PICK u \in User, ch \in Channel, a \in Address \cup {None} :
          /\ users[u] # None
          /\ a # users[u].contact[ch]
          /\ Reads(p, u,
                IF a = None THEN [NoRequest EXCEPT !.op = "UpdateProfile", !.pc = "update"]
                ELSE [NoRequest EXCEPT !.op = "UpdateProfile", !.pc = "taken", !.channel = ch,
                                       !.address = a, !.old = users[u].contact[ch]])
    BY <1>1 DEF UpdateProfile
  <2>3. CASE a = None
    <3>. DEFINE s == [NoRequest EXCEPT !.op = "UpdateProfile", !.pc = "update"]
    <3>1. s \in RequestState BY NewType
    <3>2. s.op = "UpdateProfile" /\ s.pc = "update" BY DEF NoRequest
    <3>3. Reads(p, u, s) BY <2>2, <2>3
    <3>. HIDE DEF s
    <3>4. QED BY <2>1, <2>2, <3>1, <3>2, <3>3, ReadsMoves DEF Placed
  <2>4. CASE a # None
    <3>. DEFINE s == [NoRequest EXCEPT !.op = "UpdateProfile", !.pc = "taken", !.channel = ch,
                                       !.address = a, !.old = users[u].contact[ch]]
    <3>0. users[u].contact[ch] \in Address \cup {None} BY <2>2 DEF TypeOK, Row
    <3>1. s \in RequestState BY <3>0, NewChangeType
    <3>2. /\ s.op = "UpdateProfile" /\ s.pc = "taken" /\ s.channel = ch /\ s.address = a
          /\ s.old = users[u].contact[ch] /\ a \in Address
      BY <2>4 DEF NoRequest
    <3>3. Reads(p, u, s) BY <2>2, <2>4
    <3>. HIDE DEF s
    <3>4. QED BY <2>1, <2>2, <3>1, <3>2, <3>3, ReadsMoves DEF Placed
  <2>5. QED BY <2>3, <2>4
<1>2. CASE Register(p)
  <2>1. req[p].pc = "new" /\ UNCHANGED store BY <1>2 DEF Register, Start
  <2>2. PICK u \in User, ch \in Channel, a \in Address :
          /\ users[u] = None
          /\ \A o \in InFlight : req[o].user # u
          /\ Reads(p, u, [NoRequest EXCEPT !.op = "Register", !.pc = "taken", !.channel = ch,
                                           !.address = a])
    BY <1>2 DEF Register
  <2>. DEFINE s == [NoRequest EXCEPT !.op = "Register", !.pc = "taken", !.channel = ch,
                                     !.address = a]
  <2>3. s \in RequestState BY NewType
  <2>4. s.op = "Register" /\ s.pc = "taken" /\ s.channel = ch /\ s.address = a BY DEF NoRequest
  <2>. HIDE DEF s
  <2>5. QED BY <2>1, <2>2, <2>3, <2>4, ReadsMoves DEF Placed, s
<1>3. CASE Verify(p)
  <2>1. req[p].pc = "new" /\ UNCHANGED <<store, history>> BY <1>3 DEF Verify, Start
  <2>2. PICK ch \in Channel, a \in Address :
          \/ \E i \in PendingFor(ch, a) :
               req' = [req EXCEPT ![p] =
                         [NoRequest EXCEPT !.op = "Verify", !.pc = "owner", !.channel = ch,
                            !.address = a, !.change = pending[i].id, !.old = pending[i].old,
                            !.user = pending[i].user]]
          \/ req' = [req EXCEPT ![p] = [NoRequest EXCEPT !.op = "Verify", !.pc = "holder",
                                                        !.channel = ch, !.address = a]]
    BY <1>3 DEF Verify
  <2>3. ASSUME NEW i \in PendingFor(ch, a),
               req' = [req EXCEPT ![p] =
                         [NoRequest EXCEPT !.op = "Verify", !.pc = "owner", !.channel = ch,
                            !.address = a, !.change = pending[i].id, !.old = pending[i].old,
                            !.user = pending[i].user]]
        PROVE  Moves(p)
    <3>1. i \in 1..Len(pending) BY DEF PendingFor
    <3>2. pending[i] \in Change BY <3>1 DEF TypeOK
    <3>3. PICK c \in Change : c = pending[i] BY <3>2
    <3>. DEFINE s == [NoRequest EXCEPT !.op = "Verify", !.pc = "owner", !.channel = ch,
                        !.address = a, !.change = c.id, !.old = c.old, !.user = c.user]
    <3>4. s \in RequestState BY DEF NoRequest, RequestState, Change
    <3>5. /\ s.op = "Verify" /\ s.pc = "owner" /\ s.channel = ch /\ s.address = a /\ s.row = None
          /\ s.user = c.user /\ c.user \in User /\ s.change = c.id /\ s.old = c.old
      BY DEF NoRequest, Change
    <3>e. c.channel = ch /\ c.new = a BY <3>3 DEF PendingFor
    <3>6. users[c.user] # None BY <3>1, <3>3 DEF Present
    <3>7. req'[p] = s /\ Others(p) BY <2>3, <3>3 DEF TypeOK, Others
    <3>. HIDE DEF s
    <3>8. RequestOK(s) BY <3>4, <3>5 DEF RequestOK, Placed
    <3>n. c.id # None BY Assumed DEF Change
    <3>9. Names(p) BY <2>1, <3>1, <3>3, <3>5, <3>6, <3>7, <3>e, <3>n DEF Names, store, history
    <3>10. QED BY <3>7, <3>8, <3>9 DEF Moves
  <2>4. CASE req' = [req EXCEPT ![p] = [NoRequest EXCEPT !.op = "Verify", !.pc = "holder",
                                                        !.channel = ch, !.address = a]]
    <3>. DEFINE s == [NoRequest EXCEPT !.op = "Verify", !.pc = "holder", !.channel = ch,
                                       !.address = a]
    <3>1. s \in RequestState BY NewType
    <3>2. /\ s.op = "Verify" /\ s.pc = "holder" /\ s.channel = ch /\ s.address = a /\ s.row = None
          /\ s.user = None /\ s.change = None
      BY DEF NoRequest
    <3>3. req'[p] = s /\ Others(p) BY <2>4 DEF TypeOK, Others
    <3>. HIDE DEF s
    <3>4. RequestOK(s) BY <3>1, <3>2 DEF RequestOK, Placed
    <3>5. Names(p) BY <1>0, <2>1, <3>2, <3>3 DEF Names, store, history
    <3>6. QED BY <3>3, <3>4, <3>5 DEF Moves
  <2>5. QED BY <2>2, <2>3, <2>4
<1>4. CASE ChangePassword(p)
  <2>. DEFINE s == [NoRequest EXCEPT !.op = "ChangePassword", !.pc = "password"]
  <2>1. req[p].pc = "new" /\ UNCHANGED store BY <1>4 DEF ChangePassword, Start
  <2>2. PICK u \in User : users[u] # None /\ Reads(p, u, s) BY <1>4 DEF ChangePassword
  <2>3. s \in RequestState BY NewType
  <2>4. s.op = "ChangePassword" /\ s.pc = "password" BY DEF NoRequest
  <2>. HIDE DEF s
  <2>5. QED BY <2>1, <2>2, <2>3, <2>4, ReadsMoves DEF Placed
<1>5. CASE ResetPassword(p)
  <2>. DEFINE s == [NoRequest EXCEPT !.op = "ResetPassword", !.pc = "resetCode"]
  <2>1. req[p].pc = "new" /\ UNCHANGED store BY <1>5 DEF ResetPassword, Start
  <2>2. PICK u \in User : users[u] # None /\ Reads(p, u, s) BY <1>5 DEF ResetPassword
  <2>3. s \in RequestState BY NewType
  <2>4. s.op = "ResetPassword" /\ s.pc = "resetCode" BY DEF NoRequest
  <2>. HIDE DEF s
  <2>5. QED BY <2>1, <2>2, <2>3, <2>4, ReadsMoves DEF Placed
<1>6. CASE SetupTOTP(p)
  <2>. DEFINE s == [NoRequest EXCEPT !.op = "SetupTOTP", !.pc = "stage"]
  <2>1. req[p].pc = "new" /\ UNCHANGED store BY <1>6 DEF SetupTOTP, Start
  <2>2. PICK u \in User : users[u] # None /\ Reads(p, u, s) BY <1>6 DEF SetupTOTP
  <2>3. s \in RequestState BY NewType
  <2>4. s.op = "SetupTOTP" /\ s.pc = "stage" BY DEF NoRequest
  <2>. HIDE DEF s
  <2>5. QED BY <2>1, <2>2, <2>3, <2>4, ReadsMoves DEF Placed
<1>7. CASE ConfirmTOTP(p)
  <2>. DEFINE s == [NoRequest EXCEPT !.op = "ConfirmTOTP", !.pc = "saveAll"]
  <2>1. req[p].pc = "new" /\ UNCHANGED store BY <1>7 DEF ConfirmTOTP, Start
  <2>2. PICK u \in User : /\ users[u] # None /\ Reads(p, u, s)
                          /\ validated' = validated \cup {<<u, users[u].secret>>}
    BY <1>7 DEF ConfirmTOTP
  <2>3. s \in RequestState BY NewType
  <2>4. s.op = "ConfirmTOTP" /\ s.pc = "saveAll" BY DEF NoRequest
  <2>. HIDE DEF s
  <2>5. QED BY <2>1, <2>2, <2>3, <2>4, ReadsMoves DEF Placed
<1>8. CASE DisableTOTP(p)
  <2>1. req[p].pc = "new" /\ UNCHANGED store BY <1>8 DEF DisableTOTP, Start
  <2>2. PICK u \in User, factor \in {"totp", "recovery"} :
          /\ users[u] # None
          /\ Reads(p, u, [NoRequest EXCEPT !.op = "DisableTOTP", !.factor = factor,
                            !.item = Presented(u, factor),
                            !.pc = IF factor = "totp" THEN "disable" ELSE "consume"])
    BY <1>8 DEF DisableTOTP
  <2>. DEFINE label == IF factor = "totp" THEN "disable" ELSE "consume"
              s == [NoRequest EXCEPT !.op = "DisableTOTP", !.factor = factor,
                      !.item = Presented(u, factor), !.pc = label]
  <2>3. label \in {"disable", "consume"} OBVIOUS
  <2>4. s \in RequestState
    <3>1. label \in Labels BY <2>3
    <3>. DEFINE i == Presented(u, factor)
    <3>2. i \in Value \cup {None} BY <1>p
    <3>3. factor \in {"none", "totp", "recovery"} OBVIOUS
    <3>4. s = [NoRequest EXCEPT !.op = "DisableTOTP", !.factor = factor, !.item = i, !.pc = label]
      OBVIOUS
    <3>e. "DisableTOTP" \in Writers \cup Entrances OBVIOUS
    <3>. HIDE DEF label, i, s, Labels, Writers, Entrances
    <3>5. [NoRequest EXCEPT !.op = "DisableTOTP", !.factor = factor, !.item = i, !.pc = label]
            \in RequestState
      BY <3>1, <3>2, <3>3, <3>e, NewFactorType
    <3>6. QED BY <3>4, <3>5
  <2>5. s.op = "DisableTOTP" /\ s.pc = label BY DEF NoRequest
  <2>6. Reads(p, u, s) BY <2>2
  <2>. HIDE DEF s, label
  <2>7. QED BY <2>1, <2>2, <2>3, <2>4, <2>5, <2>6, ReadsMoves DEF Placed
<1>9. CASE Login(p)
  <2>1. req[p].pc = "new" /\ UNCHANGED store BY <1>9 DEF Login, Start
  <2>2. PICK u \in User, factor \in {"none", "totp", "recovery"} :
          /\ users[u] # None /\ users[u].active
          /\ Reads(p, u, [NoRequest EXCEPT !.op = "Login", !.factor = factor,
                         !.item = Presented(u, factor),
                         !.pc = IF ~users[u].confirmed THEN "session"
                                ELSE CASE factor = "none" -> "challenge"
                                       [] factor = "totp" -> "session"
                                       [] factor = "recovery" -> "consume"])
    BY <1>9 DEF Login
  <2>. DEFINE label == IF ~users[u].confirmed THEN "session"
                       ELSE CASE factor = "none" -> "challenge"
                              [] factor = "totp" -> "session"
                              [] factor = "recovery" -> "consume"
              s == [NoRequest EXCEPT !.op = "Login", !.factor = factor,
                      !.item = Presented(u, factor), !.pc = label]
  <2>3. /\ label \in {"session", "challenge", "consume"}
        /\ label = "session" => (users[u].confirmed => factor # "none")
        /\ label = "consume" => factor = "recovery"
    OBVIOUS
  <2>4. s \in RequestState
    <3>1. label \in Labels BY <2>3
    <3>. DEFINE i == Presented(u, factor)
    <3>2. i \in Value \cup {None} BY <1>p
    <3>3. factor \in {"none", "totp", "recovery"} OBVIOUS
    <3>4. s = [NoRequest EXCEPT !.op = "Login", !.factor = factor, !.item = i, !.pc = label]
      OBVIOUS
    <3>e. "Login" \in Writers \cup Entrances OBVIOUS
    <3>. HIDE DEF label, i, s, Labels, Writers, Entrances
    <3>5. [NoRequest EXCEPT !.op = "Login", !.factor = factor, !.item = i, !.pc = label]
            \in RequestState
      BY <3>1, <3>2, <3>3, <3>e, NewFactorType
    <3>6. QED BY <3>4, <3>5
  <2>5. s.op = "Login" /\ s.pc = label /\ s.factor = factor BY DEF NoRequest
  <2>6. Reads(p, u, s) BY <2>2
  <2>. HIDE DEF s, label
  <2>7. QED BY <2>1, <2>2, <2>3, <2>4, <2>5, <2>6, ReadsMoves DEF Placed
<1>10. CASE MagicLinkVerify(p)
  <2>. DEFINE s == [NoRequest EXCEPT !.op = "MagicLinkVerify", !.pc = "link"]
  <2>1. req[p].pc = "new" /\ UNCHANGED store BY <1>10 DEF MagicLinkVerify, Start
  <2>2. PICK u \in User : users[u] # None /\ users[u].active /\ Reads(p, u, s)
    BY <1>10 DEF MagicLinkVerify, TypeOK
  <2>3. s \in RequestState BY NewType
  <2>4. s.op = "MagicLinkVerify" /\ s.pc = "link" BY DEF NoRequest
  <2>. HIDE DEF s
  <2>5. QED BY <2>1, <2>2, <2>3, <2>4, ReadsMoves DEF Placed
<1>11. CASE VerifyMFA(p)
  <2>1. /\ req[p].pc = "new"
        /\ UNCHANGED <<users, pending, code, oldCode, mailed, recovery, history>>
    BY <1>11 DEF VerifyMFA, Start
  <2>2. PICK c \in challenge, factor \in {"totp", "recovery"} :
          req' = [req EXCEPT ![p] = [NoRequest EXCEPT !.op = "VerifyMFA", !.pc = "redeem",
                                                      !.user = c.user, !.factor = factor]]
    BY <1>11 DEF VerifyMFA
  <2>. DEFINE s == [NoRequest EXCEPT !.op = "VerifyMFA", !.pc = "redeem", !.user = c.user,
                                     !.factor = factor]
  <2>3. c.user \in User /\ users[c.user] # None BY DEF TypeOK, Present
  <2>4. s \in RequestState BY <2>3 DEF NoRequest, RequestState
  <2>5. /\ s.op = "VerifyMFA" /\ s.pc = "redeem" /\ s.user = c.user /\ s.row = None
        /\ s.factor \in {"totp", "recovery"}
    BY DEF NoRequest
  <2>6. req'[p] = s /\ Others(p) BY <2>2 DEF TypeOK, Others
  <2>. HIDE DEF s
  <2>7. RequestOK(s) BY <2>3, <2>4, <2>5 DEF RequestOK, Placed
  <2>8. Names(p) BY <2>1, <2>3, <2>5, <2>6 DEF Names, history
  <2>9. QED BY <2>6, <2>7, <2>8 DEF Moves
<1>12. QED
  BY <1>1, <1>2, <1>3, <1>4, <1>5, <1>6, <1>7, <1>8, <1>9, <1>10, <1>11 DEF Begin

\* Every step of a request is of one of the four kinds.
LEMMA RequestStep ==
  ASSUME TypeOK, Present, NEW p \in Request, Begin(p) \/ Continue(p) \/ Fail(p)
  PROVE  Moves(p)
BY BeginMoves, ContinueMoves, EndsMoves DEF Fail

-----------------------------------------------------------------------------
(* Which actions write which table. *)

Tables(p) ==
    /\ users' = users \/ Writing(p) \/ SaveUser(p)
    /\ pending' = pending \/ SavePending(p) \/ MarkApplied(p)
    /\ code' = code \/ IssueCode(p) \/ ConfirmNew(p)
    /\ oldCode' = oldCode \/ IssueOldCode(p) \/ ConfirmOld(p)
    /\ mailed' = mailed \/ ConfirmReset(p) \/ ConsumeLink(p)
    /\ recovery' = recovery \/ SaveAll(p) \/ DeleteAll(p) \/ Consume(p)
    /\ challenge' \subseteq challenge \/ IssueChallenge(p)
    /\ proved' = proved \/ ConfirmNew(p)
    /\ validated' = validated \/ ConfirmTOTP(p)
    /\ spent' = spent \/ Consume(p)
    /\ superseded' = superseded \/ SavePending(p)

\* No action writes another table.
LEMMA TableStep ==
  ASSUME NEW p \in Request, Begin(p) \/ Continue(p) \/ Fail(p)
  PROVE  Tables(p)
<1>1. CASE UpdateProfile(p) BY <1>1 DEF UpdateProfile, Tables, store, history
<1>2. CASE Register(p) BY <1>2 DEF Register, Tables, store, history
<1>3. CASE Verify(p) BY <1>3 DEF Verify, Tables, store, history
<1>4. CASE ChangePassword(p) BY <1>4 DEF ChangePassword, Tables, store, history
<1>5. CASE ResetPassword(p) BY <1>5 DEF ResetPassword, Tables, store, history
<1>6. CASE SetupTOTP(p) BY <1>6 DEF SetupTOTP, Tables, store, history
<1>7. CASE ConfirmTOTP(p) BY <1>7 DEF ConfirmTOTP, Tables, store, history
<1>8. CASE DisableTOTP(p) BY <1>8 DEF DisableTOTP, Tables, store, history
<1>9. CASE Login(p) BY <1>9 DEF Login, Tables, store, history
<1>10. CASE MagicLinkVerify(p) BY <1>10 DEF MagicLinkVerify, Tables, store, history
<1>11. CASE VerifyMFA(p) BY <1>11 DEF VerifyMFA, Tables, store, history
<1>12. CASE CheckTaken(p) BY <1>12 DEF CheckTaken, Tables, store, history
<1>13. CASE CheckPromised(p) BY <1>13 DEF CheckPromised, Tables, store, history
<1>14. CASE SavePending(p) BY <1>14 DEF SavePending, Tables, store, history
<1>15. CASE IssueCode(p) BY <1>15 DEF IssueCode, Tables, store, history
<1>16. CASE IssueOldCode(p) BY <1>16 DEF IssueOldCode, Tables, store, history
<1>17. CASE WriteProfile(p) BY <1>17 DEF WriteProfile, Tables, store, history, Writing, Update
<1>18. CASE UpdateRefused(p) BY <1>18 DEF UpdateRefused, Tables, store, history
<1>19. CASE SaveUser(p) BY <1>19 DEF SaveUser, Tables, store, history
<1>20. CASE ReadOwner(p) BY <1>20 DEF ReadOwner, Tables, store, history
<1>21. CASE ReadHolder(p) BY <1>21 DEF ReadHolder, Tables, store, history
<1>22. CASE ConfirmOld(p) BY <1>22 DEF ConfirmOld, Tables, store, history
<1>23. CASE ConfirmNew(p) BY <1>23 DEF ConfirmNew, Tables, store, history
<1>24. CASE ApplyContact(p) BY <1>24 DEF ApplyContact, Tables, store, history, Writing, Update
<1>25. CASE MarkApplied(p) BY <1>25 DEF MarkApplied, Tables, store, history
<1>26. CASE ConfirmReset(p) BY <1>26 DEF ConfirmReset, Tables, store, history
<1>27. CASE WritePassword(p) BY <1>27 DEF WritePassword, Tables, store, history, Writing, Update
<1>28. CASE StageTOTP(p) BY <1>28 DEF StageTOTP, Tables, store, history, Writing, Update
<1>29. CASE SaveAll(p) BY <1>29 DEF SaveAll, Tables, store, history
<1>30. CASE EnableTOTP(p) BY <1>30 DEF EnableTOTP, Tables, store, history, Writing, Update
<1>31. CASE ClearTOTP(p) BY <1>31 DEF ClearTOTP, Tables, store, history, Writing, Update
<1>32. CASE DeleteAll(p) BY <1>32 DEF DeleteAll, Tables, store, history
<1>33. CASE ConsumeLink(p) BY <1>33 DEF ConsumeLink, Tables, store, history
<1>34. CASE IssueChallenge(p) BY <1>34 DEF IssueChallenge, Tables, store, history
<1>35. CASE Redeem(p) BY <1>35 DEF Redeem, Tables, store, history
<1>36. CASE Consume(p) BY <1>36 DEF Consume, Tables, store, history
<1>37. CASE Issue(p) BY <1>37 DEF Issue, Tables, store, history
<1>38. CASE Fail(p) BY <1>38 DEF Fail, Tables, store, history
<1>39. QED
  BY <1>1, <1>2, <1>3, <1>4, <1>5, <1>6, <1>7, <1>8, <1>9, <1>10, <1>11, <1>12, <1>13, <1>14,
     <1>15, <1>16, <1>17, <1>18, <1>19, <1>20, <1>21, <1>22, <1>23, <1>24, <1>25, <1>26, <1>27,
     <1>28, <1>29, <1>30, <1>31, <1>32, <1>33, <1>34, <1>35, <1>36, <1>37, <1>38
  DEF Begin, Continue

\* What writing a copy back does: of the user's columns it changes the secret,
\* which it sets and confirms in that order, or the contact that was verified.
Writes(p, row) ==
    LET u == req[p].user  ch == req[p].channel  old == req[p].row IN
    /\ u \in User /\ old \in Row /\ row \in Row
    /\ users' = [users EXCEPT ![u] = row]
    /\ seen' = Sees(u, row)
    /\ Holding(p, u) /\ req[p].op # "Register" /\ req[p].pc \notin {"mark", "deleteAll"}
    /\ req'[p].pc \in {"ended", "mark", "deleteAll"}
    /\ row.confirmed =>
          row.secret = old.secret /\ (old.confirmed \/ req[p].pc = "confirm")
    /\ req'[p].pc = "deleteAll" => ~row.confirmed
    /\ \/ row.contact = old.contact
       \/ /\ req[p].op = "Verify" /\ req[p].pc = "apply" /\ req[p].change # None
          /\ ch \in Channel
          /\ row.contact = [old.contact EXCEPT ![ch] = req[p].address]
    /\ UNCHANGED <<pending, code, oldCode, mailed, recovery, challenge, proved, validated, spent,
                   superseded, raced>>

LEMMA RowType ==
  ASSUME NEW row \in Row
  PROVE  /\ row.contact \in [Channel -> Address \cup {None}]
         /\ row.verified \in [Channel -> BOOLEAN]
         /\ row.secret \in Value \cup {None} /\ row.confirmed \in BOOLEAN /\ row.active \in BOOLEAN
BY DEF Row

Applied(row, old, ch, a) == row = [old EXCEPT !.contact[ch] = a, !.verified[ch] = TRUE]

LEMMA AppliedRow ==
  ASSUME NEW old \in Row, NEW ch \in Channel, NEW a \in Address \cup {None},
         NEW row, Applied(row, old, ch, a)
  PROVE  /\ row \in Row
         /\ row.secret = old.secret /\ row.confirmed = old.confirmed
         /\ row.contact = [old.contact EXCEPT ![ch] = a]
<1>1. /\ old.contact \in [Channel -> Address \cup {None}] /\ old.verified \in [Channel -> BOOLEAN]
      /\ old = [contact |-> old.contact, verified |-> old.verified, secret |-> old.secret,
                confirmed |-> old.confirmed, active |-> old.active]
  BY DEF Row
<1>2. row = [contact |-> [old.contact EXCEPT ![ch] = a],
             verified |-> [old.verified EXCEPT ![ch] = TRUE], secret |-> old.secret,
             confirmed |-> old.confirmed, active |-> old.active]
  BY <1>1 DEF Applied
<1>3. /\ [old.contact EXCEPT ![ch] = a] \in [Channel -> Address \cup {None}]
      /\ [old.verified EXCEPT ![ch] = TRUE] \in [Channel -> BOOLEAN]
  BY <1>1
<1>4. QED BY <1>2, <1>3 DEF Row

LEMMA WriteStep ==
  ASSUME TypeOK, Present, NEW p \in Request, Writing(p)
  PROVE  \E row \in Row : Writes(p, row)
<1>. DEFINE r == req[p]  old == r.row
<1>0. RequestOK(r) /\ r \in RequestState BY DEF TypeOK, RequestOK
<1>1. r.pc \in {"update", "apply", "password", "stage", "confirm", "disable"}
  BY DEF Writing, WriteProfile, ApplyContact, WritePassword, StageTOTP, EnableTOTP, ClearTOTP, At
<1>2. Placed(r.op, r.pc) /\ r.user \in User
  BY <1>0, <1>1 DEF RequestOK, Idle
<1>3. r.op # "Register" /\ r.op \in Writers BY <1>1, <1>2 DEF Placed, Writers
<1>4. old \in Row BY <1>0, <1>1, <1>3 DEF RequestOK, Idle, Unread
<1>5. Holding(p, r.user) BY <1>1, <1>3 DEF Holding
<1>6. ASSUME NEW row \in Row, NEW label \in {"ended", "mark", "deleteAll"}, Update(p, row, label)
      PROVE  /\ users' = [users EXCEPT ![r.user] = row] /\ seen' = Sees(r.user, row)
             /\ req'[p].pc = label
             /\ UNCHANGED <<code, oldCode, mailed, recovery, challenge, proved, validated, spent,
                            superseded, raced>>
  <2>1. CASE label = "ended" BY <1>6, <2>1 DEF Update, Ended, NoRequest, TypeOK
  <2>2. CASE label # "ended" BY <1>0, <1>6, <2>2 DEF Update, Goto, TypeOK, RequestState
  <2>3. QED BY <2>1, <2>2
<1>7. CASE WriteProfile(p) \/ WritePassword(p)
  <2>1. Update(p, old, "ended") /\ UNCHANGED pending BY <1>7 DEF WriteProfile, WritePassword
  <2>2. Writes(p, old) BY <1>1, <1>2, <1>3, <1>4, <1>5, <1>6, <2>1, RowType DEF Writes
  <2>3. QED BY <1>4, <2>2
<1>8. CASE StageTOTP(p)
  <2>. DEFINE row == [old EXCEPT !.secret = p, !.confirmed = FALSE]
  <2>1. Update(p, row, "ended") /\ UNCHANGED pending BY <1>8 DEF StageTOTP
  <2>2. row \in Row /\ ~row.confirmed /\ row.contact = old.contact
    BY <1>4 DEF Row, Value
  <2>. HIDE DEF row
  <2>3. Writes(p, row) BY <1>1, <1>2, <1>3, <1>4, <1>5, <1>6, <2>1, <2>2 DEF Writes
  <2>4. QED BY <2>2, <2>3
<1>9. CASE EnableTOTP(p)
  <2>. DEFINE row == [old EXCEPT !.confirmed = TRUE]
  <2>1. Update(p, row, "ended") /\ UNCHANGED pending /\ r.pc = "confirm" BY <1>9 DEF EnableTOTP, At
  <2>2. row \in Row /\ row.secret = old.secret /\ row.contact = old.contact
    BY <1>4 DEF Row
  <2>. HIDE DEF row
  <2>3. Writes(p, row) BY <1>1, <1>2, <1>3, <1>4, <1>5, <1>6, <2>1, <2>2 DEF Writes
  <2>4. QED BY <2>2, <2>3
<1>10. CASE ClearTOTP(p)
  <2>. DEFINE row == [old EXCEPT !.secret = None, !.confirmed = FALSE]
  <2>1. Update(p, row, "deleteAll") /\ UNCHANGED pending BY <1>10 DEF ClearTOTP
  <2>2. row \in Row /\ ~row.confirmed /\ row.contact = old.contact
    BY <1>4 DEF Row, Value
  <2>. HIDE DEF row
  <2>3. Writes(p, row) BY <1>1, <1>2, <1>3, <1>4, <1>5, <1>6, <2>1, <2>2 DEF Writes
  <2>4. QED BY <2>2, <2>3
<1>11. CASE ApplyContact(p)
  <2>. DEFINE a == IF r.change # None THEN r.address ELSE r.row.contact[r.channel]
              label == IF r.change # None THEN "mark" ELSE "ended"
              row == [old EXCEPT !.contact[r.channel] = a, !.verified[r.channel] = TRUE]
  <2>1. Update(p, row, label) /\ UNCHANGED pending /\ r.pc = "apply"
    BY <1>11 DEF ApplyContact, At
  <2>2. r.op = "Verify" BY <1>2, <2>1 DEF Placed
  <2>3. r.channel \in Channel /\ r.address \in Address BY <1>0, <2>1, <2>2 DEF RequestOK, Idle
  <2>4. a \in Address \cup {None} BY <1>4, <2>3, RowType
  <2>5. label \in {"ended", "mark", "deleteAll"} /\ label # "deleteAll" OBVIOUS
  <2>6. r.change = None => a = old.contact[r.channel] OBVIOUS
  <2>7. r.change # None => a = r.address OBVIOUS
  <2>. HIDE DEF a, label
  <2>8. Applied(row, old, r.channel, a) BY DEF Applied
  <2>. HIDE DEF row
  <2>9. row \in Row BY <1>4, <2>3, <2>4, <2>8, AppliedRow
  <2>10. /\ row.secret = old.secret /\ row.confirmed = old.confirmed
         /\ row.contact = [old.contact EXCEPT ![r.channel] = a]
    BY <1>4, <2>3, <2>4, <2>8, AppliedRow
  <2>11. \/ row.contact = old.contact
         \/ r.change # None /\ row.contact = [old.contact EXCEPT ![r.channel] = r.address]
    <3>1. CASE r.change = None
      <4>1. a = old.contact[r.channel] BY <2>6, <3>1
      <4>2. QED BY <1>4, <2>3, <2>10, <4>1, RowType
    <3>2. CASE r.change # None BY <2>7, <2>10, <3>2
    <3>3. QED BY <3>1, <3>2
  <2>12. req'[p].pc = label /\ label # "deleteAll" BY <1>6, <2>1, <2>5, <2>9
  <2>13. Writes(p, row)
    BY <1>1, <1>2, <1>3, <1>4, <1>5, <1>6, <2>1, <2>2, <2>3, <2>5, <2>9, <2>10, <2>11, <2>12
    DEF Writes
  <2>14. QED BY <2>9, <2>13
<1>12. QED BY <1>7, <1>8, <1>9, <1>10, <1>11 DEF Writing

\* A registration inserts a row without MFA, for a user who had none.
Inserts(p, row) ==
    LET u == req[p].user IN
    /\ u \in User /\ row \in Row /\ ~row.confirmed
    /\ req[p].pc = "save" /\ req[p].op = "Register" /\ users[u] = None
    /\ users' = [users EXCEPT ![u] = row]
    /\ UNCHANGED <<pending, code, oldCode, mailed, recovery, challenge, proved, validated, spent,
                   superseded, raced, seen>>

LEMMA InsertStep ==
  ASSUME TypeOK, Present, NEW p \in Request, SaveUser(p), users' # users
  PROVE  \E row \in Row : Inserts(p, row)
<1>. DEFINE r == req[p]  row == NewUser(r.channel, r.address)
<1>1. RequestOK(r) /\ r.pc = "save" BY DEF TypeOK, SaveUser, At
<1>2. Placed(r.op, r.pc) BY <1>1 DEF RequestOK, Idle
<1>3. r.op = "Register" BY <1>1, <1>2 DEF Placed
<1>4. r.user \in User /\ r.channel \in Channel /\ r.address \in Address
  BY <1>1, <1>3 DEF RequestOK, Idle
<1>5. users[r.user] = None BY <1>1, <1>3 DEF Present
<1>6. row \in Row /\ ~row.confirmed BY <1>4 DEF NewUser, Row
<1>7. /\ users' = [users EXCEPT ![r.user] = row]
      /\ UNCHANGED <<pending, code, oldCode, mailed, recovery, challenge, proved, validated, spent,
                   superseded, raced, seen>>
  BY DEF SaveUser
<1>8. QED BY <1>1, <1>3, <1>4, <1>5, <1>6, <1>7 DEF Inserts

\* What a step makes of the rows a request has seen.
SeenStep(p) ==
    \/ seen' = seen
    \/ \E S \in SUBSET Row : seen' = [seen EXCEPT ![p] = S]
    \/ Writing(p)

LEMMA SeenChanges ==
  ASSUME TypeOK, Present, NEW p \in Request, Begin(p) \/ Continue(p) \/ Fail(p)
  PROVE  SeenStep(p)
<1>1. ASSUME Ends(p) PROVE SeenStep(p) BY <1>1 DEF Ends, SeenStep
<1>2. ASSUME NEW u \in User, NEW r, Reads(p, u, r), users[u] # None \/ r.op \notin Entrances
      PROVE  SeenStep(p)
  <2>1. CASE r.op \in Entrances
    <3>1. users[u] \in Row BY <1>2, <2>1 DEF TypeOK
    <3>2. {users[u]} \in SUBSET Row BY <3>1
    <3>3. seen' = [seen EXCEPT ![p] = {users[u]}] BY <1>2, <2>1 DEF Reads
    <3>4. QED BY <3>2, <3>3 DEF SeenStep
  <2>2. CASE r.op \notin Entrances BY <1>2, <2>2 DEF Reads, SeenStep
  <2>3. QED BY <2>1, <2>2
<1>3. CASE Register(p)
  <2>1. PICK u \in User, ch \in Channel, a \in Address :
          Reads(p, u, [NoRequest EXCEPT !.op = "Register", !.pc = "taken", !.channel = ch,
                                        !.address = a])
    BY <1>3 DEF Register
  <2>. DEFINE s == [NoRequest EXCEPT !.op = "Register", !.pc = "taken", !.channel = ch,
                                     !.address = a]
  <2>2. s.op \notin Entrances BY DEF NoRequest, Entrances
  <2>3. Reads(p, u, s) BY <2>1
  <2>. HIDE DEF s
  <2>4. QED BY <1>2, <2>2, <2>3
<1>4. CASE UpdateProfile(p) BY <1>4, <1>1, <1>2 DEF UpdateProfile, FindByContact, TypeOK
<1>5. CASE Verify(p) BY <1>5, <1>1 DEF Verify, SeenStep, history
<1>6. CASE ChangePassword(p) BY <1>6, <1>1, <1>2 DEF ChangePassword, FindByContact, TypeOK
<1>7. CASE ResetPassword(p) BY <1>7, <1>1, <1>2 DEF ResetPassword, FindByContact, TypeOK
<1>8. CASE SetupTOTP(p) BY <1>8, <1>1, <1>2 DEF SetupTOTP, FindByContact, TypeOK
<1>9. CASE ConfirmTOTP(p) BY <1>9, <1>1, <1>2 DEF ConfirmTOTP, FindByContact, TypeOK
<1>10. CASE DisableTOTP(p) BY <1>10, <1>1, <1>2 DEF DisableTOTP, FindByContact, TypeOK
<1>11. CASE Login(p) BY <1>11, <1>1, <1>2 DEF Login, FindByContact, TypeOK
<1>12. CASE MagicLinkVerify(p) BY <1>12, <1>1, <1>2 DEF MagicLinkVerify, FindByContact, TypeOK
<1>13. CASE VerifyMFA(p) BY <1>13, <1>1 DEF VerifyMFA, SeenStep, history
<1>14. CASE CheckTaken(p) BY <1>14, <1>1 DEF CheckTaken, SeenStep, history
<1>15. CASE CheckPromised(p) BY <1>15, <1>1 DEF CheckPromised, SeenStep, history
<1>16. CASE SavePending(p) BY <1>16, <1>1 DEF SavePending, SeenStep, history
<1>17. CASE IssueCode(p) BY <1>17, <1>1 DEF IssueCode, SeenStep, history
<1>18. CASE IssueOldCode(p) BY <1>18, <1>1 DEF IssueOldCode, SeenStep, history
<1>19. CASE WriteProfile(p) BY <1>19 DEF Writing, SeenStep
<1>20. CASE UpdateRefused(p) BY <1>20, <1>1 DEF UpdateRefused, SeenStep, history
<1>21. CASE SaveUser(p) BY <1>21, <1>1 DEF SaveUser, SeenStep, history
<1>22. CASE ReadOwner(p)
  <2>1. req[p].pc = "owner" /\ RequestOK(req[p]) BY <1>22 DEF ReadOwner, At, TypeOK
  <2>2. req[p].user \in User /\ Placed(req[p].op, "owner") BY <2>1 DEF RequestOK, Idle
  <2>3. users[req[p].user] # None BY <2>2 DEF Present, Placed
  <2>4. QED BY <1>22, <1>1, <1>2, <2>2, <2>3 DEF ReadOwner
<1>23. CASE ReadHolder(p) BY <1>23, <1>1, <1>2 DEF ReadHolder, FindByContact, TypeOK
<1>24. CASE ConfirmOld(p) BY <1>24, <1>1 DEF ConfirmOld, SeenStep, history
<1>25. CASE ConfirmNew(p) BY <1>25, <1>1 DEF ConfirmNew, SeenStep, history
<1>26. CASE ApplyContact(p) BY <1>26 DEF Writing, SeenStep
<1>27. CASE MarkApplied(p) BY <1>27, <1>1 DEF MarkApplied, SeenStep, history
<1>28. CASE ConfirmReset(p) BY <1>28, <1>1 DEF ConfirmReset, SeenStep, history
<1>29. CASE WritePassword(p) BY <1>29 DEF Writing, SeenStep
<1>30. CASE StageTOTP(p) BY <1>30 DEF Writing, SeenStep
<1>31. CASE SaveAll(p) BY <1>31, <1>1 DEF SaveAll, SeenStep, history
<1>32. CASE EnableTOTP(p) BY <1>32 DEF Writing, SeenStep
<1>33. CASE ClearTOTP(p) BY <1>33 DEF Writing, SeenStep
<1>34. CASE DeleteAll(p) BY <1>34, <1>1 DEF DeleteAll, SeenStep, history
<1>35. CASE ConsumeLink(p) BY <1>35, <1>1 DEF ConsumeLink, SeenStep, history
<1>36. CASE IssueChallenge(p) BY <1>36, <1>1 DEF IssueChallenge, SeenStep, history
<1>37. CASE Redeem(p)
  <2>1. req[p].pc = "redeem" /\ RequestOK(req[p]) BY <1>37 DEF Redeem, At, TypeOK
  <2>2. req[p].user \in User /\ Placed(req[p].op, "redeem") BY <2>1 DEF RequestOK, Idle
  <2>3. users[req[p].user] # None BY <2>2 DEF Present, Placed
  <2>4. QED BY <1>37, <1>1, <1>2, <2>2, <2>3 DEF Redeem
<1>38. CASE Consume(p) BY <1>38, <1>1 DEF Consume, SeenStep, history
<1>39. CASE Issue(p) BY <1>39, <1>1 DEF Issue, SeenStep, history
<1>40. CASE Fail(p) BY <1>40, <1>1 DEF Fail, SeenStep, history
<1>41. QED
  BY <1>3, <1>4, <1>5, <1>6, <1>7, <1>8, <1>9, <1>10, <1>11, <1>12, <1>13, <1>14, <1>15, <1>16,
     <1>17, <1>18, <1>19, <1>20, <1>21, <1>22, <1>23, <1>24, <1>25, <1>26, <1>27, <1>28, <1>29,
     <1>30, <1>31, <1>32, <1>33, <1>34, <1>35, <1>36, <1>37, <1>38, <1>39, <1>40
  DEF Begin, Continue

-----------------------------------------------------------------------------
(* Types. *)

\* What Sees makes of the rows seen.
LEMMA SeesType ==
  ASSUME TypeOK, NEW u \in User, NEW row \in Row
  PROVE  /\ Sees(u, row) \in [Request -> SUBSET Row]
         /\ \A o \in Request : seen[o] \subseteq Sees(u, row)[o]
BY DEF Sees, TypeOK

\* The entry that is removed leaves the others in their order.
LEMMA Removed ==
  ASSUME pending \in Seq(Change), NEW p \in Request, MarkApplied(p)
  PROVE  /\ pending' \in Seq(Change)
         /\ \A j \in 1..Len(pending') : \E i \in 1..Len(pending) : pending'[j] = pending[i]
         /\ \A i \in 1..Len(pending) : pending[i].id # req[p].change =>
               \E j \in 1..Len(pending') : pending'[j] = pending[i]
<1>1. CASE UNCHANGED pending BY <1>1
<1>2. CASE \E i \in 1..Len(pending) :
             /\ pending[i].id = req[p].change
             /\ pending' = [j \in 1..Len(pending)-1 |-> IF j < i THEN pending[j] ELSE pending[j+1]]
  <2>1. PICK i \in 1..Len(pending) :
             /\ pending[i].id = req[p].change
             /\ pending' = [j \in 1..Len(pending)-1 |-> IF j < i THEN pending[j] ELSE pending[j+1]]
    BY <1>2
  <2>2. Len(pending) \in Nat /\ Len(pending) - 1 \in Nat OBVIOUS
  <2>3. \A j \in 1..Len(pending)-1 : pending'[j] \in Change
    <3>1. SUFFICES ASSUME NEW j \in 1..Len(pending)-1 PROVE pending'[j] \in Change OBVIOUS
    <3>2. j \in 1..Len(pending) /\ j + 1 \in 1..Len(pending) BY <2>2
    <3>3. QED BY <2>1, <3>2
  <2>4. pending' \in [1..Len(pending)-1 -> Change] BY <2>1, <2>3
  <2>5. pending' \in Seq(Change) /\ Len(pending') = Len(pending) - 1 BY <2>2, <2>4
  <2>6. ASSUME NEW j \in 1..Len(pending')
        PROVE  \E k \in 1..Len(pending) : pending'[j] = pending[k]
    <3>1. j \in 1..Len(pending) /\ j + 1 \in 1..Len(pending) BY <2>2, <2>5
    <3>2. QED BY <2>1, <2>5, <3>1
  <2>7. ASSUME NEW k \in 1..Len(pending), pending[k].id # req[p].change
        PROVE  \E j \in 1..Len(pending') : pending'[j] = pending[k]
    <3>1. k # i BY <2>1, <2>7
    <3>2. CASE k < i
      <4>1. k \in 1..Len(pending') BY <2>2, <2>5, <3>2
      <4>2. QED BY <2>1, <2>5, <3>2, <4>1
    <3>3. CASE k > i
      <4>1. k - 1 \in 1..Len(pending') /\ ~(k - 1 < i) /\ (k - 1) + 1 = k BY <2>2, <2>5, <3>3
      <4>2. pending'[k-1] = pending[(k-1)+1] BY <2>1, <2>5, <4>1
      <4>3. QED BY <4>1, <4>2
    <3>4. QED BY <3>1, <3>2, <3>3
  <2>8. QED BY <2>5, <2>6, <2>7
<1>3. QED BY <1>1, <1>2 DEF MarkApplied

\* The change that is saved comes last.
LEMMA Saved ==
  ASSUME TypeOK, NEW p \in Request, SavePending(p)
  PROVE  LET c == [id |-> p, user |-> req[p].user, channel |-> req[p].channel,
                   old |-> req[p].old, new |-> req[p].address]
         IN  /\ c \in Change /\ req[p].op = "UpdateProfile"
             /\ pending' = Append(pending, c) /\ pending' \in Seq(Change)
             /\ Len(pending') = Len(pending) + 1
             /\ \A i \in 1..Len(pending) : i \in 1..Len(pending') /\ pending'[i] = pending[i]
             /\ \A i \in 1..Len(pending') : i \notin 1..Len(pending) => pending'[i] = c
<1>. DEFINE r == req[p]
            c == [id |-> p, user |-> r.user, channel |-> r.channel, old |-> r.old,
                  new |-> r.address]
<1>1. RequestOK(r) /\ r.pc = "pend" /\ r \in RequestState
  BY DEF TypeOK, SavePending, At, RequestOK
<1>2. Placed(r.op, "pend") BY <1>1 DEF RequestOK, Idle
<1>3. r.op = "UpdateProfile" BY <1>2 DEF Placed
<1>4. r.user \in User /\ r.channel \in Channel /\ r.address \in Address
  BY <1>1, <1>3 DEF RequestOK, Idle
<1>5. r.old \in Address \cup {None} BY <1>1 DEF RequestState
<1>6. c \in Change BY <1>4, <1>5 DEF Change
<1>7. pending' = Append(pending, c) /\ pending \in Seq(Change) BY DEF SavePending, TypeOK
<1>. HIDE DEF c
<1>8. /\ pending' \in Seq(Change) /\ Len(pending) \in Nat /\ Len(pending') = Len(pending) + 1
      /\ pending'[Len(pending)+1] = c
      /\ \A i \in 1..Len(pending) : pending'[i] = pending[i]
  BY <1>6, <1>7
<1>9. \A i \in 1..Len(pending) : i \in 1..Len(pending') BY <1>8
<1>10. \A i \in 1..Len(pending') : i \notin 1..Len(pending) => i = Len(pending) + 1 BY <1>8
<1>11. QED BY <1>3, <1>6, <1>7, <1>8, <1>9, <1>10 DEF c

\* Where a request is, it has a user, a channel and an address.
LEMMA AddressOf ==
  ASSUME TypeOK, NEW p \in Request,
         req[p].pc \in {"issue", "issueOld", "oldCode", "newCode", "apply"}
  PROVE  /\ req[p].user \in User /\ req[p].channel \in Channel /\ req[p].address \in Address
         /\ req[p].pc \in {"issueOld", "oldCode"} => req[p].old \in Address
         /\ req[p].op \in {"Register", "UpdateProfile", "Verify"}
<1>1. RequestOK(req[p]) /\ req[p].pc \notin Idle /\ req[p].pc # "update" BY DEF TypeOK, Idle
<1>2. Placed(req[p].op, req[p].pc) BY <1>1 DEF RequestOK
<1>3. req[p].op \in {"Register", "UpdateProfile", "Verify"} BY <1>2 DEF Placed
<1>4. QED BY <1>1, <1>3 DEF RequestOK

LEMMA UserOf ==
  ASSUME TypeOK, NEW p \in Request, req[p].pc \notin Idle, req[p].pc # "holder"
  PROVE  req[p].user \in User
<1>1. RequestOK(req[p]) BY DEF TypeOK
<1>2. QED BY <1>1 DEF RequestOK

LEMMA TypeStep ==
  ASSUME TypeOK, Present, NEW p \in Request, Begin(p) \/ Continue(p) \/ Fail(p)
  PROVE  TypeOK'
<1>1. Moves(p) /\ Tables(p) /\ SeenStep(p) BY RequestStep, TableStep, SeenChanges
<1>2. users' \in [User -> Row \cup {None}]
  <2>1. CASE Writing(p)
    <3>1. PICK row \in Row : Writes(p, row) BY <2>1, WriteStep
    <3>2. QED BY <3>1 DEF Writes, TypeOK
  <2>2. CASE SaveUser(p) /\ users' # users
    <3>1. PICK row \in Row : Inserts(p, row) BY <2>2, InsertStep
    <3>2. QED BY <3>1 DEF Inserts, TypeOK
  <2>3. QED BY <1>1, <2>1, <2>2 DEF Tables, TypeOK
<1>3. pending' \in Seq(Change)
  BY <1>1, Saved, Removed DEF Tables, TypeOK
<1>4. code' \in [User -> [Channel -> Address \cup {None}]]
  <2>1. CASE IssueCode(p)
    <3>1. /\ req[p].pc = "issue"
          /\ code' = [code EXCEPT ![req[p].user][req[p].channel] = req[p].address]
      BY <2>1 DEF IssueCode, At
    <3>2. QED BY <3>1, AddressOf DEF TypeOK
  <2>2. CASE ConfirmNew(p)
    <3>1. \/ code' = code
          \/ req[p].pc = "newCode" /\ code' = [code EXCEPT ![req[p].user][req[p].channel] = None]
      BY <2>2 DEF ConfirmNew, At
    <3>2. CASE code' = code BY <3>2 DEF TypeOK
    <3>3. CASE req[p].pc = "newCode" /\ code' = [code EXCEPT ![req[p].user][req[p].channel] = None]
      BY <3>3, AddressOf DEF TypeOK
    <3>4. QED BY <3>1, <3>2, <3>3
  <2>3. QED BY <1>1, <2>1, <2>2 DEF Tables, TypeOK
<1>5. oldCode' \in [User -> [Channel -> Address \cup {None}]]
  <2>1. CASE IssueOldCode(p)
    <3>1. /\ req[p].pc = "issueOld"
          /\ oldCode' = [oldCode EXCEPT ![req[p].user][req[p].channel] = req[p].old]
      BY <2>1 DEF IssueOldCode, At
    <3>2. QED BY <3>1, AddressOf DEF TypeOK
  <2>2. CASE ConfirmOld(p)
    <3>1. \/ oldCode' = oldCode
          \/ /\ req[p].pc = "oldCode"
             /\ oldCode' = [oldCode EXCEPT ![req[p].user][req[p].channel] = None]
      BY <2>2 DEF ConfirmOld, At
    <3>2. CASE oldCode' = oldCode BY <3>2 DEF TypeOK
    <3>3. CASE /\ req[p].pc = "oldCode"
               /\ oldCode' = [oldCode EXCEPT ![req[p].user][req[p].channel] = None]
      BY <3>3, AddressOf DEF TypeOK
    <3>4. QED BY <3>1, <3>2, <3>3
  <2>3. QED BY <1>1, <2>1, <2>2 DEF Tables, TypeOK
<1>6. mailed' \in [reset : SUBSET User, link : SUBSET User]
  <2>1. mailed \in [reset : SUBSET User, link : SUBSET User] BY DEF TypeOK
  <2>2. CASE ConfirmReset(p) BY <2>1, <2>2 DEF ConfirmReset
  <2>3. CASE ConsumeLink(p) BY <2>1, <2>3 DEF ConsumeLink
  <2>4. QED BY <1>1, <2>1, <2>2, <2>3 DEF Tables
<1>7. recovery' \in [User -> [set : Value \cup {None}, left : BOOLEAN]]
  <2>1. CASE SaveAll(p) BY <2>1 DEF SaveAll, TypeOK, Value
  <2>2. CASE DeleteAll(p) BY <2>2 DEF DeleteAll, TypeOK
  <2>3. CASE Consume(p)
    <3>1. recovery' = recovery \/ recovery' = [recovery EXCEPT ![req[p].user].left = FALSE]
      BY <2>3 DEF Consume
    <3>2. req[p].user \in User BY <2>3, UserOf DEF Consume, At, Idle
    <3>3. CASE recovery' = [recovery EXCEPT ![req[p].user].left = FALSE]
      <4>1. recovery[req[p].user] \in [set : Value \cup {None}, left : BOOLEAN] BY <3>2 DEF TypeOK
      <4>2. [recovery[req[p].user] EXCEPT !.left = FALSE]
               \in [set : Value \cup {None}, left : BOOLEAN]
        BY <4>1
      <4>3. QED BY <3>2, <3>3, <4>2 DEF TypeOK
    <3>4. QED BY <3>1, <3>3 DEF TypeOK
  <2>4. QED BY <1>1, <2>1, <2>2, <2>3 DEF Tables, TypeOK
<1>8. challenge' \subseteq [id : Request, user : User]
  <2>1. CASE IssueChallenge(p)
    <3>1. req[p].pc = "challenge" /\ challenge' = challenge \cup {[id |-> p, user |-> req[p].user]}
      BY <2>1 DEF IssueChallenge, At
    <3>2. req[p].user \in User BY <3>1, UserOf DEF Idle
    <3>3. QED BY <3>1, <3>2 DEF TypeOK
  <2>2. QED BY <1>1, <2>1 DEF Tables, TypeOK
<1>9. req' = [q \in Request |-> req'[q]] /\ \A q \in Request : RequestOK(req'[q])
  <2>1. req' = [req EXCEPT ![p] = req'[p]] /\ RequestOK(req'[p]) BY <1>1 DEF Moves, Others
  <2>2. \A q \in Request \ {p} : req'[q] = req[q] BY <2>1 DEF TypeOK
  <2>3. req' = [q \in Request |-> req'[q]] BY <2>1 DEF TypeOK
  <2>4. QED BY <2>1, <2>2, <2>3 DEF TypeOK
<1>10. seen' \in [Request -> SUBSET Row]
  <2>1. CASE Writing(p)
    <3>1. PICK row \in Row : Writes(p, row) BY <2>1, WriteStep
    <3>2. QED BY <3>1, SeesType DEF Writes
  <2>2. QED BY <1>1, <2>1 DEF SeenStep, TypeOK
<1>11. proved' \subseteq User \X Channel \X Address
  <2>1. CASE ConfirmNew(p)
    <3>1. /\ req[p].pc = "newCode"
          /\ \/ proved' = proved
             \/ /\ code[req[p].user][req[p].channel] # None
                /\ proved' = proved \cup {<<req[p].user, req[p].channel,
                                       code[req[p].user][req[p].channel]>>}
      BY <2>1 DEF ConfirmNew, At
    <3>. DEFINE u == req[p].user  ch == req[p].channel  a == code[u][ch]
    <3>2. u \in User /\ ch \in Channel BY <3>1, AddressOf
    <3>3. a \in Address \cup {None} BY <3>2 DEF TypeOK
    <3>4. a # None => <<u, ch, a>> \in User \X Channel \X Address BY <3>2, <3>3
    <3>5. proved \subseteq User \X Channel \X Address BY DEF TypeOK
    <3>. HIDE DEF u, ch, a
    <3>6. proved' = proved \/ (a # None /\ proved' = proved \cup {<<u, ch, a>>})
      BY <3>1 DEF u, ch, a
    <3>7. QED BY <3>4, <3>5, <3>6
  <2>2. QED BY <1>1, <2>1 DEF Tables, TypeOK
<1>12. validated' \subseteq User \X Value
  <2>1. CASE ConfirmTOTP(p)
    <3>1. PICK u \in User : /\ users[u] # None /\ users[u].secret # None
                            /\ validated' = validated \cup {<<u, users[u].secret>>}
      BY <2>1 DEF ConfirmTOTP
    <3>2. users[u] \in Row BY <3>1 DEF TypeOK
    <3>3. users[u].secret \in Value BY <3>1, <3>2, RowType
    <3>4. QED BY <3>1, <3>3 DEF TypeOK
  <2>2. QED BY <1>1, <2>1 DEF Tables, TypeOK
<1>13. spent' \subseteq User \X Value
  <2>1. CASE Consume(p)
    <3>1. /\ req[p].pc = "consume"
          /\ \/ spent' = spent
             \/ /\ recovery[req[p].user] = [set |-> req[p].item, left |-> TRUE]
                /\ req[p].item # None
                /\ spent' = spent \cup {<<req[p].user, req[p].item>>}
      BY <2>1 DEF Consume, At
    <3>2. req[p].user \in User BY <3>1, UserOf DEF Idle
    <3>3. recovery[req[p].user].set \in Value \cup {None} BY <3>2 DEF TypeOK
    <3>4. QED BY <3>1, <3>2, <3>3 DEF TypeOK
  <2>2. QED BY <1>1, <2>1 DEF Tables, TypeOK
<1>14. superseded' \subseteq User /\ raced' \subseteq User
  <2>1. CASE SavePending(p)
    <3>1. req[p].pc = "pend" /\ superseded' \in {superseded, superseded \cup {req[p].user}}
      BY <2>1 DEF SavePending, At
    <3>2. req[p].user \in User BY <3>1, UserOf DEF Idle
    <3>3. superseded' \subseteq User BY <3>1, <3>2 DEF TypeOK
    <3>4. raced' = raced BY <2>1 DEF SavePending
    <3>5. QED BY <3>3, <3>4 DEF TypeOK
  <2>2. raced' \subseteq User
    <3>1. raced' = raced \/ \E u \in User : raced' \in {raced, raced \cup {u}}
      BY <1>1, Zenon DEF Moves, Keeps, Quits, Looks, Names
    <3>2. QED BY <3>1 DEF TypeOK
  <2>3. QED BY <1>1, <2>1, <2>2 DEF Tables, TypeOK
<1>15. QED
  BY <1>2, <1>3, <1>4, <1>5, <1>6, <1>7, <1>8, <1>9, <1>10, <1>11, <1>12, <1>13, <1>14 DEF TypeOK

LEMMA PendingType ==
  ASSUME TypeOK, NEW i \in 1..Len(pending)
  PROVE  /\ pending[i] \in Change /\ pending[i].id \in Request /\ pending[i].user \in User
         /\ pending[i].channel \in Channel /\ pending[i].old \in Address \cup {None}
         /\ pending[i].new \in Address
<1>1. pending[i] \in Change BY DEF TypeOK
<1>2. \A c \in Change : /\ c.id \in Request /\ c.user \in User /\ c.channel \in Channel
                        /\ c.old \in Address \cup {None} /\ c.new \in Address
  BY DEF Change
<1>3. QED BY <1>1, <1>2

\* Rows are never deleted.
LEMMA RowsStay ==
  ASSUME TypeOK, Present, NEW p \in Request, Tables(p), NEW u \in User
  PROVE  /\ users[u] # None => users'[u] # None
         /\ req[p].user # u => users'[u] = users[u]
<1>1. CASE Writing(p)
  <2>1. PICK row \in Row : Writes(p, row) BY <1>1, WriteStep
  <2>2. QED BY <2>1, Assumed DEF Writes, TypeOK
<1>2. CASE SaveUser(p) /\ users' # users
  <2>1. PICK row \in Row : Inserts(p, row) BY <1>2, InsertStep
  <2>2. QED BY <2>1, Assumed DEF Inserts, TypeOK
<1>3. QED BY <1>1, <1>2 DEF Tables

\* The other requests do not move.
LEMMA OthersStay ==
  ASSUME TypeOK, NEW p \in Request, Moves(p), NEW q \in Request, q # p
  PROVE  req'[q] = req[q]
BY DEF Moves, Others, TypeOK

\* What a request that keeps its user keeps.
LEMMA Kept ==
  ASSUME TypeOK, NEW p \in Request, Keeps(p)
  PROVE  /\ req'[p].op = req[p].op /\ req'[p].user = req[p].user /\ req'[p].row = req[p].row
         /\ req'[p].channel = req[p].channel /\ req'[p].address = req[p].address
         /\ req'[p].change = req[p].change /\ req'[p].old = req[p].old
         /\ req'[p].factor = req[p].factor
<1>1. req[p] \in RequestState BY DEF TypeOK, RequestOK
<1>2. QED BY <1>1 DEF Keeps, RequestState

LEMMA Over ==
  ASSUME TypeOK, NEW p \in Request, Quits(p)
  PROVE  req'[p].user = None /\ req'[p].row = None /\ req'[p].user \notin User
         /\ req'[p].pc \in Idle /\ req'[p].op = None /\ req'[p].change = None
BY Assumed DEF Quits, NoRequest, Idle

LEMMA PresentStep ==
  ASSUME TypeOK, Present, NEW p \in Request, Begin(p) \/ Continue(p) \/ Fail(p)
  PROVE  Present'
<1>1. Moves(p) /\ Tables(p) BY RequestStep, TableStep
<1>2. TypeOK' BY TypeStep
<1>3. ASSUME NEW q \in Request, req'[q].user \in User, req'[q].op # "Register"
      PROVE  users'[req'[q].user] # None
  <2>1. CASE q # p
    <3>1. req'[q] = req[q] BY <1>1, <2>1, OthersStay
    <3>2. QED BY <1>1, <1>3, <3>1, RowsStay DEF Present
  <2>2. CASE q = p /\ Keeps(p)
    BY <1>1, <1>3, <2>2, Kept, RowsStay DEF Present
  <2>3. CASE q = p /\ Quits(p) BY <1>3, <2>3, Over
  <2>4. CASE q = p /\ \E u \in User : Looks(p, u)
    BY <1>3, <2>4 DEF Looks, store
  <2>5. CASE q = p /\ Names(p) BY <1>3, <2>5 DEF Names
  <2>6. QED BY <1>1, <2>1, <2>2, <2>3, <2>4, <2>5 DEF Moves
<1>4. ASSUME NEW i \in 1..Len(pending') PROVE users'[pending'[i].user] # None
  <2>1. CASE SavePending(p)
    <3>1. CASE i \in 1..Len(pending)
      <4>1. pending'[i] = pending[i] BY <2>1, <3>1, Saved
      <4>2. pending[i].user \in User BY <3>1, PendingType
      <4>3. QED BY <1>1, <3>1, <4>1, <4>2, RowsStay DEF Present
    <3>2. CASE i \notin 1..Len(pending)
      <4>1. pending'[i] = [id |-> p, user |-> req[p].user, channel |-> req[p].channel,
                           old |-> req[p].old, new |-> req[p].address]
            /\ pending'[i] \in Change /\ req[p].op = "UpdateProfile"
        BY <2>1, <3>2, Saved
      <4>2. pending'[i].user = req[p].user /\ req[p].user \in User BY <4>1 DEF Change
      <4>3. QED BY <1>1, <4>1, <4>2, RowsStay DEF Present
    <3>3. QED BY <3>1, <3>2
  <2>2. CASE MarkApplied(p)
    <3>1. pending \in Seq(Change) BY DEF TypeOK
    <3>2. PICK k \in 1..Len(pending) : pending'[i] = pending[k] BY <2>2, <3>1, Removed
    <3>3. pending[k].user \in User BY PendingType
    <3>4. QED BY <1>1, <3>2, <3>3, RowsStay DEF Present
  <2>3. CASE pending' = pending
    <3>1. pending[i].user \in User BY <2>3, PendingType
    <3>2. QED BY <1>1, <2>3, <3>1, RowsStay DEF Present
  <2>4. QED BY <1>1, <2>1, <2>2, <2>3 DEF Tables
<1>5. ASSUME NEW c \in challenge' PROVE users'[c.user] # None
  <2>1. CASE c \in challenge
    <3>1. c.user \in User BY <2>1 DEF TypeOK
    <3>2. QED BY <1>1, <2>1, <3>1, RowsStay DEF Present
  <2>2. CASE c \notin challenge
    <3>1. IssueChallenge(p) BY <1>1, <2>2 DEF Tables
    <3>2. c.user = req[p].user /\ req[p].pc = "challenge" BY <2>2, <3>1 DEF IssueChallenge, At
    <3>3. RequestOK(req[p]) BY DEF TypeOK
    <3>4. req[p].user \in User /\ Placed(req[p].op, "challenge") BY <3>2, <3>3 DEF RequestOK, Idle
    <3>5. req[p].op # "Register" BY <3>4 DEF Placed
    <3>6. QED BY <1>1, <3>2, <3>4, <3>5, RowsStay DEF Present
  <2>3. QED BY <2>1, <2>2
<1>6. ASSUME NEW q \in Request, req'[q].pc \in {"taken", "save"}, req'[q].op = "Register"
      PROVE  /\ users'[req'[q].user] = None
             /\ \A o \in Request \ {q} : req'[o].user # req'[q].user
  <2>1. CASE q # p
    <3>1. req'[q] = req[q] BY <1>1, <2>1, OthersStay
    <3>2. /\ users[req[q].user] = None /\ req[q].user \in User
          /\ \A o \in Request \ {q} : req[o].user # req[q].user
      BY <1>6, <3>1, UserOf DEF Present, Idle
    <3>3. users'[req[q].user] = None BY <1>1, <2>1, <3>2, RowsStay
    <3>4. req'[p].user # req[q].user
      <4>1. CASE Keeps(p) BY <2>1, <3>2, <4>1, Kept
      <4>2. CASE Quits(p) BY <3>2, <4>2, Over
      <4>3. ASSUME NEW u \in User, Looks(p, u) PROVE req'[p].user # req[q].user
        <5>1. q \in InFlight BY <1>6, <3>1 DEF InFlight, Idle
        <5>2. QED BY <3>2, <4>3, <5>1 DEF Looks
      <4>4. CASE Names(p) BY <3>2, <4>4 DEF Names
      <4>5. QED BY <1>1, <4>1, <4>2, <4>3, <4>4 DEF Moves
    <3>5. \A o \in Request \ {q} : o # p => req'[o] = req[o] BY <1>1, OthersStay
    <3>6. QED BY <3>1, <3>2, <3>3, <3>4, <3>5
  <2>2. CASE q = p /\ Keeps(p)
    <3>1. req[p].op = "Register" /\ req[p].pc = "taken" /\ req'[p].user = req[p].user
      BY <1>6, <2>2, Kept DEF Keeps, Edge
    <3>2. users' = users
      <4>1. ~Writing(p)
        BY <3>1 DEF Writing, WriteProfile, ApplyContact, WritePassword, StageTOTP, EnableTOTP,
                    ClearTOTP, At
      <4>2. ~SaveUser(p) BY <3>1 DEF SaveUser, At
      <4>3. QED BY <1>1, <4>1, <4>2 DEF Tables
    <3>3. \A o \in Request \ {p} : req'[o] = req[o] BY <1>1, OthersStay
    <3>4. QED BY <2>2, <3>1, <3>2, <3>3 DEF Present
  <2>3. CASE q = p /\ Quits(p) BY <1>6, <2>3 DEF Quits
  <2>4. ASSUME q = p, NEW u \in User, Looks(p, u)
        PROVE  /\ users'[req'[q].user] = None
               /\ \A o \in Request \ {q} : req'[o].user # req'[q].user
    <3>1. \A o \in Request \ {p} : req'[o] = req[o] BY <1>1, OthersStay
    <3>2. req'[p].user = u /\ users' = users BY <2>4 DEF Looks, store
    <3>3. users[u] = None /\ \A o \in InFlight : req[o].user # u BY <1>6, <2>4 DEF Looks
    <3>4. ASSUME NEW o \in Request \ {p} PROVE req[o].user # u
      <4>1. CASE o \in InFlight BY <3>3, <4>1
      <4>2. CASE o \notin InFlight
        <5>1. req[o].user = None BY <4>2 DEF InFlight, TypeOK, RequestOK
        <5>2. QED BY <5>1, Assumed
      <4>3. QED BY <4>1, <4>2
    <3>5. QED BY <2>4, <3>1, <3>2, <3>3, <3>4
  <2>5. CASE q = p /\ Names(p) BY <1>6, <2>5 DEF Names
  <2>6. QED BY <1>1, <2>1, <2>2, <2>3, <2>4, <2>5 DEF Moves
<1>7. ASSUME NEW u \in User, NEW ch \in Channel, users'[u] = None PROVE oldCode'[u][ch] = None
  <2>1. users[u] = None /\ oldCode[u][ch] = None BY <1>1, <1>7, RowsStay DEF Present
  <2>2. CASE IssueOldCode(p)
    <3>1. req[p].pc = "issueOld" /\ RequestOK(req[p]) BY <2>2 DEF IssueOldCode, At, TypeOK
    <3>2. req[p].user \in User /\ Placed(req[p].op, "issueOld") BY <3>1 DEF RequestOK, Idle
    <3>3. req[p].op # "Register" BY <3>2 DEF Placed
    <3>4. req[p].user # u BY <2>1, <3>2, <3>3 DEF Present
    <3>5. QED BY <2>1, <2>2, <3>4 DEF IssueOldCode, TypeOK
  <2>3. CASE ConfirmOld(p)
    <3>1. \/ oldCode' = oldCode
          \/ oldCode' = [oldCode EXCEPT ![req[p].user][req[p].channel] = None]
      BY <2>3 DEF ConfirmOld
    <3>2. CASE oldCode' = oldCode BY <2>1, <3>2
    <3>3. CASE oldCode' = [oldCode EXCEPT ![req[p].user][req[p].channel] = None]
      BY <2>1, <3>3 DEF TypeOK
    <3>4. QED BY <3>1, <3>2, <3>3
  <2>4. QED BY <1>1, <2>1, <2>2, <2>3 DEF Tables
<1>8. QED BY <1>3, <1>4, <1>5, <1>6, <1>7 DEF Present

\* What the operator does to the row of u.
Suspends(u, row) ==
    /\ users[u] \in Row /\ row \in Row
    /\ users' = [users EXCEPT ![u] = row]
    /\ seen' = Sees(u, row)
    /\ row.contact = users[u].contact /\ row.verified = users[u].verified
    /\ row.secret = users[u].secret
    /\ row.confirmed = users[u].confirmed
    /\ raced' \in {raced, raced \cup {u}}
    /\ \A o \in InFlight : req[o].user = u => u \in raced'
    /\ UNCHANGED <<pending, code, oldCode, mailed, recovery, challenge, req, proved, validated,
                   spent, superseded>>

LEMMA SuspendStep ==
  ASSUME TypeOK, NEW u \in User, Suspend(u)
  PROVE  \E row \in Row : Suspends(u, row)
<1>1. users[u] \in Row BY DEF Suspend, TypeOK
<1>. DEFINE row == [users[u] EXCEPT !.active = FALSE]
<1>2. /\ row \in Row /\ row.contact = users[u].contact /\ row.verified = users[u].verified
      /\ row.secret = users[u].secret /\ row.confirmed = users[u].confirmed
  BY <1>1 DEF Row
<1>3. users' = [users EXCEPT ![u] = row] BY DEF Suspend
<1>. HIDE DEF row
<1>4. users'[u] = row BY <1>3 DEF TypeOK
<1>5. seen' = Sees(u, row) BY <1>4 DEF Suspend
<1>6. /\ raced' \in {raced, raced \cup {u}}
      /\ \A o \in InFlight : req[o].user = u => u \in raced'
  BY DEF Suspend
<1>7. QED BY <1>1, <1>2, <1>3, <1>5, <1>6 DEF Suspends, Suspend

LEMMA SuspendTypes ==
  ASSUME TypeOK, Present, NEW u \in User, NEW row \in Row, Suspends(u, row)
  PROVE  TypeOK' /\ Present'
<1>1. users' \in [User -> Row \cup {None}] BY DEF Suspends, TypeOK
<1>2. seen' \in [Request -> SUBSET Row] BY SeesType DEF Suspends
<1>3. raced' \subseteq User BY DEF Suspends, TypeOK
<1>4. TypeOK' BY <1>1, <1>2, <1>3 DEF Suspends, TypeOK
<1>5. \A v \in User : (users[v] = None) <=> (users'[v] = None)
  BY Assumed DEF Suspends, TypeOK
<1>6. \A i \in 1..Len(pending) : pending[i].user \in User BY PendingType
<1>7. \A c \in challenge : c.user \in User BY DEF TypeOK
<1>8. \A p \in Request : req[p].pc \in {"taken", "save"} => req[p].user \in User
  BY UserOf DEF Idle
<1>9. QED BY <1>4, <1>5, <1>6, <1>7, <1>8 DEF Suspends, Present

-----------------------------------------------------------------------------
(* MFA is enforced only with a secret of which a code was accepted. *)

Secrets == OnlyValidatedSecrets /\ SecretsInHand

LEMMA ValidatedGrows ==
  ASSUME NEW p \in Request, Tables(p)
  PROVE  validated \subseteq validated'
BY DEF Tables, ConfirmTOTP

\* A request at these labels confirms a secret.
LEMMA Confirming ==
  ASSUME TypeOK, NEW p \in Request, Moves(p), Keeps(p), req'[p].pc \in {"saveAll", "confirm"}
  PROVE  req[p].pc \in {"saveAll", "confirm"}
BY DEF Keeps, Edge, SaveAll, At

LEMMA SecretsStep ==
  ASSUME TypeOK, Present, Secrets, NEW p \in Request, Begin(p) \/ Continue(p) \/ Fail(p)
  PROVE  Secrets'
<1>1. Moves(p) /\ Tables(p) /\ validated \subseteq validated'
  BY RequestStep, TableStep, ValidatedGrows
<1>2. ASSUME NEW u \in User, users'[u] # None, users'[u].confirmed
      PROVE  <<u, users'[u].secret>> \in validated'
  <2>1. CASE Writing(p)
    <3>1. PICK row \in Row : Writes(p, row) BY <2>1, WriteStep
    <3>2. CASE u = req[p].user
      <4>1. users'[u] = row BY <1>2, <3>1, <3>2 DEF Writes, TypeOK
      <4>2. /\ row.secret = req[p].row.secret /\ req[p].row # None
            /\ req[p].row.confirmed \/ req[p].pc = "confirm"
        BY <1>2, <3>1, <4>1, Assumed DEF Writes
      <4>3. <<u, row.secret>> \in validated BY <3>2, <4>2 DEF Secrets, SecretsInHand
      <4>4. QED BY <1>1, <4>1, <4>3
    <3>3. CASE u # req[p].user
      BY <1>1, <1>2, <3>3, RowsStay DEF Secrets, OnlyValidatedSecrets
    <3>4. QED BY <3>2, <3>3
  <2>2. CASE SaveUser(p) /\ users' # users
    <3>1. PICK row \in Row : Inserts(p, row) BY <2>2, InsertStep
    <3>2. u # req[p].user BY <1>2, <3>1 DEF Inserts, TypeOK
    <3>3. QED BY <1>1, <1>2, <3>2, RowsStay DEF Secrets, OnlyValidatedSecrets
  <2>3. CASE users' = users
    BY <1>1, <1>2, <2>3 DEF Secrets, OnlyValidatedSecrets
  <2>4. QED BY <1>1, <2>1, <2>2, <2>3 DEF Tables
<1>3. ASSUME NEW q \in Request, req'[q].user \in User, req'[q].row # None,
             req'[q].row.confirmed \/ req'[q].pc \in {"saveAll", "confirm"}
      PROVE  <<req'[q].user, req'[q].row.secret>> \in validated'
  <2>1. CASE q # p
    <3>1. req'[q] = req[q] BY <1>1, <2>1, OthersStay
    <3>2. QED BY <1>1, <1>3, <3>1 DEF Secrets, SecretsInHand
  <2>2. CASE q = p /\ Keeps(p)
    <3>1. req'[p].user = req[p].user /\ req'[p].row = req[p].row BY <2>2, Kept
    <3>2. req[p].row.confirmed \/ req[p].pc \in {"saveAll", "confirm"}
      BY <1>1, <1>3, <2>2, <3>1, Confirming
    <3>3. <<req[p].user, req[p].row.secret>> \in validated
      BY <1>3, <2>2, <3>1, <3>2 DEF Secrets, SecretsInHand
    <3>4. QED BY <1>1, <2>2, <3>1, <3>3
  <2>3. CASE q = p /\ Quits(p) BY <1>3, <2>3, Over
  <2>4. CASE q = p /\ \E u \in User : Looks(p, u)
    <3>1. PICK u \in User : Looks(p, u) BY <2>4
    <3>2. req'[p].user = u /\ req'[p].row = users[u] BY <3>1 DEF Looks
    <3>3. CASE users[u].confirmed
      BY <1>1, <1>3, <2>4, <3>2, <3>3 DEF Secrets, OnlyValidatedSecrets
    <3>4. CASE req'[p].pc \in {"saveAll", "confirm"}
      <4>1. <<u, users[u].secret>> \in validated' BY <3>1, <3>4 DEF Looks
      <4>2. QED BY <2>4, <3>2, <4>1
    <3>5. QED BY <1>3, <2>4, <3>2, <3>3, <3>4
  <2>5. CASE q = p /\ Names(p) BY <1>3, <2>5 DEF Names
  <2>6. QED BY <1>1, <2>1, <2>2, <2>3, <2>4, <2>5 DEF Moves
<1>4. QED BY <1>2, <1>3 DEF Secrets, OnlyValidatedSecrets, SecretsInHand

LEMMA SecretsSuspend ==
  ASSUME TypeOK, Secrets, NEW u \in User, NEW row \in Row, Suspends(u, row)
  PROVE  Secrets'
<1>1. \A v \in User : v # u => users'[v] = users[v] BY DEF Suspends, TypeOK
<1>2. users'[u] = row /\ users[u] # None BY Assumed DEF Suspends, TypeOK
<1>3. OnlyValidatedSecrets'
  BY <1>1, <1>2 DEF Secrets, OnlyValidatedSecrets, Suspends
<1>4. QED BY <1>3 DEF Secrets, SecretsInHand, Suspends

-----------------------------------------------------------------------------
(* What a request for a session has seen. *)

\* Rows seen are not forgotten while the request goes on.
LEMMA SeenGrows ==
  ASSUME TypeOK, Present, NEW p \in Request, Begin(p) \/ Continue(p) \/ Fail(p),
         NEW q \in Request, q # p
  PROVE  seen[q] \subseteq seen'[q]
<1>1. CASE Writing(p)
  <2>1. PICK row \in Row : Writes(p, row) BY <1>1, WriteStep
  <2>2. QED BY <2>1, SeesType DEF Writes
<1>2. QED BY <1>1, SeenChanges DEF SeenStep, TypeOK

LEMMA KeepsSeen ==
  ASSUME TypeOK, NEW p \in Request, ConsumeLink(p) \/ Consume(p), Keeps(p)
  PROVE  seen' = seen
<1>1. ~Ends(p)
  <2>1. SUFFICES ASSUME Ends(p) PROVE FALSE OBVIOUS
  <2>2. req'[p].pc = "ended" BY <2>1 DEF Ends, Ended, NoRequest, TypeOK
  <2>3. QED BY <2>2 DEF Keeps, Edge, Idle
<1>2. QED BY <1>1 DEF ConsumeLink, Consume

\* The request at a link goes on by using it up.
LEMMA AtLink ==
  ASSUME NEW p \in Request, Begin(p) \/ Continue(p) \/ Fail(p), req[p].pc = "link"
  PROVE  ConsumeLink(p)
<1>1. ~Begin(p)
  BY DEF Begin, UpdateProfile, Register, Verify, ChangePassword, ResetPassword, SetupTOTP,
         ConfirmTOTP, DisableTOTP, Login, MagicLinkVerify, VerifyMFA, Start
<1>2. ~Fail(p) BY DEF Fail, Partway
<1>3. ~(\/ CheckTaken(p) \/ CheckPromised(p) \/ SavePending(p) \/ IssueCode(p) \/ IssueOldCode(p)
        \/ WriteProfile(p) \/ UpdateRefused(p) \/ SaveUser(p)
        \/ ReadOwner(p) \/ ReadHolder(p) \/ ConfirmOld(p) \/ ConfirmNew(p)
        \/ ApplyContact(p) \/ MarkApplied(p))
  BY DEF At, CheckTaken, CheckPromised, SavePending, IssueCode, IssueOldCode, WriteProfile,
         UpdateRefused, SaveUser, ReadOwner, ReadHolder, ConfirmOld, ConfirmNew, ApplyContact,
         MarkApplied
<1>4. ~(\/ ConfirmReset(p) \/ WritePassword(p)
        \/ StageTOTP(p) \/ SaveAll(p) \/ EnableTOTP(p) \/ ClearTOTP(p) \/ DeleteAll(p)
        \/ IssueChallenge(p) \/ Redeem(p) \/ Consume(p) \/ Issue(p))
  BY DEF At, ConfirmReset, WritePassword, StageTOTP, SaveAll, EnableTOTP, ClearTOTP, DeleteAll,
         IssueChallenge, Redeem, Consume, Issue
<1>5. QED BY <1>1, <1>2, <1>3, <1>4 DEF Continue

LEMMA AdmittedStep ==
  ASSUME TypeOK, Present, Admitted, NEW p \in Request, Begin(p) \/ Continue(p) \/ Fail(p)
  PROVE  Admitted'
<1>1. Moves(p) BY RequestStep
<1>. DEFINE In(q) ==
       /\ req[q].pc = "session" =>
             \E row \in seen[q] : row.active /\ (row.confirmed => req[q].factor # "none")
       /\ req[q].pc = "consume" /\ req[q].op # "DisableTOTP" =>
             req[q].factor = "recovery" /\ \E row \in seen[q] : row.active
       /\ req[q].pc = "link" => req[q].row \in seen[q] /\ req[q].row.active
<1>2. \A q \in Request : In(q) BY DEF Admitted
<1>3. ASSUME NEW q \in Request PROVE In(q)'
  <2>1. CASE q # p
    <3>1. req'[q] = req[q] /\ seen[q] \subseteq seen'[q] BY <1>1, <2>1, OthersStay, SeenGrows
    <3>2. QED BY <1>2, <3>1
  <2>2. CASE q = p /\ Keeps(p)
    <3>1. req'[p].pc \notin {"consume", "link"} BY <2>2 DEF Keeps, Edge
    <3>2. ASSUME req'[p].pc = "session"
          PROVE  \E row \in seen'[p] : row.active /\ (row.confirmed => req'[p].factor # "none")
      <4>0. req'[p].factor = req[p].factor BY <2>2, Kept
      <4>1. CASE req[p].pc = "consume" /\ req[p].op # "DisableTOTP"
        <5>1. Consume(p) BY <2>2, <4>1 DEF Keeps, Edge
        <5>2. seen' = seen BY <2>2, <5>1, KeepsSeen
        <5>3. req[p].factor = "recovery" /\ \E row \in seen[p] : row.active BY <1>2, <4>1
        <5>4. QED BY <4>0, <5>2, <5>3
      <4>2. CASE req[p].pc = "link" /\ ~req[p].row.confirmed
        <5>1. ConsumeLink(p) BY <4>2, AtLink
        <5>2. seen' = seen BY <2>2, <5>1, KeepsSeen
        <5>3. req[p].row \in seen[p] /\ req[p].row.active BY <1>2, <4>2
        <5>4. QED BY <4>2, <5>2, <5>3
      <4>3. QED BY <2>2, <3>2, <4>1, <4>2 DEF Keeps, Edge
    <3>3. QED BY <2>2, <3>1, <3>2
  <2>3. CASE q = p /\ Quits(p) BY <2>3 DEF Quits
  <2>4. CASE q = p /\ \E u \in User : Looks(p, u)
    <3>1. PICK u \in User : Looks(p, u) BY <2>4
    <3>2. RequestOK(req'[p]) /\ req'[p].pc \notin Idle BY <1>1, <3>1 DEF Moves, Looks
    <3>3. Placed(req'[p].op, req'[p].pc) BY <3>2 DEF RequestOK
    <3>4. req'[p].pc \in {"session", "consume", "link"} /\ req'[p].op # "DisableTOTP" =>
             req'[p].op \in Entrances
      BY <3>3 DEF Placed, Entrances
    <3>5. req'[p].pc \in {"session", "link"} => req'[p].op # "DisableTOTP" BY <3>3 DEF Placed
    <3>6. QED BY <2>4, <3>1, <3>4, <3>5 DEF Looks
  <2>5. CASE q = p /\ Names(p) BY <2>5 DEF Names, Unread
  <2>6. QED BY <1>1, <2>1, <2>2, <2>3, <2>4, <2>5 DEF Moves
<1>4. QED BY <1>3 DEF Admitted

LEMMA AdmittedSuspend ==
  ASSUME TypeOK, Admitted, NEW u \in User, NEW row \in Row, Suspends(u, row)
  PROVE  Admitted'
<1>1. \A q \in Request : seen[q] \subseteq seen'[q] BY SeesType DEF Suspends
<1>2. req' = req BY DEF Suspends
<1>3. QED BY <1>1, <1>2 DEF Admitted

-----------------------------------------------------------------------------
(* Where nothing has overlapped. *)

\* A request that has a user is under way.
LEMMA HoldsInFlight ==
  ASSUME TypeOK, NEW q \in Request, req[q].user \in User
  PROVE  req[q].pc \notin Idle /\ req[q].pc # "holder"
BY Assumed DEF TypeOK, RequestOK

LEMMA RacesStay ==
  ASSUME NEW p \in Request, Moves(p)
  PROVE  raced \subseteq raced'
BY DEF Moves, Keeps, Quits, Looks, Names

\* Only a request that looks begins to hold a row, and then no other does.
LEMMA HoldingBack ==
  ASSUME TypeOK, NEW p \in Request, Moves(p), NEW u \in User, u \notin raced',
         NEW q \in Request, Holding(q, u)'
  PROVE  \/ Holding(q, u) /\ (q = p => Keeps(p))
         \/ q = p /\ Looks(p, u) /\ \A o \in Request \ {p} : ~Holding(o, u)
<1>1. CASE q # p
  <2>1. req'[q] = req[q] BY <1>1, OthersStay
  <2>2. QED BY <1>1, <2>1 DEF Holding
<1>2. CASE q = p /\ Keeps(p)
  <2>1. req[p].pc # "owner" BY <1>2 DEF Keeps, Unread
  <2>2. QED BY <1>2, <2>1, Kept DEF Holding
<1>3. CASE q = p /\ Quits(p) BY <1>3, Over DEF Holding
<1>4. CASE q = p /\ \E v \in User : Looks(p, v)
  <2>1. PICK v \in User : Looks(p, v) BY <1>4
  <2>2. v = u /\ req'[p].op \in Writers BY <1>4, <2>1 DEF Holding, Looks
  <2>3. \A o \in Request \ {p} :
           ~(req[o].pc \notin Idle /\ req[o].user = u /\ req[o].op \in Writers)
    BY <2>1, <2>2 DEF Looks
  <2>4. \A o \in Request \ {p} : ~Holding(o, u) BY <2>3, HoldsInFlight DEF Holding
  <2>5. QED BY <1>4, <2>1, <2>2, <2>4
<1>5. CASE q = p /\ Names(p)
  <2>1. RequestOK(req'[p]) /\ req'[p].pc \in Unread BY <1>5 DEF Moves, Names
  <2>2. req'[p].pc # "holder" BY <1>5, <2>1, Assumed DEF RequestOK, Holding
  <2>3. req'[p].pc = "redeem" /\ Placed(req'[p].op, "redeem")
    BY <1>5, <2>1, <2>2 DEF Unread, Holding, RequestOK, Idle
  <2>4. QED BY <1>5, <2>3 DEF Placed, Holding, Writers
<1>6. QED BY <1>1, <1>2, <1>3, <1>4, <1>5 DEF Moves

\* Using a recovery code leaves the set as it is.
LEMMA ConsumeKeepsSet ==
  ASSUME TypeOK, NEW p \in Request, Consume(p), NEW u \in User
  PROVE  recovery'[u].set = recovery[u].set
<1>1. recovery[u] \in [set : Value \cup {None}, left : BOOLEAN] BY DEF TypeOK
<1>2. PICK x \in [set : Value \cup {None}, left : BOOLEAN] : x = recovery[u] BY <1>1
<1>3. [x EXCEPT !.left = FALSE].set = x.set OBVIOUS
<1>4. CASE recovery' = recovery BY <1>4
<1>5. CASE recovery' = [recovery EXCEPT ![req[p].user].left = FALSE]
  <2>1. CASE u = req[p].user
    <3>1. recovery'[u] = [recovery[u] EXCEPT !.left = FALSE] BY <1>5, <2>1 DEF TypeOK
    <3>2. QED BY <1>2, <1>3, <3>1
  <2>2. CASE u # req[p].user
    <3>1. recovery'[u] = recovery[u] BY <1>5, <2>2 DEF TypeOK
    <3>2. QED BY <3>1
  <2>3. QED BY <2>1, <2>2
<1>6. QED BY <1>4, <1>5 DEF Consume

\* Who writes a row, or its recovery codes, holds it.
LEMMA WriterHolds ==
  ASSUME TypeOK, Present, NEW p \in Request, Tables(p), NEW u \in User
  PROVE  /\ users'[u] # users[u] => Holding(p, u)
         /\ recovery'[u].set # recovery[u].set => Holding(p, u)
<1>1. ASSUME users'[u] # users[u] PROVE Holding(p, u)
  <2>1. u = req[p].user BY <1>1, RowsStay
  <2>2. CASE Writing(p)
    <3>1. PICK row \in Row : Writes(p, row) BY <2>2, WriteStep
    <3>2. QED BY <2>1, <3>1 DEF Writes
  <2>3. CASE SaveUser(p)
    <3>1. users' # users BY <1>1
    <3>2. PICK row \in Row : Inserts(p, row) BY <2>3, <3>1, InsertStep
    <3>3. QED BY <2>1, <3>2 DEF Inserts, Holding, Writers
  <2>4. QED BY <1>1, <2>2, <2>3 DEF Tables
<1>2. ASSUME recovery'[u].set # recovery[u].set PROVE Holding(p, u)
  <2>0. RequestOK(req[p]) BY DEF TypeOK
  <2>1. CASE SaveAll(p) \/ DeleteAll(p)
    <3>1. req[p].pc \in {"saveAll", "deleteAll"} BY <2>1 DEF SaveAll, DeleteAll, At
    <3>2. Placed(req[p].op, req[p].pc) BY <2>0, <3>1 DEF RequestOK, Idle
    <3>3. req[p].op \in {"ConfirmTOTP", "DisableTOTP"} BY <3>1, <3>2 DEF Placed
    <3>4. u = req[p].user BY <1>2, <2>1 DEF SaveAll, DeleteAll, TypeOK
    <3>5. QED BY <3>1, <3>3, <3>4 DEF Holding, Writers
  <2>2. CASE Consume(p) BY <1>2, <2>2, ConsumeKeepsSet
  <2>3. QED BY <1>2, <2>1, <2>2 DEF Tables
<1>3. QED BY <1>1, <1>2

\* A request that has written its copy does not use it again.
LEMMA WrittenOnce ==
  ASSUME TypeOK, NEW p \in Request, Moves(p), Keeps(p),
         req'[p].pc \notin {"mark", "deleteAll"}
  PROVE  req[p].pc \notin {"mark", "deleteAll"}
<1>1. RequestOK(req[p]) /\ RequestOK(req'[p]) /\ req[p].pc \notin Idle /\ req'[p].pc \notin Idle
  BY DEF TypeOK, Moves, Keeps, Edge
<1>2. Placed(req[p].op, req[p].pc) /\ Placed(req[p].op, req'[p].pc) BY <1>1, Kept DEF RequestOK
<1>3. req[p].pc = "mark" => req'[p].pc \in {"owner", "holder", "oldCode", "newCode", "apply"}
  BY <1>2 DEF Placed
<1>4. req[p].pc = "deleteAll" => req'[p].pc \in {"consume", "disable"} BY <1>2 DEF Placed
<1>5. QED BY <1>3, <1>4 DEF Keeps, Edge, Unread, ConfirmOld, At

LEMMA UnlessRacedStep ==
  ASSUME TypeOK, Present, UnlessRaced, NEW p \in Request, Begin(p) \/ Continue(p) \/ Fail(p)
  PROVE  UnlessRaced'
<1>1. Moves(p) /\ Tables(p) BY RequestStep, TableStep
<1>2. SUFFICES ASSUME NEW u \in User, u \notin raced', NEW q \in Request, Holding(q, u)'
      PROVE  /\ \A o \in Request : Holding(o, u)' => o = q
             /\ req'[q].op # "Register" /\ req'[q].pc \notin {"mark", "deleteAll"} =>
                   req'[q].row = users'[u]
             /\ req'[q].pc = "confirm" => recovery'[u].set # None
             /\ req'[q].pc = "deleteAll" => ~users'[u].confirmed
  BY DEF UnlessRaced
<1>3. u \notin raced BY <1>1, <1>2, RacesStay
<1>4. ASSUME NEW o \in Request, Holding(o, u)' PROVE o = q
  BY <1>1, <1>2, <1>3, <1>4, HoldingBack DEF UnlessRaced
<1>5. CASE q # p
  <2>1. Holding(q, u) /\ req'[q] = req[q] BY <1>1, <1>2, <1>5, HoldingBack, OthersStay
  <2>2. ~Holding(p, u) BY <1>3, <1>5, <2>1 DEF UnlessRaced
  <2>3. users'[u] = users[u] /\ recovery'[u].set = recovery[u].set
    BY <1>1, <2>2, WriterHolds
  <2>4. QED BY <1>3, <1>4, <2>1, <2>3 DEF UnlessRaced
<1>6. CASE q = p /\ Keeps(p)
  <2>0. ~Looks(p, u) BY <1>6 DEF Keeps, Looks, Idle, Unread
  <2>1. Holding(p, u) BY <1>1, <1>2, <1>6, <2>0, HoldingBack
  <2>2. req'[p].op = req[p].op /\ req'[p].row = req[p].row /\ req[p].user = u
    BY <1>6, <2>1, Kept DEF Holding
  <2>3. ASSUME req'[p].op # "Register", req'[p].pc \notin {"mark", "deleteAll"}
        PROVE  req'[p].row = users'[u]
    <3>1. req[p].row = users[u]
      BY <1>1, <1>3, <1>6, <2>1, <2>2, <2>3, WrittenOnce DEF UnlessRaced
    <3>2. ~Writing(p)
      <4>1. SUFFICES ASSUME Writing(p) PROVE FALSE OBVIOUS
      <4>2. PICK row \in Row : Writes(p, row) BY <4>1, WriteStep
      <4>3. req'[p].pc = "ended" BY <2>3, <4>2 DEF Writes
      <4>4. QED BY <1>6, <4>3 DEF Keeps, Edge, Idle
    <3>3. ~(SaveUser(p) /\ users' # users)
      <4>1. SUFFICES ASSUME SaveUser(p), users' # users PROVE FALSE OBVIOUS
      <4>2. PICK row \in Row : Inserts(p, row) BY <4>1, InsertStep
      <4>3. QED BY <2>2, <2>3, <4>2 DEF Inserts
    <3>4. users' = users BY <1>1, <3>2, <3>3 DEF Tables
    <3>5. QED BY <2>2, <3>1, <3>4
  <2>4. ASSUME req'[p].pc = "confirm" PROVE recovery'[u].set # None
    <3>1. SaveAll(p) BY <1>6, <2>4 DEF Keeps, Edge
    <3>2. recovery'[u] = [set |-> p, left |-> TRUE] BY <2>2, <3>1 DEF SaveAll, TypeOK
    <3>3. QED BY <3>2, Assumed
  <2>5. ASSUME req'[p].pc = "deleteAll" PROVE ~users'[u].confirmed
    <3>1. Writing(p) BY <1>6, <2>5 DEF Keeps, Edge
    <3>2. PICK row \in Row : Writes(p, row) BY <3>1, WriteStep
    <3>3. ~row.confirmed /\ users'[u] = row BY <2>2, <2>5, <3>2 DEF Writes, TypeOK
    <3>4. QED BY <3>3
  <2>6. QED BY <1>4, <1>6, <2>3, <2>4, <2>5
<1>7. CASE q = p /\ Looks(p, u)
  <2>1. req'[p].row = users'[u] /\ req'[p].pc \notin {"confirm", "deleteAll"}
    BY <1>7 DEF Looks, store
  <2>2. QED BY <1>4, <1>7, <2>1
<1>8. QED BY <1>1, <1>2, <1>5, <1>6, <1>7, HoldingBack

LEMMA NoLockInStep ==
  ASSUME TypeOK, Present, UnlessRaced, NoLockIn, NEW p \in Request,
         Begin(p) \/ Continue(p) \/ Fail(p)
  PROVE  NoLockIn'
<1>1. Moves(p) /\ Tables(p) BY RequestStep, TableStep
<1>2. SUFFICES ASSUME NEW u \in User, u \notin raced', users'[u] # None, users'[u].confirmed
      PROVE  recovery'[u].set # None
  BY DEF NoLockIn
<1>3. u \notin raced BY <1>1, <1>2, RacesStay
<1>4. CASE users'[u] = users[u]
  <2>1. recovery[u].set # None BY <1>2, <1>3, <1>4 DEF NoLockIn
  <2>2. CASE recovery'[u].set # recovery[u].set
    <3>1. Holding(p, u) BY <1>1, <2>2, WriterHolds
    <3>2. recovery[u] \in [set : Value \cup {None}, left : BOOLEAN] BY DEF TypeOK
    <3>3. CASE SaveAll(p) BY <2>1, <3>3, Assumed DEF SaveAll, TypeOK
    <3>4. CASE DeleteAll(p)
      <4>1. ~users[u].confirmed BY <1>3, <3>1, <3>4 DEF UnlessRaced, DeleteAll, At
      <4>2. QED BY <1>2, <1>4, <4>1
    <3>5. CASE Consume(p) BY <2>2, <3>5, ConsumeKeepsSet
    <3>6. QED BY <1>1, <2>1, <3>3, <3>4, <3>5 DEF Tables
  <2>3. QED BY <2>1, <2>2
<1>5. CASE users'[u] # users[u]
  <2>1. Holding(p, u) /\ req[p].user = u BY <1>1, <1>5, WriterHolds DEF Holding
  <2>2. CASE Writing(p)
    <3>1. PICK row \in Row : Writes(p, row) BY <2>2, WriteStep
    <3>2. users'[u] = row /\ recovery' = recovery BY <2>1, <3>1 DEF Writes, TypeOK
    <3>3. req[p].row = users[u] BY <1>3, <2>1, <3>1 DEF UnlessRaced, Writes
    <3>4. users[u].confirmed \/ req[p].pc = "confirm" BY <1>2, <3>1, <3>2, <3>3 DEF Writes
    <3>5. users[u] # None BY <3>1, <3>3, Assumed DEF Writes
    <3>6. recovery[u].set # None BY <1>3, <2>1, <3>4, <3>5 DEF NoLockIn, UnlessRaced
    <3>7. QED BY <3>2, <3>6
  <2>3. CASE SaveUser(p)
    <3>1. users' # users BY <1>5
    <3>2. PICK row \in Row : Inserts(p, row) BY <2>3, <3>1, InsertStep
    <3>3. users'[u] = row /\ ~row.confirmed BY <2>1, <3>2 DEF Inserts, TypeOK
    <3>4. QED BY <1>2, <3>3
  <2>4. QED BY <1>1, <1>5, <2>2, <2>3 DEF Tables
<1>6. QED BY <1>4, <1>5

LEMMA UnlessRacedSuspend ==
  ASSUME TypeOK, UnlessRaced, NoLockIn, NEW u \in User, NEW row \in Row, Suspends(u, row)
  PROVE  UnlessRaced' /\ NoLockIn'
<1>1. \A v \in User : v # u => users'[v] = users[v] BY DEF Suspends, TypeOK
<1>2. users'[u] = row /\ users[u] # None /\ row.confirmed = users[u].confirmed
  BY Assumed DEF Suspends, TypeOK
<1>3. raced \subseteq raced' /\ req' = req /\ recovery' = recovery BY DEF Suspends
<1>4. ASSUME NEW q \in Request, Holding(q, u) PROVE u \in raced'
  <2>1. q \in InFlight BY <1>4, HoldsInFlight DEF Holding, InFlight
  <2>2. QED BY <1>4, <2>1 DEF Suspends, Holding
<1>5. \A v \in User, q \in Request : Holding(q, v)' <=> Holding(q, v) BY <1>3 DEF Holding
<1>6. UnlessRaced' BY <1>1, <1>3, <1>4, <1>5 DEF UnlessRaced
<1>7. NoLockIn' BY <1>1, <1>2, <1>3 DEF NoLockIn
<1>8. QED BY <1>6, <1>7

-----------------------------------------------------------------------------
(* Recovery codes. *)

\* A request that has saved its recovery codes does no more than switch MFA on.
LEMMA AfterSaving ==
  ASSUME TypeOK, NEW p \in Request, Moves(p), req[p].pc \in {"confirm", "ended"}
  PROVE  req'[p].pc \in {"confirm", "ended"}
<1>1. CASE Keeps(p)
  <2>1. RequestOK(req[p]) /\ RequestOK(req'[p]) /\ req[p].pc \notin Idle /\ req'[p].pc \notin Idle
    BY <1>1 DEF TypeOK, Moves, Keeps, Edge
  <2>2. Placed(req[p].op, "confirm") /\ Placed(req[p].op, req'[p].pc)
    BY <1>1, <2>1, Kept DEF RequestOK, Idle
  <2>3. req'[p].pc \in {"saveAll", "confirm"} BY <2>2 DEF Placed
  <2>4. QED BY <1>1, <2>3 DEF Keeps, Edge
<1>2. QED BY <1>1 DEF Moves, Quits, Looks, Names, Unread

LEMMA FreshSetsStep ==
  ASSUME TypeOK, Present, FreshSets, NEW p \in Request, Begin(p) \/ Continue(p) \/ Fail(p)
  PROVE  FreshSets'
<1>1. Moves(p) /\ Tables(p) BY RequestStep, TableStep
<1>2. ASSUME NEW q \in Request, req[q].pc \in {"confirm", "ended"}
      PROVE  req'[q].pc \in {"confirm", "ended"}
  BY <1>1, <1>2, AfterSaving, OthersStay
<1>3. \A u \in User : recovery[u] \in [set : Value \cup {None}, left : BOOLEAN] BY DEF TypeOK
<1>4. CASE recovery' = recovery /\ spent' = spent BY <1>2, <1>4 DEF FreshSets
<1>5. CASE SaveAll(p)
  <2>1. req[p].pc = "saveAll" /\ spent' = spent BY <1>5 DEF SaveAll, At, history
  <2>2. req'[p].pc = "confirm"
    <3>1. req[p] \in RequestState BY DEF TypeOK, RequestOK
    <3>2. QED BY <1>5, <3>1 DEF SaveAll, Goto, TypeOK, RequestState
  <2>3. recovery' = [recovery EXCEPT ![req[p].user] = [set |-> p, left |-> TRUE]]
    BY <1>5 DEF SaveAll
  <2>4. ASSUME NEW u \in User, recovery'[u].left, recovery'[u].set # None
        PROVE  <<u, recovery'[u].set>> \notin spent
    <3>1. CASE u = req[p].user
      <4>1. recovery'[u].set = p BY <2>3, <3>1 DEF TypeOK
      <4>2. <<u, p>> \notin spent BY <2>1 DEF FreshSets
      <4>3. QED BY <4>1, <4>2
    <3>2. CASE u # req[p].user
      <4>1. recovery'[u] = recovery[u] BY <2>3, <3>2 DEF TypeOK
      <4>2. QED BY <2>4, <4>1 DEF FreshSets
    <3>3. QED BY <3>1, <3>2
  <2>5. ASSUME NEW u \in User, NEW q \in Request, recovery'[u].set = q \/ <<u, q>> \in spent
        PROVE  req'[q].pc \in {"confirm", "ended"}
    <3>1. CASE q = p BY <2>2, <3>1
    <3>2. CASE recovery[u].set = q \/ <<u, q>> \in spent BY <1>2, <3>2 DEF FreshSets
    <3>3. recovery'[u].set \in {recovery[u].set, p} BY <2>3 DEF TypeOK
    <3>4. QED BY <2>5, <3>1, <3>2, <3>3
  <2>6. QED BY <2>1, <2>4, <2>5 DEF FreshSets
<1>6. CASE DeleteAll(p)
  <2>1. /\ spent' = spent
        /\ recovery' = [recovery EXCEPT ![req[p].user] = [set |-> None, left |-> FALSE]]
    BY <1>6 DEF DeleteAll
  <2>2. ASSUME NEW u \in User PROVE recovery'[u] = recovery[u] \/ recovery'[u].set = None
    BY <2>1 DEF TypeOK
  <2>3. ASSUME NEW u \in User, recovery'[u].left, recovery'[u].set # None
        PROVE  <<u, recovery'[u].set>> \notin spent
    BY <2>2, <2>3 DEF FreshSets
  <2>4. ASSUME NEW u \in User, NEW q \in Request, recovery'[u].set = q \/ <<u, q>> \in spent
        PROVE  req'[q].pc \in {"confirm", "ended"}
    <3>1. q # None BY Assumed
    <3>2. recovery[u].set = q \/ <<u, q>> \in spent BY <2>2, <2>4, <3>1
    <3>3. QED BY <1>2, <3>2 DEF FreshSets
  <2>5. QED BY <2>1, <2>3, <2>4 DEF FreshSets
<1>7. CASE Consume(p) /\ ~(recovery' = recovery /\ spent' = spent)
  <2>. DEFINE v == req[p].user  i == req[p].item
  <2>1. /\ recovery[v] = [set |-> i, left |-> TRUE] /\ i # None
        /\ recovery' = [recovery EXCEPT ![v].left = FALSE]
        /\ spent' = spent \cup {<<v, i>>} /\ req[p].pc = "consume"
    BY <1>7 DEF Consume, At
  <2>2. v \in User BY <2>1, UserOf DEF Idle
  <2>3. \A u \in User : recovery'[u].set = recovery[u].set /\ (u # v => recovery'[u] = recovery[u])
    BY <1>3, <2>1 DEF TypeOK
  <2>4. ~recovery'[v].left BY <1>3, <2>1, <2>2 DEF TypeOK
  <2>5. ASSUME NEW u \in User, recovery'[u].left, recovery'[u].set # None
        PROVE  <<u, recovery'[u].set>> \notin spent'
    <3>1. u # v BY <2>4, <2>5
    <3>2. <<u, recovery[u].set>> \notin spent BY <2>3, <2>5, <3>1 DEF FreshSets
    <3>3. QED BY <2>1, <2>3, <3>1, <3>2
  <2>6. ASSUME NEW u \in User, NEW q \in Request, recovery'[u].set = q \/ <<u, q>> \in spent'
        PROVE  req'[q].pc \in {"confirm", "ended"}
    <3>1. recovery[u].set = q \/ <<u, q>> \in spent BY <2>1, <2>3, <2>6
    <3>2. QED BY <1>2, <3>1 DEF FreshSets
  <2>7. QED BY <2>5, <2>6 DEF FreshSets
<1>8. QED BY <1>1, <1>4, <1>5, <1>6, <1>7 DEF Tables

LEMMA FreshSetsSuspend ==
  ASSUME FreshSets, NEW u \in User, NEW row \in Row, Suspends(u, row)
  PROVE  FreshSets'
BY DEF FreshSets, Suspends

-----------------------------------------------------------------------------
(* Changes that wait for their codes. *)

\* A request whose change is in the table, or was, does not ask for another.
LEMMA AfterAsking ==
  ASSUME TypeOK, NEW p \in Request, Moves(p), NEW q \in Request,
         req[q].pc \in {"issue", "issueOld", "update", "ended"}
  PROVE  req'[q].pc \in {"issue", "issueOld", "update", "ended"}
<1>1. CASE q # p BY <1>1, OthersStay
<1>2. CASE q = p /\ Keeps(p)
  <2>1. RequestOK(req[p]) /\ RequestOK(req'[p]) /\ req[p].pc \notin Idle /\ req'[p].pc \notin Idle
    BY <1>2 DEF TypeOK, Moves, Keeps, Edge
  <2>2. Placed(req[p].op, req[p].pc) /\ Placed(req[p].op, req'[p].pc)
    BY <1>2, <2>1, Kept DEF RequestOK
  <2>3. req[p].pc # "ended" BY <2>1 DEF Idle
  <2>4. req'[p].pc \in {"taken", "promised", "pend", "save", "issue", "issueOld", "update"}
    BY <1>2, <2>2, <2>3 DEF Placed
  <2>5. QED BY <1>2, <2>4 DEF Keeps, Edge
<1>3. QED BY <1>1, <1>2 DEF Moves, Quits, Looks, Names, Unread

\* A request that verifies a change did so before, or has just looked it up.
LEMMA VerifiesBack ==
  ASSUME TypeOK, NEW p \in Request, Moves(p), NEW q \in Request,
         req'[q].op = "Verify", req'[q].change # None
  PROVE  \/ /\ req[q].op = "Verify" /\ req[q].change = req'[q].change
            /\ req[q].user = req'[q].user /\ req[q].channel = req'[q].channel
            /\ req[q].address = req'[q].address /\ req[q].old = req'[q].old
            /\ req'[q].pc # "mark" => req[q].pc # "mark"
            /\ q = p => Keeps(p) \/ \E u \in User : Looks(p, u)
         \/ q = p /\ Names(p)
<1>1. CASE q # p BY <1>1, OthersStay
<1>2. CASE q = p /\ Keeps(p)
  <2>1. RequestOK(req'[p]) /\ req'[p].pc \notin Idle BY <1>2 DEF Moves, Keeps, Edge
  <2>2. req'[p].pc # "deleteAll" BY <1>2, <2>1 DEF RequestOK, Placed
  <2>3. QED BY <1>2, <2>2, Kept, WrittenOnce
<1>3. CASE q = p /\ Quits(p)
  <2>1. req'[p].change = None BY <1>3 DEF Quits, NoRequest
  <2>2. QED BY <1>3, <2>1
<1>4. CASE q = p /\ \E u \in User : Looks(p, u)
  <2>1. PICK u \in User : Looks(p, u) BY <1>4
  <2>2. /\ req[p].pc \in Unread /\ req[p].op = "Verify" /\ req[p].change = req'[p].change
        /\ req[p].channel = req'[p].channel /\ req[p].address = req'[p].address
        /\ req[p].old = req'[p].old /\ req[p].user \in {u, None} /\ req'[p].user = u
    BY <1>4, <2>1 DEF Looks
  <2>3. RequestOK(req[p]) /\ req[p].pc \notin Idle /\ req[p].pc # "mark"
    BY <2>2 DEF TypeOK, Idle, Unread
  <2>4. req[p].pc # "holder" BY <1>4, <2>2, <2>3 DEF RequestOK
  <2>5. req[p].user = u BY <2>2, <2>3, <2>4, UserOf, Assumed
  <2>6. QED BY <1>4, <2>1, <2>2, <2>3, <2>5
<1>5. QED BY <1>1, <1>2, <1>3, <1>4 DEF Moves

\* An entry of the table was there, or is the one that was asked for.
Asked(p) == [id |-> p, user |-> req[p].user, channel |-> req[p].channel, old |-> req[p].old,
             new |-> req[p].address]

LEMMA PendingBack ==
  ASSUME TypeOK, NEW p \in Request, Tables(p), NEW i \in 1..Len(pending')
  PROVE  \/ \E k \in 1..Len(pending) : pending'[i] = pending[k]
         \/ SavePending(p) /\ pending'[i] = Asked(p) /\ pending'[i].id = p
<1>0. Asked(p).id = p BY DEF Asked
<1>1. CASE pending' = pending BY <1>1
<1>2. CASE SavePending(p)
  <2>1. CASE i \in 1..Len(pending) BY <1>2, <2>1, Saved
  <2>2. CASE i \notin 1..Len(pending)
    <3>1. pending'[i] = Asked(p) BY <1>2, <2>2, Saved DEF Asked
    <3>2. QED BY <1>0, <1>2, <3>1
  <2>3. QED BY <2>1, <2>2
<1>3. CASE MarkApplied(p) BY <1>3, Removed DEF TypeOK
<1>4. QED BY <1>1, <1>2, <1>3 DEF Tables

\* The request that asks for a change was not the one of another.
LEMMA AskedOnce ==
  ASSUME TypeOK, ChangesKnown, NEW p \in Request, SavePending(p)
  PROVE  /\ ~IsPending(p)
         /\ \A q \in Request : ~(req[q].op = "Verify" /\ req[q].change = p)
         /\ req'[p].pc = "issue"
<1>1. req[p].pc = "pend" BY DEF SavePending, At
<1>2. req'[p].pc = "issue"
  <2>1. req[p] \in RequestState BY DEF TypeOK, RequestOK
  <2>2. QED BY <2>1 DEF SavePending, Goto, TypeOK, RequestState
<1>3. QED BY <1>1, <1>2 DEF ChangesKnown

LEMMA ChangesKnownStep ==
  ASSUME TypeOK, Present, ChangesKnown, NEW p \in Request, Begin(p) \/ Continue(p) \/ Fail(p)
  PROVE  ChangesKnown'
<1>1. Moves(p) /\ Tables(p) BY RequestStep, TableStep
<1>2. ASSUME NEW i \in 1..Len(pending'), NEW j \in 1..Len(pending'),
             pending'[i].id = pending'[j].id
      PROVE  pending'[i] = pending'[j]
  <2>1. ASSUME NEW k \in 1..Len(pending), SavePending(p) PROVE pending[k].id # p
    BY <2>1, AskedOnce DEF IsPending
  <2>2. QED BY <1>1, <1>2, <2>1, PendingBack DEF ChangesKnown
<1>3. ASSUME NEW q \in Request, NEW x \in Request, req'[q].op = "Verify", req'[q].change = x
      PROVE  req'[x].pc \in {"issue", "issueOld", "update", "ended"}
  <2>1. CASE req[q].op = "Verify" /\ req[q].change = x
    BY <1>1, <2>1, AfterAsking DEF ChangesKnown
  <2>2. CASE q = p /\ Names(p)
    <3>1. IsPending(x) BY <1>3, <2>2, Assumed DEF Names, IsPending
    <3>2. QED BY <1>1, <3>1, AfterAsking DEF ChangesKnown
  <2>3. QED BY <1>1, <1>3, <2>1, <2>2, VerifiesBack, Assumed
<1>4. ASSUME NEW x \in Request, IsPending(x)'
      PROVE  req'[x].pc \in {"issue", "issueOld", "update", "ended"}
  <2>1. PICK i \in 1..Len(pending') : pending'[i].id = x BY <1>4 DEF IsPending
  <2>2. CASE \E k \in 1..Len(pending) : pending'[i] = pending[k]
    <3>1. IsPending(x) BY <2>1, <2>2 DEF IsPending
    <3>2. QED BY <1>1, <3>1, AfterAsking DEF ChangesKnown
  <2>3. CASE SavePending(p) /\ pending'[i].id = p BY <2>1, <2>3, AskedOnce
  <2>4. QED BY <1>1, <2>2, <2>3, PendingBack
<1>5. ASSUME NEW q \in Request, NEW i \in 1..Len(pending'),
             req'[q].op = "Verify", req'[q].change = pending'[i].id
      PROVE  /\ req'[q].user = pending'[i].user /\ req'[q].channel = pending'[i].channel
             /\ req'[q].address = pending'[i].new
  <2>0. pending'[i].id \in Request
    <3>1. CASE \E k \in 1..Len(pending) : pending'[i] = pending[k] BY <3>1, PendingType
    <3>2. QED BY <1>1, <3>1, PendingBack
  <2>1. CASE \E k \in 1..Len(pending) : pending'[i] = pending[k]
    <3>1. PICK k \in 1..Len(pending) : pending'[i] = pending[k] BY <2>1
    <3>2. CASE q = p /\ Names(p)
      <4>1. PICK j \in 1..Len(pending) :
              /\ req'[p].change = pending[j].id /\ req'[p].user = pending[j].user
              /\ req'[p].channel = pending[j].channel /\ req'[p].address = pending[j].new
        BY <1>5, <2>0, <3>2, Assumed DEF Names
      <4>2. pending[j] = pending[k] BY <1>5, <3>1, <3>2, <4>1 DEF ChangesKnown
      <4>3. QED BY <3>1, <3>2, <4>1, <4>2
    <3>3. CASE ~(q = p /\ Names(p))
      <4>1. /\ req[q].op = "Verify" /\ req[q].change = req'[q].change
            /\ req[q].user = req'[q].user /\ req[q].channel = req'[q].channel
            /\ req[q].address = req'[q].address
        BY <1>1, <1>5, <2>0, <3>3, VerifiesBack, Assumed
      <4>2. QED BY <1>5, <3>1, <4>1 DEF ChangesKnown
    <3>4. QED BY <3>2, <3>3
  <2>2. CASE SavePending(p) /\ pending'[i].id = p
    <3>1. req'[q].change = p BY <1>5, <2>2
    <3>2. ~(req[q].op = "Verify" /\ req[q].change = p) BY <2>2, AskedOnce
    <3>3. ~Names(p) BY <2>2 DEF SavePending, At, Names
    <3>4. QED BY <1>1, <1>5, <3>1, <3>2, <3>3, VerifiesBack, Assumed
  <2>3. QED BY <1>1, <2>1, <2>2, PendingBack
<1>6. QED BY <1>2, <1>3, <1>4, <1>5 DEF ChangesKnown

LEMMA ChangesKnownSuspend ==
  ASSUME ChangesKnown, NEW u \in User, NEW row \in Row, Suspends(u, row)
  PROVE  ChangesKnown'
BY DEF ChangesKnown, IsPending, Suspends

\* Where nothing has overlapped, a copy in hand is the row.
LEMMA HasRow ==
  ASSUME UnlessRaced, NEW p \in Request, NEW u \in User, u \notin raced, Holding(p, u),
         req[p].op # "Register", req[p].pc \notin {"mark", "deleteAll"}
  PROVE  req[p].row = users[u]
BY DEF UnlessRaced

\* A contact is replaced by the address of the change that is verified.
Replaces(p, u, ch) ==
    /\ Changing(p, u, ch) /\ req[p].pc = "apply"
    /\ users'[u].contact[ch] = req[p].address
    /\ pending' = pending /\ oldCode' = oldCode

LEMMA ContactStep ==
  ASSUME TypeOK, Present, UnlessRaced, NEW p \in Request, Tables(p),
         NEW u \in User, u \notin raced, users[u] # None, NEW ch \in Channel
  PROVE  users'[u].contact[ch] = users[u].contact[ch] \/ Replaces(p, u, ch)
<1>1. CASE Writing(p)
  <2>1. PICK row \in Row : Writes(p, row) BY <1>1, WriteStep
  <2>2. CASE req[p].user # u BY <2>2, RowsStay
  <2>3. CASE req[p].user = u
    <3>1. users'[u] = row BY <2>1, <2>3 DEF Writes, TypeOK
    <3>2. req[p].row = users[u] BY <2>1, <2>3, HasRow DEF Writes
    <3>3. users[u] \in Row BY DEF TypeOK
    <3>4. users[u].contact \in [Channel -> Address \cup {None}] BY <3>3, RowType
    <3>5. CASE row.contact = users[u].contact BY <3>1, <3>5
    <3>6. CASE /\ req[p].op = "Verify" /\ req[p].pc = "apply" /\ req[p].change # None
               /\ req[p].channel \in Channel
               /\ row.contact = [users[u].contact EXCEPT ![req[p].channel] = req[p].address]
      <4>1. CASE ch # req[p].channel BY <3>1, <3>4, <3>6, <4>1
      <4>2. CASE ch = req[p].channel
        <5>1. users'[u].contact[ch] = req[p].address BY <3>1, <3>4, <3>6, <4>2
        <5>2. pending' = pending /\ oldCode' = oldCode BY <2>1 DEF Writes
        <5>3. QED BY <2>3, <3>6, <4>2, <5>1, <5>2 DEF Replaces, Changing
      <4>3. QED BY <4>1, <4>2
    <3>7. QED BY <2>1, <3>2, <3>5, <3>6 DEF Writes
  <2>4. QED BY <2>2, <2>3
<1>2. CASE SaveUser(p) /\ users' # users
  <2>1. PICK row \in Row : Inserts(p, row) BY <1>2, InsertStep
  <2>2. req[p].user # u BY <2>1 DEF Inserts
  <2>3. QED BY <2>2, RowsStay
<1>3. QED BY <1>1, <1>2 DEF Tables

\* The entry that is asked for leads from the present address, and to the
\* address of the others that wait.
LEMMA AskedEntry ==
  ASSUME TypeOK, Present, UnlessRaced, NEW p \in Request, SavePending(p),
         req[p].user \notin superseded', req[p].user \notin raced
  PROVE  /\ Holding(p, req[p].user) /\ Asked(p).user = req[p].user
         /\ Asked(p).channel = req[p].channel
         /\ Asked(p).old = users[req[p].user].contact[req[p].channel]
         /\ Asked(p).new = req[p].address
         /\ \A i \in Waiting(req[p].user, req[p].channel) : pending[i].new = Asked(p).new
         /\ users' = users /\ oldCode' = oldCode
<1>. DEFINE r == req[p]
<1>1. r.pc = "pend" /\ RequestOK(r) BY DEF SavePending, At, TypeOK
<1>2. r.op = "UpdateProfile" BY <1>1 DEF RequestOK, Idle, Placed
<1>3. r.user \in User BY <1>1, UserOf DEF Idle
<1>4. Holding(p, r.user) BY <1>1, <1>2 DEF Holding, Writers
<1>5. r.old = r.row.contact[r.channel] BY <1>1, <1>2 DEF RequestOK, Idle
<1>6. r.row = users[r.user] BY <1>1, <1>2, <1>3, <1>4, HasRow
<1>7. /\ Asked(p).user = r.user /\ Asked(p).channel = r.channel
      /\ Asked(p).old = r.old /\ Asked(p).new = r.address
  BY DEF Asked
<1>8. ~\E i \in 1..Len(pending) : /\ pending[i].user = r.user /\ pending[i].channel = r.channel
                                  /\ pending[i].new # r.address
  BY DEF SavePending
<1>9. users' = users /\ oldCode' = oldCode BY DEF SavePending
<1>10. QED BY <1>4, <1>5, <1>6, <1>7, <1>8, <1>9 DEF Waiting

\* The code for the old address is made by who holds the row, for the address
\* in it; and it is used up.
LEMMA OldCodeStep ==
  ASSUME TypeOK, UnlessRaced, NEW p \in Request, Tables(p),
         NEW u \in User, u \notin raced, NEW ch \in Channel,
         oldCode'[u][ch] # oldCode[u][ch]
  PROVE  \/ oldCode'[u][ch] = None
         \/ /\ Holding(p, u) /\ req[p].pc = "issueOld"
            /\ oldCode'[u][ch] = users[u].contact[ch] /\ users' = users
<1>. DEFINE r == req[p]
<1>0. oldCode[u] \in [Channel -> Address \cup {None}] BY DEF TypeOK
<1>1. CASE ConfirmOld(p)
  <2>1. oldCode' = [oldCode EXCEPT ![r.user][r.channel] = None] BY <1>1 DEF ConfirmOld
  <2>2. QED BY <1>0, <2>1 DEF TypeOK
<1>2. CASE IssueOldCode(p)
  <2>1. /\ r.pc = "issueOld" /\ oldCode' = [oldCode EXCEPT ![r.user][r.channel] = r.old]
        /\ users' = users /\ RequestOK(r)
    BY <1>2 DEF IssueOldCode, At, TypeOK
  <2>2. r.op = "UpdateProfile" BY <2>1 DEF RequestOK, Idle, Placed
  <2>3. Holding(p, r.user) BY <2>1, <2>2 DEF Holding, Writers
  <2>4. r.old = r.row.contact[r.channel] BY <2>1, <2>2 DEF RequestOK, Idle
  <2>5. r.user = u /\ r.channel = ch /\ oldCode'[u][ch] = r.old BY <1>0, <2>1 DEF TypeOK
  <2>6. r.row = users[u] BY <2>1, <2>2, <2>3, <2>5, HasRow
  <2>7. QED BY <2>1, <2>3, <2>4, <2>5, <2>6
<1>3. QED BY <1>1, <1>2 DEF Tables

\* A change that waits after a step did so before, or has just been asked for.
LEMMA WaitingBack ==
  ASSUME TypeOK, Present, UnlessRaced, NEW p \in Request, Tables(p),
         NEW u \in User, u \notin superseded', u \notin raced, NEW ch \in Channel,
         NEW i \in Waiting(u, ch)'
  PROVE  \/ \E k \in Waiting(u, ch) : pending'[i] = pending[k]
         \/ /\ SavePending(p) /\ Holding(p, u) /\ users' = users
            /\ pending'[i] = Asked(p) /\ Asked(p).old = users[u].contact[ch]
            /\ \A k \in Waiting(u, ch) : pending[k].new = Asked(p).new
<1>1. i \in 1..Len(pending') /\ pending'[i].user = u /\ pending'[i].channel = ch BY DEF Waiting
<1>2. CASE \E k \in 1..Len(pending) : pending'[i] = pending[k] BY <1>1, <1>2 DEF Waiting
<1>3. CASE SavePending(p) /\ pending'[i] = Asked(p)
  <2>1. req[p].user = u /\ req[p].channel = ch BY <1>1, <1>3 DEF Asked
  <2>2. QED BY <1>3, <2>1, AskedEntry
<1>4. QED BY <1>1, <1>2, <1>3, PendingBack

\* A change that is verified after a step was so before, or has just been found
\* among those that wait.
LEMMA ChangingBack ==
  ASSUME TypeOK, NEW p \in Request, Moves(p), NEW u \in User, NEW ch \in Channel,
         NEW q \in Request, Changing(q, u, ch)'
  PROVE  \/ /\ Changing(q, u, ch) /\ req[q].change = req'[q].change
            /\ req[q].address = req'[q].address /\ req[q].old = req'[q].old
            /\ q = p => Keeps(p) \/ \E v \in User : Looks(p, v)
         \/ /\ q = p /\ req'[p].pc \in Unread /\ users' = users /\ UNCHANGED pending
            /\ \E i \in Waiting(u, ch) : /\ req'[p].change = pending[i].id
                                         /\ req'[p].address = pending[i].new
                                         /\ req'[p].old = pending[i].old
<1>1. /\ req'[q].op = "Verify" /\ req'[q].change # None /\ req'[q].pc # "mark"
      /\ req'[q].user = u /\ req'[q].channel = ch
  BY DEF Changing
<1>2. CASE q = p /\ Names(p) BY <1>1, <1>2 DEF Names, Waiting
<1>3. QED BY <1>1, <1>2, VerifiesBack DEF Changing

\* The change that is verified still waits, or nobody else holds the row.
LEMMA StillAlone ==
  ASSUME TypeOK, Present, UnlessRaced, ChangesKnown,
         NEW p \in Request, Moves(p), Tables(p), NEW u \in User, u \notin raced', u \notin raced,
         NEW ch \in Channel, NEW q \in Request, Changing(q, u, ch),
         NEW id, id = req[q].change,
         q = p => Keeps(p) \/ \E v \in User : Looks(p, v),
         IsPending(id) \/ \A o \in Request \ {q} : ~Holding(o, u)
  PROVE  IsPending(id)' \/ \A o \in Request \ {q} : ~Holding(o, u)'
<1>1. ASSUME \A o \in Request \ {q} : ~Holding(o, u), NEW o \in Request \ {q}, Holding(o, u)'
      PROVE  FALSE
  <2>1. o = p /\ Looks(p, u) /\ ~Holding(o, u) BY <1>1, HoldingBack
  <2>2. req'[p].op \in Writers BY <1>1, <2>1 DEF Holding
  <2>3. req[q].pc \notin Idle /\ req[q].user = u /\ req[q].op \in Writers
    BY HoldsInFlight DEF Changing, Writers
  <2>4. QED BY <1>1, <2>1, <2>2, <2>3 DEF Looks
<1>2. ASSUME IsPending(id), ~IsPending(id)', NEW o \in Request, Holding(o, u)'
      PROVE  FALSE
  <2>1. PICK i \in 1..Len(pending) : pending[i].id = id BY <1>2 DEF IsPending
  <2>2. MarkApplied(p)
    <3>1. CASE pending' = pending BY <1>2, <2>1, <3>1 DEF IsPending
    <3>2. CASE SavePending(p) BY <1>2, <2>1, <3>2, Saved DEF IsPending
    <3>3. QED BY <3>1, <3>2 DEF Tables
  <2>3. pending[i].id = req[p].change BY <1>2, <2>1, <2>2, Removed DEF IsPending, TypeOK
  <2>4. req[p].pc = "mark" /\ Ends(p) BY <2>2 DEF MarkApplied, At
  <2>5. req[p].op = "Verify" BY <2>4 DEF TypeOK, RequestOK, Idle, Placed
  <2>6. req[p].user = u
    <3>1. req[p].user = pending[i].user BY <2>3, <2>5 DEF ChangesKnown
    <3>2. req[q].op = "Verify" /\ req[q].user = u BY DEF Changing
    <3>3. req[q].user = pending[i].user BY <2>1, <3>2 DEF ChangesKnown
    <3>4. QED BY <3>1, <3>2, <3>3
  <2>7. Holding(p, u) BY <2>4, <2>5, <2>6 DEF Holding, Writers
  <2>8. req'[p].pc = "ended" BY <2>4 DEF Ends, Ended, NoRequest, TypeOK
  <2>9. ~Keeps(p) /\ ~Looks(p, u) BY <2>8 DEF Keeps, Looks, Edge, Idle
  <2>10. Holding(o, u) /\ o # p BY <1>2, <2>9, HoldingBack
  <2>11. QED BY <2>7, <2>10 DEF UnlessRaced
<1>3. QED BY <1>1, <1>2

\* The code that was accepted for the old address is the one that was there.
LEMMA StillGiven ==
  ASSUME TypeOK, Present, UnlessRaced, NEW p \in Request, Moves(p), Tables(p),
         NEW u \in User, u \notin raced, NEW ch \in Channel, NEW now,
         oldCode[u][ch] \in {None, now},
         NEW q \in Request, Changing(q, u, ch), now \in {req[q].old, req[q].address},
         req[q].pc \in {"newCode", "apply"} /\ now \notin {None, req[q].address} =>
            req[q].item = now /\ oldCode[u][ch] = None,
         q = p => Keeps(p) \/ \E v \in User : Looks(p, v),
         req'[q].pc \in {"newCode", "apply"}, now \notin {None, req[q].address},
         req'[q].old = req[q].old
  PROVE  req'[q].item = now /\ oldCode'[u][ch] = None
<1>1. CASE q # p
  <2>1. req'[q] = req[q] BY <1>1, OthersStay
  <2>2. req[q].item = now /\ oldCode[u][ch] = None BY <2>1
  <2>3. Holding(q, u) BY <2>1 DEF Holding, Changing, Writers
  <2>4. ~Holding(p, u) BY <1>1, <2>3 DEF UnlessRaced
  <2>5. oldCode'[u][ch] = None BY <2>2, <2>4, OldCodeStep
  <2>6. QED BY <2>1, <2>2, <2>5
<1>2. CASE q = p /\ Keeps(p)
  <2>1. CASE req'[p].pc = "newCode"
    <3>1. ConfirmOld(p) BY <1>2, <2>1 DEF Keeps, Edge
    <3>2. ~Ends(p)
      <4>1. SUFFICES ASSUME Ends(p) PROVE FALSE OBVIOUS
      <4>2. req'[p].pc = "ended" BY <4>1 DEF Ends, Ended, NoRequest, TypeOK
      <4>3. QED BY <2>1, <4>2
    <3>3. /\ oldCode[u][ch] # None
          /\ oldCode' = [oldCode EXCEPT ![u][ch] = None]
          /\ req' = [req EXCEPT ![p].pc = "newCode", ![p].item = oldCode[u][ch]]
      BY <1>2, <3>1, <3>2 DEF ConfirmOld, Changing
    <3>4. req[p] \in RequestState BY DEF TypeOK, RequestOK
    <3>5. req'[p].item = oldCode[u][ch] BY <3>3, <3>4 DEF RequestState, TypeOK
    <3>6. oldCode'[u][ch] = None BY <3>3 DEF TypeOK
    <3>7. QED BY <1>2, <3>3, <3>5, <3>6
  <2>2. CASE req'[p].pc = "apply"
    <3>1. req[p].pc = "newCode" /\ req'[p].item = req[p].item BY <1>2, <2>2 DEF Keeps, Edge
    <3>2. req[p].item = now /\ oldCode[u][ch] = None BY <1>2, <3>1
    <3>3. oldCode'[u][ch] = None BY <3>1, <3>2, OldCodeStep
    <3>4. QED BY <1>2, <3>1, <3>2, <3>3
  <2>3. QED BY <1>2, <2>1, <2>2
<1>3. CASE q = p /\ \E v \in User : Looks(p, v)
  <2>1. PICK v \in User : Looks(p, v) BY <1>3
  <2>2. req'[p].pc = "newCode" BY <1>3, <2>1 DEF Looks
  <2>3. req[p].pc = "holder" \/ req'[p].old = None BY <2>1, <2>2 DEF Looks
  <2>4. req[p].pc # "holder" BY <1>3 DEF Changing, TypeOK, RequestOK, Idle
  <2>5. req[p].old = None BY <1>3, <2>3, <2>4
  <2>6. QED BY <1>3, <2>5
<1>4. QED BY <1>1, <1>2, <1>3

LEMMA SettledStep ==
  ASSUME TypeOK, Present, UnlessRaced, ChangesKnown, NEW p \in Request, Moves(p), Tables(p),
         NEW u \in User, u \notin superseded', u \notin raced', u \notin raced, users[u] # None,
         NEW ch \in Channel, Settled(u, ch)
  PROVE  Settled(u, ch)'
<1>. DEFINE now == users[u].contact[ch]  next == users'[u].contact[ch]
<1>1. /\ oldCode[u][ch] \in {None, now}
      /\ \A i \in Waiting(u, ch) : now \in {pending[i].old, pending[i].new}
      /\ \A i, j \in Waiting(u, ch) : pending[i].new = pending[j].new
      /\ \A q \in Request : Changing(q, u, ch) =>
            /\ now \in {req[q].old, req[q].address}
            /\ \A i \in Waiting(u, ch) : pending[i].new = req[q].address
            /\ \A o \in Request : Changing(o, u, ch) => req[o].address = req[q].address
            /\ \/ IsPending(req[q].change)
               \/ \A o \in Request \ {q} : ~Holding(o, u)
            /\ req[q].pc \in {"newCode", "apply"} /\ now \notin {None, req[q].address} =>
                  req[q].item = now /\ oldCode[u][ch] = None
  BY DEF Settled
<1>2. next = now \/ Replaces(p, u, ch) BY ContactStep
<1>. HIDE DEF now, next
<1>3. ASSUME Replaces(p, u, ch)
      PROVE  /\ next = req[p].address /\ oldCode[u][ch] \in {None, next}
             /\ \A i \in Waiting(u, ch) : pending[i].new = next
             /\ \A q \in Request : Changing(q, u, ch) => req[q].address = next
             /\ pending' = pending /\ oldCode' = oldCode
  <2>1. /\ Changing(p, u, ch) /\ req[p].pc = "apply" /\ next = req[p].address
        /\ pending' = pending /\ oldCode' = oldCode
    BY <1>3 DEF Replaces, next
  <2>2. oldCode[u][ch] \in {None, next} BY <1>1, <2>1
  <2>3. QED BY <1>1, <2>1, <2>2
<1>4. oldCode'[u][ch] \in {None, next}
  <2>1. CASE oldCode'[u][ch] = oldCode[u][ch] BY <1>1, <1>2, <1>3, <2>1
  <2>2. CASE oldCode'[u][ch] # oldCode[u][ch]
    <3>1. \/ oldCode'[u][ch] = None
          \/ oldCode'[u][ch] = now /\ users' = users
      BY <2>2, OldCodeStep DEF now
    <3>2. users' = users => next = now BY DEF now, next
    <3>3. QED BY <3>1, <3>2
  <2>3. QED BY <2>1, <2>2
<1>5. ASSUME NEW i \in Waiting(u, ch)' PROVE next \in {pending'[i].old, pending'[i].new}
  <2>1. CASE \E k \in Waiting(u, ch) : pending'[i] = pending[k]
    BY <1>1, <1>2, <1>3, <2>1
  <2>2. CASE /\ users' = users /\ pending'[i] = Asked(p) /\ Asked(p).old = now
    BY <2>2 DEF now, next
  <2>3. QED BY <2>1, <2>2, WaitingBack DEF now
<1>6. ASSUME NEW i \in Waiting(u, ch)', NEW j \in Waiting(u, ch)'
      PROVE  pending'[i].new = pending'[j].new
  <2>1. \/ \E k \in Waiting(u, ch) : pending'[i] = pending[k]
        \/ pending'[i] = Asked(p) /\ \A k \in Waiting(u, ch) : pending[k].new = Asked(p).new
    BY WaitingBack
  <2>2. \/ \E k \in Waiting(u, ch) : pending'[j] = pending[k]
        \/ pending'[j] = Asked(p) /\ \A k \in Waiting(u, ch) : pending[k].new = Asked(p).new
    BY WaitingBack
  <2>3. QED BY <1>1, <2>1, <2>2
<1>7. ASSUME NEW q \in Request, Changing(q, u, ch)'
      PROVE  /\ next \in {req'[q].old, req'[q].address}
             /\ \A i \in Waiting(u, ch)' : pending'[i].new = req'[q].address
             /\ \A o \in Request : Changing(o, u, ch)' => req'[o].address = req'[q].address
             /\ \/ IsPending(req[q].change)'
                \/ \A o \in Request \ {q} : ~Holding(o, u)'
             /\ req'[q].pc \in {"newCode", "apply"} /\ next \notin {None, req'[q].address} =>
                   req'[q].item = next /\ oldCode'[u][ch] = None
  <2>1. CASE /\ Changing(q, u, ch) /\ req[q].change = req'[q].change
             /\ req[q].address = req'[q].address /\ req[q].old = req'[q].old
             /\ q = p => Keeps(p) \/ \E v \in User : Looks(p, v)
    <3>1. next \in {req'[q].old, req'[q].address} BY <1>1, <1>2, <1>3, <2>1
    <3>2. ASSUME NEW i \in Waiting(u, ch)' PROVE pending'[i].new = req'[q].address
      <4>1. CASE \E k \in Waiting(u, ch) : pending'[i] = pending[k] BY <1>1, <2>1, <4>1
      <4>2. CASE /\ SavePending(p) /\ Holding(p, u) /\ pending'[i] = Asked(p)
                 /\ \A k \in Waiting(u, ch) : pending[k].new = Asked(p).new
        <5>1. q # p BY <2>1, <4>2 DEF Changing, SavePending, At, TypeOK, RequestOK, Idle, Placed
        <5>2. IsPending(req[q].change) BY <1>1, <2>1, <4>2, <5>1
        <5>3. PICK k \in 1..Len(pending) : pending[k].id = req[q].change BY <5>2 DEF IsPending
        <5>4. /\ pending[k].user = u /\ pending[k].channel = ch /\ pending[k].new = req[q].address
          BY <2>1, <5>3 DEF ChangesKnown, Changing
        <5>5. QED BY <2>1, <4>2, <5>4 DEF Waiting
      <4>3. QED BY <4>1, <4>2, WaitingBack
    <3>3. ASSUME NEW o \in Request, Changing(o, u, ch)' PROVE req'[o].address = req'[q].address
      <4>1. CASE Changing(o, u, ch) /\ req[o].address = req'[o].address BY <1>1, <2>1, <4>1
      <4>2. CASE \E i \in Waiting(u, ch) : req'[p].address = pending[i].new /\ o = p
        BY <1>1, <2>1, <4>2
      <4>3. QED BY <3>3, <4>1, <4>2, ChangingBack
    <3>4. IsPending(req[q].change)' \/ \A o \in Request \ {q} : ~Holding(o, u)'
      <4>1. PICK id : id = req[q].change OBVIOUS
      <4>2. IsPending(id)' \/ \A o \in Request \ {q} : ~Holding(o, u)'
        BY <1>1, <2>1, <4>1, StillAlone
      <4>3. req'[q].change = id BY <2>1, <4>1
      <4>4. QED BY <4>2, <4>3 DEF IsPending
    <3>5. ASSUME req'[q].pc \in {"newCode", "apply"}, next \notin {None, req'[q].address}
          PROVE  req'[q].item = next /\ oldCode'[u][ch] = None
      <4>1. next = now BY <1>2, <1>3, <2>1, <3>5
      <4>2. now \notin {None, req[q].address} BY <2>1, <3>5, <4>1
      <4>3. QED BY <1>1, <2>1, <3>5, <4>1, <4>2, StillGiven
    <3>6. QED BY <3>1, <3>2, <3>3, <3>4, <3>5
  <2>2. CASE /\ q = p /\ req'[p].pc \in Unread /\ users' = users /\ UNCHANGED pending
             /\ \E i \in Waiting(u, ch) : /\ req'[p].change = pending[i].id
                                          /\ req'[p].address = pending[i].new
                                          /\ req'[p].old = pending[i].old
    <3>1. PICK i \in Waiting(u, ch) : /\ req'[p].change = pending[i].id
                                      /\ req'[p].address = pending[i].new
                                      /\ req'[p].old = pending[i].old
      BY <2>2
    <3>2. next = now BY <2>2 DEF now, next
    <3>3. next \in {req'[q].old, req'[q].address} BY <1>1, <2>2, <3>1, <3>2
    <3>4. \A j \in Waiting(u, ch)' : pending'[j].new = req'[q].address
      BY <1>1, <2>2, <3>1 DEF Waiting
    <3>5. ASSUME NEW o \in Request, Changing(o, u, ch)' PROVE req'[o].address = req'[q].address
      <4>1. CASE Changing(o, u, ch) /\ req[o].address = req'[o].address
        BY <1>1, <2>2, <3>1, <4>1
      <4>2. CASE o = p BY <2>2, <4>2
      <4>3. QED BY <3>5, <4>1, <4>2, ChangingBack
    <3>6. IsPending(req[q].change)' BY <2>2, <3>1 DEF IsPending, Waiting
    <3>7. req'[q].pc \notin {"newCode", "apply"} BY <2>2 DEF Unread
    <3>8. QED BY <3>3, <3>4, <3>5, <3>6, <3>7
  <2>3. QED BY <1>7, <2>1, <2>2, ChangingBack
<1>8. QED BY <1>4, <1>5, <1>6, <1>7 DEF Settled, next

\* A user who has just registered has no changes.
LEMMA NewcomerSettled ==
  ASSUME TypeOK, Present, NEW p \in Request, Moves(p), Tables(p),
         NEW u \in User, users[u] = None, users'[u] # None, NEW ch \in Channel
  PROVE  Settled(u, ch)'
<1>1. SaveUser(p) /\ users' # users
  <2>1. ~Writing(p)
    <3>1. SUFFICES ASSUME Writing(p) PROVE FALSE OBVIOUS
    <3>2. PICK row \in Row : Writes(p, row) BY <3>1, WriteStep
    <3>3. users[req[p].user] # None BY <3>2 DEF Writes, Present
    <3>4. users'[u] = users[u] BY <3>3, RowsStay
    <3>5. QED BY <3>4
  <2>2. QED BY <2>1 DEF Tables
<1>2. PICK row \in Row : Inserts(p, row) BY <1>1, InsertStep
<1>3. pending' = pending /\ oldCode' = oldCode BY <1>2 DEF Inserts
<1>4. Waiting(u, ch)' = {} BY <1>3 DEF Waiting, Present
<1>5. oldCode'[u][ch] = None BY <1>3 DEF Present
<1>6. ASSUME NEW q \in Request, Changing(q, u, ch)' PROVE FALSE
  <2>1. Changing(q, u, ch)
    <3>1. Waiting(u, ch) = {} BY DEF Waiting, Present
    <3>2. QED BY <1>6, <3>1, ChangingBack
  <2>2. QED BY <2>1 DEF Changing, Present
<1>7. QED BY <1>4, <1>5, <1>6 DEF Settled

LEMMA OneChangeStep ==
  ASSUME TypeOK, Present, UnlessRaced, ChangesKnown, OneChange, NEW p \in Request,
         Begin(p) \/ Continue(p) \/ Fail(p)
  PROVE  OneChange'
<1>1. Moves(p) /\ Tables(p) BY RequestStep, TableStep
<1>2. superseded \subseteq superseded' /\ raced \subseteq raced'
  BY <1>1, RacesStay DEF Tables, SavePending
<1>3. ASSUME NEW u \in User, u \notin superseded', u \notin raced', users'[u] # None,
             NEW ch \in Channel
      PROVE  Settled(u, ch)'
  <2>1. CASE users[u] = None BY <1>1, <1>3, <2>1, NewcomerSettled
  <2>2. CASE users[u] # None
    <3>1. Settled(u, ch) BY <1>2, <1>3, <2>2 DEF OneChange
    <3>2. QED BY <1>1, <1>2, <1>3, <2>2, <3>1, SettledStep
  <2>3. QED BY <2>1, <2>2
<1>4. QED BY <1>3 DEF OneChange

LEMMA OneChangeSuspend ==
  ASSUME TypeOK, OneChange, NEW u \in User, NEW row \in Row, Suspends(u, row)
  PROVE  OneChange'
<1>1. /\ UNCHANGED <<pending, req, oldCode, superseded>> /\ raced \subseteq raced'
      /\ users' = [users EXCEPT ![u] = row] /\ row.contact = users[u].contact
      /\ users[u] # None
  BY Assumed DEF Suspends
<1>2. ASSUME NEW v \in User PROVE users'[v] = users[v] \/ (v = u /\ users'[v] = row)
  BY <1>1 DEF TypeOK
<1>3. ASSUME NEW v \in User, users'[v] # None, NEW ch \in Channel
      PROVE  users[v] # None /\ users'[v].contact[ch] = users[v].contact[ch]
  BY <1>1, <1>2, <1>3
<1>4. ASSUME NEW v \in User, v \notin superseded', v \notin raced', users'[v] # None,
             NEW ch \in Channel
      PROVE  Settled(v, ch)'
  <2>1. Settled(v, ch) BY <1>1, <1>3, <1>4 DEF OneChange
  <2>2. users'[v].contact[ch] = users[v].contact[ch] BY <1>3, <1>4
  <2>3. QED BY <1>1, <2>1, <2>2 DEF Settled, Waiting, Changing, Holding, IsPending
<1>5. QED BY <1>4 DEF OneChange

-----------------------------------------------------------------------------
(* The invariant. *)

\* The tables of the start.
Starts(there, verified, mfa, at, ch) ==
    /\ at \in [there -> Address] /\ ch \in Channel
    /\ users = [u \in User |->
          IF u \notin there THEN None
          ELSE [NewUser(ch, at[u]) EXCEPT
                  !.verified[ch] = verified, !.secret = IF mfa THEN First ELSE None,
                  !.confirmed = mfa]]
    /\ recovery = [u \in User |-> [set |-> IF mfa /\ u \in there THEN First ELSE None,
                                   left |-> TRUE]]
    /\ code = [u \in User |-> [c \in Channel |->
                 IF u \in there /\ c = ch /\ ~verified THEN at[u] ELSE None]]
    /\ mailed = [reset |-> there, link |-> there]
    /\ proved = IF verified THEN {<<u, ch, at[u]>> : u \in there} ELSE {}
    /\ validated = IF mfa THEN there \X {First} ELSE {}

LEMMA InitStarts ==
  Init => \E there \in SUBSET User, verified \in BOOLEAN, mfa \in BOOLEAN :
             \E at, ch : Starts(there, verified, mfa, at, ch)
<1>. SUFFICES ASSUME Init
              PROVE  \E there \in SUBSET User, verified \in BOOLEAN, mfa \in BOOLEAN :
                        \E at, ch : Starts(there, verified, mfa, at, ch)
  OBVIOUS
<1>1. PICK there \in SUBSET User, verified, mfa \in BOOLEAN :
       \E at \in [there -> Address], ch \in Channel :
          /\ \A u, v \in there : at[u] = at[v] => u = v
          /\ users = [u \in User |->
                IF u \notin there THEN None
                ELSE [NewUser(ch, at[u]) EXCEPT
                        !.verified[ch] = verified, !.secret = IF mfa THEN First ELSE None,
                        !.confirmed = mfa]]
          /\ recovery = [u \in User |-> [set |-> IF mfa /\ u \in there THEN First ELSE None,
                                         left |-> TRUE]]
          /\ code = [u \in User |-> [c \in Channel |->
                       IF u \in there /\ c = ch /\ ~verified THEN at[u] ELSE None]]
          /\ mailed = [reset |-> there, link |-> there]
          /\ proved = IF verified THEN {<<u, ch, at[u]>> : u \in there} ELSE {}
          /\ validated = IF mfa THEN there \X {First} ELSE {}
  BY Zenon DEF Init
<1>2. PICK at \in [there -> Address], ch \in Channel : Starts(there, verified, mfa, at, ch)
  BY <1>1, Zenon DEF Starts
<1>3. \E x, y : Starts(there, verified, mfa, x, y) BY <1>2, Zenon
<1>4. there \in SUBSET User /\ verified \in BOOLEAN /\ mfa \in BOOLEAN BY <1>1
<1>5. QED BY <1>3, <1>4, Zenon

\* Who is there at the start has a row.
LEMMA StartedRow ==
  ASSUME NEW there \in SUBSET User, NEW verified \in BOOLEAN, NEW mfa \in BOOLEAN, NEW at, NEW ch,
         Starts(there, verified, mfa, at, ch), NEW u \in there
  PROVE  users[u] \in Row
<1>. DEFINE s == IF mfa THEN First ELSE None
            c == [x \in Channel |-> IF x = ch THEN at[u] ELSE None]
            v == [[x \in Channel |-> FALSE] EXCEPT ![ch] = verified]
<1>1. /\ users[u] = [NewUser(ch, at[u]) EXCEPT !.verified[ch] = verified, !.secret = s,
                                               !.confirmed = mfa]
      /\ ch \in Channel /\ at \in [there -> Address]
  BY DEF Starts
<1>2. users[u] = [contact |-> c, verified |-> v, secret |-> s, confirmed |-> mfa, active |-> TRUE]
  BY <1>1 DEF NewUser
<1>3. s \in Value \cup {None} BY DEF Value
<1>4. c \in [Channel -> Address \cup {None}]
  <2>1. at[u] \in Address BY <1>1
  <2>2. QED BY <2>1
<1>5. v \in [Channel -> BOOLEAN]
  <2>1. [x \in Channel |-> FALSE] \in [Channel -> BOOLEAN] OBVIOUS
  <2>2. CASE verified = TRUE BY <2>1, <2>2
  <2>3. CASE verified = FALSE BY <2>1, <2>3
  <2>4. QED BY <2>2, <2>3
<1>. HIDE DEF s, c, v
<1>6. QED BY <1>2, <1>3, <1>4, <1>5 DEF Row

LEMMA InitTypes == Init => TypeOK /\ Present
<1>. SUFFICES ASSUME Init PROVE TypeOK /\ Present OBVIOUS
<1>0a. PICK there \in SUBSET User, verified \in BOOLEAN, mfa \in BOOLEAN :
          \E at, ch : Starts(there, verified, mfa, at, ch)
  BY InitStarts
<1>0. PICK at, ch : Starts(there, verified, mfa, at, ch) BY <1>0a
<1>1. /\ at \in [there -> Address] /\ ch \in Channel
      /\ users = [u \in User |->
            IF u \notin there THEN None
            ELSE [NewUser(ch, at[u]) EXCEPT
                    !.verified[ch] = verified, !.secret = IF mfa THEN First ELSE None,
                    !.confirmed = mfa]]
      /\ recovery = [u \in User |-> [set |-> IF mfa /\ u \in there THEN First ELSE None,
                                     left |-> TRUE]]
      /\ code = [u \in User |-> [c \in Channel |->
                   IF u \in there /\ c = ch /\ ~verified THEN at[u] ELSE None]]
      /\ mailed = [reset |-> there, link |-> there]
      /\ proved = IF verified THEN {<<u, ch, at[u]>> : u \in there} ELSE {}
      /\ validated = IF mfa THEN there \X {First} ELSE {}
  BY <1>0 DEF Starts
<1>2. /\ pending = << >> /\ oldCode = [u \in User |-> [c \in Channel |-> None]] /\ challenge = {}
      /\ req = [p \in Request |-> NoRequest] /\ seen = [p \in Request |-> {}]
      /\ spent = {} /\ superseded = {} /\ raced = {}
  BY DEF Init
<1>3. ASSUME NEW u \in there PROVE users[u] \in Row BY <1>0, StartedRow
<1>4. \A u \in User \ there : users[u] = None BY <1>1
<1>5. users \in [User -> Row \cup {None}] BY <1>1, <1>3, <1>4
<1>6. NoRequest \in RequestState BY DEF NoRequest, RequestState, Labels
<1>7. RequestOK(NoRequest) BY <1>6 DEF RequestOK, NoRequest, Idle
<1>8. /\ oldCode \in [User -> [Channel -> Address \cup {None}]]
      /\ mailed \in [reset : SUBSET User, link : SUBSET User]
  BY <1>1, <1>2
<1>a. code \in [User -> [Channel -> Address \cup {None}]]
  <2>1. ASSUME NEW u \in User, NEW c \in Channel
        PROVE  (IF u \in there /\ c = ch /\ ~verified THEN at[u] ELSE None) \in Address \cup {None}
    BY <1>1
  <2>2. QED BY <1>1, <2>1
<1>b. recovery \in [User -> [set : Value \cup {None}, left : BOOLEAN]]
  <2>1. ASSUME NEW u \in User
        PROVE  (IF mfa /\ u \in there THEN First ELSE None) \in Value \cup {None}
    BY DEF Value
  <2>2. QED BY <1>1, <2>1
<1>9. proved \subseteq User \X Channel \X Address
  <2>1. \A u \in there : u \in User /\ at[u] \in Address BY <1>1
  <2>2. CASE proved = {} BY <2>2
  <2>3. CASE proved = {<<u, ch, at[u]>> : u \in there}
    <3>1. \A u \in there : <<u, ch, at[u]>> \in User \X Channel \X Address BY <1>1, <2>1
    <3>2. QED BY <2>3, <3>1
  <2>4. QED BY <1>1, <2>2, <2>3
<1>c. validated \subseteq User \X Value
  <2>1. CASE validated = {} BY <2>1
  <2>2. CASE validated = there \X {First} BY <2>2 DEF Value
  <2>3. QED BY <1>1, <2>1, <2>2
<1>10. TypeOK
  BY <1>2, <1>5, <1>7, <1>8, <1>9, <1>a, <1>b, <1>c DEF TypeOK
<1>11. \A p \in Request : req[p].user \notin User /\ req[p].pc = "new"
  BY <1>2, Assumed DEF NoRequest
<1>12. Present BY <1>2, <1>11 DEF Present
<1>13. QED BY <1>10, <1>12

LEMMA InitSecrets == Init => OnlyValidatedSecrets /\ NoLockIn
<1>. SUFFICES ASSUME Init PROVE OnlyValidatedSecrets /\ NoLockIn OBVIOUS
<1>0a. PICK there \in SUBSET User, verified \in BOOLEAN, mfa \in BOOLEAN :
          \E at, ch : Starts(there, verified, mfa, at, ch)
  BY InitStarts
<1>0. PICK at, ch : Starts(there, verified, mfa, at, ch) BY <1>0a
<1>1. /\ ch \in Channel
      /\ users = [u \in User |->
            IF u \notin there THEN None
            ELSE [NewUser(ch, at[u]) EXCEPT
                    !.verified[ch] = verified, !.secret = IF mfa THEN First ELSE None,
                    !.confirmed = mfa]]
      /\ recovery = [u \in User |-> [set |-> IF mfa /\ u \in there THEN First ELSE None,
                                     left |-> TRUE]]
      /\ validated = IF mfa THEN there \X {First} ELSE {}
  BY <1>0 DEF Starts
<1>2. ASSUME NEW u \in User, users[u] # None, users[u].confirmed
      PROVE  u \in there /\ mfa /\ users[u].secret = First
  <2>1. u \in there BY <1>1, <1>2
  <2>. DEFINE s == IF mfa THEN First ELSE None
  <2>2. users[u] = [NewUser(ch, at[u]) EXCEPT !.verified[ch] = verified, !.secret = s,
                                              !.confirmed = mfa]
    BY <1>1, <2>1
  <2>3. users[u].confirmed = mfa /\ users[u].secret = s BY <2>2 DEF NewUser
  <2>4. QED BY <1>2, <2>1, <2>3
<1>3. OnlyValidatedSecrets
  <2>1. ASSUME NEW u \in User, users[u] # None, users[u].confirmed
        PROVE  <<u, users[u].secret>> \in validated
    <3>1. u \in there /\ mfa /\ users[u].secret = First BY <1>2, <2>1
    <3>2. validated = there \X {First} BY <1>1, <3>1
    <3>3. QED BY <3>1, <3>2
  <2>2. QED BY <2>1 DEF OnlyValidatedSecrets
<1>4. NoLockIn BY <1>1, <1>2, Assumed DEF NoLockIn
<1>5. QED BY <1>3, <1>4

LEMMA InitInv == Init => AccountsInv
<1>. SUFFICES ASSUME Init PROVE AccountsInv OBVIOUS
<1>1. TypeOK /\ Present /\ OnlyValidatedSecrets /\ NoLockIn BY InitTypes, InitSecrets
<1>2. \A p \in Request : /\ req[p].user \notin User /\ req[p].pc = "new" /\ req[p].row = None
                         /\ req[p].change = None
  BY Assumed DEF Init, NoRequest
<1>3. pending = << >> /\ spent = {} /\ superseded = {} /\ raced = {} BY DEF Init
<1>4. ASSUME NEW u \in User, NEW p \in Request PROVE recovery[u].set # p
  <2>1a. PICK there \in SUBSET User, verified \in BOOLEAN, mfa \in BOOLEAN :
          \E at, ch : Starts(there, verified, mfa, at, ch)
  BY InitStarts
<2>1. PICK at, ch : Starts(there, verified, mfa, at, ch) BY <2>1a
  <2>2. recovery[u].set = IF mfa /\ u \in there THEN First ELSE None BY <2>1 DEF Starts
  <2>3. QED BY <2>2, Assumed
<1>5. SecretsInHand /\ Admitted BY <1>2 DEF SecretsInHand, Admitted
<1>6. \A u \in User, p \in Request : ~Holding(p, u) BY <1>2 DEF Holding
<1>7. UnlessRaced BY <1>6 DEF UnlessRaced
<1>8. FreshSets BY <1>3, <1>4 DEF FreshSets
<1>9. ChangesKnown BY <1>2, <1>3, Assumed DEF ChangesKnown, IsPending
<1>10. ASSUME NEW u \in User, NEW ch \in Channel PROVE Settled(u, ch)
  <2>1. oldCode[u][ch] = None BY DEF Init
  <2>2. Waiting(u, ch) = {} /\ \A p \in Request : ~Changing(p, u, ch)
    BY <1>2, <1>3 DEF Waiting, Changing
  <2>3. QED BY <2>1, <2>2 DEF Settled
<1>11. OneChange BY <1>10 DEF OneChange
<1>12. QED BY <1>1, <1>5, <1>7, <1>8, <1>9, <1>11 DEF AccountsInv

LEMMA StutterInv ==
  ASSUME AccountsInv, UNCHANGED vars
  PROVE  AccountsInv'
<1>. USE DEF vars, store, history
<1>1. TypeOK' /\ Present' BY DEF AccountsInv, TypeOK, Present
<1>2. OnlyValidatedSecrets' /\ SecretsInHand' /\ NoLockIn'
  BY DEF AccountsInv, OnlyValidatedSecrets, SecretsInHand, NoLockIn
<1>3. UnlessRaced' BY DEF AccountsInv, UnlessRaced, Holding
<1>4. Admitted' /\ FreshSets' BY DEF AccountsInv, Admitted, FreshSets
<1>5. ChangesKnown' BY DEF AccountsInv, ChangesKnown, IsPending
<1>6. OneChange' BY DEF AccountsInv, OneChange, Settled, Waiting, Changing, Holding, IsPending
<1>7. QED BY <1>1, <1>2, <1>3, <1>4, <1>5, <1>6 DEF AccountsInv

LEMMA NextInv ==
  ASSUME AccountsInv, Next
  PROVE  AccountsInv'
<1>1. CASE \E p \in Request : Begin(p) \/ Continue(p) \/ Fail(p)
  <2>1. PICK p \in Request : Begin(p) \/ Continue(p) \/ Fail(p) BY <1>1
  <2>2. TypeOK' /\ Present' BY <2>1, TypeStep, PresentStep DEF AccountsInv
  <2>3. OnlyValidatedSecrets' /\ SecretsInHand' BY <2>1, SecretsStep DEF AccountsInv, Secrets
  <2>4. NoLockIn' /\ UnlessRaced' BY <2>1, NoLockInStep, UnlessRacedStep DEF AccountsInv
  <2>5. Admitted' /\ FreshSets' BY <2>1, AdmittedStep, FreshSetsStep DEF AccountsInv
  <2>6. ChangesKnown' /\ OneChange' BY <2>1, ChangesKnownStep, OneChangeStep DEF AccountsInv
  <2>7. QED BY <2>2, <2>3, <2>4, <2>5, <2>6 DEF AccountsInv
<1>2. CASE \E u \in User : Suspend(u)
  <2>1. PICK u \in User : Suspend(u) BY <1>2
  <2>2. PICK row \in Row : Suspends(u, row) BY <2>1, SuspendStep DEF AccountsInv
  <2>3. TypeOK' /\ Present' BY <2>2, SuspendTypes DEF AccountsInv
  <2>4. OnlyValidatedSecrets' /\ SecretsInHand' BY <2>2, SecretsSuspend DEF AccountsInv, Secrets
  <2>5. NoLockIn' /\ UnlessRaced' BY <2>2, UnlessRacedSuspend DEF AccountsInv
  <2>6. Admitted' /\ FreshSets' BY <2>2, AdmittedSuspend, FreshSetsSuspend DEF AccountsInv
  <2>7. ChangesKnown' /\ OneChange' BY <2>2, ChangesKnownSuspend, OneChangeSuspend DEF AccountsInv
  <2>8. QED BY <2>3, <2>4, <2>5, <2>6, <2>7 DEF AccountsInv
<1>3. QED BY <1>1, <1>2 DEF Next

\* MFA is enforced only with a secret of which a code was accepted, however
\* setups, confirmations and other updates overlap; where none do, there are
\* recovery codes with it, the copy of a row in hand is the row, and the
\* changes of a contact that wait for their codes are one change.
THEOREM AccountsInvariant == Spec => []AccountsInv
<1>1. Init => AccountsInv BY InitInv
<1>2. AccountsInv /\ [Next]_vars => AccountsInv' BY NextInv, StutterInv
<1>3. QED BY <1>1, <1>2, PTL DEF Spec

-----------------------------------------------------------------------------
(* What a step may never do. *)

\* A code is used up where it was not accepted before.
LEMMA UsedOnce ==
  ASSUME AccountsInv, [Next]_vars, NEW p \in Request, At(p, "consume"),
         req'[p].pc \in {"disable", "session"}
  PROVE  <<req[p].user, req[p].item>> \notin spent
<1>1. req'[p].pc # req[p].pc BY DEF At
<1>2. ASSUME NEW q \in Request, Begin(q) \/ Continue(q) \/ Fail(q)
      PROVE  q = p /\ Consume(p) /\ ~Ends(p)
  <2>1. Moves(q) BY <1>2, RequestStep DEF AccountsInv
  <2>2. q = p BY <1>1, <2>1, OthersStay DEF AccountsInv
  <2>3. Keeps(p) BY <2>1, <2>2 DEF Moves, Quits, Looks, Names, At, Unread
  <2>4. Consume(p) BY <2>3 DEF Keeps, Edge, At
  <2>5. ~Ends(p)
    <3>1. SUFFICES ASSUME Ends(p) PROVE FALSE OBVIOUS
    <3>2. req'[p].pc = "ended" BY <3>1 DEF Ends, Ended, NoRequest, AccountsInv, TypeOK
    <3>3. QED BY <3>2
  <2>6. QED BY <2>2, <2>4, <2>5
<1>3. Consume(p) /\ ~Ends(p) BY <1>1, <1>2 DEF Next, Suspend, vars
<1>4. recovery[req[p].user] = [set |-> req[p].item, left |-> TRUE] /\ req[p].item # None
  BY <1>3 DEF Consume
<1>5. req[p].user \in User BY UserOf DEF AccountsInv, At, Idle
<1>6. QED BY <1>4, <1>5 DEF AccountsInv, FreshSets

\* A session goes to a user who during the request was active and had MFA off or
\* gave a second factor to it, and a recovery code is accepted once, however
\* requests for sessions and changes of the account overlap.
THEOREM SessionsAreJustified == Spec => SessionJustified
<1>. DEFINE A == \A p \in Request :
          /\ At(p, "session") /\ req'[p].pc = "issued" =>
                \E row \in seen[p] : row.active /\ (row.confirmed => req[p].factor # "none")
          /\ At(p, "consume") /\ req'[p].pc \in {"disable", "session"} =>
                <<req[p].user, req[p].item>> \notin spent
<1>1. AccountsInv /\ [Next]_vars => A
  BY UsedOnce DEF AccountsInv, Admitted, At
<1>2. AccountsInv /\ [Next]_vars => [A]_vars BY <1>1
<1>3. QED BY <1>2, AccountsInvariant, PTL DEF Spec, SessionJustified

\* Who replaces an address has given the code that was sent to it.
LEMMA Confirmed ==
  ASSUME AccountsInv, [Next]_vars, NEW u \in User, u \notin superseded, u \notin raced,
         users[u] # None, NEW ch \in Channel, users[u].contact[ch] # None,
         users'[u].contact[ch] # users[u].contact[ch]
  PROVE  \E p \in Request : At(p, "apply") /\ req[p].user = u /\ req[p].item = users[u].contact[ch]
<1>1. users' # users OBVIOUS
<1>2. CASE \E p \in Request : Begin(p) \/ Continue(p) \/ Fail(p)
  <2>1. PICK p \in Request : Begin(p) \/ Continue(p) \/ Fail(p) BY <1>2
  <2>2. Tables(p) BY <2>1, TableStep
  <2>3. Replaces(p, u, ch) BY <2>2, ContactStep DEF AccountsInv
  <2>4. Settled(u, ch) BY DEF AccountsInv, OneChange
  <2>5. Changing(p, u, ch) /\ req[p].pc = "apply" /\ users[u].contact[ch] # req[p].address
    BY <2>3 DEF Replaces
  <2>6. req[p].item = users[u].contact[ch] BY <2>4, <2>5 DEF Settled
  <2>7. QED BY <2>5, <2>6 DEF At, Changing
<1>3. CASE \E v \in User : Suspend(v)
  <2>1. PICK v \in User : Suspend(v) BY <1>3
  <2>2. PICK row \in Row : Suspends(v, row) BY <2>1, SuspendStep DEF AccountsInv
  <2>3. users'[u] = users[u] \/ (u = v /\ users'[u] = row)
    BY <2>2 DEF Suspends, AccountsInv, TypeOK
  <2>4. QED BY <2>2, <2>3 DEF Suspends
<1>4. QED BY <1>1, <1>2, <1>3 DEF Next, vars, store

\* An address of an account is replaced only by a request that has accepted a
\* code sent to it, unless the user asked for several changes at once or
\* updates of his row overlapped.
THEOREM OldAddressesConfirm == Spec => OldAddressConfirms
<1>. DEFINE A == \A u \in User \ (superseded \cup raced) : users[u] # None =>
          \A ch \in Channel :
             LET old == users[u].contact[ch] IN
             old # None /\ users'[u].contact[ch] # old =>
                \E p \in Request : At(p, "apply") /\ req[p].user = u /\ req[p].item = old
<1>1. AccountsInv /\ [Next]_vars => A BY Confirmed
<1>2. AccountsInv /\ [Next]_vars => [A]_vars BY <1>1
<1>3. QED BY <1>2, AccountsInvariant, PTL DEF Spec, OldAddressConfirms

-----------------------------------------------------------------------------
(* Verified addresses.  A code is not tied to the address or the change it *)
(* was sent for, so what a request proves depends on every code that is    *)
(* out.  The invariant matches them: as long as the user has not asked for *)
(* another address while one waited, no more codes are on their way than   *)
(* there are changes that wait, or a first address, and all are for the    *)
(* same address.                                                           *)

\* The address of u is there, and no code has come from it.
Unproved(u, ch) == users[u].contact[ch] # None /\ <<u, ch, users[u].contact[ch]>> \notin proved

\* What waits for a code: the first address, or changes by their names.
Owed(u, ch) ==
    IF Unproved(u, ch) THEN {None} ELSE {pending[i].id : i \in Waiting(u, ch)}

\* The address of all these.
Promised(u, ch) ==
    IF Unproved(u, ch) THEN {users[u].contact[ch]} ELSE {pending[i].new : i \in Waiting(u, ch)}

\* A request that is going to send a code, or has had one accepted for a change
\* that still waits.
Carries(p, u, ch) ==
    /\ req[p].user = u /\ req[p].channel = ch
    /\ req[p].pc = "issue" \/ (req[p].pc \in {"apply", "mark"} /\ IsPending(req[p].change))

\* These requests, and the code that is active.
OnTheWay(u, ch) ==
    {p \in Request : Carries(p, u, ch)} \cup (IF code[u][ch] # None THEN {None} ELSE {})

\* No more codes than there are changes, and all for one address.
Matched(u, ch) ==
    /\ IsFiniteSet(OnTheWay(u, ch))
    /\ Cardinality(OnTheWay(u, ch)) <= Cardinality(Owed(u, ch))
    /\ \A a, b \in Promised(u, ch) : a = b
    /\ code[u][ch] # None => code[u][ch] \in Promised(u, ch)
    /\ \A p \in Request : req[p].pc = "issue" /\ Carries(p, u, ch) =>
          req[p].address \in Promised(u, ch)

\* The row and the copies in hand have addresses from which a code has come, or
\* all the first one.
Traced(u, ch) ==
    /\ users[u].verified[ch] => <<u, ch, users[u].contact[ch]>> \in proved
    /\ \A p \in Request : req[p].user = u /\ req[p].row # None =>
          /\ req[p].row.verified[ch] => <<u, ch, req[p].row.contact[ch]>> \in proved
          /\ Unproved(u, ch) => req[p].row.contact[ch] = users[u].contact[ch]
          /\ ~Unproved(u, ch) /\ req[p].row.contact[ch] # None =>
                <<u, ch, req[p].row.contact[ch]>> \in proved

Verifies(p, u, ch) == req[p].op = "Verify" /\ req[p].user = u /\ req[p].channel = ch

\* A request that verifies an address works on a change that waits or was
\* proved, or on the address of the row it has read; and it writes what was
\* proved.
Proving(u, ch) ==
    /\ Unproved(u, ch) => Waiting(u, ch) = {}
    /\ \A p \in Request : Verifies(p, u, ch) =>
          /\ req[p].change # None =>
                ~Unproved(u, ch) /\ (IsPending(req[p].change) \/ <<u, ch, req[p].address>> \in proved)
          /\ req[p].change = None =>
                req[p].pc \in {"newCode", "apply"} /\ req[p].row.contact[ch] = req[p].address
          /\ req[p].pc \in {"apply", "mark"} => <<u, ch, req[p].address>> \in proved

\* Without a row there is no code; a registration holds no copy.
Newcomers ==
    /\ \A u \in User : users[u] = None =>
          \A ch \in Channel : code[u][ch] = None /\ \A a \in Address : <<u, ch, a>> \notin proved
    /\ \A p \in Request :
          /\ req[p].op = "Register" => req[p].row = None
          /\ req[p].pc = "issue" => users[req[p].user] # None

Origins ==
    /\ Newcomers
    /\ \A u \in User \ superseded : users[u] # None =>
          \A ch \in Channel : Matched(u, ch) /\ Traced(u, ch) /\ Proving(u, ch)

\* Counting finite sets.
LEMMA Fewer ==
  ASSUME NEW T, IsFiniteSet(T), NEW S, S \subseteq T
  PROVE  /\ IsFiniteSet(S) /\ Cardinality(S) <= Cardinality(T)
         /\ Cardinality(S) \in Nat /\ Cardinality(T) \in Nat
<1>1. S \in SUBSET T OBVIOUS
<1>2. QED BY <1>1, FS_Subset, FS_CardinalityType

LEMMA Exchanged ==
  ASSUME NEW T, IsFiniteSet(T), NEW x, NEW y \in T, NEW S, S \subseteq (T \ {y}) \cup {x}
  PROVE  IsFiniteSet(S) /\ Cardinality(S) <= Cardinality(T)
<1>. DEFINE R == T \ {y}
<1>1. IsFiniteSet(R) /\ Cardinality(R) = Cardinality(T) - 1 BY FS_RemoveElement
<1>2. Cardinality(R) \in Nat /\ Cardinality(T) \in Nat BY <1>1, FS_CardinalityType
<1>3. /\ IsFiniteSet(R \cup {x})
      /\ Cardinality(R \cup {x}) \in {Cardinality(R), Cardinality(R) + 1}
  BY <1>1, FS_AddElement
<1>4. /\ IsFiniteSet(S) /\ Cardinality(S) <= Cardinality(R \cup {x})
      /\ Cardinality(S) \in Nat
  BY <1>3, Fewer
<1>. HIDE DEF R
<1>5. QED BY <1>1, <1>2, <1>3, <1>4

LEMMA BothAdded ==
  ASSUME NEW T, IsFiniteSet(T), NEW W, IsFiniteSet(W), Cardinality(T) <= Cardinality(W),
         NEW x, x \notin W, NEW S, S \subseteq T \cup {x}
  PROVE  IsFiniteSet(S) /\ Cardinality(S) <= Cardinality(W \cup {x})
<1>1. /\ Cardinality(T) \in Nat /\ Cardinality(W) \in Nat BY FS_CardinalityType
<1>2. /\ IsFiniteSet(T \cup {x})
      /\ Cardinality(T \cup {x}) \in {Cardinality(T), Cardinality(T) + 1}
  BY FS_AddElement
<1>3. Cardinality(W \cup {x}) = Cardinality(W) + 1 BY FS_AddElement
<1>4. /\ IsFiniteSet(S) /\ Cardinality(S) <= Cardinality(T \cup {x}) /\ Cardinality(S) \in Nat
  BY <1>2, Fewer
<1>5. QED BY <1>1, <1>2, <1>3, <1>4

LEMMA BothRemoved ==
  ASSUME NEW T, IsFiniteSet(T), NEW W, IsFiniteSet(W), Cardinality(T) <= Cardinality(W),
         NEW x, x \in T, NEW y, NEW V, IsFiniteSet(V), W \ {y} \subseteq V,
         NEW S, S \subseteq T \ {x}
  PROVE  IsFiniteSet(S) /\ Cardinality(S) <= Cardinality(V)
<1>1. Cardinality(T) \in Nat /\ Cardinality(W) \in Nat BY FS_CardinalityType
<1>2. IsFiniteSet(T \ {x}) /\ Cardinality(T \ {x}) = Cardinality(T) - 1 BY FS_RemoveElement
<1>3. IsFiniteSet(W \ {y}) /\ Cardinality(W \ {y}) \in {Cardinality(W), Cardinality(W) - 1}
  BY FS_RemoveElement
<1>4. /\ IsFiniteSet(S) /\ Cardinality(S) <= Cardinality(T \ {x})
      /\ Cardinality(S) \in Nat
  BY <1>2, Fewer
<1>5. Cardinality(W \ {y}) <= Cardinality(V) /\ Cardinality(V) \in Nat BY Fewer
<1>6. QED BY <1>1, <1>2, <1>3, <1>4, <1>5

LEMMA NoneLeft ==
  ASSUME NEW S, IsFiniteSet(S), NEW W, Cardinality(S) <= Cardinality(W)
  PROVE  /\ W = {} => S = {}
         /\ \A x, y : W = {y} /\ x \in S => S = {x}
<1>1. Cardinality(S) \in Nat BY FS_CardinalityType
<1>2. ASSUME W = {} PROVE S = {}
  <2>1. Cardinality(W) = 0 BY <1>2, FS_EmptySet
  <2>2. Cardinality(S) = 0 BY <1>1, <2>1
  <2>3. QED BY <2>2, FS_EmptySet
<1>3. ASSUME NEW x, NEW y, W = {y}, x \in S PROVE S = {x}
  <2>1. Cardinality(W) = 1 BY <1>3, FS_Singleton
  <2>2. Cardinality(S) # 0 BY <1>3, FS_EmptySet
  <2>3. Cardinality(S) = 1 BY <1>1, <2>1, <2>2
  <2>4. PICK z : S = {z} BY <2>3, FS_Singleton
  <2>5. QED BY <1>3, <2>4
<1>4. QED BY <1>2, <1>3

LEMMA OwedFinite ==
  ASSUME TypeOK, NEW u, NEW ch
  PROVE  IsFiniteSet(Owed(u, ch))
<1>1. Len(pending) \in Nat BY DEF TypeOK
<1>2. IsFiniteSet(1..Len(pending)) BY <1>1, FS_Interval
<1>3. IsFiniteSet(Waiting(u, ch)) BY <1>2, Fewer DEF Waiting
<1>. DEFINE f == [i \in Waiting(u, ch) |-> pending[i].id]
            T == {pending[i].id : i \in Waiting(u, ch)}
<1>4. f \in Surjection(Waiting(u, ch), T) BY DEF Surjection
<1>5. IsFiniteSet(T) BY <1>3, <1>4, FS_Surjection
<1>6. IsFiniteSet({None}) BY FS_Singleton
<1>7. QED BY <1>5, <1>6 DEF Owed

LEMMA OwedFiniteNext == TypeOK' => \A u, ch : IsFiniteSet(Owed(u, ch))'
<1>1. TypeOK => \A u, ch : IsFiniteSet(Owed(u, ch)) BY OwedFinite
<1>2. (TypeOK => \A u, ch : IsFiniteSet(Owed(u, ch)))' BY <1>1, PTL
<1>3. QED BY <1>2

-----------------------------------------------------------------------------
(* What becomes of an address. *)

\* A column that is written back is that of the copy, or is the contact that
\* was verified.
Column(p, ch) ==
    LET old == req[p].row  new == users'[req[p].user] IN
    \/ new.contact[ch] = old.contact[ch] /\ new.verified[ch] = old.verified[ch]
    \/ /\ req[p].op = "Verify" /\ req[p].pc = "apply" /\ req[p].channel = ch
       /\ new.contact[ch] = IF req[p].change # None THEN req[p].address ELSE old.contact[ch]

LEMMA ColumnsStep ==
  ASSUME TypeOK, Present, NEW p \in Request, Writing(p), NEW ch \in Channel
  PROVE  Column(p, ch) /\ req[p].user \in User /\ req[p].row \in Row
<1>. DEFINE r == req[p]  old == r.row
<1>1. PICK wrote \in Row : Writes(p, wrote) BY WriteStep
<1>2. r.user \in User /\ old \in Row BY <1>1 DEF Writes
<1>3. ASSUME NEW row, NEW label, Update(p, row, label) PROVE users'[r.user] = row
  BY <1>2, <1>3 DEF Update, TypeOK
<1>4. CASE WriteProfile(p) \/ WritePassword(p)
  <2>1. Update(p, old, "ended") BY <1>4 DEF WriteProfile, WritePassword
  <2>2. users'[r.user] = old BY <1>3, <2>1
  <2>3. QED BY <1>2, <2>2 DEF Column
<1>5. CASE StageTOTP(p) \/ EnableTOTP(p) \/ ClearTOTP(p)
  <2>1. PICK secret, confirmed : users'[r.user] = [old EXCEPT !.secret = secret, !.confirmed = confirmed]
    <3>1. CASE StageTOTP(p)
      <4>1. Update(p, [old EXCEPT !.secret = p, !.confirmed = FALSE], "ended")
        BY <3>1 DEF StageTOTP
      <4>2. QED BY <1>3, <4>1
    <3>2. CASE EnableTOTP(p)
      <4>1. Update(p, [old EXCEPT !.confirmed = TRUE], "ended") BY <3>2 DEF EnableTOTP
      <4>2. [old EXCEPT !.confirmed = TRUE] = [old EXCEPT !.secret = old.secret, !.confirmed = TRUE]
        BY <1>2 DEF Row
      <4>3. QED BY <1>3, <4>1, <4>2
    <3>3. CASE ClearTOTP(p)
      <4>1. Update(p, [old EXCEPT !.secret = None, !.confirmed = FALSE], "deleteAll")
        BY <3>3 DEF ClearTOTP
      <4>2. QED BY <1>3, <4>1
    <3>4. QED BY <1>5, <3>1, <3>2, <3>3
  <2>2. /\ users'[r.user].contact = old.contact /\ users'[r.user].verified = old.verified
    BY <1>2, <2>1 DEF Row
  <2>3. QED BY <1>2, <2>2 DEF Column
<1>6. CASE ApplyContact(p)
  <2>. DEFINE a == IF r.change # None THEN r.address ELSE r.row.contact[r.channel]
              label == IF r.change # None THEN "mark" ELSE "ended"
  <2>1. /\ Update(p, [old EXCEPT !.contact[r.channel] = a, !.verified[r.channel] = TRUE], label)
        /\ r.pc = "apply"
    BY <1>6 DEF ApplyContact, At
  <2>2. r.channel \in Channel /\ r.op = "Verify"
    <3>1. RequestOK(r) BY DEF TypeOK
    <3>2. QED BY <2>1, <3>1 DEF RequestOK, Placed, Idle
  <2>. HIDE DEF label
  <2>3. users'[r.user] = [old EXCEPT !.contact[r.channel] = a, !.verified[r.channel] = TRUE]
    BY <1>3, <2>1
  <2>. HIDE DEF a
  <2>4. /\ users'[r.user].contact = [old.contact EXCEPT ![r.channel] = a]
        /\ users'[r.user].verified = [old.verified EXCEPT ![r.channel] = TRUE]
    BY <1>2, <2>2, <2>3 DEF Row
  <2>5. CASE ch # r.channel BY <1>2, <2>4, <2>5, RowType DEF Column
  <2>6. CASE ch = r.channel
    <3>1. users'[r.user].contact[ch] = a BY <1>2, <2>4, <2>6, RowType
    <3>2. a = IF r.change # None THEN r.address ELSE r.row.contact[ch] BY <2>6 DEF a
    <3>3. r.op = "Verify" /\ r.pc = "apply" /\ r.channel = ch BY <2>1, <2>2, <2>6
    <3>4. QED BY <1>2, <3>1, <3>2, <3>3, Zenon DEF Column
  <2>7. QED BY <2>5, <2>6
<1>7. Column(p, ch) BY <1>4, <1>5, <1>6 DEF Writing
<1>8. QED BY <1>2, <1>7

\* An address from which no code has come stays until one does; any other is
\* followed by one from which a code has come.
LEMMA ContactKept ==
  ASSUME TypeOK, Present, NEW p \in Request, Tables(p), NEW u \in User, users[u] # None,
         NEW ch \in Channel, Traced(u, ch), Proving(u, ch)
  PROVE  /\ Unproved(u, ch) => users'[u].contact[ch] = users[u].contact[ch]
         /\ ~Unproved(u, ch) /\ users'[u].contact[ch] # None =>
               <<u, ch, users'[u].contact[ch]>> \in proved
         /\ users'[u].verified[ch] => <<u, ch, users'[u].contact[ch]>> \in proved
<1>1. CASE users'[u] = users[u] BY <1>1 DEF Unproved, Traced
<1>2. CASE users'[u] # users[u]
  <2>1. req[p].user = u BY <1>2, RowsStay
  <2>2. Writing(p)
    <3>1. ~SaveUser(p) \/ users' = users
      <4>1. SUFFICES ASSUME SaveUser(p), users' # users PROVE FALSE OBVIOUS
      <4>2. PICK row \in Row : Inserts(p, row) BY <4>1, InsertStep
      <4>3. QED BY <2>1, <4>2 DEF Inserts
    <3>2. QED BY <1>2, <3>1 DEF Tables
  <2>3. Column(p, ch) /\ req[p].row \in Row BY <2>2, ColumnsStep
  <2>4. req[p].row # None BY <2>3, Assumed
  <2>. DEFINE old == req[p].row  new == users'[u]
  <2>5. /\ old.verified[ch] => <<u, ch, old.contact[ch]>> \in proved
        /\ Unproved(u, ch) => old.contact[ch] = users[u].contact[ch]
        /\ ~Unproved(u, ch) /\ old.contact[ch] # None => <<u, ch, old.contact[ch]>> \in proved
    BY <2>1, <2>4 DEF Traced
  <2>6. CASE new.contact[ch] = old.contact[ch] /\ new.verified[ch] = old.verified[ch]
    BY <2>5, <2>6
  <2>7. CASE /\ req[p].op = "Verify" /\ req[p].pc = "apply" /\ req[p].channel = ch
             /\ new.contact[ch] = IF req[p].change # None THEN req[p].address ELSE old.contact[ch]
    <3>1. /\ req[p].change # None => ~Unproved(u, ch)
          /\ req[p].change = None => old.contact[ch] = req[p].address
          /\ <<u, ch, req[p].address>> \in proved
      BY <2>1, <2>7 DEF Proving, Verifies
    <3>2. new.contact[ch] = req[p].address BY <2>7, <3>1
    <3>3. ~Unproved(u, ch)
      <4>1. CASE req[p].change = None BY <2>5, <3>1, <4>1 DEF Unproved
      <4>2. QED BY <3>1, <4>1
    <3>4. QED BY <3>1, <3>2, <3>3
  <2>8. QED BY <2>1, <2>3, <2>6, <2>7 DEF Column
<1>3. QED BY <1>1, <1>2

\* It is proved by the code that is sent to it.
LEMMA ProvedStep ==
  ASSUME TypeOK, NEW p \in Request, Tables(p)
  PROVE  /\ proved \subseteq proved'
         /\ \A x \in proved' : \/ x \in proved
                               \/ /\ ConfirmNew(p) /\ ~Ends(p) /\ req[p].pc = "newCode"
                                  /\ code[req[p].user][req[p].channel] # None
                                  /\ x = <<req[p].user, req[p].channel,
                                           code[req[p].user][req[p].channel]>>
<1>1. CASE proved' = proved BY <1>1
<1>2. CASE ConfirmNew(p) /\ proved' # proved
  <2>1. req[p].pc = "newCode" /\ code[req[p].user][req[p].channel] # None
        /\ proved' = proved \cup {<<req[p].user, req[p].channel,
                                   code[req[p].user][req[p].channel]>>}
        /\ Goto(p, "apply")
    BY <1>2 DEF ConfirmNew, At
  <2>2. ~Ends(p)
    <3>1. SUFFICES ASSUME Ends(p) PROVE FALSE OBVIOUS
    <3>2. req'[p].pc = "ended" BY <3>1 DEF Ends, Ended, NoRequest, TypeOK
    <3>3. req[p] \in RequestState BY DEF TypeOK, RequestOK
    <3>4. req'[p].pc = "apply" BY <2>1, <3>3 DEF Goto, TypeOK, RequestState
    <3>5. QED BY <3>2, <3>4
  <2>3. QED BY <1>2, <2>1, <2>2
<1>3. QED BY <1>1, <1>2 DEF Tables

LEMMA UnprovedBack ==
  ASSUME TypeOK, Present, NEW p \in Request, Tables(p), NEW u \in User, users[u] # None,
         NEW ch \in Channel, Traced(u, ch), Proving(u, ch)
  PROVE  /\ Unproved(u, ch)' => Unproved(u, ch)
         /\ Unproved(u, ch) /\ ~Unproved(u, ch)' =>
               /\ ConfirmNew(p) /\ req[p].user = u /\ req[p].channel = ch
               /\ code[u][ch] = users[u].contact[ch] /\ code[u][ch] # None /\ ~Ends(p)
<1>1. proved \subseteq proved' BY ProvedStep
<1>2. ASSUME Unproved(u, ch)' PROVE Unproved(u, ch)
  BY <1>1, <1>2, ContactKept DEF Unproved
<1>3. ASSUME Unproved(u, ch), ~Unproved(u, ch)'
      PROVE  /\ ConfirmNew(p) /\ req[p].user = u /\ req[p].channel = ch
             /\ code[u][ch] = users[u].contact[ch] /\ code[u][ch] # None /\ ~Ends(p)
  <2>1. users'[u].contact[ch] = users[u].contact[ch] BY <1>3, ContactKept
  <2>2. /\ <<u, ch, users[u].contact[ch]>> \in proved'
        /\ <<u, ch, users[u].contact[ch]>> \notin proved
    BY <1>3, <2>1 DEF Unproved
  <2>3. QED BY <2>2, ProvedStep
<1>4. QED BY <1>2, <1>3

\* The copy of a row that a request holds was in its hands before, or has just
\* been read.
LEMMA CopyBack ==
  ASSUME TypeOK, NEW p \in Request, Moves(p), NEW q \in Request, req'[q].row # None,
         NEW u \in User, users[u] # None, req'[q].user = u
  PROVE  \/ req[q].user = u /\ req[q].row = req'[q].row
         \/ req'[q].row = users[u] /\ users' = users
<1>1. CASE q # p BY <1>1, OthersStay
<1>2. CASE q = p /\ Keeps(p) BY <1>2, Kept
<1>3. CASE q = p /\ \E v \in User : Looks(p, v) BY <1>3 DEF Looks, store
<1>4. QED BY <1>1, <1>2, <1>3, Over DEF Moves, Names

LEMMA TracedStep ==
  ASSUME TypeOK, Present, NEW p \in Request, Moves(p), Tables(p), NEW u \in User, users[u] # None,
         NEW ch \in Channel, Traced(u, ch), Proving(u, ch)
  PROVE  Traced(u, ch)'
<1>1. proved \subseteq proved' BY ProvedStep
<1>2. users'[u].verified[ch] => <<u, ch, users'[u].contact[ch]>> \in proved'
  BY <1>1, ContactKept
<1>3. Unproved(u, ch)' => Unproved(u, ch) BY UnprovedBack
<1>4. Unproved(u, ch) => users'[u].contact[ch] = users[u].contact[ch] BY ContactKept
<1>5. ASSUME NEW q \in Request, req'[q].user = u, req'[q].row # None
      PROVE  /\ req'[q].row.verified[ch] => <<u, ch, req'[q].row.contact[ch]>> \in proved'
             /\ Unproved(u, ch)' => req'[q].row.contact[ch] = users'[u].contact[ch]
             /\ ~Unproved(u, ch)' /\ req'[q].row.contact[ch] # None =>
                   <<u, ch, req'[q].row.contact[ch]>> \in proved'
  <2>1. CASE req[q].user = u /\ req[q].row = req'[q].row
    <3>1. /\ req'[q].row.verified[ch] => <<u, ch, req'[q].row.contact[ch]>> \in proved
          /\ Unproved(u, ch) => req'[q].row.contact[ch] = users[u].contact[ch]
          /\ ~Unproved(u, ch) /\ req'[q].row.contact[ch] # None =>
                <<u, ch, req'[q].row.contact[ch]>> \in proved
      BY <1>5, <2>1 DEF Traced
    <3>2. ASSUME ~Unproved(u, ch)', req'[q].row.contact[ch] # None
          PROVE  <<u, ch, req'[q].row.contact[ch]>> \in proved'
      <4>1. CASE ~Unproved(u, ch) BY <1>1, <3>1, <3>2, <4>1
      <4>2. CASE Unproved(u, ch)
        <5>1. req'[q].row.contact[ch] = users'[u].contact[ch] BY <1>4, <3>1, <4>2
        <5>2. QED BY <3>2, <5>1 DEF Unproved
      <4>3. QED BY <4>1, <4>2
    <3>3. QED BY <1>1, <1>3, <1>4, <3>1, <3>2
  <2>2. CASE req'[q].row = users[u] /\ users' = users
    <3>1. req'[q].row = users'[u] BY <2>2
    <3>2. QED BY <1>2, <3>1 DEF Unproved
  <2>3. QED BY <1>5, <2>1, <2>2, CopyBack
<1>6. QED BY <1>2, <1>5 DEF Traced

\* A change waits before a step, unless it has just been asked for; for an
\* address from which a code has come.
LEMMA AskedProved ==
  ASSUME TypeOK, NEW p \in Request, SavePending(p), req[p].user \notin superseded',
         req[p].user \in User, req[p].channel \in Channel, Traced(req[p].user, req[p].channel)
  PROVE  ~Unproved(req[p].user, req[p].channel)
<1>1. \/ users[req[p].user].contact[req[p].channel] = None
      \/ users[req[p].user].verified[req[p].channel]
  BY DEF SavePending
<1>2. QED BY <1>1 DEF Unproved, Traced

LEMMA WaitsBack ==
  ASSUME TypeOK, NEW p \in Request, Tables(p), NEW u, NEW ch, NEW i \in Waiting(u, ch)'
  PROVE  \/ \E k \in Waiting(u, ch) : pending'[i] = pending[k]
         \/ SavePending(p) /\ pending'[i] = Asked(p) /\ req[p].user = u /\ req[p].channel = ch
<1>1. i \in 1..Len(pending') /\ pending'[i].user = u /\ pending'[i].channel = ch BY DEF Waiting
<1>2. CASE \E k \in 1..Len(pending) : pending'[i] = pending[k] BY <1>1, <1>2 DEF Waiting
<1>3. CASE SavePending(p) /\ pending'[i] = Asked(p) BY <1>1, <1>3 DEF Asked
<1>4. QED BY <1>1, <1>2, <1>3, PendingBack

\* What a request proves is the address it verifies.
LEMMA ProvesItsOwn ==
  ASSUME TypeOK, ChangesKnown, NEW p \in Request, NEW u \in User, NEW ch \in Channel,
         ConfirmNew(p), ~Ends(p), Verifies(p, u, ch),
         Matched(u, ch), Traced(u, ch), Proving(u, ch)
  PROVE  <<u, ch, req[p].address>> \in proved'
<1>. DEFINE a == req[p].address
<1>1. /\ req[p].pc = "newCode" /\ code[u][ch] # None
      /\ proved' = proved \cup {<<u, ch, code[u][ch]>>}
  BY DEF ConfirmNew, At, Verifies
<1>2. a \in Address /\ a # None BY <1>1, AddressOf, Assumed
<1>3. \/ <<u, ch, a>> \in proved
      \/ a \in Promised(u, ch)
  <2>1. CASE req[p].change # None
    <3>1. ~Unproved(u, ch) /\ (IsPending(req[p].change) \/ <<u, ch, a>> \in proved)
      BY <2>1 DEF Proving
    <3>2. CASE IsPending(req[p].change)
      <4>1. PICK i \in 1..Len(pending) : pending[i].id = req[p].change BY <3>2 DEF IsPending
      <4>2. i \in Waiting(u, ch) /\ pending[i].new = a
        BY <4>1 DEF ChangesKnown, Verifies, Waiting
      <4>3. QED BY <3>1, <4>2 DEF Promised
    <3>3. QED BY <3>1, <3>2
  <2>2. CASE req[p].change = None
    <3>1. req[p].row.contact[ch] = a BY <2>2 DEF Proving
    <3>2. req[p].user = u /\ req[p].row # None
      <4>1. RequestOK(req[p]) /\ req[p].op = "Verify" BY DEF TypeOK, Verifies
      <4>2. req[p].row \in Row BY <1>1, <4>1 DEF RequestOK, Idle, Unread
      <4>3. QED BY <4>2, Assumed DEF Verifies
    <3>3. CASE Unproved(u, ch)
      <4>1. users[u].contact[ch] = a BY <3>1, <3>2, <3>3 DEF Traced
      <4>2. QED BY <3>3, <4>1 DEF Promised
    <3>4. CASE ~Unproved(u, ch) BY <1>2, <3>1, <3>2, <3>4 DEF Traced
    <3>5. QED BY <3>3, <3>4
  <2>3. QED BY <2>1, <2>2
<1>4. code[u][ch] \in Promised(u, ch) /\ \A x, y \in Promised(u, ch) : x = y
  BY <1>1 DEF Matched
<1>5. QED BY <1>1, <1>3, <1>4

\* A change waits until it is marked as applied.
LEMMA WaitsOn ==
  ASSUME TypeOK, NEW p \in Request, Tables(p), NEW i \in 1..Len(pending)
  PROVE  \/ \E j \in 1..Len(pending') : pending'[j] = pending[i]
         \/ MarkApplied(p) /\ req[p].pc = "mark" /\ req[p].op = "Verify"
            /\ pending[i].id = req[p].change
<1>1. CASE pending' = pending BY <1>1
<1>2. CASE SavePending(p) BY <1>2, Saved
<1>3. CASE MarkApplied(p)
  <2>1. RequestOK(req[p]) /\ req[p].pc = "mark" BY <1>3 DEF TypeOK, MarkApplied, At
  <2>2. req[p].op = "Verify" BY <2>1 DEF RequestOK, Idle, Placed
  <2>3. QED BY <1>3, <2>1, <2>2, Removed DEF TypeOK
<1>4. QED BY <1>1, <1>2, <1>3 DEF Tables

\* The address of a change that is being verified waits, or a code came from it.
LEMMA StillProving ==
  ASSUME TypeOK, ChangesKnown, NEW p \in Request, Tables(p), NEW u \in User, NEW ch \in Channel,
         Proving(u, ch), NEW q \in Request, Verifies(q, u, ch), IsPending(req[q].change)
  PROVE  (\E j \in 1..Len(pending') : pending'[j].id = req[q].change)
            \/ <<u, ch, req[q].address>> \in proved
<1>1. PICK i \in 1..Len(pending) : pending[i].id = req[q].change BY DEF IsPending
<1>2. CASE \E j \in 1..Len(pending') : pending'[j] = pending[i] BY <1>1, <1>2
<1>3. CASE /\ req[p].pc = "mark" /\ req[p].op = "Verify" /\ pending[i].id = req[p].change
  <2>1. /\ req[q].user = pending[i].user /\ req[q].channel = pending[i].channel
        /\ req[q].address = pending[i].new
    BY <1>1 DEF ChangesKnown, Verifies
  <2>2. /\ req[p].user = pending[i].user /\ req[p].channel = pending[i].channel
        /\ req[p].address = pending[i].new
    BY <1>3 DEF ChangesKnown
  <2>3. Verifies(p, u, ch) BY <1>3, <2>1, <2>2 DEF Verifies
  <2>4. <<u, ch, req[p].address>> \in proved BY <1>3, <2>3 DEF Proving
  <2>5. QED BY <2>1, <2>2, <2>4
<1>4. QED BY <1>2, <1>3, WaitsOn

\* A request verifies what it did before, or has just begun.
LEMMA HolderBack ==
  ASSUME TypeOK, NEW p \in Request, Moves(p), NEW u \in User, users[u] # None,
         NEW ch \in Channel, Proving(u, ch), NEW q \in Request, Verifies(q, u, ch)', req'[q].change = None
  PROVE  req'[q].pc \in {"newCode", "apply"} /\ req'[q].row.contact[ch] = req'[q].address
<1>1. CASE q # p
  <2>1. req'[q] = req[q] BY <1>1, OthersStay
  <2>2. QED BY <2>1 DEF Proving, Verifies
<1>2. CASE q = p /\ Keeps(p)
  <2>1. /\ req'[p].op = req[p].op /\ req'[p].user = req[p].user /\ req'[p].row = req[p].row
        /\ req'[p].channel = req[p].channel /\ req'[p].address = req[p].address
        /\ req'[p].change = req[p].change
    BY <1>2, Kept
  <2>2. req[p].pc \in {"newCode", "apply"} /\ req[p].row.contact[ch] = req[p].address
    BY <1>2, <2>1 DEF Proving, Verifies
  <2>3. RequestOK(req'[p]) /\ req'[p].op = "Verify" BY <1>2 DEF Moves, Verifies
  <2>4. Edge(p, req'[p].pc) BY <1>2 DEF Keeps
  <2>5. req'[p].pc \in {"newCode", "apply", "mark"}
    BY <2>3, <2>4 DEF Edge, RequestOK, Placed, Unread
  <2>6. req'[p].pc # "mark"
    <3>1. SUFFICES ASSUME req'[p].pc = "mark" PROVE FALSE OBVIOUS
    <3>2. ApplyContact(p) BY <2>4, <3>1 DEF Edge
    <3>3. req[p].change = None BY <1>2, <2>1
    <3>4. req' = [req EXCEPT ![p] = Ended] BY <3>2, <3>3 DEF ApplyContact, Update
    <3>5. req'[p].pc = "ended" BY <3>4 DEF Ended, NoRequest, TypeOK
    <3>6. QED BY <3>1, <3>5
  <2>7. QED BY <1>2, <2>1, <2>2, <2>5, <2>6
<1>3. CASE q = p /\ \E v \in User : Looks(p, v)
  <2>1. PICK v \in User : Looks(p, v) BY <1>3
  <2>2. /\ req[p].pc \in Unread /\ req[p].op = "Verify" /\ req[p].change = None
        /\ req[p].channel = ch /\ req'[p].channel = ch /\ req[p].address = req'[p].address
        /\ req[p].user \in {u, None} /\ v = u /\ req'[p].row = users[u]
    BY <1>3, <2>1 DEF Looks, Verifies
  <2>3. RequestOK(req[p]) /\ req[p].pc \notin Idle BY <2>2 DEF TypeOK, Idle, Unread
  <2>4. req[p].user # u
    BY <2>2 DEF Proving, Verifies, Unread
  <2>5. req[p].pc = "holder" BY <2>2, <2>3, <2>4, UserOf, Assumed
  <2>6. users[u].contact[ch] = req[p].address /\ req'[p].pc = "newCode"
    BY <2>1, <2>2, <2>5 DEF Looks
  <2>7. QED BY <1>3, <2>2, <2>6
<1>4. CASE q = p /\ Names(p)
  <2>1. RequestOK(req'[p]) /\ req'[p].user = u BY <1>4 DEF Moves, Verifies
  <2>2. req'[p].pc # "holder" BY <2>1, Assumed DEF RequestOK
  <2>3. QED BY <1>4, <2>2 DEF Names, Verifies
<1>5. CASE q = p /\ Quits(p)
  <2>1. req'[q].op = None /\ req'[q].user \notin User BY <1>5, Over
  <2>2. QED BY <2>1 DEF Verifies
<1>6. QED BY <1>1, <1>2, <1>3, <1>4, <1>5 DEF Moves

\* What a request is about to write was proved.
LEMMA AppliesProved ==
  ASSUME TypeOK, ChangesKnown, NEW p \in Request, Moves(p), Tables(p), NEW u \in User,
         NEW ch \in Channel, Matched(u, ch), Traced(u, ch), Proving(u, ch),
         NEW q \in Request, Verifies(q, u, ch)', req'[q].pc \in {"apply", "mark"}
  PROVE  <<u, ch, req'[q].address>> \in proved'
<1>1. proved \subseteq proved' BY ProvedStep
<1>2. CASE q # p
  <2>1. req'[q] = req[q] BY <1>2, OthersStay
  <2>2. QED BY <1>1, <2>1 DEF Proving, Verifies
<1>3. CASE q = p /\ Keeps(p)
  <2>1. /\ Verifies(p, u, ch) /\ req'[p].address = req[p].address
    BY <1>3, Kept DEF Verifies
  <2>2. CASE req'[p].pc = "apply"
    <3>1. ConfirmNew(p) BY <1>3, <2>2 DEF Keeps, Edge
    <3>2. ~Ends(p)
      <4>1. SUFFICES ASSUME Ends(p) PROVE FALSE OBVIOUS
      <4>2. req'[p].pc = "ended" BY <4>1 DEF Ends, Ended, NoRequest, TypeOK
      <4>3. QED BY <2>2, <4>2
    <3>3. QED BY <1>3, <2>1, <3>1, <3>2, ProvesItsOwn
  <2>3. CASE req'[p].pc = "mark"
    <3>1. req[p].pc = "apply" BY <1>3, <2>3 DEF Keeps, Edge, ApplyContact, At
    <3>2. <<u, ch, req[p].address>> \in proved BY <2>1, <3>1 DEF Proving
    <3>3. QED BY <1>1, <1>3, <2>1, <3>2
  <2>4. QED BY <1>3, <2>2, <2>3
<1>4. QED BY <1>2, <1>3, Over DEF Moves, Looks, Names, Unread, Verifies

LEMMA ProvingStep ==
  ASSUME TypeOK, Present, ChangesKnown, NEW p \in Request, Moves(p), Tables(p),
         NEW u \in User, users[u] # None, u \notin superseded', NEW ch \in Channel,
         Matched(u, ch), Traced(u, ch), Proving(u, ch)
  PROVE  Proving(u, ch)'
<1>1. Unproved(u, ch)' => Unproved(u, ch) BY UnprovedBack
<1>2. ASSUME Unproved(u, ch)' PROVE Waiting(u, ch)' = {}
  <2>1. Unproved(u, ch) /\ Waiting(u, ch) = {} BY <1>1, <1>2 DEF Proving
  <2>2. ASSUME NEW i \in Waiting(u, ch)' PROVE FALSE
    <3>1. SavePending(p) /\ req[p].user = u /\ req[p].channel = ch BY <2>1, <2>2, WaitsBack
    <3>2. QED BY <2>1, <3>1, AskedProved
  <2>3. QED BY <2>2
<1>3. ASSUME NEW q \in Request, Verifies(q, u, ch)', req'[q].change # None
      PROVE  /\ ~Unproved(u, ch)'
             /\ IsPending(req[q].change)' \/ <<u, ch, req'[q].address>> \in proved'
  <2>0. proved \subseteq proved' BY ProvedStep
  <2>1. CASE /\ req[q].op = "Verify" /\ req[q].change = req'[q].change
             /\ req[q].user = req'[q].user /\ req[q].channel = req'[q].channel
             /\ req[q].address = req'[q].address
    <3>1. Verifies(q, u, ch) BY <1>3, <2>1 DEF Verifies
    <3>2. ~Unproved(u, ch) /\ (IsPending(req[q].change) \/ <<u, ch, req[q].address>> \in proved)
      BY <1>3, <2>1, <3>1 DEF Proving
    <3>3. (\E j \in 1..Len(pending') : pending'[j].id = req[q].change)
             \/ <<u, ch, req[q].address>> \in proved
      BY <3>1, <3>2, StillProving
    <3>4. CASE \E j \in 1..Len(pending') : pending'[j].id = req[q].change
      <4>1. \E j \in 1..Len(pending') : pending'[j].id = req'[q].change BY <2>1, <3>4
      <4>2. QED BY <1>1, <3>2, <4>1 DEF IsPending
    <3>5. QED BY <1>1, <2>0, <2>1, <3>2, <3>3, <3>4
  <2>2. CASE q = p /\ Names(p)
    <3>1. req'[p].op = "Verify" /\ req'[p].user = u /\ req'[p].channel = ch
      BY <1>3, <2>2 DEF Verifies
    <3>2. pending' = pending BY <2>2 DEF Names
    <3>3. PICK i \in 1..Len(pending) :
             /\ req'[p].change = pending[i].id /\ req'[p].user = pending[i].user
             /\ req'[p].channel = pending[i].channel
      BY <1>3, <2>2, <3>1 DEF Names
    <3>4. i \in Waiting(u, ch) BY <3>1, <3>3 DEF Waiting
    <3>5. ~Unproved(u, ch) BY <3>4 DEF Proving
    <3>6. \E j \in 1..Len(pending') : pending'[j].id = req'[q].change BY <2>2, <3>2, <3>3
    <3>7. QED BY <1>1, <3>5, <3>6 DEF IsPending
  <2>3. req'[q].op = "Verify" BY <1>3 DEF Verifies
  <2>4. QED BY <1>3, <2>1, <2>2, <2>3, VerifiesBack
<1>4. ASSUME NEW q \in Request, Verifies(q, u, ch)', req'[q].change = None
      PROVE  req'[q].pc \in {"newCode", "apply"} /\ req'[q].row.contact[ch] = req'[q].address
  BY <1>4, HolderBack
<1>5. ASSUME NEW q \in Request, Verifies(q, u, ch)', req'[q].pc \in {"apply", "mark"}
      PROVE  <<u, ch, req'[q].address>> \in proved'
  BY <1>5, AppliesProved
<1>6. QED BY <1>2, <1>3, <1>4, <1>5 DEF Proving

\* A request carries a code as it did before, is about to send one, or has just
\* had one accepted.
LEMMA CarriesBack ==
  ASSUME TypeOK, Present, ChangesKnown, NEW p \in Request, Moves(p), Tables(p),
         NEW u \in User, users[u] # None, NEW ch \in Channel, NEW q \in Request, Carries(q, u, ch)'
  PROVE  \/ /\ Carries(q, u, ch) /\ req'[q].address = req[q].address
            /\ req'[q].pc = "issue" => req[q].pc = "issue"
            /\ q = p => req'[p].pc = "mark"
         \/ /\ q = p /\ SavePending(p) /\ req[p].user = u /\ req[p].channel = ch
            /\ req'[p].pc = "issue" /\ req'[p].address = req[p].address
         \/ /\ q = p /\ ConfirmNew(p) /\ ~Ends(p) /\ req[p].user = u /\ req[p].channel = ch
            /\ req'[p].pc = "apply" /\ req'[p].change = req[p].change
            /\ IsPending(req[p].change)
<1>1. /\ req'[q].user = u /\ req'[q].channel = ch
      /\ \/ req'[q].pc = "issue"
         \/ /\ req'[q].pc \in {"apply", "mark"}
            /\ \E i \in 1..Len(pending') : pending'[i].id = req'[q].change
  BY DEF Carries, IsPending
<1>2. ASSUME req'[q].pc \in {"apply", "mark"}, req[q].change = req'[q].change, req[q].op = "Verify"
      PROVE  IsPending(req[q].change)
  <2>1. PICK i \in 1..Len(pending') : pending'[i].id = req'[q].change BY <1>1, <1>2
  <2>2. CASE \E k \in 1..Len(pending) : pending'[i] = pending[k] BY <1>2, <2>1, <2>2 DEF IsPending
  <2>3. CASE SavePending(p) /\ pending'[i].id = p
    <3>1. req[q].op = "Verify" /\ req[q].change = p BY <1>2, <2>1, <2>3
    <3>2. QED BY <2>3, <3>1, AskedOnce
  <2>4. QED BY <2>2, <2>3, PendingBack
<1>3. CASE q # p
  <2>1. req'[q] = req[q] BY <1>3, OthersStay
  <2>2. CASE req[q].pc = "issue" BY <1>1, <1>3, <2>1, <2>2 DEF Carries
  <2>3. CASE req[q].pc \in {"apply", "mark"}
    <3>1. req[q].op = "Verify" BY <2>3 DEF TypeOK, RequestOK, Placed, Idle
    <3>2. IsPending(req[q].change) BY <1>2, <2>1, <2>3, <3>1
    <3>3. QED BY <1>1, <1>3, <2>1, <2>3, <3>2 DEF Carries
  <2>4. QED BY <1>1, <2>1, <2>2, <2>3
<1>4. CASE q = p /\ Keeps(p)
  <2>1. /\ req'[p].op = req[p].op /\ req'[p].user = req[p].user
        /\ req'[p].channel = req[p].channel /\ req'[p].address = req[p].address
        /\ req'[p].change = req[p].change
    BY <1>4, Kept
  <2>2. Edge(p, req'[p].pc) BY <1>4 DEF Keeps
  <2>3. CASE req'[p].pc = "issue"
    <3>1. SavePending(p) \/ SaveUser(p) BY <2>2, <2>3 DEF Edge
    <3>2. ~SaveUser(p)
      <4>1. SUFFICES ASSUME SaveUser(p) PROVE FALSE OBVIOUS
      <4>2. req[p].pc = "save" /\ RequestOK(req[p]) BY <4>1 DEF SaveUser, At, TypeOK
      <4>3. req[p].op = "Register" BY <4>2 DEF RequestOK, Placed, Idle
      <4>4. users[req[p].user] = None BY <4>2, <4>3 DEF Present
      <4>5. QED BY <1>1, <1>4, <2>1, <4>4
    <3>3. QED BY <1>1, <1>4, <2>1, <2>3, <3>1, <3>2
  <2>4. CASE req'[p].pc \in {"apply", "mark"}
    <3>1. RequestOK(req'[p]) BY DEF Moves
    <3>2. req'[p].op = "Verify" BY <2>4, <3>1 DEF RequestOK, Placed, Idle
    <3>3. IsPending(req[p].change) BY <1>2, <1>4, <2>1, <2>4, <3>2
    <3>4. CASE req'[p].pc = "apply"
      <4>1. ConfirmNew(p) BY <2>2, <3>4 DEF Edge
      <4>2. ~Ends(p)
        <5>1. SUFFICES ASSUME Ends(p) PROVE FALSE OBVIOUS
        <5>2. req'[p].pc = "ended" BY <5>1 DEF Ends, Ended, NoRequest, TypeOK
        <5>3. QED BY <3>4, <5>2
      <4>3. QED BY <1>1, <1>4, <2>1, <3>3, <3>4, <4>1, <4>2
    <3>5. CASE req'[p].pc = "mark"
      <4>1. req[p].pc = "apply" BY <2>2, <3>5 DEF Edge, ApplyContact, At
      <4>2. Carries(p, u, ch) BY <1>1, <1>4, <2>1, <3>3, <4>1 DEF Carries
      <4>3. QED BY <1>4, <2>1, <3>5, <4>2
    <3>6. QED BY <2>4, <3>4, <3>5
  <2>5. QED BY <1>1, <1>4, <2>3, <2>4
<1>5. CASE q = p /\ ~Keeps(p)
  <2>1. req'[p].pc \in {"issue", "apply", "mark"} BY <1>1, <1>5
  <2>2. ~Quits(p) BY <2>1, Over DEF Idle
  <2>3. QED BY <1>5, <2>1, <2>2 DEF Moves, Looks, Names, Unread
<1>6. QED BY <1>3, <1>4, <1>5

\* Codes and changes are matched again when no more codes are on their way than
\* before and all are for the address the changes were for.
LEMMA MatchedFrom ==
  ASSUME NEW u \in User, NEW ch \in Channel, NEW P, \A a, b \in P : a = b,
         Promised(u, ch)' \subseteq P, code'[u][ch] # None => code'[u][ch] \in P,
         \A q \in Request : req'[q].pc = "issue" /\ Carries(q, u, ch)' => req'[q].address \in P,
         None \notin Request,
         IsFiniteSet(OnTheWay(u, ch)'),
         Cardinality(OnTheWay(u, ch)') <= Cardinality(Owed(u, ch)')
  PROVE  Matched(u, ch)'
<1>1. PICK W, D : W = OnTheWay(u, ch)' /\ D = Owed(u, ch)' OBVIOUS
<1>2. D = {} => W = {} BY <1>1, NoneLeft
<1>3. Promised(u, ch)' = {} => D = {}
  <2>1. CASE Unproved(u, ch)' BY <2>1 DEF Promised
  <2>2. CASE ~Unproved(u, ch)' BY <1>1, <2>2 DEF Promised, Owed
  <2>3. QED BY <2>1, <2>2
<1>4. code'[u][ch] # None => None \in W BY <1>1 DEF OnTheWay
<1>5. \A q \in Request : Carries(q, u, ch)' => q \in W BY <1>1 DEF OnTheWay
<1>6. W # {} => \E a \in Promised(u, ch)' : \A b \in P : a = b BY <1>2, <1>3
<1>7. code'[u][ch] # None => code'[u][ch] \in Promised(u, ch)' BY <1>4, <1>6
<1>8. ASSUME NEW q \in Request, req'[q].pc = "issue", Carries(q, u, ch)'
      PROVE  req'[q].address \in Promised(u, ch)'
  BY <1>5, <1>6, <1>8
<1>9. \A a, b \in Promised(u, ch)' : a = b OBVIOUS
<1>10. QED BY <1>7, <1>8, <1>9 DEF Matched

\* What waits is what waited, but for what is asked for or marked as applied.
LEMMA OwedStep ==
  ASSUME TypeOK, Present, ChangesKnown, NEW p \in Request, Tables(p),
         NEW u \in User, users[u] # None, NEW ch \in Channel, Traced(u, ch), Proving(u, ch),
         Unproved(u, ch)' <=> Unproved(u, ch),
         ~(SavePending(p) /\ req[p].user = u /\ req[p].channel = ch)
  PROVE  /\ Promised(u, ch)' \subseteq Promised(u, ch)
         /\ \A x \in Owed(u, ch) : \/ x \in Owed(u, ch)'
                                   \/ MarkApplied(p) /\ Carries(p, u, ch) /\ x = req[p].change
<1>1. CASE Unproved(u, ch)
  <2>1. users'[u].contact[ch] = users[u].contact[ch] BY <1>1, ContactKept
  <2>2. Unproved(u, ch)' BY <1>1
  <2>3. QED BY <1>1, <2>1, <2>2 DEF Promised, Owed
<1>2. CASE ~Unproved(u, ch)
  <2>1. ~Unproved(u, ch)' BY <1>2
  <2>2. /\ Promised(u, ch) = {pending[i].new : i \in Waiting(u, ch)}
        /\ Owed(u, ch) = {pending[i].id : i \in Waiting(u, ch)}
        /\ Promised(u, ch)' = {pending'[i].new : i \in Waiting(u, ch)'}
        /\ Owed(u, ch)' = {pending'[i].id : i \in Waiting(u, ch)'}
    BY <1>2, <2>1 DEF Promised, Owed
  <2>3. Promised(u, ch)' \subseteq Promised(u, ch)
    <3>1. \A i \in Waiting(u, ch)' : \E k \in Waiting(u, ch) : pending'[i] = pending[k]
      BY WaitsBack
    <3>2. QED BY <2>2, <3>1
  <2>4. ASSUME NEW i \in Waiting(u, ch)
        PROVE  \/ pending[i].id \in Owed(u, ch)'
               \/ MarkApplied(p) /\ Carries(p, u, ch) /\ pending[i].id = req[p].change
    <3>1. i \in 1..Len(pending) /\ pending[i].user = u /\ pending[i].channel = ch BY DEF Waiting
    <3>2. CASE \E j \in 1..Len(pending') : pending'[j] = pending[i]
      <4>1. PICK j \in 1..Len(pending') : pending'[j] = pending[i] BY <3>2
      <4>2. j \in Waiting(u, ch)' BY <3>1, <4>1 DEF Waiting
      <4>3. QED BY <2>2, <4>1, <4>2
    <3>3. CASE MarkApplied(p) /\ req[p].pc = "mark" /\ req[p].op = "Verify"
               /\ pending[i].id = req[p].change
      <4>1. req[p].user = u /\ req[p].channel = ch BY <3>1, <3>3 DEF ChangesKnown
      <4>2. QED BY <3>1, <3>3, <4>1 DEF Carries, IsPending
    <3>4. QED BY <3>1, <3>2, <3>3, WaitsOn
  <2>5. QED BY <2>2, <2>3, <2>4
<1>3. QED BY <1>1, <1>2

\* A code is sent, or used up.
LEMMA CodeStep ==
  ASSUME TypeOK, NEW p \in Request, Tables(p), NEW u \in User, NEW ch \in Channel
  PROVE  \/ code'[u][ch] = code[u][ch]
         \/ /\ IssueCode(p) /\ req[p].user = u /\ req[p].channel = ch
            /\ code'[u][ch] = req[p].address
         \/ /\ ConfirmNew(p) /\ ~Ends(p) /\ req[p].user = u /\ req[p].channel = ch
            /\ code'[u][ch] = None /\ code[u][ch] # None
<1>0. code[u] \in [Channel -> Address \cup {None}] BY DEF TypeOK
<1>1. CASE IssueCode(p)
  <2>1. code' = [code EXCEPT ![req[p].user][req[p].channel] = req[p].address]
    BY <1>1 DEF IssueCode
  <2>2. QED BY <1>0, <1>1, <2>1 DEF TypeOK
<1>2. CASE ConfirmNew(p) /\ code'[u][ch] # code[u][ch]
  <2>1. /\ code[req[p].user][req[p].channel] # None /\ Goto(p, "apply")
        /\ code' = [code EXCEPT ![req[p].user][req[p].channel] = None]
    BY <1>2 DEF ConfirmNew
  <2>2. req[p].user = u /\ req[p].channel = ch /\ code'[u][ch] = None
    BY <1>0, <1>2, <2>1 DEF TypeOK
  <2>3. ~Ends(p)
    <3>1. SUFFICES ASSUME Ends(p) PROVE FALSE OBVIOUS
    <3>2. req'[p].pc = "ended" BY <3>1 DEF Ends, Ended, NoRequest, TypeOK
    <3>3. req[p] \in RequestState BY DEF TypeOK, RequestOK
    <3>4. req'[p].pc = "apply" BY <2>1, <3>3 DEF Goto, TypeOK, RequestState
    <3>5. QED BY <3>2, <3>4
  <2>4. QED BY <1>2, <2>1, <2>2, <2>3
<1>3. QED BY <1>1, <1>2 DEF Tables

\* A change that is asked for comes with a code to be sent.
LEMMA MatchedAsking ==
  ASSUME TypeOK, TypeOK', Present, ChangesKnown, NEW p \in Request, Moves(p), Tables(p),
         NEW u \in User, users[u] # None, u \notin superseded', NEW ch \in Channel,
         Matched(u, ch), Traced(u, ch), Proving(u, ch),
         SavePending(p), req[p].user = u, req[p].channel = ch
  PROVE  Matched(u, ch)'
<1>. DEFINE a == req[p].address
<1>1. ~Unproved(u, ch) /\ ~Unproved(u, ch)' BY AskedProved, UnprovedBack
<1>2. /\ Promised(u, ch) = {pending[i].new : i \in Waiting(u, ch)}
      /\ Owed(u, ch) = {pending[i].id : i \in Waiting(u, ch)}
      /\ Promised(u, ch)' = {pending'[i].new : i \in Waiting(u, ch)'}
      /\ Owed(u, ch)' = {pending'[i].id : i \in Waiting(u, ch)'}
  BY <1>1 DEF Promised, Owed
<1>3. \A i \in Waiting(u, ch) : pending[i].new = a BY DEF SavePending, Waiting
<1>4. Asked(p).new = a /\ Asked(p).id = p /\ Asked(p).user = u /\ Asked(p).channel = ch
  BY DEF Asked
<1>5. Promised(u, ch)' \subseteq {a} BY <1>2, <1>3, <1>4, WaitsBack
<1>6. Owed(u, ch) \cup {p} \subseteq Owed(u, ch)'
  <2>1. ASSUME NEW i \in Waiting(u, ch) PROVE pending[i].id \in Owed(u, ch)'
    <3>1. i \in 1..Len(pending) /\ pending[i].user = u /\ pending[i].channel = ch BY DEF Waiting
    <3>2. i \in 1..Len(pending') /\ pending'[i] = pending[i] BY <3>1, Saved
    <3>3. i \in Waiting(u, ch)' BY <3>1, <3>2 DEF Waiting
    <3>4. QED BY <1>2, <3>2, <3>3
  <2>2. p \in Owed(u, ch)'
    <3>0. Len(pending) \in Nat BY DEF TypeOK
    <3>1. Len(pending') = Len(pending) + 1 BY Saved
    <3>2. PICK j : j = Len(pending) + 1 OBVIOUS
    <3>3. j \in 1..Len(pending') /\ j \notin 1..Len(pending) BY <3>0, <3>1, <3>2
    <3>4. pending'[j] = Asked(p) BY <3>3, Saved DEF Asked
    <3>5. j \in Waiting(u, ch)' BY <1>4, <3>3, <3>4 DEF Waiting
    <3>6. QED BY <1>2, <1>4, <3>4, <3>5
  <2>3. QED BY <1>2, <2>1, <2>2
<1>7. p \notin Owed(u, ch) BY <1>2, AskedOnce DEF IsPending, Waiting
<1>8. code' = code BY DEF SavePending
<1>9. ~ConfirmNew(p) BY DEF SavePending, ConfirmNew, At
<1>10. OnTheWay(u, ch)' \subseteq OnTheWay(u, ch) \cup {p}
  <2>1. \A q \in Request : Carries(q, u, ch)' => Carries(q, u, ch) \/ q = p BY <1>9, CarriesBack
  <2>2. QED BY <1>8, <2>1 DEF OnTheWay
<1>11. PICK W, D, S, E : /\ W = OnTheWay(u, ch) /\ D = Owed(u, ch)
                         /\ S = OnTheWay(u, ch)' /\ E = Owed(u, ch)'
  OBVIOUS
<1>12. IsFiniteSet(S) /\ Cardinality(S) <= Cardinality(E)
  <2>1. IsFiniteSet(W) /\ IsFiniteSet(D) /\ Cardinality(W) <= Cardinality(D)
    BY <1>11, OwedFinite DEF Matched
  <2>2. IsFiniteSet(E) BY <1>11, OwedFiniteNext
  <2>3. S \subseteq W \cup {p} /\ p \notin D /\ D \cup {p} \subseteq E BY <1>6, <1>7, <1>10, <1>11
  <2>4. IsFiniteSet(S) /\ Cardinality(S) <= Cardinality(D \cup {p}) BY <2>1, <2>3, BothAdded
  <2>5. /\ Cardinality(D \cup {p}) <= Cardinality(E)
        /\ Cardinality(D \cup {p}) \in Nat /\ Cardinality(E) \in Nat
    BY <2>2, <2>3, Fewer
  <2>6. Cardinality(S) \in Nat BY <2>4, FS_CardinalityType
  <2>7. QED BY <2>4, <2>5, <2>6
<1>13. code'[u][ch] # None => code'[u][ch] \in {a} BY <1>2, <1>3, <1>8 DEF Matched
<1>14. ASSUME NEW q \in Request, req'[q].pc = "issue", Carries(q, u, ch)'
       PROVE  req'[q].address \in {a}
  <2>1. CASE Carries(q, u, ch) /\ req'[q].address = req[q].address /\ req[q].pc = "issue"
    BY <1>2, <1>3, <2>1 DEF Matched
  <2>2. CASE req'[q].address = a BY <2>2
  <2>3. QED BY <1>9, <1>14, <2>1, <2>2, CarriesBack
<1>. HIDE DEF a
<1>15. QED BY <1>5, <1>11, <1>12, <1>13, <1>14, Assumed, MatchedFrom

\* What carries a code after a step carried it before, or has had one accepted.
LEMMA OnTheWayBack ==
  ASSUME TypeOK, Present, ChangesKnown, NEW p \in Request, Moves(p), Tables(p),
         NEW u \in User, users[u] # None, NEW ch \in Channel, Matched(u, ch),
         ~(SavePending(p) /\ req[p].user = u /\ req[p].channel = ch),
         NEW q \in Request, Carries(q, u, ch)'
  PROVE  /\ \/ Carries(q, u, ch) /\ (q = p => req'[p].pc = "mark")
            \/ /\ q = p /\ ConfirmNew(p) /\ ~Ends(p) /\ req[p].user = u /\ req[p].channel = ch
               /\ IsPending(req[p].change)
         /\ req'[q].pc = "issue" => req'[q].address \in Promised(u, ch)
<1>1. CASE /\ Carries(q, u, ch) /\ req'[q].address = req[q].address
           /\ req'[q].pc = "issue" => req[q].pc = "issue"
           /\ q = p => req'[p].pc = "mark"
  BY <1>1 DEF Matched
<1>2. CASE /\ q = p /\ ConfirmNew(p) /\ ~Ends(p) /\ req[p].user = u /\ req[p].channel = ch
           /\ req'[p].pc = "apply" /\ req'[p].change = req[p].change
           /\ IsPending(req[p].change)
  BY <1>2
<1>3. QED BY <1>1, <1>2, CarriesBack

\* A code that is accepted is that of the first address, or of a change that
\* waits until it is applied.
LEMMA MatchedConfirming ==
  ASSUME TypeOK, TypeOK', Present, ChangesKnown, NEW p \in Request, Moves(p), Tables(p),
         NEW u \in User, users[u] # None, NEW ch \in Channel,
         Matched(u, ch), Traced(u, ch), Proving(u, ch),
         ConfirmNew(p), ~Ends(p), req[p].user = u, req[p].channel = ch
  PROVE  Matched(u, ch)'
<1>1. req[p].pc = "newCode" /\ code[u][ch] # None /\ code'[u][ch] = None
  <2>1. /\ req[p].pc = "newCode" /\ code[u][ch] # None
        /\ code' = [code EXCEPT ![u][ch] = None]
    BY DEF ConfirmNew, At
  <2>2. code[u] \in [Channel -> Address \cup {None}] BY DEF TypeOK
  <2>3. QED BY <2>1, <2>2 DEF TypeOK
<1>2. ~SavePending(p) /\ ~MarkApplied(p) BY <1>1 DEF SavePending, MarkApplied, At
<1>3. PICK W, D, S, E : /\ W = OnTheWay(u, ch) /\ D = Owed(u, ch)
                        /\ S = OnTheWay(u, ch)' /\ E = Owed(u, ch)'
  OBVIOUS
<1>4. /\ IsFiniteSet(W) /\ Cardinality(W) <= Cardinality(D) /\ None \in W /\ IsFiniteSet(D)
      /\ IsFiniteSet(E)
  BY <1>1, <1>3, OwedFinite, OwedFiniteNext DEF Matched, OnTheWay
<1>5. CASE Unproved(u, ch)' <=> Unproved(u, ch)
  <2>1. PICK P : P = Promised(u, ch) OBVIOUS
  <2>2. Promised(u, ch)' \subseteq P /\ D \subseteq E BY <1>2, <1>3, <1>5, <2>1, OwedStep
  <2>3. S \subseteq (W \ {None}) \cup {p}
    <3>1. \A q \in Request : Carries(q, u, ch)' => Carries(q, u, ch) \/ q = p
      BY <1>2, OnTheWayBack
    <3>2. QED BY <1>1, <1>3, <3>1, Assumed DEF OnTheWay
  <2>4. IsFiniteSet(S) /\ Cardinality(S) <= Cardinality(W) BY <1>4, <2>3, Exchanged
  <2>5. Cardinality(D) <= Cardinality(E) /\ Cardinality(D) \in Nat /\ Cardinality(E) \in Nat
    BY <1>4, <2>2, Fewer
  <2>6. Cardinality(S) \in Nat /\ Cardinality(W) \in Nat BY <1>4, <2>4, FS_CardinalityType
  <2>7. Cardinality(S) <= Cardinality(E) BY <1>4, <2>4, <2>5, <2>6
  <2>8. \A q \in Request : req'[q].pc = "issue" /\ Carries(q, u, ch)' => req'[q].address \in P
    BY <1>2, <2>1, OnTheWayBack
  <2>9. \A a, b \in P : a = b BY <2>1 DEF Matched
  <2>10. QED BY <1>1, <1>3, <2>2, <2>4, <2>7, <2>8, <2>9, Assumed, MatchedFrom
<1>6. CASE ~(Unproved(u, ch)' <=> Unproved(u, ch))
  <2>1. Unproved(u, ch) /\ ~Unproved(u, ch)' BY <1>6, UnprovedBack
  <2>2. Waiting(u, ch) = {} /\ D = {None} BY <1>3, <2>1 DEF Proving, Owed
  <2>3. W = {None} BY <1>4, <2>2, NoneLeft
  <2>4. \A q \in Request : ~Carries(q, u, ch) BY <1>3, <2>3, Assumed DEF OnTheWay
  <2>5. ~IsPending(req[p].change)
    <3>1. SUFFICES ASSUME NEW i \in 1..Len(pending), pending[i].id = req[p].change PROVE FALSE
      BY DEF IsPending
    <3>2. req[p].op = "Verify"
      <4>1. RequestOK(req[p]) BY DEF TypeOK
      <4>2. QED BY <1>1, <4>1 DEF RequestOK, Idle, Placed
    <3>3. pending[i].user = u /\ pending[i].channel = ch BY <3>1, <3>2 DEF ChangesKnown
    <3>4. QED BY <2>2, <3>3 DEF Waiting
  <2>6. \A q \in Request : ~Carries(q, u, ch)' BY <1>2, <2>4, <2>5, OnTheWayBack
  <2>7. S = {} BY <1>1, <1>3, <2>6 DEF OnTheWay
  <2>8. Waiting(u, ch)' = {} BY <1>2, <2>2, WaitsBack
  <2>9. E = {} /\ Promised(u, ch)' = {} BY <1>3, <2>1, <2>8 DEF Owed, Promised
  <2>10. IsFiniteSet(S) /\ Cardinality(S) <= Cardinality(E) BY <2>7, <2>9, FS_EmptySet
  <2>11. PICK P : P = {} OBVIOUS
  <2>12. QED BY <1>1, <1>3, <2>6, <2>9, <2>10, <2>11, Assumed, MatchedFrom
<1>7. QED BY <1>5, <1>6

\* A code that is sent is that of the request which sends it.
LEMMA MatchedIssuing ==
  ASSUME TypeOK, TypeOK', Present, ChangesKnown, NEW p \in Request, Moves(p), Tables(p),
         NEW u \in User, users[u] # None, NEW ch \in Channel,
         Matched(u, ch), Traced(u, ch), Proving(u, ch),
         IssueCode(p), req[p].user = u, req[p].channel = ch
  PROVE  Matched(u, ch)'
<1>1. req[p].pc = "issue" /\ code'[u][ch] = req[p].address
  <2>1. req[p].pc = "issue" /\ code' = [code EXCEPT ![u][ch] = req[p].address]
    BY DEF IssueCode, At
  <2>2. code[u] \in [Channel -> Address \cup {None}] BY DEF TypeOK
  <2>3. QED BY <2>1, <2>2 DEF TypeOK
<1>2. ~SavePending(p) /\ ~MarkApplied(p) /\ ~ConfirmNew(p)
  BY <1>1 DEF SavePending, MarkApplied, ConfirmNew, At
<1>3. req'[p].pc # "mark"
  <2>1. CASE Ends(p) BY <2>1 DEF Ends, Ended, NoRequest, TypeOK
  <2>2. CASE Goto(p, IF req[p].old # None THEN "issueOld" ELSE "update")
    <3>1. PICK label : /\ label = (IF req[p].old # None THEN "issueOld" ELSE "update")
      OBVIOUS
    <3>2. req[p] \in RequestState BY DEF TypeOK, RequestOK
    <3>3. req'[p].pc = label BY <2>2, <3>1, <3>2 DEF Goto, TypeOK, RequestState
    <3>4. QED BY <3>1, <3>3
  <2>3. QED BY <2>1, <2>2 DEF IssueCode
<1>4. Carries(p, u, ch) BY <1>1 DEF Carries
<1>5. Unproved(u, ch)' <=> Unproved(u, ch) BY <1>2, UnprovedBack
<1>6. PICK W, D, S, E, P : /\ W = OnTheWay(u, ch) /\ D = Owed(u, ch) /\ P = Promised(u, ch)
                           /\ S = OnTheWay(u, ch)' /\ E = Owed(u, ch)'
  OBVIOUS
<1>7. /\ IsFiniteSet(W) /\ Cardinality(W) <= Cardinality(D) /\ p \in W /\ IsFiniteSet(D)
      /\ IsFiniteSet(E)
  BY <1>4, <1>6, OwedFinite, OwedFiniteNext DEF Matched, OnTheWay
<1>8. Promised(u, ch)' \subseteq P /\ D \subseteq E BY <1>2, <1>5, <1>6, OwedStep
<1>9. S \subseteq (W \ {p}) \cup {None}
  <2>1. \A q \in Request : Carries(q, u, ch)' => Carries(q, u, ch) /\ q # p
    BY <1>2, <1>3, OnTheWayBack
  <2>2. QED BY <1>6, <2>1 DEF OnTheWay
<1>10. IsFiniteSet(S) /\ Cardinality(S) <= Cardinality(W) BY <1>7, <1>9, Exchanged
<1>11. Cardinality(D) <= Cardinality(E) /\ Cardinality(D) \in Nat /\ Cardinality(E) \in Nat
  BY <1>7, <1>8, Fewer
<1>12. Cardinality(S) \in Nat /\ Cardinality(W) \in Nat BY <1>7, <1>10, FS_CardinalityType
<1>13. Cardinality(S) <= Cardinality(E) BY <1>7, <1>10, <1>11, <1>12
<1>14. code'[u][ch] \in P BY <1>1, <1>4, <1>6 DEF Matched
<1>15. \A q \in Request : req'[q].pc = "issue" /\ Carries(q, u, ch)' => req'[q].address \in P
  BY <1>2, <1>6, OnTheWayBack
<1>16. \A a, b \in P : a = b BY <1>6 DEF Matched
<1>17. QED BY <1>6, <1>8, <1>10, <1>13, <1>14, <1>15, <1>16, Assumed, MatchedFrom

\* A change that is marked takes its code with it.
LEMMA MatchedMarking ==
  ASSUME TypeOK, TypeOK', Present, ChangesKnown, NEW p \in Request, Moves(p), Tables(p),
         NEW u \in User, users[u] # None, NEW ch \in Channel,
         Matched(u, ch), Traced(u, ch), Proving(u, ch),
         MarkApplied(p), Carries(p, u, ch)
  PROVE  Matched(u, ch)'
<1>1. req[p].pc = "mark" BY DEF MarkApplied, At
<1>2. ~SavePending(p) /\ ~IssueCode(p) /\ ~ConfirmNew(p)
  BY <1>1 DEF SavePending, IssueCode, ConfirmNew, At
<1>3. req'[p].pc # "mark" BY DEF MarkApplied, Ends, Ended, NoRequest, TypeOK
<1>4. code'[u][ch] = code[u][ch] BY <1>2, CodeStep
<1>5. Unproved(u, ch)' <=> Unproved(u, ch) BY <1>2, UnprovedBack
<1>6. PICK W, D, S, E, P : /\ W = OnTheWay(u, ch) /\ D = Owed(u, ch) /\ P = Promised(u, ch)
                           /\ S = OnTheWay(u, ch)' /\ E = Owed(u, ch)'
  OBVIOUS
<1>7. /\ IsFiniteSet(W) /\ Cardinality(W) <= Cardinality(D) /\ p \in W /\ IsFiniteSet(D)
      /\ IsFiniteSet(E)
  BY <1>6, OwedFinite, OwedFiniteNext DEF Matched, OnTheWay
<1>8. PICK c : c = req[p].change OBVIOUS
<1>9. Promised(u, ch)' \subseteq P /\ D \ {c} \subseteq E BY <1>2, <1>5, <1>6, <1>8, OwedStep
<1>10. S \subseteq W \ {p}
  <2>1. \A q \in Request : Carries(q, u, ch)' => Carries(q, u, ch) /\ q # p
    BY <1>2, <1>3, OnTheWayBack
  <2>2. QED BY <1>4, <1>6, <2>1, Assumed DEF OnTheWay
<1>11. IsFiniteSet(S) /\ Cardinality(S) <= Cardinality(E) BY <1>7, <1>9, <1>10, BothRemoved
<1>12. code'[u][ch] # None => code'[u][ch] \in P BY <1>4, <1>6 DEF Matched
<1>13. \A q \in Request : req'[q].pc = "issue" /\ Carries(q, u, ch)' => req'[q].address \in P
  BY <1>2, <1>6, OnTheWayBack
<1>14. \A a, b \in P : a = b BY <1>6 DEF Matched
<1>15. QED BY <1>6, <1>9, <1>11, <1>12, <1>13, <1>14, Assumed, MatchedFrom

LEMMA MatchedStep ==
  ASSUME TypeOK, TypeOK', Present, ChangesKnown, NEW p \in Request, Moves(p), Tables(p),
         NEW u \in User, users[u] # None, u \notin superseded', NEW ch \in Channel,
         Matched(u, ch), Traced(u, ch), Proving(u, ch)
  PROVE  Matched(u, ch)'
<1>1. CASE SavePending(p) /\ req[p].user = u /\ req[p].channel = ch BY <1>1, MatchedAsking
<1>2. CASE ConfirmNew(p) /\ ~Ends(p) /\ req[p].user = u /\ req[p].channel = ch
  BY <1>2, MatchedConfirming
<1>3. CASE IssueCode(p) /\ req[p].user = u /\ req[p].channel = ch BY <1>3, MatchedIssuing
<1>4. CASE MarkApplied(p) /\ Carries(p, u, ch) BY <1>4, MatchedMarking
<1>5. CASE /\ ~(SavePending(p) /\ req[p].user = u /\ req[p].channel = ch)
           /\ ~(ConfirmNew(p) /\ ~Ends(p) /\ req[p].user = u /\ req[p].channel = ch)
           /\ ~(IssueCode(p) /\ req[p].user = u /\ req[p].channel = ch)
           /\ ~(MarkApplied(p) /\ Carries(p, u, ch))
  <2>1. Unproved(u, ch)' <=> Unproved(u, ch) BY <1>5, UnprovedBack
  <2>2. code'[u][ch] = code[u][ch] BY <1>5, CodeStep
  <2>3. PICK W, D, S, E, P : /\ W = OnTheWay(u, ch) /\ D = Owed(u, ch) /\ P = Promised(u, ch)
                             /\ S = OnTheWay(u, ch)' /\ E = Owed(u, ch)'
    OBVIOUS
  <2>4. /\ IsFiniteSet(W) /\ Cardinality(W) <= Cardinality(D) /\ IsFiniteSet(D)
        /\ IsFiniteSet(E)
    BY <2>3, OwedFinite, OwedFiniteNext DEF Matched
  <2>5. Promised(u, ch)' \subseteq P /\ D \subseteq E BY <1>5, <2>1, <2>3, OwedStep
  <2>6. S \subseteq W
    <3>1. \A q \in Request : Carries(q, u, ch)' => Carries(q, u, ch) BY <1>5, OnTheWayBack
    <3>2. QED BY <2>2, <2>3, <3>1 DEF OnTheWay
  <2>7. /\ IsFiniteSet(S) /\ Cardinality(S) <= Cardinality(W)
        /\ Cardinality(S) \in Nat /\ Cardinality(W) \in Nat
    BY <2>4, <2>6, Fewer
  <2>8. Cardinality(D) <= Cardinality(E) /\ Cardinality(D) \in Nat /\ Cardinality(E) \in Nat
    BY <2>4, <2>5, Fewer
  <2>9. Cardinality(S) <= Cardinality(E) BY <2>4, <2>7, <2>8
  <2>10. code'[u][ch] # None => code'[u][ch] \in P BY <2>2, <2>3 DEF Matched
  <2>11. \A q \in Request : req'[q].pc = "issue" /\ Carries(q, u, ch)' => req'[q].address \in P
    BY <1>5, <2>3, OnTheWayBack
  <2>12. \A a, b \in P : a = b BY <2>3 DEF Matched
  <2>13. QED BY <2>3, <2>5, <2>7, <2>9, <2>10, <2>11, <2>12, Assumed, MatchedFrom
<1>6. QED BY <1>1, <1>2, <1>3, <1>4, <1>5

-----------------------------------------------------------------------------
(* Users who register, suspensions and the start. *)

\* A row that is new is the one of a registration.
LEMMA Registered ==
  ASSUME TypeOK, Present, NEW p \in Request, Moves(p), Tables(p),
         NEW u \in User, users[u] = None, users'[u] # None
  PROVE  /\ req[p].pc = "save" /\ req[p].op = "Register" /\ req[p].user = u
         /\ req'[p].pc = "issue" /\ req'[p].op = "Register"
         /\ req'[p].channel = req[p].channel /\ req'[p].address = req[p].address
         /\ req'[p].row = req[p].row
         /\ req[p].channel \in Channel /\ req[p].address \in Address
         /\ users'[u] = NewUser(req[p].channel, req[p].address)
         /\ pending' = pending /\ code' = code /\ proved' = proved
         /\ \A q \in Request : req'[q].user = u => q = p
<1>1. SaveUser(p) /\ users' # users
  <2>1. ~Writing(p)
    <3>1. SUFFICES ASSUME Writing(p) PROVE FALSE OBVIOUS
    <3>2. PICK row \in Row : Writes(p, row) BY <3>1, WriteStep
    <3>3. users[req[p].user] # None BY <3>2 DEF Writes, Present
    <3>4. users'[u] = users[u] BY <3>3, RowsStay
    <3>5. QED BY <3>4
  <2>2. QED BY <2>1 DEF Tables
<1>2. PICK row \in Row : Inserts(p, row) BY <1>1, InsertStep
<1>3. /\ req[p].pc = "save" /\ req[p].op = "Register"
      /\ pending' = pending /\ code' = code /\ proved' = proved
  BY <1>2 DEF Inserts
<1>4. req[p].user = u BY RowsStay
<1>5. users' = [users EXCEPT ![u] = NewUser(req[p].channel, req[p].address)] /\ Goto(p, "issue")
  BY <1>1, <1>4 DEF SaveUser
<1>6. users'[u] = NewUser(req[p].channel, req[p].address) BY <1>5 DEF TypeOK
<1>7. RequestOK(req[p]) /\ req[p] \in RequestState BY DEF TypeOK, RequestOK
<1>8. req[p].channel \in Channel /\ req[p].address \in Address BY <1>3, <1>7 DEF RequestOK, Idle
<1>9. req'[p] = [req[p] EXCEPT !.pc = "issue"] BY <1>5 DEF Goto, TypeOK
<1>10. /\ req'[p].pc = "issue" /\ req'[p].op = "Register" /\ req'[p].row = req[p].row
       /\ req'[p].channel = req[p].channel /\ req'[p].address = req[p].address
  BY <1>3, <1>7, <1>9 DEF RequestState
<1>11. ASSUME NEW q \in Request, req'[q].user = u PROVE q = p
  <2>1. SUFFICES ASSUME q # p PROVE FALSE OBVIOUS
  <2>2. req[q].user = u BY <1>11, <2>1, OthersStay
  <2>3. QED BY <1>3, <1>4, <2>1, <2>2 DEF Present
<1>12. QED BY <1>3, <1>4, <1>6, <1>8, <1>10, <1>11

\* A new user has one address, for which one code is going to be sent.
LEMMA NewcomerOrigins ==
  ASSUME TypeOK, Present, Newcomers, NEW p \in Request, Moves(p), Tables(p),
         NEW u \in User, users[u] = None, users'[u] # None, NEW ch \in Channel
  PROVE  Matched(u, ch)' /\ Traced(u, ch)' /\ Proving(u, ch)'
<1>. DEFINE a == req[p].address
<1>1. /\ req'[p].pc = "issue" /\ req'[p].op = "Register" /\ req'[p].address = a
      /\ req'[p].channel = req[p].channel /\ req'[p].row = req[p].row /\ a \in Address
      /\ pending' = pending /\ code' = code /\ proved' = proved
      /\ \A q \in Request : req'[q].user = u => q = p
  BY Registered
<1>2. req[p].row = None BY Registered DEF Newcomers
<1>3. /\ users'[u].contact[ch] = IF ch = req[p].channel THEN a ELSE None
      /\ users'[u].verified[ch] = FALSE
  <2>1. PICK c : c = req[p].channel OBVIOUS
  <2>2. users'[u] = NewUser(c, a) BY <2>1, Registered
  <2>3. /\ users'[u].contact = [x \in Channel |-> IF x = c THEN a ELSE None]
        /\ users'[u].verified = [x \in Channel |-> FALSE]
    BY <2>2 DEF NewUser
  <2>. HIDE DEF a
  <2>4. QED BY <2>1, <2>3
<1>4. code'[u][ch] = None /\ \A x \in Address : <<u, ch, x>> \notin proved'
  BY <1>1 DEF Newcomers
<1>5. Waiting(u, ch)' = {} BY <1>1 DEF Waiting, Present
<1>6. Traced(u, ch)' BY <1>1, <1>2, <1>3 DEF Traced
<1>7. Proving(u, ch)' BY <1>1, <1>5 DEF Proving, Verifies
<1>8. \A q \in Request : Carries(q, u, ch)' => q = p /\ ch = req[p].channel
  BY <1>1 DEF Carries
<1>9. Unproved(u, ch)' <=> ch = req[p].channel BY <1>1, <1>3, <1>4, Assumed DEF Unproved
<1>10. PICK S, E : S = OnTheWay(u, ch)' /\ E = Owed(u, ch)' OBVIOUS
<1>11. IsFiniteSet(S) /\ Cardinality(S) <= Cardinality(E)
  <2>1. CASE ch = req[p].channel
    <3>1. E = {None} BY <1>9, <1>10, <2>1 DEF Owed
    <3>2. S \subseteq {p} BY <1>4, <1>8, <1>10 DEF OnTheWay
    <3>3. /\ IsFiniteSet({p}) /\ Cardinality({p}) = 1 /\ Cardinality(E) = 1
      BY <3>1, FS_Singleton
    <3>4. IsFiniteSet(S) /\ Cardinality(S) <= Cardinality({p}) BY <3>2, <3>3, Fewer
    <3>5. QED BY <3>3, <3>4
  <2>2. CASE ch # req[p].channel
    <3>1. S = {} BY <1>4, <1>8, <1>10, <2>2 DEF OnTheWay
    <3>2. E = {} BY <1>5, <1>9, <1>10, <2>2 DEF Owed
    <3>3. QED BY <3>1, <3>2, FS_EmptySet
  <2>3. QED BY <2>1, <2>2
<1>12. Promised(u, ch)' \subseteq {a}
  <2>1. CASE ch = req[p].channel
    <3>1. Promised(u, ch)' = {users'[u].contact[ch]} BY <1>9, <2>1 DEF Promised
    <3>2. QED BY <1>3, <2>1, <3>1
  <2>2. CASE ch # req[p].channel
    <3>1. Promised(u, ch)' = {} BY <1>5, <1>9, <2>2 DEF Promised
    <3>2. QED BY <3>1
  <2>3. QED BY <2>1, <2>2
<1>13. \A q \in Request : req'[q].pc = "issue" /\ Carries(q, u, ch)' => req'[q].address \in {a}
  BY <1>1, <1>8
<1>. HIDE DEF a
<1>14. PICK P : P = {a} OBVIOUS
<1>15. \A x, y \in P : x = y BY <1>14
<1>16. Matched(u, ch)' BY <1>4, <1>10, <1>11, <1>12, <1>13, <1>14, <1>15, Assumed, MatchedFrom
<1>17. QED BY <1>6, <1>7, <1>16

LEMMA NewcomersStep ==
  ASSUME TypeOK, Present, Newcomers, NEW p \in Request, Moves(p), Tables(p)
  PROVE  Newcomers'
<1>1. ASSUME NEW u \in User, users'[u] = None, NEW ch \in Channel
      PROVE  code'[u][ch] = None /\ \A a \in Address : <<u, ch, a>> \notin proved'
  <2>1. users[u] = None BY <1>1, RowsStay
  <2>2. code[u][ch] = None /\ \A a \in Address : <<u, ch, a>> \notin proved
    BY <2>1 DEF Newcomers
  <2>3. ~(IssueCode(p) /\ req[p].user = u) BY <2>1 DEF Newcomers, IssueCode, At
  <2>4. code'[u][ch] = None BY <2>2, <2>3, CodeStep
  <2>5. ASSUME NEW a \in Address, <<u, ch, a>> \in proved' PROVE FALSE
    <3>1. /\ code[req[p].user][req[p].channel] # None
          /\ <<u, ch, a>> = <<req[p].user, req[p].channel, code[req[p].user][req[p].channel]>>
      BY <2>2, <2>5, ProvedStep
    <3>2. QED BY <2>2, <3>1
  <2>6. QED BY <2>4, <2>5
<1>2. ASSUME NEW q \in Request, req'[q].op = "Register" PROVE req'[q].row = None
  <2>1. CASE q # p BY <1>2, <2>1, OthersStay DEF Newcomers
  <2>2. CASE q = p /\ Keeps(p) BY <1>2, <2>2, Kept DEF Newcomers
  <2>3. CASE q = p /\ \E v \in User : Looks(p, v) BY <1>2, <2>3 DEF Looks
  <2>4. QED BY <1>2, <2>1, <2>2, <2>3, Over DEF Moves, Names
<1>3. ASSUME NEW q \in Request, req'[q].pc = "issue" PROVE users'[req'[q].user] # None
  <2>1. req'[q].user \in User
    <3>1. RequestOK(req'[q])
      <4>1. CASE q # p BY <4>1, OthersStay DEF TypeOK
      <4>2. QED BY <4>1 DEF Moves
    <3>2. QED BY <1>3, <3>1 DEF RequestOK, Idle
  <2>2. CASE q # p
    <3>1. req'[q] = req[q] BY <2>2, OthersStay
    <3>2. users[req[q].user] # None BY <1>3, <3>1 DEF Newcomers
    <3>3. QED BY <2>1, <3>1, <3>2, RowsStay
  <2>3. CASE q = p
    <3>1. Keeps(p) BY <1>3, <2>3, Over DEF Moves, Quits, Looks, Names, Unread
    <3>2. SavePending(p) \/ SaveUser(p) BY <1>3, <2>3, <3>1 DEF Keeps, Edge
    <3>3. req'[p].user = req[p].user BY <3>1, Kept
    <3>4. CASE SavePending(p)
      <4>1. req[p].op = "UpdateProfile" BY <3>4, Saved
      <4>2. users[req[p].user] # None BY <2>1, <2>3, <3>3, <4>1 DEF Present
      <4>3. QED BY <2>1, <2>3, <3>3, <4>2, RowsStay
    <3>5. CASE SaveUser(p)
      <4>1. ~Ends(p)
        <5>1. SUFFICES ASSUME Ends(p) PROVE FALSE OBVIOUS
        <5>2. req'[p].pc = "ended" BY <5>1 DEF Ends, Ended, NoRequest, TypeOK
        <5>3. QED BY <1>3, <2>3, <5>2
      <4>2. PICK row : /\ row = NewUser(req[p].channel, req[p].address)
                       /\ users' = [users EXCEPT ![req[p].user] = row]
        BY <3>5, <4>1 DEF SaveUser
      <4>3. users'[req[p].user] = row BY <2>1, <2>3, <3>3, <4>2 DEF TypeOK
      <4>4. row \in Row
        <5>1. RequestOK(req[p]) /\ req[p].pc = "save" BY <3>5 DEF TypeOK, SaveUser, At
        <5>2. req[p].op = "Register" BY <5>1 DEF RequestOK, Idle, Placed
        <5>3. req[p].channel \in Channel /\ req[p].address \in Address
          BY <5>1, <5>2 DEF RequestOK, Idle
        <5>4. QED BY <4>2, <5>3 DEF NewUser, Row
      <4>5. QED BY <2>3, <3>3, <4>3, <4>4, Assumed
    <3>6. QED BY <3>2, <3>4, <3>5
  <2>4. QED BY <2>2, <2>3
<1>4. QED BY <1>1, <1>2, <1>3 DEF Newcomers

LEMMA OriginsStep ==
  ASSUME TypeOK, TypeOK', Present, ChangesKnown, Origins, NEW p \in Request, Moves(p), Tables(p)
  PROVE  Origins'
<1>1. superseded \subseteq superseded' BY DEF Tables, SavePending
<1>2. ASSUME NEW u \in User, u \notin superseded', users'[u] # None, NEW ch \in Channel
      PROVE  Matched(u, ch)' /\ Traced(u, ch)' /\ Proving(u, ch)'
  <2>1. CASE users[u] = None BY <1>2, <2>1, NewcomerOrigins DEF Origins
  <2>2. CASE users[u] # None
    <3>1. Matched(u, ch) /\ Traced(u, ch) /\ Proving(u, ch) BY <1>1, <1>2, <2>2 DEF Origins
    <3>2. QED BY <1>2, <2>2, <3>1, MatchedStep, TracedStep, ProvingStep
  <2>3. QED BY <2>1, <2>2
<1>3. Newcomers' BY NewcomersStep DEF Origins
<1>4. QED BY <1>2, <1>3 DEF Origins

LEMMA OriginsSuspend ==
  ASSUME TypeOK, Origins, NEW u \in User, NEW row \in Row, Suspends(u, row)
  PROVE  Origins'
<1>1. /\ UNCHANGED <<pending, req, code, proved, superseded>>
      /\ users' = [users EXCEPT ![u] = row] /\ row.contact = users[u].contact
      /\ row.verified = users[u].verified /\ users[u] # None
  BY Assumed DEF Suspends
<1>2. ASSUME NEW v \in User PROVE users'[v] = users[v] \/ (v = u /\ users'[v] = row)
  BY <1>1 DEF TypeOK
<1>3. ASSUME NEW v \in User, users'[v] # None
      PROVE  /\ users[v] # None
             /\ users'[v].contact = users[v].contact /\ users'[v].verified = users[v].verified
  BY <1>1, <1>2, <1>3
<1>4. ASSUME NEW v \in User, users[v] # None PROVE users'[v] # None BY <1>2, <1>4, Assumed
<1>5. Newcomers'
  <2>1. ASSUME NEW v \in User, users'[v] = None PROVE users[v] = None BY <1>4, <2>1
  <2>2. ASSUME NEW q \in Request, req'[q].pc = "issue" PROVE users'[req'[q].user] # None
    <3>1. req[q].pc = "issue" /\ RequestOK(req[q]) BY <1>1, <2>2 DEF TypeOK
    <3>2. req[q].user \in User BY <3>1 DEF RequestOK, Idle
    <3>3. users[req[q].user] # None BY <3>1 DEF Origins, Newcomers
    <3>4. QED BY <1>1, <1>4, <3>2, <3>3
  <2>3. QED BY <1>1, <2>1, <2>2 DEF Origins, Newcomers
<1>6. ASSUME NEW v \in User, v \notin superseded', users'[v] # None, NEW ch \in Channel
      PROVE  Matched(v, ch)' /\ Traced(v, ch)' /\ Proving(v, ch)'
  <2>1. /\ users'[v].contact[ch] = users[v].contact[ch]
        /\ users'[v].verified[ch] = users[v].verified[ch]
    BY <1>3, <1>6
  <2>2. Matched(v, ch) /\ Traced(v, ch) /\ Proving(v, ch) BY <1>1, <1>3, <1>6 DEF Origins
  <2>3. (Unproved(v, ch)' <=> Unproved(v, ch)) /\ Waiting(v, ch)' = Waiting(v, ch)
    BY <1>1, <2>1 DEF Unproved, Waiting
  <2>4. Owed(v, ch)' = Owed(v, ch) /\ Promised(v, ch)' = Promised(v, ch)
    <3>1. CASE Unproved(v, ch) BY <2>1, <2>3, <3>1 DEF Owed, Promised
    <3>2. CASE ~Unproved(v, ch) BY <1>1, <2>3, <3>2 DEF Owed, Promised
    <3>3. QED BY <3>1, <3>2
  <2>5. \A q \in Request : /\ Carries(q, v, ch)' <=> Carries(q, v, ch)
                           /\ Verifies(q, v, ch)' <=> Verifies(q, v, ch)
                           /\ IsPending(req[q].change)' <=> IsPending(req[q].change)
    BY <1>1 DEF Carries, Verifies, IsPending
  <2>6. OnTheWay(v, ch)' = OnTheWay(v, ch) BY <1>1, <2>5 DEF OnTheWay
  <2>7. Matched(v, ch)' BY <1>1, <2>2, <2>4, <2>5, <2>6 DEF Matched
  <2>8. Traced(v, ch)' BY <1>1, <2>1, <2>2, <2>3 DEF Traced
  <2>9. Proving(v, ch)' BY <1>1, <2>2, <2>3, <2>5 DEF Proving
  <2>10. QED BY <2>7, <2>8, <2>9
<1>7. QED BY <1>5, <1>6 DEF Origins

\* The columns of the rows of the start.
HasAddress(u, c, ch, a, verified) ==
    /\ c = ch => users[u].contact[c] = a
    /\ c # ch => users[u].contact[c] = None
    /\ users[u].verified[c] => c = ch /\ verified = TRUE
    /\ c = ch /\ verified = TRUE => users[u].verified[c]

LEMMA StartRow ==
  ASSUME NEW there \in SUBSET User, NEW verified \in BOOLEAN, NEW mfa \in BOOLEAN, NEW at, NEW ch,
         Starts(there, verified, mfa, at, ch), NEW u \in there, NEW c \in Channel
  PROVE  /\ at[u] \in Address
         /\ HasAddress(u, c, ch, at[u], verified)
<1>. DEFINE s == IF mfa THEN First ELSE None
            v == [[x \in Channel |-> FALSE] EXCEPT ![ch] = verified]
<1>1. /\ users[u] = [NewUser(ch, at[u]) EXCEPT !.verified[ch] = verified, !.secret = s,
                                               !.confirmed = mfa]
      /\ ch \in Channel /\ at \in [there -> Address]
  BY DEF Starts
<1>2. users[u] = [contact |-> [x \in Channel |-> IF x = ch THEN at[u] ELSE None],
                  verified |-> v, secret |-> s, confirmed |-> mfa, active |-> TRUE]
  BY <1>1 DEF NewUser
<1>3. users[u].contact[c] = IF c = ch THEN at[u] ELSE None BY <1>2
<1>4. users[u].verified = v BY <1>2
<1>5. v[c] = IF c = ch THEN verified ELSE FALSE BY <1>1
<1>. HIDE DEF s, v
<1>6. CASE c = ch BY <1>1, <1>3, <1>4, <1>5, <1>6 DEF HasAddress
<1>7. CASE c # ch BY <1>1, <1>3, <1>4, <1>5, <1>7 DEF HasAddress
<1>8. QED BY <1>6, <1>7

LEMMA InitOrigins == Init => Origins
<1>. SUFFICES ASSUME Init PROVE Origins OBVIOUS
<1>1. PICK there \in SUBSET User, verified \in BOOLEAN, mfa \in BOOLEAN :
         \E at, ch : Starts(there, verified, mfa, at, ch)
  BY InitStarts
<1>2. PICK at, ch : Starts(there, verified, mfa, at, ch) BY <1>1
<1>3. /\ code = [u \in User |-> [c \in Channel |->
                   IF u \in there /\ c = ch /\ ~verified THEN at[u] ELSE None]]
      /\ proved = IF verified THEN {<<u, ch, at[u]>> : u \in there} ELSE {}
      /\ \A u \in User \ there : users[u] = None
  BY <1>2 DEF Starts
<1>4. TypeOK BY InitTypes
<1>5. \A p \in Request : /\ req[p].user \notin User /\ req[p].pc = "new" /\ req[p].row = None
                         /\ req[p].op = None
  BY Assumed DEF Init, NoRequest
<1>6. pending = << >> BY DEF Init
<1>7. ASSUME NEW u \in there, NEW c \in Channel
      PROVE  Matched(u, c) /\ Traced(u, c) /\ Proving(u, c)
  <2>1. /\ at[u] \in Address
        /\ c = ch => users[u].contact[c] = at[u]
        /\ c # ch => users[u].contact[c] = None
        /\ users[u].verified[c] => c = ch /\ verified = TRUE
        /\ c = ch /\ verified = TRUE => users[u].verified[c]
    <3>1. at[u] \in Address /\ HasAddress(u, c, ch, at[u], verified)
      BY <1>2, StartRow
    <3>2. QED BY <3>1 DEF HasAddress
  <2>2. \A p \in Request : ~Carries(p, u, c) /\ ~Verifies(p, u, c) /\ req[p].user # u
    BY <1>5 DEF Carries, Verifies
  <2>3. Waiting(u, c) = {} BY <1>6 DEF Waiting
  <2>4. Proving(u, c) BY <2>2, <2>3 DEF Proving
  <2>5. Traced(u, c)
    <3>1. ASSUME users[u].verified[c] PROVE <<u, c, users[u].contact[c]>> \in proved
      <4>1. proved = {<<v, ch, at[v]>> : v \in there} /\ c = ch BY <1>3, <2>1, <3>1
      <4>2. QED BY <2>1, <4>1
    <3>2. QED BY <2>2, <3>1 DEF Traced
  <2>6. CASE c = ch /\ ~verified
    <3>1. code[u][c] = at[u] /\ proved = {} BY <1>3, <2>6
    <3>2. Unproved(u, c) BY <2>1, <2>6, <3>1, Assumed DEF Unproved
    <3>3. Owed(u, c) = {None} /\ Promised(u, c) = {at[u]} BY <2>1, <2>6, <3>2 DEF Owed, Promised
    <3>4. OnTheWay(u, c) = {None} BY <2>1, <2>2, <3>1, Assumed DEF OnTheWay
    <3>5. IsFiniteSet({None}) /\ Cardinality({None}) = 1 BY FS_Singleton
    <3>6. /\ IsFiniteSet(OnTheWay(u, c))
          /\ Cardinality(OnTheWay(u, c)) <= Cardinality(Owed(u, c))
      BY <3>3, <3>4, <3>5
    <3>7. Matched(u, c) BY <2>2, <3>1, <3>3, <3>6 DEF Matched
    <3>8. QED BY <2>4, <2>5, <3>7
  <2>7. CASE ~(c = ch /\ ~verified)
    <3>1. code[u][c] = None BY <1>3, <2>7
    <3>2. ~Unproved(u, c) BY <2>1, <2>5, <2>7 DEF Unproved, Traced
    <3>3. Owed(u, c) = {} /\ Promised(u, c) = {} BY <2>3, <3>2 DEF Owed, Promised
    <3>4. OnTheWay(u, c) = {} BY <2>2, <3>1 DEF OnTheWay
    <3>5. /\ IsFiniteSet(OnTheWay(u, c))
          /\ Cardinality(OnTheWay(u, c)) <= Cardinality(Owed(u, c))
      BY <3>3, <3>4, FS_EmptySet
    <3>6. Matched(u, c) BY <2>2, <3>1, <3>3, <3>5 DEF Matched
    <3>7. QED BY <2>4, <2>5, <3>6
  <2>8. QED BY <2>6, <2>7
<1>8. \A u \in there : users[u] # None
  <2>1. ASSUME NEW u \in there PROVE users[u] # None
    BY <1>2, StartedRow, Assumed
  <2>2. QED BY <2>1
<1>9. Newcomers
  <2>1. ASSUME NEW u \in User, users[u] = None, NEW c \in Channel
        PROVE  code[u][c] = None /\ \A a \in Address : <<u, c, a>> \notin proved
    <3>1. u \notin there BY <1>8, <2>1
    <3>2. code[u][c] = None BY <1>3, <3>1
    <3>3. QED BY <1>3, <3>1, <3>2
  <2>2. QED BY <1>5, <2>1 DEF Newcomers
<1>10. QED BY <1>3, <1>7, <1>9 DEF Origins

LEMMA OriginsStutter ==
  ASSUME Origins, UNCHANGED vars
  PROVE  Origins'
<1>. USE DEF vars, store, history
<1>1. Newcomers' BY DEF Origins, Newcomers
<1>2. ASSUME NEW u \in User, NEW ch \in Channel
      PROVE  (Matched(u, ch)' <=> Matched(u, ch)) /\ (Traced(u, ch)' <=> Traced(u, ch))
                /\ (Proving(u, ch)' <=> Proving(u, ch))
  <2>1. /\ Unproved(u, ch)' <=> Unproved(u, ch)
        /\ Waiting(u, ch)' = Waiting(u, ch) /\ Owed(u, ch)' = Owed(u, ch)
        /\ Promised(u, ch)' = Promised(u, ch)
    BY DEF Unproved, Waiting, Owed, Promised
  <2>2. \A q \in Request : /\ Carries(q, u, ch)' <=> Carries(q, u, ch)
                           /\ Verifies(q, u, ch)' <=> Verifies(q, u, ch)
                           /\ IsPending(req[q].change)' <=> IsPending(req[q].change)
    BY DEF Carries, Verifies, IsPending
  <2>3. OnTheWay(u, ch)' = OnTheWay(u, ch) BY <2>2 DEF OnTheWay
  <2>4. QED BY <2>1, <2>2, <2>3 DEF Matched, Traced, Proving
<1>3. QED BY <1>1, <1>2 DEF Origins

\* A verified address is one from which a code was accepted, unless the user
\* asked for another address while one waited: a code may be given for another
\* change than the one it was sent for, but no code is left over, and all that
\* are on their way are for the same address.
THEOREM VerifiedAddressesWereProved == Spec => []VerifiedWasProved
<1>1. Init => AccountsInv /\ Origins BY InitInv, InitOrigins
<1>2. AccountsInv /\ AccountsInv' /\ Origins /\ [Next]_vars => Origins'
  <2>. SUFFICES ASSUME AccountsInv, AccountsInv', Origins, [Next]_vars PROVE Origins' OBVIOUS
  <2>1. TypeOK /\ Present /\ ChangesKnown /\ TypeOK' BY DEF AccountsInv
  <2>2. ASSUME NEW p \in Request, Begin(p) \/ Continue(p) \/ Fail(p) PROVE Origins'
    BY <2>1, <2>2, RequestStep, TableStep, OriginsStep
  <2>3. ASSUME NEW u \in User, Suspend(u) PROVE Origins'
    BY <2>1, <2>3, SuspendStep, OriginsSuspend
  <2>4. CASE UNCHANGED vars BY <2>4, OriginsStutter
  <2>5. QED BY <2>2, <2>3, <2>4 DEF Next
<1>3. Origins => VerifiedWasProved BY DEF Origins, Traced, VerifiedWasProved
<1>4. QED BY <1>1, <1>2, <1>3, AccountsInvariant, PTL DEF Spec
=============================================================================
