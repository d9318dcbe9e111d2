------------------------------ MODULE CodeProofs ------------------------------
(***************************************************************************)
(* Proofs about VerificationCodes: single use, the attempt budget and the  *)
(* fate of voided codes, for any number of requests, kinds and attempts,   *)
(* with or without a replica.                                              *)
(***************************************************************************)
EXTENDS VerificationCodes, FiniteSetTheorems, WellFoundedInduction, TLAPS

\* There are no codes and no requests at first.
LEMMA InitInvariant == Init => CodeInv
<1> SUFFICES ASSUME Init PROVE CodeInv OBVIOUS
<1>1. TypeOK BY CodeConstants DEF Init, TypeOK, RowState
<1>2. RowShape /\ LookupShape /\ UsedShape /\ SingleUse
  BY DEF Init, RowShape, LookupShape, UsedShape, SingleUse
<1>3. MistakesCounted
  <2>1. \A c \in Request : Mistakes(c) = {} BY DEF Init, Mistakes
  <2>2. QED BY <2>1, FS_EmptySet DEF Init, MistakesCounted
<1>4. QED BY <1>1, <1>2, <1>3 DEF CodeInv

\* A step that makes no mistake leaves the mistakes counted.
LEMMA SameMistakes ==
    ASSUME CodeInv, UNCHANGED attempts,
           \A r \in Request : pc'[r] = "wrong" <=> pc[r] = "wrong",
           \A r \in Request : pc[r] = "wrong" => target'[r] = target[r]
    PROVE  MistakesCounted'
<1>1. \A c \in Request : Mistakes(c)' = Mistakes(c) BY DEF Mistakes
<1>2. QED BY <1>1 DEF CodeInv, MistakesCounted

\* An issue starts with nothing saved.
LEMMA IssueStep ==
    ASSUME CodeInv, NEW r \in Request, NEW k \in Kind,
           IssueOtp(r, k) \/ IssueByWorker(r, k)
    PROVE  CodeInv'
<1> USE DEF CodeInv, IssueOtp, IssueByWorker, Start, Goto, table, shown, found
<1>1. TypeOK' BY DEF TypeOK
<1>2. pc[r] = "idle" /\ pc' = [pc EXCEPT ![r] = "void"] /\ UNCHANGED <<row, attempts>>
  OBVIOUS
<1>3. RowShape' BY <1>2 DEF RowShape, TypeOK
<1>4. LookupShape' BY <1>2 DEF LookupShape, TypeOK
<1>5. UsedShape' /\ SingleUse' BY <1>2 DEF UsedShape, SingleUse, TypeOK
<1>6. MistakesCounted' BY <1>2, SameMistakes DEF TypeOK
<1>7. QED BY <1>1, <1>3, <1>4, <1>5, <1>6

\* What Void voids is consumed, and what was consumed stays so.
LEMMA VoidStep == ASSUME CodeInv, NEW r \in Request, Void(r) PROVE CodeInv'
<1> USE DEF CodeInv, Void, Goto, locals, shown, found
<1> DEFINE codes == {c \in Request : row[c] # "absent" /\ InScope(kind[r], c)}
<1>1. TypeOK' BY DEF TypeOK, RowState
<1>2. /\ pc[r] = "void" /\ pc' = [pc EXCEPT ![r] = "make"] /\ UNCHANGED attempts
      /\ row' = [c \in Request |-> IF c \in codes THEN "consumed" ELSE row[c]]
      /\ voided' = [voided EXCEPT ![r] = codes]
  OBVIOUS
<1>3. \A c \in Request : row'[c] = "absent" <=> row[c] = "absent" BY <1>2
<1>4. \A c \in Request : row[c] = "consumed" => row'[c] = "consumed" BY <1>2
<1>5. RowShape' BY <1>2, <1>3 DEF RowShape, TypeOK
<1>6. LookupShape' BY <1>2, <1>3 DEF LookupShape, TypeOK
<1>7. UsedShape'
  <2>1. ASSUME NEW s \in Request, pc'[s] = "accepted" PROVE row'[target'[s]] = "consumed"
    <3>1. pc[s] = "accepted" BY <1>2, <2>1 DEF TypeOK
    <3>2. target[s] \in Request BY <3>1 DEF LookupShape, TypeOK
    <3>3. QED BY <1>4, <3>1, <3>2 DEF UsedShape
  <2>2. ASSUME NEW d \in Request, NEW c \in voided'[d] PROVE row'[c] = "consumed"
    <3>1. c \in Request BY <1>1, <2>2 DEF TypeOK
    <3>2. CASE d = r BY <1>2, <2>2, <3>1, <3>2 DEF TypeOK
    <3>3. CASE d # r BY <1>2, <1>4, <2>2, <3>1, <3>3 DEF UsedShape, TypeOK
    <3>4. QED BY <3>2, <3>3
  <2>3. QED BY <2>1, <2>2 DEF UsedShape
<1>8. SingleUse' BY <1>2 DEF SingleUse, TypeOK
<1>9. MistakesCounted' BY <1>2, SameMistakes DEF TypeOK
<1>10. QED BY <1>1, <1>5, <1>6, <1>7, <1>8, <1>9

\* The code gets its lifetime.
LEMMA MakeStep == ASSUME CodeInv, NEW r \in Request, Make(r) PROVE CodeInv'
<1> USE DEF CodeInv, Make, Goto, locals, shown, found
<1>1. TypeOK' BY DEF TypeOK
<1>2. pc[r] = "make" /\ pc' = [pc EXCEPT ![r] = "save"] /\ UNCHANGED <<row, attempts>>
  OBVIOUS
<1>3. RowShape' /\ LookupShape' BY <1>2 DEF RowShape, LookupShape, TypeOK
<1>4. UsedShape' /\ SingleUse' BY <1>2 DEF UsedShape, SingleUse, TypeOK
<1>5. MistakesCounted' BY <1>2, SameMistakes DEF TypeOK
<1>6. QED BY <1>1, <1>3, <1>4, <1>5

\* The row saved is new, so no voided or used code comes back.
LEMMA SaveStep == ASSUME CodeInv, NEW r \in Request, Save(r) PROVE CodeInv'
<1> USE DEF CodeInv, Save, Goto, locals, shown, found
<1>1. TypeOK' BY DEF TypeOK, RowState
<1>2. /\ pc[r] = "save" /\ row[r] = "absent" /\ row' = [row EXCEPT ![r] = "active"]
      /\ \A s \in Request \ {r} : pc'[s] = pc[s]
      /\ pc'[r] \in {"issued", "failed"}
      /\ UNCHANGED <<attempts, target, voided, op, copy>>
  BY DEF RowShape, TypeOK
<1>3. \A c \in Request : row[c] # "absent" => row'[c] = row[c] BY <1>2 DEF TypeOK
<1>4. RowShape' BY <1>2 DEF RowShape, TypeOK
<1>5. LookupShape' BY <1>2, <1>3 DEF LookupShape, TypeOK
<1>6. UsedShape'
  <2>1. ASSUME NEW s \in Request, pc'[s] = "accepted" PROVE row'[target'[s]] = "consumed"
    <3>1. pc[s] = "accepted" BY <1>2, <2>1
    <3>2. target[s] \in Request /\ row[target[s]] = "consumed"
      BY <3>1 DEF LookupShape, UsedShape, TypeOK
    <3>3. QED BY <1>2, <1>3, <3>2
  <2>2. ASSUME NEW d \in Request, NEW c \in voided'[d] PROVE row'[c] = "consumed"
    BY <1>2, <1>3, <2>2 DEF UsedShape, TypeOK
  <2>3. QED BY <2>1, <2>2 DEF UsedShape
<1>7. SingleUse' BY <1>2 DEF SingleUse
<1>8. MistakesCounted' BY <1>2, SameMistakes
<1>9. QED BY <1>1, <1>4, <1>5, <1>6, <1>7, <1>8

\* A lookup returns a saved code, or none.
LEMMA CheckStep ==
    ASSUME CodeInv, NEW r \in Request, NEW k \in Kind, NEW g \in Delivered \cup {Wrong},
           Check(r, k, g) \/ CheckLink(r, k, g)
    PROVE  CodeInv'
<1> USE DEF CodeInv
<1>1. PICK c \in Request \cup {None} :
        /\ Start(r, "check", k, g) /\ Look(r, c)
        /\ c = None => Goto(r, "unknown")
        /\ c # None => View[c] = "active" /\ (Goto(r, "spent") \/ Goto(r, "consume") \/ Goto(r, "count"))
        /\ UNCHANGED <<now, table, shown, voided, faults>>
  BY CodeConstants DEF Check, CheckLink, Latest, Active
<1>2. c # None => row[c] # "absent" BY <1>1 DEF View, LookupShape
<1>3. g \in Request \cup {None, Wrong} BY DEF Delivered
<1>4. PICK l \in {"unknown", "spent", "consume", "count"} : Goto(r, l) /\ (c = None => l = "unknown")
  BY <1>1
<1>5. TypeOK'
  <2>1. (View # row \/ ViewedAttempts # attempts) \in BOOLEAN OBVIOUS
  <2>2. lagged' \in [Request -> BOOLEAN] BY <1>1, <2>1 DEF Look, TypeOK
  <2>3. QED BY <1>1, <1>3, <1>4, <2>2 DEF Start, Look, Goto, TypeOK, table, shown
<1>6. /\ pc[r] = "idle" /\ pc' = [pc EXCEPT ![r] = l]
      /\ op' = [op EXCEPT ![r] = "check"] /\ target' = [target EXCEPT ![r] = c]
      /\ UNCHANGED <<row, attempts, copy, voided>>
  BY <1>1, <1>4 DEF Start, Look, Goto, table, shown
<1>7. RowShape' BY <1>6 DEF RowShape, TypeOK
<1>8. LookupShape' BY <1>2, <1>4, <1>6 DEF LookupShape, TypeOK
<1>9. UsedShape' /\ SingleUse' BY <1>4, <1>6 DEF UsedShape, SingleUse, TypeOK
<1>10. MistakesCounted' BY <1>4, <1>6, SameMistakes DEF TypeOK
<1>11. QED BY <1>5, <1>7, <1>8, <1>9, <1>10

\* One more mistake comes with one more attempt.
LEMMA CountStep == ASSUME CodeInv, NEW r \in Request, Count(r) PROVE CodeInv'
<1> USE DEF CodeInv, Count, Goto, locals, shown, found
<1> DEFINE c == target[r]
<1>1. c \in Request BY DEF LookupShape, TypeOK
<1>2. TypeOK' BY <1>1, CodeConstants DEF TypeOK
<1>3. /\ pc[r] = "count" /\ \A s \in Request \ {r} : pc'[s] = pc[s]
      /\ pc'[r] \in {"wrong", "failed", "spent"}
      /\ UNCHANGED <<row, target, voided, op, copy>>
  BY DEF TypeOK
<1>4. RowShape' BY <1>3 DEF RowShape
<1>5. LookupShape' BY <1>3 DEF LookupShape
<1>6. UsedShape' /\ SingleUse' BY <1>3 DEF UsedShape, SingleUse
<1>7. MistakesCounted'
  <2> SUFFICES ASSUME NEW d \in Request
               PROVE  IsFiniteSet(Mistakes(d)') /\ Cardinality(Mistakes(d)') <= attempts'[d]
    BY DEF MistakesCounted
  <2>1. IsFiniteSet(Mistakes(d)) /\ Cardinality(Mistakes(d)) <= attempts[d]
    BY DEF MistakesCounted
  <2>2. attempts[d] \in Nat /\ attempts[d] <= attempts'[d] /\ attempts'[d] \in Nat
    BY <1>1, CodeConstants DEF TypeOK
  <2>3. Cardinality(Mistakes(d)) \in Nat BY <2>1, FS_CardinalityType
  <2>4. CASE d = c /\ pc'[r] = "wrong"
    <3>1. r \notin Mistakes(d) BY <1>3 DEF Mistakes
    <3>2. Mistakes(d)' = Mistakes(d) \cup {r} BY <1>3, <2>4 DEF Mistakes
    <3>3. attempts'[d] = attempts[d] + 1 BY <1>1, <2>4 DEF TypeOK
    <3>4. /\ IsFiniteSet(Mistakes(d) \cup {r})
          /\ Cardinality(Mistakes(d) \cup {r}) = Cardinality(Mistakes(d)) + 1
      BY <2>1, <3>1, FS_AddElement
    <3>5. QED BY <2>1, <2>2, <2>3, <3>2, <3>3, <3>4
  <2>5. CASE ~(d = c /\ pc'[r] = "wrong")
    <3>1. Mistakes(d)' = Mistakes(d) BY <1>3, <2>5 DEF Mistakes
    <3>2. QED BY <2>1, <2>2, <2>3, <3>1
  <2>6. QED BY <2>4, <2>5
<1>8. QED BY <1>2, <1>4, <1>5, <1>6, <1>7

\* The request that consumes a code finds it active, so nobody has used it yet.
LEMMA ConsumeStep == ASSUME CodeInv, NEW r \in Request, Consume(r) PROVE CodeInv'
<1> USE DEF CodeInv, Consume, Goto, locals, shown, found
<1> DEFINE c == target[r]
<1>1. c \in Request /\ c # None BY CodeConstants DEF LookupShape, TypeOK
<1>2. TypeOK' BY <1>1 DEF TypeOK, RowState
<1>3. /\ pc[r] = "consume" /\ \A s \in Request \ {r} : pc'[s] = pc[s]
      /\ pc'[r] \in {"accepted", "failed", "lost"}
      /\ \A d \in Request : row'[d] = row[d] \/ (row[d] # "absent" /\ row'[d] = "consumed")
      /\ pc'[r] = "accepted" => row[c] = "active" /\ row'[c] = "consumed"
      /\ UNCHANGED <<target, voided, op, copy, attempts>>
  BY <1>1 DEF TypeOK
<1>4. RowShape' BY <1>3 DEF RowShape
<1>5. LookupShape' BY <1>1, <1>3 DEF LookupShape, TypeOK
<1>6. UsedShape'
  <2>1. ASSUME NEW s \in Request, pc'[s] = "accepted" PROVE row'[target'[s]] = "consumed"
    <3>1. CASE s = r BY <1>3, <2>1, <3>1
    <3>2. CASE s # r
      <4>1. target[s] \in Request /\ row[target[s]] = "consumed"
        BY <1>3, <2>1, <3>2 DEF LookupShape, UsedShape, TypeOK
      <4>2. QED BY <1>3, <4>1
    <3>3. QED BY <3>1, <3>2
  <2>2. ASSUME NEW d \in Request, NEW e \in voided'[d] PROVE row'[e] = "consumed"
    BY <1>3, <2>2 DEF UsedShape, TypeOK
  <2>3. QED BY <2>1, <2>2 DEF UsedShape
<1>7. SingleUse'
  <2>1. ASSUME NEW s \in Request, pc[s] = "accepted", pc'[r] = "accepted"
        PROVE  target[s] # target[r]
    BY <1>3, <2>1 DEF UsedShape
  <2>2. QED BY <1>3, <2>1 DEF SingleUse
<1>8. MistakesCounted' BY <1>3, SameMistakes
<1>9. QED BY <1>2, <1>4, <1>5, <1>6, <1>7, <1>8

\* A request that fails gives up no code and takes none.
LEMMA FailStep == ASSUME CodeInv, NEW r \in Request, Fail(r) PROVE CodeInv'
<1> USE DEF CodeInv, Fail, InFlight, Goto, table, locals, shown, found
<1>1. TypeOK' BY DEF TypeOK
<1>2. /\ pc[r] \notin {"accepted", "wrong"} /\ pc' = [pc EXCEPT ![r] = "failed"]
      /\ UNCHANGED <<row, attempts>>
  OBVIOUS
<1>3. RowShape' /\ LookupShape' BY <1>2 DEF RowShape, LookupShape, TypeOK
<1>4. UsedShape' /\ SingleUse' BY <1>2 DEF UsedShape, SingleUse, TypeOK
<1>5. MistakesCounted' BY <1>2, SameMistakes DEF TypeOK
<1>6. QED BY <1>1, <1>3, <1>4, <1>5

\* The replica and the clock move on, or nothing does.
LEMMA EnvironmentStep ==
    ASSUME CodeInv, Replicate \/ Tick \/ UNCHANGED vars PROVE CodeInv'
<1> USE DEF CodeInv, Replicate, Tick, vars, table, locals, shown, found
<1>1. TypeOK' BY DEF TypeOK
<1>2. /\ UNCHANGED <<row, attempts, op, pc, target, voided>>
      /\ copy' = row \/ copy' = copy
  OBVIOUS
<1>3. RowShape' BY <1>2 DEF RowShape
<1>4. LookupShape' BY <1>2 DEF LookupShape
<1>5. UsedShape' /\ SingleUse' BY <1>2 DEF UsedShape, SingleUse
<1>6. MistakesCounted' BY <1>2, SameMistakes
<1>7. QED BY <1>1, <1>3, <1>4, <1>5, <1>6

\* Every step preserves the invariant.
LEMMA NextStep == CodeInv /\ [Next]_vars => CodeInv'
<1> SUFFICES ASSUME CodeInv, [Next]_vars PROVE CodeInv' OBVIOUS
<1>1. CASE \E r \in Request : Begin(r)
  <2>1. PICK r \in Request, k \in Kind :
          \/ IssueOtp(r, k) \/ IssueByWorker(r, k)
          \/ \E g \in Delivered \cup {Wrong} : Check(r, k, g) \/ CheckLink(r, k, g)
    BY <1>1 DEF Begin
  <2>2. QED BY <2>1, IssueStep, CheckStep
<1>2. CASE \E r \in Request : Continue(r)
  BY <1>2, VoidStep, MakeStep, SaveStep, CountStep, ConsumeStep, FailStep DEF Continue
<1>3. CASE Replicate \/ Tick \/ UNCHANGED vars BY <1>3, EnvironmentStep
<1>4. QED BY <1>1, <1>2, <1>3 DEF Next

\* The invariant holds in every reachable state.
THEOREM InvariantHolds == Spec => []CodeInv
<1>1. QED BY InitInvariant, NextStep, PTL DEF Spec

\* Every column and every local variable keeps its type; in particular no
\* counter of attempts passes its limit.
THEOREM TypeCorrect == Spec => []TypeOK
<1>1. CodeInv => TypeOK BY DEF CodeInv
<1>2. QED BY <1>1, InvariantHolds, PTL

\* No code is accepted twice, however requests overlap and the replica lags.
THEOREM CodesAreSingleUse == Spec => []SingleUse
<1>1. CodeInv => SingleUse BY DEF CodeInv
<1>2. QED BY <1>1, InvariantHolds, PTL

\* No code answers more plain mistakes than its budget has attempts.
THEOREM BudgetHolds == Spec => []AttemptBudget
<1>1. CodeInv => AttemptBudget
  <2> SUFFICES ASSUME CodeInv, NEW c \in Request
               PROVE  Cardinality(Mistakes(c)) <= MaxAttempts
    BY DEF AttemptBudget
  <2>1. IsFiniteSet(Mistakes(c)) /\ Cardinality(Mistakes(c)) <= attempts[c]
    BY DEF CodeInv, MistakesCounted
  <2>2. attempts[c] \in 0..MaxAttempts BY DEF CodeInv, TypeOK
  <2>3. Cardinality(Mistakes(c)) \in Nat BY <2>1, FS_CardinalityType
  <2>4. QED BY <2>1, <2>2, <2>3, CodeConstants
<1>2. QED BY <1>1, InvariantHolds, PTL

\* Acceptance takes an active row, and a voided row is never active again.
LEMMA AcceptStep ==
    ASSUME CodeInv, [Next]_vars, NEW r \in Request, pc[r] # "accepted", pc'[r] = "accepted"
    PROVE  row[target[r]] = "active"
<1> USE DEF CodeInv, TypeOK, Goto
<1>1. pc' # pc OBVIOUS
<1>2. PICK s \in Request : Begin(s) \/ Continue(s)
  BY <1>1 DEF Next, Replicate, Tick, vars
<1>3. CASE Begin(s)
  <2>1. PICK l \in {"void", "unknown", "spent", "consume", "count"} : pc' = [pc EXCEPT ![s] = l]
    BY <1>3 DEF Begin, IssueOtp, IssueByWorker, Check, CheckLink
  <2>2. QED BY <2>1
<1>4. CASE Void(s) \/ Make(s) \/ Save(s) \/ Count(s) \/ Fail(s)
  BY <1>4 DEF Void, Make, Save, Count, Fail
<1>5. CASE Consume(s) BY <1>5 DEF Consume
<1>6. QED BY <1>2, <1>3, <1>4, <1>5 DEF Continue

\* A code that a later issue has voided is never accepted.
THEOREM VoidedForGood == Spec => NoVoidedCodeAccepted
<1>1. ASSUME CodeInv, [Next]_vars
      PROVE  \A r \in Request : pc[r] # "accepted" /\ pc'[r] = "accepted" =>
                \A d \in Request : target[r] \notin voided[d]
  BY <1>1, AcceptStep DEF CodeInv, UsedShape
<1>2. CodeInv /\ [Next]_vars =>
        [\A r \in Request : pc[r] # "accepted" /\ pc'[r] = "accepted" =>
            \A d \in Request : target[r] \notin voided[d]]_vars
  BY <1>1
<1>3. QED BY <1>2, InvariantHolds, PTL DEF Spec, NoVoidedCodeAccepted

-----------------------------------------------------------------------------
(* The right code is refused only for a reason. *)

Excused(c) ==
    \/ \E s \in Request : target[s] = c /\ pc[s] \in {"accepted", "failed"}
    \/ \E d \in Request : c \in voided[d] /\ InScope(kind[d], c)

Reason(c) ==
    \/ Excused(c)
    \/ \E d \in Request :
          d # c /\ kind[d] = kind[c] /\ row[d] # "absent" /\ madeAt[d] >= madeAt[c]
    \/ ExpiresAt(c) <= now
    \/ attempts[c] = MaxAttempts

\* The request has been refused, or will be for a wrong guess.
Judged(r) == op[r] = "check" /\ pc[r] \in {"count", "unknown", "spent", "wrong", "lost"}

\* A guess is a code that was delivered; a code is consumed by a use or an issue;
\* and whoever was judged has a reason that lasts.
Reasons ==
    /\ \A c \in Request : pc[c] = "issued" => row[c] # "absent"
    /\ \A r \in Request : guess[r] \in Request => pc[guess[r]] = "issued"
    /\ \A r \in Request : pc[r] = "consume" => target[r] = guess[r]
    /\ \A d \in Request : pc[d] \in {"idle", "void"} => voided[d] = {}
    /\ \A c \in Request : row[c] = "consumed" => Excused(c)
    /\ \A r \in Request :
          Judged(r) /\ ~lagged[r] /\ guess[r] \in Request /\ kind[guess[r]] = kind[r] =>
             Reason(guess[r])

\* What no step undoes.
Lasting ==
    /\ \A s \in Request : pc[s] \in {"accepted", "failed"} => pc'[s] = pc[s] /\ target'[s] = target[s]
    /\ \A d \in Request : pc[d] # "idle" =>
          /\ pc'[d] # "idle"
          /\ kind'[d] = kind[d] /\ op'[d] = op[d] /\ guess'[d] = guess[d]
          /\ target'[d] = target[d] /\ lagged'[d] = lagged[d]
    /\ \A d \in Request : row[d] # "absent" => row'[d] # "absent" /\ madeAt'[d] = madeAt[d]
    /\ \A d \in Request : pc[d] = "issued" => pc'[d] = "issued"
    /\ \A d \in Request : voided[d] \subseteq voided'[d]
    /\ \A c \in Request : attempts[c] <= attempts'[c]
    /\ now <= now'

LEMMA StepsLast == ASSUME CodeInv, Reasons, [Next]_vars PROVE Lasting
<1> USE DEF CodeInv
<1>0. TypeOK /\ now \in Nat /\ \A c \in Request : attempts[c] \in Nat
  BY CodeConstants DEF TypeOK
<1>1. ASSUME NEW r \in Request, Begin(r) PROVE Lasting
  <2>1. /\ pc[r] = "idle"
        /\ \A d \in Request \ {r} :
              /\ pc'[d] = pc[d] /\ kind'[d] = kind[d] /\ op'[d] = op[d] /\ guess'[d] = guess[d]
              /\ target'[d] = target[d] /\ lagged'[d] = lagged[d]
        /\ UNCHANGED <<now, row, attempts, madeAt, voided>>
    <3>1. PICK k \in Kind :
            \/ IssueOtp(r, k) \/ IssueByWorker(r, k)
            \/ \E g \in Delivered \cup {Wrong} : Check(r, k, g) \/ CheckLink(r, k, g)
      BY <1>1 DEF Begin
    <3>2. \E o, g : Start(r, o, k, g) BY <3>1 DEF IssueOtp, IssueByWorker, Check, CheckLink
    <3>3. \E l : Goto(r, l) BY <3>1 DEF IssueOtp, IssueByWorker, Check, CheckLink
    <3>4. UNCHANGED found \/ \E c : Look(r, c)
      BY <3>1 DEF IssueOtp, IssueByWorker, Check, CheckLink
    <3>5. UNCHANGED <<now, table, voided>>
      BY <3>1 DEF IssueOtp, IssueByWorker, Check, CheckLink
    <3>6. \A d \in Request \ {r} : pc'[d] = pc[d] BY <3>3 DEF Goto
    <3>7. \A d \in Request \ {r} : target'[d] = target[d] /\ lagged'[d] = lagged[d]
      <4>1. CASE UNCHANGED found BY <4>1 DEF found
      <4>2. CASE \E c : Look(r, c) BY <1>0, <4>2 DEF Look, TypeOK
      <4>3. QED BY <3>4, <4>1, <4>2
    <3>8. /\ pc[r] = "idle"
          /\ \A d \in Request \ {r} : kind'[d] = kind[d] /\ op'[d] = op[d] /\ guess'[d] = guess[d]
      BY <3>2 DEF Start
    <3>9. QED BY <3>5, <3>6, <3>7, <3>8 DEF table
  <2>2. QED BY <1>0, <2>1 DEF Lasting
<1>2. ASSUME NEW r \in Request, Void(r) PROVE Lasting
  <2>1. /\ pc[r] = "void" /\ pc' = [pc EXCEPT ![r] = "make"]
        /\ \A c \in Request : row[c] # "absent" => row'[c] # "absent"
        /\ \A d \in Request \ {r} : voided'[d] = voided[d]
        /\ UNCHANGED <<now, attempts, madeAt, op, kind, guess, target, lagged>>
    BY <1>0, <1>2 DEF Void, Goto, locals, found, TypeOK
  <2>2. voided[r] = {} BY <2>1 DEF Reasons
  <2>3. QED BY <1>0, <2>1, <2>2 DEF Lasting, TypeOK
<1>3. ASSUME NEW r \in Request, Make(r) PROVE Lasting
  <2>1. /\ pc[r] = "make" /\ pc' = [pc EXCEPT ![r] = "save"]
        /\ madeAt' = [madeAt EXCEPT ![r] = now]
        /\ UNCHANGED <<now, row, attempts, op, kind, guess, target, lagged, voided>>
    BY <1>3 DEF Make, Goto, locals, found
  <2>2. row[r] = "absent" BY <2>1 DEF RowShape
  <2>3. QED BY <1>0, <2>1, <2>2 DEF Lasting, TypeOK
<1>4. ASSUME NEW r \in Request, Save(r) PROVE Lasting
  <2>1. /\ pc[r] = "save" /\ row' = [row EXCEPT ![r] = "active"]
        /\ pc' = [pc EXCEPT ![r] = "issued"] \/ pc' = [pc EXCEPT ![r] = "failed"]
        /\ UNCHANGED <<now, attempts, madeAt, op, kind, guess, target, lagged, voided>>
    BY <1>4 DEF Save, Goto, locals, found
  <2>2. QED BY <1>0, <2>1 DEF Lasting, TypeOK
<1>5. ASSUME NEW r \in Request, Count(r) \/ Consume(r) \/ Fail(r) PROVE Lasting
  <2>1. /\ pc[r] \in {"void", "make", "save", "count", "consume"}
        /\ \E l \in {"wrong", "failed", "spent", "accepted", "lost"} : pc' = [pc EXCEPT ![r] = l]
        /\ UNCHANGED <<now, madeAt, op, kind, guess, target, lagged, voided>>
    BY <1>5 DEF Count, Consume, Fail, InFlight, Goto, locals, found, table
  <2>2. pc[r] \in {"count", "consume"} => target[r] \in Request
    BY <1>0 DEF LookupShape, TypeOK
  <2>3. \A c \in Request : row[c] # "absent" => row'[c] # "absent"
    BY <1>0, <1>5 DEF Count, Consume, Fail, table, TypeOK
  <2>4. \A c \in Request : attempts[c] <= attempts'[c]
    BY <1>0, <1>5 DEF Count, Consume, Fail, table, TypeOK
  <2>5. QED BY <1>0, <2>1, <2>3, <2>4 DEF Lasting, TypeOK
<1>6. CASE Replicate \/ Tick \/ UNCHANGED vars
  <2>1. UNCHANGED <<pc, row, attempts, madeAt, op, kind, guess, target, lagged, voided>> /\ now <= now'
    BY <1>0, <1>6 DEF Replicate, Tick, vars, table, locals, found
  <2>2. QED BY <1>0, <2>1 DEF Lasting
<1>7. QED BY <1>1, <1>2, <1>3, <1>4, <1>5, <1>6 DEF Next, Continue

\* A reason lasts.
LEMMA ReasonsLast ==
    ASSUME CodeInv, CodeInv', Reasons, Lasting, NEW c \in Request, row[c] # "absent"
    PROVE  (Excused(c) => Excused(c)') /\ (Reason(c) => Reason(c)')
<1>0. /\ TypeOK /\ TypeOK' /\ now \in Nat /\ now' \in Nat
      /\ \A d \in Request : madeAt[d] \in Nat /\ attempts[d] \in Nat /\ attempts'[d] \in Nat
      /\ \A d \in Request : attempts'[d] <= MaxAttempts
  BY CodeConstants DEF CodeInv, TypeOK
<1>1. \A d \in Request : row[d] # "absent" => pc[d] # "idle" BY DEF CodeInv, RowShape
<1>2. kind'[c] = kind[c] /\ madeAt'[c] = madeAt[c] /\ now <= now' /\ attempts[c] <= attempts'[c]
  BY <1>1 DEF Lasting
<1>3. Excused(c) => Excused(c)'
  <2>1. ASSUME NEW s \in Request, target[s] = c, pc[s] \in {"accepted", "failed"} PROVE Excused(c)'
    <3>1. target'[s] = c /\ pc'[s] \in {"accepted", "failed"} BY <2>1 DEF Lasting
    <3>2. QED BY <3>1 DEF Excused
  <2>2. ASSUME NEW d \in Request, c \in voided[d], InScope(kind[d], c) PROVE Excused(c)'
    <3>1. pc[d] # "idle" BY <2>2 DEF Reasons
    <3>2. kind'[d] = kind[d] /\ c \in voided'[d] BY <2>2, <3>1 DEF Lasting
    <3>3. InScope(kind[d], c)' BY <1>2, <2>2, <3>2 DEF InScope
    <3>4. QED BY <3>2, <3>3 DEF Excused
  <2>3. QED BY <2>1, <2>2 DEF Excused
<1>4. ASSUME NEW d \in Request, d # c, kind[d] = kind[c], row[d] # "absent", madeAt[d] >= madeAt[c]
      PROVE  Reason(c)'
  <2>1. kind'[d] = kind[d] /\ row'[d] # "absent" /\ madeAt'[d] = madeAt[d]
    BY <1>1, <1>4 DEF Lasting
  <2>2. QED BY <1>2, <1>4, <2>1 DEF Reason
<1>5. ExpiresAt(c) <= now => ExpiresAt(c)' <= now'
  <2>1. ExpiresAt(c)' = ExpiresAt(c) BY <1>2 DEF ExpiresAt
  <2>2. ExpiresAt(c) \in Int BY <1>0, CodeConstants DEF ExpiresAt
  <2>3. QED BY <1>0, <1>2, <2>1, <2>2
<1>6. attempts[c] = MaxAttempts => attempts'[c] = MaxAttempts BY <1>0, <1>2, CodeConstants
<1>7. Reason(c) => Reason(c)' BY <1>3, <1>4, <1>5, <1>6 DEF Reason
<1>8. QED BY <1>3, <1>7

\* Among naturals there is a least, and so among those up to a bound a greatest.
LEMMA NatLeast ==
    ASSUME NEW T, T \subseteq Nat, T # {}
    PROVE  \E x \in T : \A y \in T : x <= y
<1> DEFINE R == OpToRel(<, Nat)
<1>1. IsWellFoundedOn(R, Nat) BY NatLessThanWellFounded
<1>2. \A x, y \in Nat : <<y, x>> \in R <=> y < x BY DEF OpToRel
<1> HIDE DEF R
<1>3. PICK x \in T : \A y \in T : ~ (<<y, x>> \in R) BY <1>1, WFMin
<1>4. ASSUME NEW y \in T PROVE x <= y
  <2>1. x \in Nat /\ y \in Nat OBVIOUS
  <2>2. ~(y < x) BY <1>2, <1>3, <2>1
  <2>3. QED BY <2>1, <2>2
<1>5. QED BY <1>4

\* No creation time lies ahead of the clock, so a lookup that finds active codes
\* finds a latest one.
MadeBefore == \A c \in Request : madeAt[c] <= now

LEMMA LatestExists ==
    ASSUME TypeOK, MadeBefore, NEW k, NEW g \in Active(k)
    PROVE  Latest(k) # {}
<1> DEFINE T == {now - madeAt[c] : c \in Active(k)}
<1>1. now \in Nat /\ \A c \in Active(k) : madeAt[c] \in Nat /\ madeAt[c] <= now
  BY DEF TypeOK, MadeBefore, Active
<1>2. T \subseteq Nat BY <1>1
<1>3. T # {} OBVIOUS
<1>4. PICK x \in T : \A y \in T : x <= y BY <1>2, <1>3, NatLeast
<1>5. PICK c \in Active(k) : x = now - madeAt[c] OBVIOUS
<1>6. \A d \in Active(k) : now - madeAt[c] <= now - madeAt[d] BY <1>4, <1>5
<1>7. \A d \in Active(k) : madeAt[d] <= madeAt[c] BY <1>1, <1>6
<1>8. QED BY <1>7 DEF Latest

\* A delivered code that the lookup of an up-to-date table passes over has a reason.
LEMMA NotActive ==
    ASSUME CodeInv, Reasons, NEW k, NEW g \in Request, pc[g] = "issued", kind[g] = k,
           View = row, g \notin Active(k)
    PROVE  Reason(g)
<1>1. row[g] # "absent" /\ row[g] \in RowState BY DEF Reasons, CodeInv, TypeOK
<1>2. CASE row[g] = "consumed" BY <1>2 DEF Reasons, Reason
<1>3. CASE row[g] = "active"
  <2>1. ~(ExpiresAt(g) > now) BY <1>3 DEF Active
  <2>2. ExpiresAt(g) \in Int /\ now \in Int
    BY CodeConstants DEF ExpiresAt, CodeInv, TypeOK
  <2>3. ExpiresAt(g) <= now BY <2>1, <2>2
  <2>4. QED BY <2>3 DEF Reason
<1>4. QED BY <1>1, <1>2, <1>3 DEF RowState

\* The verdict of a lookup.
LEMMA VerdictHasReason ==
    ASSUME CodeInv, CodeInv', Reasons, MadeBefore, Lasting, NEW r \in Request, NEW k \in Kind,
           NEW g \in Delivered \cup {Wrong}, Check(r, k, g) \/ CheckLink(r, k, g)
    PROVE  /\ guess'[r] = g /\ kind'[r] = k /\ pc[r] = "idle"
           /\ pc'[r] \in {"unknown", "spent", "consume", "count"}
           /\ pc'[r] = "consume" => target'[r] = guess'[r]
           /\ pc'[r] # "consume" /\ ~lagged'[r] /\ g \in Request /\ kind[g] = k => Reason(g)
<1>0. TypeOK BY DEF CodeInv
<1>1. /\ pc[r] = "idle" /\ guess'[r] = g /\ kind'[r] = k
  BY <1>0 DEF Check, CheckLink, Start, TypeOK
<1>2. g \in Request => pc[g] = "issued" BY CodeConstants DEF Delivered
<1>3. CASE Latest(k) = {} /\ k # LinkKind
  <2>1. Look(r, None) /\ Goto(r, "unknown") BY <1>3 DEF Check, CheckLink
  <2>2. pc'[r] = "unknown" /\ (~lagged'[r] => View = row)
    BY <1>0, <2>1 DEF Look, Goto, TypeOK
  <2>3. ASSUME g \in Request, kind[g] = k, View = row PROVE Reason(g)
    BY <1>0, <1>2, <1>3, <2>3, LatestExists, NotActive
  <2>4. QED BY <1>1, <2>2, <2>3
<1>4. CASE k # LinkKind /\ Latest(k) # {}
  <2>1. PICK c \in Latest(k) :
          /\ Look(r, c)
          /\ Goto(r, CASE ViewedAttempts[c] >= MaxAttempts -> "spent"
                       [] ViewedAttempts[c] < MaxAttempts /\ g = c -> "consume"
                       [] OTHER -> "count")
    BY <1>4 DEF Check, CheckLink
  <2>2. /\ target'[r] = c
        /\ lagged'[r] = (View # row \/ ViewedAttempts # attempts)
        /\ pc'[r] = CASE ViewedAttempts[c] >= MaxAttempts -> "spent"
                       [] ViewedAttempts[c] < MaxAttempts /\ g = c -> "consume"
                       [] OTHER -> "count"
    BY <1>0, <2>1 DEF Look, Goto, TypeOK
  <2>3. c \in Request /\ c \in Active(k) /\ \A d \in Active(k) : madeAt[d] <= madeAt[c]
    BY DEF Latest, Active
  <2>4. ViewedAttempts[c] \in Nat /\ MaxAttempts \in Nat /\ attempts[c] \in 0..MaxAttempts
    BY <1>0, <2>3, CodeConstants DEF ViewedAttempts, TypeOK
  <2>5. /\ pc'[r] \in {"spent", "consume", "count"} /\ (pc'[r] = "consume" => g = c)
        /\ (g = c /\ pc'[r] # "consume" => ViewedAttempts[c] >= MaxAttempts)
    BY <2>2, <2>4
  <2>6. ASSUME pc'[r] # "consume", View = row, ViewedAttempts = attempts, g \in Request, kind[g] = k
        PROVE  Reason(g)
    <3>1. CASE g = c
      <4>1. attempts[g] = MaxAttempts BY <2>4, <2>5, <2>6, <3>1
      <4>2. QED BY <4>1 DEF Reason
    <3>2. CASE g \notin Active(k) BY <1>2, <2>6, <3>2, NotActive
    <3>3. CASE g # c /\ g \in Active(k)
      <4>1. row[c] = "active" /\ kind[c] = k BY <2>3, <2>6 DEF Active
      <4>2. madeAt[c] >= madeAt[g] BY <1>0, <2>3, <2>6, <3>3 DEF TypeOK
      <4>3. QED BY <2>3, <2>6, <3>3, <4>1, <4>2 DEF Reason
    <3>4. QED BY <3>1, <3>2, <3>3
  <2>7. QED BY <1>1, <2>2, <2>5, <2>6
<1>5. CASE k = LinkKind
  <2>1. CheckLink(r, k, g) BY <1>5 DEF Check
  <2>2. CASE g \in Active(k)
    <3>1. Look(r, g) /\ Goto(r, "consume") BY <2>1, <2>2 DEF CheckLink
    <3>2. target'[r] = g /\ pc'[r] = "consume" BY <1>0, <3>1 DEF Look, Goto, TypeOK
    <3>3. QED BY <1>1, <3>2
  <2>3. CASE g \notin Active(k)
    <3>1. Look(r, None) /\ Goto(r, "unknown") BY <2>1, <2>3 DEF CheckLink
    <3>2. pc'[r] = "unknown" /\ (~lagged'[r] => View = row)
      BY <1>0, <3>1 DEF Look, Goto, TypeOK
    <3>3. QED BY <1>1, <1>2, <2>3, <3>2, NotActive
  <2>4. QED BY <2>2, <2>3
<1>6. QED BY <1>3, <1>4, <1>5

\* Only its own steps change what a request does and knows.
LEMMA OwnSteps ==
    ASSUME TypeOK, [Next]_vars, NEW r \in Request, ~Begin(r), ~Continue(r)
    PROVE  /\ pc'[r] = pc[r] /\ op'[r] = op[r] /\ kind'[r] = kind[r] /\ guess'[r] = guess[r]
           /\ target'[r] = target[r] /\ lagged'[r] = lagged[r] /\ voided'[r] = voided[r]
<1>1. ASSUME NEW s \in Request \ {r}, Begin(s)
      PROVE  /\ pc'[r] = pc[r] /\ op'[r] = op[r] /\ kind'[r] = kind[r] /\ guess'[r] = guess[r]
             /\ target'[r] = target[r] /\ lagged'[r] = lagged[r] /\ voided'[r] = voided[r]
  <2>1. PICK k \in Kind :
          \/ IssueOtp(s, k) \/ IssueByWorker(s, k)
          \/ \E g \in Delivered \cup {Wrong} : Check(s, k, g) \/ CheckLink(s, k, g)
    BY <1>1 DEF Begin
  <2>2. \E o, g : Start(s, o, k, g) BY <2>1 DEF IssueOtp, IssueByWorker, Check, CheckLink
  <2>3. \E l : Goto(s, l) BY <2>1 DEF IssueOtp, IssueByWorker, Check, CheckLink
  <2>4. UNCHANGED found \/ \E c : Look(s, c)
    BY <2>1 DEF IssueOtp, IssueByWorker, Check, CheckLink
  <2>5. UNCHANGED voided BY <2>1 DEF IssueOtp, IssueByWorker, Check, CheckLink
  <2>6. pc'[r] = pc[r] BY <2>3 DEF Goto, TypeOK
  <2>7. target'[r] = target[r] /\ lagged'[r] = lagged[r]
    <3>1. CASE UNCHANGED found BY <3>1 DEF found
    <3>2. CASE \E c : Look(s, c) BY <3>2 DEF Look, TypeOK
    <3>3. QED BY <2>4, <3>1, <3>2
  <2>8. kind'[r] = kind[r] /\ op'[r] = op[r] /\ guess'[r] = guess[r] BY <2>2 DEF Start, TypeOK
  <2>9. QED BY <2>5, <2>6, <2>7, <2>8
<1>2. ASSUME NEW s \in Request \ {r}, Continue(s)
      PROVE  /\ pc'[r] = pc[r] /\ voided'[r] = voided[r]
             /\ UNCHANGED <<op, kind, guess, target, lagged>>
  <2>1. \E l : Goto(s, l) BY <1>2 DEF Continue, Void, Make, Save, Count, Consume, Fail
  <2>2. pc'[r] = pc[r] BY <2>1 DEF Goto, TypeOK
  <2>3. UNCHANGED <<op, kind, guess, target, lagged>>
    BY <1>2 DEF Continue, Void, Make, Save, Count, Consume, Fail, locals, found
  <2>4. UNCHANGED voided \/ \E S : voided' = [voided EXCEPT ![s] = S]
    BY <1>2 DEF Continue, Void, Make, Save, Count, Consume, Fail
  <2>5. QED BY <2>2, <2>3, <2>4 DEF TypeOK
<1>3. CASE Replicate \/ Tick \/ UNCHANGED vars
  BY <1>3 DEF Replicate, Tick, vars, locals, found
<1>4. QED BY <1>1, <1>2, <1>3 DEF Next

\* A row changes by an issue that voids or saves it, or by a request that uses it.
LEMMA RowChanges ==
    ASSUME CodeInv, [Next]_vars, NEW c \in Request, row'[c] # row[c], row'[c] = "consumed"
    PROVE  \/ \E r \in Request : Void(r) /\ row[c] # "absent" /\ InScope(kind[r], c)
           \/ \E r \in Request : Consume(r) /\ target[r] = c /\ row[c] = "active"
<1>0. TypeOK BY DEF CodeInv
<1>1. ASSUME NEW r \in Request, Void(r) PROVE row[c] # "absent" /\ InScope(kind[r], c)
  BY <1>1 DEF Void
<1>2. ASSUME NEW r \in Request, Consume(r) PROVE target[r] = c /\ row[c] = "active"
  <2>1. target[r] \in Request BY <1>0, <1>2 DEF Consume, CodeInv, LookupShape, TypeOK
  <2>2. QED BY <1>0, <1>2, <2>1 DEF Consume, TypeOK
<1>3. ASSUME NEW r \in Request, Save(r) PROVE FALSE BY <1>0, <1>3 DEF Save, TypeOK
<1>4. ASSUME NEW r \in Request, Make(r) \/ Count(r) \/ Fail(r) PROVE FALSE
  BY <1>4 DEF Make, Count, Fail, table
<1>5. ASSUME NEW r \in Request, Begin(r) PROVE FALSE
  BY <1>5 DEF Begin, IssueOtp, IssueByWorker, Check, CheckLink, table
<1>6. CASE Replicate \/ Tick \/ UNCHANGED vars BY <1>6 DEF Replicate, Tick, vars, table
<1>7. QED BY <1>1, <1>2, <1>3, <1>4, <1>5, <1>6 DEF Next, Continue

\* Every step keeps the reasons: those given last, and new ones come with new
\* verdicts.
LEMMA ReasonsStep ==
    ASSUME CodeInv, CodeInv', Reasons, MadeBefore, [Next]_vars
    PROVE  Reasons'
<1>0. TypeOK BY DEF CodeInv
<1>1. Lasting BY StepsLast
<1>2. \A c \in Request : row[c] # "absent" => (Excused(c) => Excused(c)') /\ (Reason(c) => Reason(c)')
  BY <1>1, ReasonsLast
<1>3. ASSUME NEW r \in Request, Begin(r)
      PROVE  /\ pc[r] = "idle" /\ voided'[r] = {} /\ pc'[r] # "issued"
             /\ guess'[r] \in Request => pc[guess'[r]] = "issued"
             /\ pc'[r] = "consume" => target'[r] = guess'[r]
             /\ Judged(r)' /\ ~lagged'[r] /\ guess'[r] \in Request
                   /\ kind'[guess'[r]] = kind'[r] => Reason(guess'[r])
  <2>1. PICK k \in Kind :
          \/ IssueOtp(r, k) \/ IssueByWorker(r, k)
          \/ \E g \in Delivered \cup {Wrong} : Check(r, k, g) \/ CheckLink(r, k, g)
    BY <1>3 DEF Begin
  <2>2. pc[r] = "idle" /\ voided' = voided
    BY <2>1 DEF IssueOtp, IssueByWorker, Check, CheckLink, Start
  <2>3. voided'[r] = {} BY <2>2 DEF Reasons
  <2>4. CASE IssueOtp(r, k) \/ IssueByWorker(r, k)
    <3>1. Goto(r, "void") /\ Start(r, "issue", k, None)
      BY <2>4 DEF IssueOtp, IssueByWorker
    <3>2. pc'[r] = "void" /\ guess'[r] = None /\ op'[r] = "issue"
      BY <1>0, <3>1 DEF Goto, Start, TypeOK
    <3>3. None \notin Request BY CodeConstants
    <3>4. QED BY <2>2, <2>3, <3>2, <3>3 DEF Judged
  <2>5. ASSUME NEW g \in Delivered \cup {Wrong}, Check(r, k, g) \/ CheckLink(r, k, g)
        PROVE  /\ pc'[r] # "issued"
               /\ guess'[r] \in Request => pc[guess'[r]] = "issued"
               /\ pc'[r] = "consume" => target'[r] = guess'[r]
               /\ Judged(r)' /\ ~lagged'[r] /\ guess'[r] \in Request
                     /\ kind'[guess'[r]] = kind'[r] => Reason(guess'[r])
    <3>1. /\ guess'[r] = g /\ kind'[r] = k
          /\ pc'[r] \in {"unknown", "spent", "consume", "count"}
          /\ pc'[r] = "consume" => target'[r] = guess'[r]
          /\ pc'[r] # "consume" /\ ~lagged'[r] /\ g \in Request /\ kind[g] = k => Reason(g)
      BY <1>1, <2>5, VerdictHasReason
    <3>2. g \in Request => pc[g] = "issued" BY CodeConstants DEF Delivered
    <3>3. g \in Request => kind'[g] = kind[g] BY <1>1, <3>2 DEF Lasting
    <3>4. Judged(r)' => pc'[r] # "consume" BY DEF Judged
    <3>5. QED BY <3>1, <3>2, <3>3, <3>4
  <2>6. QED BY <2>1, <2>2, <2>3, <2>4, <2>5
<1>4. ASSUME NEW r \in Request, pc[r] # "idle"
      PROVE  /\ guess'[r] = guess[r] /\ kind'[r] = kind[r] /\ op'[r] = op[r] /\ pc'[r] # "idle"
             /\ lagged'[r] = lagged[r] /\ target'[r] = target[r]
  BY <1>1, <1>4 DEF Lasting
<1>5. \A c \in Request : pc'[c] = "issued" => row'[c] # "absent"
  <2>1. SUFFICES ASSUME NEW c \in Request, pc'[c] = "issued" PROVE row'[c] # "absent" OBVIOUS
  <2>2. CASE pc[c] = "issued" BY <1>1, <2>2 DEF Reasons, Lasting
  <2>3. CASE pc[c] # "issued"
    <3>1. Continue(c) BY <1>0, <1>3, <2>1, <2>3, OwnSteps
    <3>2. Save(c)
      BY <1>0, <2>1, <3>1 DEF Continue, Void, Make, Count, Consume, Fail, Goto, TypeOK
    <3>3. QED BY <1>0, <3>2 DEF Save, TypeOK
  <2>4. QED BY <2>2, <2>3
<1>6. \A r \in Request : guess'[r] \in Request => pc'[guess'[r]] = "issued"
  <2>1. SUFFICES ASSUME NEW r \in Request, guess'[r] \in Request PROVE pc'[guess'[r]] = "issued"
    OBVIOUS
  <2>2. pc[guess'[r]] = "issued"
    <3>1. CASE Begin(r) BY <1>3, <2>1, <3>1
    <3>2. CASE pc[r] # "idle" BY <1>4, <2>1, <3>2 DEF Reasons
    <3>3. CASE ~Begin(r) /\ pc[r] = "idle"
      <4>1. ~Continue(r)
        BY <3>3 DEF Continue, Void, Make, Save, Count, Consume, Fail, InFlight
      <4>2. guess'[r] = guess[r] BY <1>0, <3>3, <4>1, OwnSteps
      <4>3. QED BY <2>1, <4>2 DEF Reasons
    <3>4. QED BY <3>1, <3>2, <3>3
  <2>3. QED BY <1>1, <2>1, <2>2 DEF Lasting
<1>7. \A r \in Request : pc'[r] = "consume" => target'[r] = guess'[r]
  <2>1. SUFFICES ASSUME NEW r \in Request, pc'[r] = "consume" PROVE target'[r] = guess'[r] OBVIOUS
  <2>2. CASE Begin(r) BY <1>3, <2>1, <2>2
  <2>3. CASE ~Begin(r)
    <3>1. ~Continue(r)
      BY <1>0, <2>1 DEF Continue, Void, Make, Save, Count, Consume, Fail, Goto, TypeOK
    <3>2. pc[r] = "consume" /\ target'[r] = target[r] /\ guess'[r] = guess[r]
      BY <1>0, <2>1, <2>3, <3>1, OwnSteps
    <3>3. QED BY <3>2 DEF Reasons
  <2>4. QED BY <2>2, <2>3
<1>8. \A d \in Request : pc'[d] \in {"idle", "void"} => voided'[d] = {}
  <2>1. SUFFICES ASSUME NEW d \in Request, pc'[d] \in {"idle", "void"} PROVE voided'[d] = {} OBVIOUS
  <2>2. CASE Begin(d) BY <1>3, <2>2
  <2>3. CASE ~Begin(d)
    <3>1. ~Continue(d)
      BY <1>0, <2>1 DEF Continue, Void, Make, Save, Count, Consume, Fail, Goto, TypeOK
    <3>2. pc[d] \in {"idle", "void"} /\ voided'[d] = voided[d]
      BY <1>0, <2>1, <2>3, <3>1, OwnSteps
    <3>3. QED BY <3>2 DEF Reasons
  <2>4. QED BY <2>2, <2>3
<1>9. \A c \in Request : row'[c] = "consumed" => Excused(c)'
  <2>1. SUFFICES ASSUME NEW c \in Request, row'[c] = "consumed" PROVE Excused(c)' OBVIOUS
  <2>2. CASE row[c] = "consumed" BY <1>2, <2>2 DEF Reasons
  <2>3. ASSUME NEW r \in Request, Void(r), row[c] # "absent", InScope(kind[r], c)
        PROVE  Excused(c)'
    <3>1. c \in voided'[r] BY <1>0, <2>3 DEF Void, TypeOK
    <3>2. kind' = kind BY <2>3 DEF Void, locals
    <3>3. InScope(kind[r], c)' BY <2>3, <3>2 DEF InScope
    <3>4. QED BY <3>1, <3>3 DEF Excused
  <2>4. ASSUME NEW r \in Request, Consume(r), target[r] = c, row[c] = "active"
        PROVE  Excused(c)'
    <3>1. target'[r] = c /\ pc'[r] \in {"accepted", "failed"}
      BY <1>0, <2>4 DEF Consume, Goto, found, TypeOK
    <3>2. QED BY <3>1 DEF Excused
  <2>5. CASE row[c] # "consumed" BY <2>1, <2>3, <2>4, <2>5, RowChanges
  <2>6. QED BY <2>2, <2>5
<1>10. \A r \in Request :
          Judged(r)' /\ ~lagged'[r] /\ guess'[r] \in Request /\ kind'[guess'[r]] = kind'[r] =>
             Reason(guess[r])'
  <2>1. SUFFICES ASSUME NEW r \in Request, Judged(r)', ~lagged'[r], NEW g \in Request,
                        guess'[r] = g, kind'[g] = kind'[r]
                 PROVE  Reason(guess[r])'
    OBVIOUS
  <2>2. Reason(g)
    <3>1. CASE Begin(r) BY <1>3, <2>1, <3>1
    <3>2. CASE ~Begin(r)
      <4>1. pc[r] # "idle"
        <5>1. SUFFICES ASSUME pc[r] = "idle" PROVE FALSE OBVIOUS
        <5>2. ~Continue(r)
          BY <5>1 DEF Continue, Void, Make, Save, Count, Consume, Fail, InFlight
        <5>3. pc'[r] = "idle" BY <1>0, <3>2, <5>1, <5>2, OwnSteps
        <5>4. QED BY <2>1, <5>3 DEF Judged
      <4>2. /\ guess[r] = g /\ kind'[r] = kind[r] /\ op[r] = "check" /\ ~lagged[r]
            /\ target'[r] = target[r]
        BY <1>4, <2>1, <4>1 DEF Judged
      <4>3. pc[g] = "issued" BY <4>2 DEF Reasons
      <4>4. kind[g] = kind[r] BY <1>1, <2>1, <4>2, <4>3 DEF Lasting
      <4>5. CASE Judged(r) BY <4>2, <4>4, <4>5 DEF Reasons
      <4>6. CASE Consume(r)
        <5>1. target[r] = g /\ row[g] # "absent" /\ row[g] \in RowState
          BY <1>0, <4>2, <4>3, <4>6 DEF Reasons, Consume, TypeOK
        <5>2. row[g] # "active" BY <1>0, <2>1, <4>6, <5>1 DEF Consume, Goto, Judged, TypeOK
        <5>3. row[g] = "consumed" BY <5>1, <5>2 DEF RowState
        <5>4. QED BY <5>3 DEF Reasons, Reason
      <4>7. CASE ~Judged(r) /\ ~Consume(r)
        <5>1. pc'[r] # pc[r] BY <2>1, <4>2, <4>7 DEF Judged
        <5>2. Continue(r) BY <1>0, <3>2, <5>1, OwnSteps
        <5>3. QED
          BY <1>0, <2>1, <4>2, <4>7, <5>2
          DEF Continue, Void, Make, Save, Count, Fail, Goto, Judged, TypeOK
      <4>8. QED BY <4>5, <4>6, <4>7
    <3>3. QED BY <3>1, <3>2
  <2>3. pc[g] = "issued" /\ row[g] # "absent"
    <3>1. CASE Begin(r) BY <1>3, <2>1, <3>1 DEF Reasons
    <3>2. CASE ~Begin(r)
      <4>1. Continue(r) \/ guess'[r] = guess[r] BY <1>0, <3>2, OwnSteps
      <4>2. Continue(r) => pc[r] # "idle"
        BY DEF Continue, Void, Make, Save, Count, Consume, Fail, InFlight
      <4>3. guess[r] = g BY <1>4, <2>1, <4>1, <4>2
      <4>4. QED BY <4>3 DEF Reasons
    <3>3. QED BY <3>1, <3>2
  <2>4. Reason(g)' BY <1>2, <2>2, <2>3
  <2>5. QED BY <2>1, <2>4
<1>11. QED BY <1>5, <1>6, <1>7, <1>8, <1>9, <1>10 DEF Reasons

LEMMA MadeBeforeStep == TypeOK /\ MadeBefore /\ [Next]_vars => MadeBefore'
<1> SUFFICES ASSUME TypeOK, MadeBefore, [Next]_vars PROVE MadeBefore' OBVIOUS
<1>1. now \in Nat /\ madeAt \in [Request -> Nat] BY DEF TypeOK
<1>2. CASE Tick BY <1>1, <1>2 DEF Tick, table, MadeBefore
<1>3. ASSUME NEW r \in Request, Make(r) PROVE MadeBefore' BY <1>1, <1>3 DEF Make, MadeBefore
<1>4. CASE UNCHANGED <<now, madeAt>> BY <1>4 DEF MadeBefore
<1>5. ASSUME NEW r \in Request, Begin(r) PROVE UNCHANGED <<now, madeAt>>
  BY <1>5 DEF Begin, IssueOtp, IssueByWorker, Check, CheckLink, table
<1>6. ASSUME NEW r \in Request, Void(r) \/ Save(r) \/ Count(r) \/ Consume(r) \/ Fail(r)
      PROVE  UNCHANGED <<now, madeAt>>
  BY <1>6 DEF Void, Save, Count, Consume, Fail, table
<1>7. CASE Replicate \/ UNCHANGED vars BY <1>4, <1>7 DEF Replicate, vars, table
<1>8. QED BY <1>2, <1>3, <1>4, <1>5, <1>6, <1>7 DEF Next, Continue

LEMMA InitReasons == Init => Reasons /\ MadeBefore
<1> SUFFICES ASSUME Init PROVE Reasons /\ MadeBefore OBVIOUS
<1>1. \A r \in Request : /\ pc[r] = "idle" /\ guess[r] = None /\ voided[r] = {}
                         /\ row[r] = "absent" /\ madeAt[r] = 0
  BY DEF Init
<1>2. now = 0 /\ None \notin Request BY CodeConstants DEF Init
<1>3. QED BY <1>1, <1>2 DEF Reasons, Judged, MadeBefore

\* The right code is refused only when it was used or voided, is not the latest of
\* its kind, has expired or run out of attempts, or when the replica was behind.
THEOREM RightCodesWork == Spec => []RightCodeWorks
<1>1. CodeInv /\ CodeInv' /\ Reasons /\ MadeBefore /\ [Next]_vars => Reasons' /\ MadeBefore'
  BY ReasonsStep, MadeBeforeStep DEF CodeInv
<1>2. Reasons => RightCodeWorks
  <2> SUFFICES ASSUME Reasons, NEW r \in Request, Refused(r), ~lagged[r],
                      guess[r] \in Request, kind[guess[r]] = kind[r]
               PROVE  Reason(guess[r])
    BY DEF RightCodeWorks, Reason, Excused
  <2>1. Judged(r) BY DEF Refused, Judged
  <2>2. QED BY <2>1 DEF Reasons
<1>3. QED BY InitReasons, <1>1, <1>2, InvariantHolds, PTL DEF Spec
=============================================================================
