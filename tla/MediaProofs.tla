----------------------------- MODULE MediaProofs ------------------------------
(***************************************************************************)
(* Proofs about Media: what a row, an object and a reader can be without,  *)
(* for any number of media, removals, readers and failures.                *)
(*                                                                         *)
(* The invariants of Media are not inductive as they stand.  What has to   *)
(* be added says when a medium can be in anybody's view: a medium whose    *)
(* AddMedia has not inserted the row is in nobody's, so that neither a     *)
(* late insert nor the cleanup of a failed one can undo what a remover or  *)
(* a reader relies on.                                                     *)
(***************************************************************************)
EXTENDS Media, TLAPS

LEMMA InitInvariant == Init => MediaInv
BY MediaConstants
   DEF Init, MediaInv, TypeOK, Unseen, Seen, SavedWhole, SeenExplained, Explained, RemovalsDone,
       ReadersDone, OrphansExplained, Troubles

USE DEF Seen, Explained

\* Put makes an object nobody has seen.
LEMMA PutStep == ASSUME MediaInv, NEW m \in Medium, Put(m) PROVE MediaInv'
<1> USE DEF MediaInv, Put, Well, Goes, Troubles
<1>1. TypeOK' BY DEF TypeOK
<1>2. Unseen' BY DEF TypeOK, Unseen
<1>3. SavedWhole' BY DEF TypeOK, SavedWhole
<1>4. SeenExplained' BY DEF TypeOK, Unseen, SeenExplained
<1>5. RemovalsDone' BY DEF TypeOK, Unseen, RemovalsDone
<1>6. ReadersDone' BY DEF TypeOK, ReadersDone
<1>7. OrphansExplained' BY DEF TypeOK, OrphansExplained
<1>8. QED BY <1>1, <1>2, <1>3, <1>4, <1>5, <1>6, <1>7

LEMMA PutFailsStep == ASSUME MediaInv, NEW m \in Medium, PutFails(m) PROVE MediaInv'
<1> USE DEF MediaInv, PutFails, StoreRefused, Well, Goes, Troubles
<1>1. TypeOK' BY DEF TypeOK
<1>2. Unseen' BY DEF TypeOK, Unseen
<1>3. SavedWhole' BY DEF TypeOK, SavedWhole
<1>4. SeenExplained' BY DEF TypeOK, Unseen, SeenExplained
<1>5. RemovalsDone' BY DEF TypeOK, Unseen, RemovalsDone
<1>6. ReadersDone' BY DEF TypeOK, ReadersDone
<1>7. OrphansExplained'
  <2>1. ASSUME NEW n \in Medium, object'[n] # "none", n \notin rows', add'[n] = "failed"
        PROVE  trouble'[n] \cap {"put", "crash", "cleanup"} # {}
    <3>1. CASE n # m BY <2>1, <3>1 DEF TypeOK, OrphansExplained
    <3>2. CASE n = m
      <4>1. object[n] = "none" BY <3>2 DEF TypeOK
      <4>2. Goes(m, "put") BY <2>1, <3>2, <4>1
      <4>3. "put" \in trouble'[m] BY <4>2 DEF TypeOK
      <4>4. QED BY <3>2, <4>3
    <3>3. QED BY <3>1, <3>2
  <2>2. QED BY <2>1 DEF OrphansExplained
<1>8. QED BY <1>1, <1>2, <1>3, <1>4, <1>5, <1>6, <1>7

\* The row appears when the object is there.
LEMMA SaveStep == ASSUME MediaInv, NEW m \in Medium, Save(m) PROVE MediaInv'
<1> USE DEF MediaInv, Save, Well, Goes, Troubles
<1>1. TypeOK' BY DEF TypeOK
<1>2. Unseen' BY DEF TypeOK, Unseen
<1>3. SavedWhole' BY DEF TypeOK, SavedWhole
<1>4. SeenExplained' BY DEF TypeOK, SavedWhole, SeenExplained
<1>5. RemovalsDone' BY DEF TypeOK, Unseen, RemovalsDone
<1>6. ReadersDone' BY DEF TypeOK, ReadersDone
<1>7. OrphansExplained' BY DEF TypeOK, OrphansExplained
<1>8. QED BY <1>1, <1>2, <1>3, <1>4, <1>5, <1>6, <1>7

LEMMA SaveFailsStep == ASSUME MediaInv, NEW m \in Medium, SaveFails(m) PROVE MediaInv'
<1> USE DEF MediaInv, SaveFails, Well
<1>1. TypeOK' BY DEF TypeOK
<1>2. Unseen' BY DEF TypeOK, Unseen
<1>3. SavedWhole' BY DEF TypeOK, SavedWhole
<1>4. SeenExplained' BY DEF TypeOK, SeenExplained
<1>5. RemovalsDone' /\ ReadersDone' BY DEF RemovalsDone, ReadersDone
<1>6. OrphansExplained' BY DEF TypeOK, OrphansExplained
<1>7. QED BY <1>1, <1>2, <1>3, <1>4, <1>5, <1>6

\* What the cleanup deletes nobody has seen, or the answer to the insert was lost.
LEMMA CleanupStep == ASSUME MediaInv, NEW m \in Medium, Cleanup(m) PROVE MediaInv'
<1> USE DEF MediaInv, Cleanup, StoreRefused, Well, Goes, Troubles
<1>1. TypeOK' BY DEF TypeOK
<1>2. Unseen' BY DEF TypeOK, Unseen
<1>3. SavedWhole' BY DEF TypeOK, SavedWhole
<1>4. SeenExplained' BY DEF TypeOK, Unseen, SeenExplained
<1>5. RemovalsDone' BY DEF TypeOK, RemovalsDone
<1>6. ReadersDone' BY DEF TypeOK, ReadersDone
<1>7. OrphansExplained' BY DEF TypeOK, OrphansExplained
<1>8. QED BY <1>1, <1>2, <1>3, <1>4, <1>5, <1>6, <1>7

LEMMA CancelStep == ASSUME MediaInv, NEW m \in Medium, Cancel(m) PROVE MediaInv'
BY DEF MediaInv, Cancel, TypeOK, Unseen, SavedWhole, SeenExplained, RemovalsDone, ReadersDone,
       OrphansExplained

LEMMA CrashStep == ASSUME MediaInv, NEW m \in Medium, Crash(m) PROVE MediaInv'
<1> USE DEF MediaInv, Crash, Goes, Troubles
<1>1. TypeOK' BY DEF TypeOK
<1>2. Unseen' BY DEF TypeOK, Unseen
<1>3. SavedWhole' BY DEF TypeOK, SavedWhole
<1>4. SeenExplained' BY DEF TypeOK, SeenExplained
<1>5. RemovalsDone' BY DEF TypeOK, RemovalsDone
<1>6. ReadersDone' BY DEF TypeOK, ReadersDone
<1>7. OrphansExplained' BY DEF TypeOK, OrphansExplained
<1>8. QED BY <1>1, <1>2, <1>3, <1>4, <1>5, <1>6, <1>7

\* From here on the medium counts as being removed.
LEMMA FindStep == ASSUME MediaInv, NEW r \in Remover, FindToRemove(r) PROVE MediaInv'
<1> USE DEF MediaInv, FindToRemove
<1>0. PICK m \in rows :
        /\ remove' = [remove EXCEPT ![r] = [pc |-> "object", of |-> m]]
        /\ removing' = removing \cup {m}
        /\ UNCHANGED <<driver, rows, object, add, cancelled, read, trouble, faults>>
  OBVIOUS
<1>1. TypeOK' BY <1>0 DEF TypeOK
<1>2. Unseen' BY <1>0 DEF TypeOK, Unseen
<1>3. SavedWhole' /\ OrphansExplained' BY <1>0 DEF SavedWhole, OrphansExplained
<1>4. SeenExplained' BY <1>0 DEF TypeOK, SeenExplained
<1>5. RemovalsDone' BY <1>0 DEF TypeOK, RemovalsDone
<1>6. ReadersDone' BY <1>0 DEF ReadersDone
<1>7. QED BY <1>1, <1>2, <1>3, <1>4, <1>5, <1>6

\* Removers only touch media that count as being removed.
LEMMA RemoveStep ==
    ASSUME MediaInv, NEW r \in Remover, DeleteObject(r) \/ DeleteRow(r) \/ RemovalFails(r)
    PROVE  MediaInv'
<1> USE DEF MediaInv, DeleteObject, DeleteRow, RemovalFails, Goes, Troubles
<1> DEFINE m == remove[r].of
<1>0. m \in removing /\ m \in Medium /\ removing' = removing /\ add' = add /\ read' = read
  BY DEF TypeOK, RemovalsDone
<1>1. TypeOK'
  <2>1. CASE DeleteObject(r) BY <1>0, <2>1 DEF TypeOK
  <2>2. CASE DeleteRow(r) BY <1>0, <2>2 DEF TypeOK
  <2>3. CASE RemovalFails(r) BY <1>0, <2>3 DEF TypeOK
  <2>4. QED BY <2>1, <2>2, <2>3
<1>2. rows' \subseteq rows /\ rows \ rows' \subseteq {m}
      /\ \A n \in Medium : object'[n] = IF n = m THEN object'[m] ELSE object[n]
  BY <1>0 DEF TypeOK
<1>3. object'[m] \in {object[m], "none"} /\ (m \in rows \ rows' => object'[m] = "none")
  BY <1>0 DEF TypeOK, RemovalsDone
<1>4. \A n \in Medium : trouble[n] \subseteq trouble'[n] /\ trouble'[n] \subseteq trouble[n] \cup {"removal"}
  BY <1>0 DEF TypeOK
<1>5. Unseen' BY <1>0, <1>2, <1>4 DEF Unseen
<1>6. SavedWhole' BY <1>0, <1>2, <1>4 DEF Unseen, SavedWhole
<1>7. SeenExplained' BY <1>0, <1>2, <1>4 DEF SeenExplained
<1>8. RemovalsDone' BY <1>0, <1>2, <1>3 DEF TypeOK, RemovalsDone
<1>9. ReadersDone' BY <1>0, <1>4, driver' = driver DEF ReadersDone
<1>10. OrphansExplained' BY <1>0, <1>2, <1>3, <1>4 DEF OrphansExplained
<1>11. QED BY <1>1, <1>5, <1>6, <1>7, <1>8, <1>9, <1>10

LEMMA GetMediaStep == ASSUME MediaInv, NEW d \in Reader, GetMedia(d) PROVE MediaInv'
<1> USE DEF MediaInv, GetMedia
<1>0. PICK m \in rows :
        /\ read' = [read EXCEPT ![d] = [pc |-> "open", of |-> m]]
        /\ UNCHANGED <<driver, rows, object, add, cancelled, remove, removing, trouble, faults>>
  OBVIOUS
<1>1. TypeOK' BY <1>0 DEF TypeOK
<1>2. Seen' \subseteq Seen BY <1>0 DEF TypeOK
<1>3. Unseen' BY <1>0, <1>2 DEF Unseen
<1>4. SavedWhole' /\ OrphansExplained' BY <1>0 DEF SavedWhole, OrphansExplained
<1>5. SeenExplained' BY <1>0, <1>2 DEF SeenExplained
<1>6. RemovalsDone' BY <1>0 DEF RemovalsDone
<1>7. ReadersDone' BY <1>0 DEF TypeOK, ReadersDone
<1>8. QED BY <1>1, <1>3, <1>4, <1>5, <1>6, <1>7

\* What the reader misses is explained by what is known of the medium.
LEMMA GetStep == ASSUME MediaInv, NEW d \in Reader, Get(d) PROVE MediaInv'
<1> USE DEF MediaInv, Get
<1>0. /\ read[d].pc = "open" /\ read[d].of \in Medium
      /\ UNCHANGED <<driver, rows, object, add, cancelled, remove, removing, trouble, faults>>
  BY DEF ReadersDone
<1>1. PICK got \in {object[read[d].of]} \cup
                   (IF driver = "s3" /\ object[read[d].of] = "whole" THEN {"part"} ELSE {}) :
        read' = [read EXCEPT ![d].pc = got]
  OBVIOUS
<1>2. TypeOK' BY <1>0, <1>1 DEF TypeOK
<1>3. Seen' = Seen /\ \A e \in Reader : read'[e].of = read[e].of BY <1>0, <1>1 DEF TypeOK
<1>4. Unseen' BY <1>0, <1>3 DEF Unseen
<1>5. SavedWhole' /\ OrphansExplained' BY <1>0 DEF SavedWhole, OrphansExplained
<1>6. SeenExplained' BY <1>0, <1>3 DEF SeenExplained
<1>7. RemovalsDone' BY <1>0 DEF RemovalsDone
<1>8. Explained(read[d].of) BY <1>0 DEF SeenExplained
<1>9. ReadersDone' BY <1>0, <1>1, <1>3, <1>8 DEF TypeOK, ReadersDone
<1>10. QED BY <1>2, <1>4, <1>5, <1>6, <1>7, <1>9

LEMMA NextKeepsInvariant == MediaInv /\ [Next]_vars => MediaInv'
<1> SUFFICES ASSUME MediaInv, [Next]_vars PROVE MediaInv' OBVIOUS
<1>1. CASE Next
  BY <1>1, PutStep, PutFailsStep, SaveStep, SaveFailsStep, CleanupStep, CancelStep, CrashStep,
     FindStep, RemoveStep, GetMediaStep, GetStep
  DEF Next
<1>2. CASE UNCHANGED vars
  BY <1>2 DEF vars, MediaInv, TypeOK, Unseen, SavedWhole, SeenExplained, RemovalsDone,
              ReadersDone, OrphansExplained
<1>3. QED BY <1>1, <1>2

\* The inductive invariant holds in every reachable state.
THEOREM InvariantHolds == Spec => []MediaInv
<1>1. QED BY InitInvariant, NextKeepsInvariant, PTL DEF Spec

\* Every variable keeps its type.
THEOREM TypeCorrect == Spec => []TypeOK
<1>1. MediaInv => TypeOK BY DEF MediaInv
<1>2. QED BY <1>1, InvariantHolds, PTL

\* AddMedia leaves an object without a row only by the failures named.
THEOREM OrphansAreExplained == Spec => []OrphansExplained
<1>1. MediaInv => OrphansExplained BY DEF MediaInv
<1>2. QED BY <1>1, InvariantHolds, PTL

\* A row leads to the whole object, with the exceptions named.
THEOREM RowsHaveObjects == Spec => []RowHasObject
<1>1. MediaInv => RowHasObject BY DEF MediaInv, TypeOK, SeenExplained, RowHasObject
<1>2. QED BY <1>1, InvariantHolds, PTL

\* A removal that has succeeded is final.
THEOREM RemovalIsFinal == Spec => []RemovedStaysRemoved
<1>1. MediaInv => RemovedStaysRemoved BY DEF MediaInv, RemovalsDone, RemovedStaysRemoved
<1>2. QED BY <1>1, InvariantHolds, PTL

\* A reader is never without the object for any other reason.
THEOREM MissesAreExplained == Spec => []MissesExplained
<1>1. MediaInv => MissesExplained BY DEF MediaInv, ReadersDone, MissesExplained
<1>2. QED BY <1>1, InvariantHolds, PTL

\* Removers delete the object before the row.
THEOREM RowsOutliveObjects == Spec => RowOutlivesObject
<1>1. ASSUME MediaInv, [Next]_vars
      PROVE  [\A m \in rows : m \notin rows' => object[m] = "none" /\ object'[m] = "none"]_vars
  <2>1. ASSUME NEW m \in rows, m \notin rows' PROVE object[m] = "none" /\ object'[m] = "none"
    <3>1. PICK r \in Remover : DeleteRow(r) \/ RemovalFails(r)
      BY <1>1, <2>1 DEF Next, vars, Put, PutFails, Save, SaveFails, Cleanup, Cancel, Crash,
                        FindToRemove, DeleteObject, GetMedia, Get
    <3>2. remove[r].pc = "row" /\ m = remove[r].of /\ object' = object
      BY <2>1, <3>1 DEF DeleteRow, RemovalFails
    <3>3. QED BY <1>1, <3>2 DEF MediaInv, RemovalsDone
  <2>2. QED BY <2>1
<1>2. QED BY <1>1, InvariantHolds, PTL DEF Spec, RowOutlivesObject
=============================================================================
