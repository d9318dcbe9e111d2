-------------------------------- MODULE Media --------------------------------
(***************************************************************************)
(* The media library: a row of metadata in the database and an object in   *)
(* storage, on the local filesystem or in S3, with nothing that joins the  *)
(* two writes.  Each request of AddMedia makes one medium with a fresh     *)
(* object key, so that a medium stands for both.                           *)
(*                                                                         *)
(* The local driver ignores the context of a request, leaves behind what   *)
(* it has copied when a Put fails, and does not look at the error of       *)
(* closing the file.  The S3 driver and the database do nothing once the   *)
(* context is cancelled; an object in S3 is whole or not there.            *)
(***************************************************************************)
EXTENDS Naturals, FiniteSets

CONSTANTS
    Medium,     \* one per AddMedia request
    Remover,    \* RemoveMedia requests
    Reader,     \* requests that look a medium up and open its object
    Drivers,    \* storage drivers considered
    None,
    MaxFaults   \* bound: failures per behaviour

ASSUME MediaConstants ==
    /\ Drivers \subseteq {"local", "s3"}
    /\ None \notin Medium
    /\ MaxFaults \in Nat

VARIABLES
    driver,
    rows,      \* media with a row
    object,    \* object[m]: "none", "part" or "whole"
    add,       \* add[m]: where AddMedia is
    cancelled, \* media whose AddMedia has lost its client
    remove,    \* remove[r]: where RemoveMedia is, and with which medium
    read,      \* read[d]: the same for readers
    \* History, for the properties only.
    removing,  \* media that some RemoveMedia has found
    trouble,   \* trouble[m]: what has gone wrong with m
    faults

vars == <<driver, rows, object, add, cancelled, remove, read, removing, trouble, faults>>

Troubles == {"put", "short", "crash", "save", "cleanup", "removal"}

Init ==
    /\ driver \in Drivers
    /\ rows = {}
    /\ object = [m \in Medium |-> "none"]
    /\ add = [m \in Medium |-> "new"]
    /\ cancelled = {}
    /\ remove = [r \in Remover |-> [pc |-> "new", of |-> None]]
    /\ read = [d \in Reader |-> [pc |-> "new", of |-> None]]
    /\ removing = {}
    /\ trouble = [m \in Medium |-> {}]
    /\ faults = 0

\* Something goes wrong with m.
Goes(m, wrong) ==
    /\ faults < MaxFaults
    /\ faults' = faults + 1
    /\ trouble' = [trouble EXCEPT ![m] = @ \cup {wrong}]

Well == UNCHANGED <<trouble, faults>>

\* What the cancelled context of m's request stops.
Refused(m) == m \in cancelled
StoreRefused(m) == m \in cancelled /\ driver = "s3"

(***************************************************************************)
(* AddMedia: Put the object, insert the row; when the insert fails, delete *)
(* the object and ignore the outcome.                                      *)
(***************************************************************************)
Put_SaveAnyway(m) ==
    /\ add[m] = "new"
    /\ ~StoreRefused(m)
    /\ object' \in {[object EXCEPT ![m] = o] : o \in {"part", "whole"}}
    /\ add' = [add EXCEPT ![m] = "save"]
    /\ Well
    /\ UNCHANGED <<driver, rows, cancelled, remove, read, removing>>

Put(m) ==
    /\ add[m] = "new"
    /\ ~StoreRefused(m)
    /\ add' = [add EXCEPT ![m] = "save"]
    /\ \/ object' = [object EXCEPT ![m] = "whole"] /\ Well
       \/ /\ driver = "local"         \* the last bytes are lost at Close
          /\ object' = [object EXCEPT ![m] = "part"]
          /\ Goes(m, "short")
    /\ UNCHANGED <<driver, rows, cancelled, remove, read, removing>>

\* The request ends here: nothing deletes what Put has left.
PutFails(m) ==
    /\ add[m] = "new"
    /\ add' = [add EXCEPT ![m] = "failed"]
    /\ \/ StoreRefused(m) /\ UNCHANGED object /\ Well
       \/ /\ \E left \in {"none", IF driver = "local" THEN "part" ELSE "whole"} :
                object' = [object EXCEPT ![m] = left]
          /\ Goes(m, "put")
    /\ UNCHANGED <<driver, rows, cancelled, remove, read, removing>>

Save(m) ==
    /\ add[m] = "save"
    /\ ~Refused(m)
    /\ rows' = rows \cup {m}
    /\ \/ add' = [add EXCEPT ![m] = "added"] /\ Well
       \/ add' = [add EXCEPT ![m] = "cleanup"] /\ Goes(m, "save")  \* the answer is lost
    /\ UNCHANGED <<driver, object, cancelled, remove, read, removing>>

SaveFails_NoCleanup(m) ==
    /\ add[m] = "save"
    /\ add' = [add EXCEPT ![m] = "failed"]
    /\ \/ Refused(m) /\ Well
       \/ faults < MaxFaults /\ faults' = faults + 1 /\ UNCHANGED trouble
    /\ UNCHANGED <<driver, rows, object, cancelled, remove, read, removing>>

SaveFails(m) ==
    /\ add[m] = "save"
    /\ add' = [add EXCEPT ![m] = "cleanup"]
    /\ \/ Refused(m) /\ Well
       \/ faults < MaxFaults /\ faults' = faults + 1 /\ UNCHANGED trouble
    /\ UNCHANGED <<driver, rows, object, cancelled, remove, read, removing>>

Cleanup(m) ==
    /\ add[m] = "cleanup"
    /\ add' = [add EXCEPT ![m] = "failed"]
    /\ \/ /\ ~StoreRefused(m)
          /\ object' = [object EXCEPT ![m] = "none"]
          /\ Well
       \/ /\ StoreRefused(m)
          /\ trouble' = [trouble EXCEPT ![m] = @ \cup {"cleanup"}]
          /\ UNCHANGED <<object, faults>>
       \/ Goes(m, "cleanup") /\ UNCHANGED object
    /\ UNCHANGED <<driver, rows, cancelled, remove, read, removing>>

\* The client of the request goes away.
Cancel(m) ==
    /\ add[m] \in {"new", "save"}
    /\ m \notin cancelled
    /\ cancelled' = cancelled \cup {m}
    /\ UNCHANGED <<driver, rows, object, add, remove, read, removing, trouble, faults>>

\* The process dies in the request.
Crash(m) ==
    /\ add[m] \in {"save", "cleanup"}
    /\ add' = [add EXCEPT ![m] = "failed"]
    /\ Goes(m, "crash")
    /\ UNCHANGED <<driver, rows, object, cancelled, remove, read, removing>>

(***************************************************************************)
(* RemoveMedia: find the row, delete the object, delete the row.  An id    *)
(* that is not found ends the request.                                     *)
(***************************************************************************)
FindToRemove(r) ==
    \E m \in rows :
       /\ remove[r].pc = "new"
       /\ remove' = [remove EXCEPT ![r] = [pc |-> "object", of |-> m]]
       /\ removing' = removing \cup {m}
       /\ UNCHANGED <<driver, rows, object, add, cancelled, read, trouble, faults>>

DeleteRow_First(r) ==
    LET m == remove[r].of IN
    /\ remove[r].pc = "object"
    /\ rows' = rows \ {m}
    /\ remove' = [remove EXCEPT ![r].pc = "row"]
    /\ UNCHANGED <<driver, object, add, cancelled, read, removing, trouble, faults>>

\* An object that is not there is no error.
DeleteObject(r) ==
    LET m == remove[r].of IN
    /\ remove[r].pc = "object"
    /\ object' = [object EXCEPT ![m] = "none"]
    /\ remove' = [remove EXCEPT ![r].pc = "row"]
    /\ UNCHANGED <<driver, rows, add, cancelled, read, removing, trouble, faults>>

\* Nor is a row that is not there.
DeleteRow(r) ==
    LET m == remove[r].of IN
    /\ remove[r].pc = "row"
    /\ rows' = rows \ {m}
    /\ remove' = [remove EXCEPT ![r].pc = "removed"]
    /\ UNCHANGED <<driver, object, add, cancelled, read, removing, trouble, faults>>

\* Either step fails, with or without effect, or the process dies after it.
RemovalFails(r) ==
    LET m == remove[r].of IN
    /\ remove[r].pc \in {"object", "row"}
    /\ remove' = [remove EXCEPT ![r].pc = "failed"]
    /\ \/ UNCHANGED <<rows, object>>
       \/ remove[r].pc = "object" /\ object' = [object EXCEPT ![m] = "none"] /\ UNCHANGED rows
       \/ remove[r].pc = "row" /\ rows' = rows \ {m} /\ UNCHANGED object
    /\ Goes(m, "removal")
    /\ UNCHANGED <<driver, add, cancelled, read, removing>>

(***************************************************************************)
(* Readers: GetMedia, then URL or Get.                                     *)
(***************************************************************************)
GetMedia(d) ==
    \E m \in rows :
       /\ read[d].pc = "new"
       /\ read' = [read EXCEPT ![d] = [pc |-> "open", of |-> m]]
       /\ UNCHANGED <<driver, rows, object, add, cancelled, remove, removing, trouble, faults>>

\* S3.Get cancels its context before the body is read, so that the caller may
\* be left with part of it.
Get(d) ==
    /\ read[d].pc = "open"
    /\ \E got \in {object[read[d].of]} \cup
                  (IF driver = "s3" /\ object[read[d].of] = "whole" THEN {"part"} ELSE {}) :
          read' = [read EXCEPT ![d].pc = got]
    /\ UNCHANGED <<driver, rows, object, add, cancelled, remove, removing, trouble, faults>>

Next ==
    \/ \E m \in Medium : Put(m) \/ PutFails(m) \/ Save(m) \/ SaveFails(m) \/ Cleanup(m)
                         \/ Cancel(m) \/ Crash(m)
    \/ \E r \in Remover : FindToRemove(r) \/ DeleteObject(r) \/ DeleteRow(r) \/ RemovalFails(r)
    \/ \E d \in Reader : GetMedia(d) \/ Get(d)

Spec == Init /\ [][Next]_vars

-----------------------------------------------------------------------------
(* Properties. *)

\* Every variable keeps its type, and only AddMedia makes objects and rows.
TypeOK ==
    /\ driver \in Drivers
    /\ rows \subseteq Medium
    /\ object \in [Medium -> {"none", "part", "whole"}]
    /\ add \in [Medium -> {"new", "save", "added", "cleanup", "failed"}]
    /\ cancelled \subseteq Medium
    /\ remove \in [Remover -> [pc : {"new", "object", "row", "removed", "failed"},
                               of : Medium \cup {None}]]
    /\ read \in [Reader -> [pc : {"new", "open", "none", "part", "whole"},
                            of : Medium \cup {None}]]
    /\ removing \subseteq Medium
    /\ trouble \in [Medium -> SUBSET Troubles]
    /\ faults \in Nat
    /\ \A m \in Medium : add[m] = "new" => m \notin rows /\ object[m] = "none"
    /\ \A r \in Remover : remove[r].pc \in {"object", "row", "removed"} => remove[r].of \in removing
    /\ \A d \in Reader : read[d].pc = "open" => read[d].of \in Medium

\* "So no orphan is left behind" (AddMedia), as far as it goes: an object
\* without a row whose AddMedia has ended is owed to a Put that failed, a
\* process that died or a cleanup that failed, and to nothing else, whatever
\* removers did.
OrphansExplained ==
    \A m \in Medium :
       object[m] # "none" /\ m \notin rows /\ add[m] = "failed" =>
          trouble[m] \cap {"put", "crash", "cleanup"} # {}

\* A row leads to the whole object unless somebody has begun to remove the
\* medium, the answer to its insert was lost and the object deleted after it,
\* or the local driver has missed the error of Close.
RowHasObject ==
    \A m \in rows :
       object[m] = "whole" \/ m \in removing \/ trouble[m] \cap {"save", "short"} # {}

\* A removal that is told to have succeeded leaves neither row nor object,
\* however it overlaps with another and with AddMedia, and nothing brings the
\* one or the other back.
RemovedStaysRemoved ==
    \A r \in Remover : remove[r].pc = "removed" =>
       remove[r].of \notin rows /\ object[remove[r].of] = "none"

\* The row goes only after the object, so that a removal that fails halfway can
\* be repeated and no object is lost sight of.
RowOutlivesObject ==
    [][\A m \in rows : m \notin rows' => object[m] = "none" /\ object'[m] = "none"]_vars

\* A reader who has found the row and is then without the object, or with a
\* part of it, has met a removal or one of the troubles of RowHasObject, or
\* reads from S3.
MissesExplained ==
    \A d \in Reader :
       read[d].pc \in {"none", "part"} =>
          LET m == read[d].of IN
          \/ m \in removing
          \/ trouble[m] \cap {"save", "short"} # {}
          \/ driver = "s3" /\ read[d].pc = "part"

\* Media that have, or have had, a row somebody could find.
Seen == rows \cup removing \cup {read[d].of : d \in Reader}

\* A medium whose insert is still to come is in nobody's view.
Unseen == \A m \in Medium :
            add[m] \in {"new", "save"} \/ (add[m] = "cleanup" /\ "save" \notin trouble[m]) =>
               m \notin Seen

\* A row is inserted for a whole object.
SavedWhole == \A m \in Medium : add[m] = "save" => object[m] = "whole" \/ "short" \in trouble[m]

\* What excuses a row without its whole object.
Explained(m) == object[m] = "whole" \/ m \in removing \/ trouble[m] \cap {"save", "short"} # {}

SeenExplained == \A m \in Medium \cap Seen : Explained(m)

\* How far a removal has got is what the store and the table show.
RemovalsDone == \A r \in Remover :
                  /\ remove[r].pc # "new" => remove[r].of \in removing
                  /\ remove[r].pc \in {"row", "removed"} => object[remove[r].of] = "none"
                  /\ remove[r].pc = "removed" => remove[r].of \notin rows

\* What a reader has got is excused.
ReadersDone == \A d \in Reader :
                 /\ read[d].pc # "new" => read[d].of \in Medium
                 /\ read[d].pc \in {"none", "part"} =>
                       \/ read[d].of \in removing
                       \/ trouble[read[d].of] \cap {"save", "short"} # {}
                       \/ driver = "s3" /\ read[d].pc = "part"

\* The inductive invariant: besides the types and the orphans, what must hold of
\* a medium from the moment somebody may have seen its row, so that no late
\* insert or cleanup undoes what a remover or a reader relies on.  It implies
\* all the invariants of this module.
MediaInv ==
    /\ TypeOK
    /\ Unseen
    /\ SavedWhole
    /\ SeenExplained
    /\ RemovalsDone
    /\ ReadersDone
    /\ OrphansExplained
=============================================================================
