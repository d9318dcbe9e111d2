--------------------------- MODULE PlatformProofs ----------------------------
(***************************************************************************)
(* Proofs about the drivers and processes of internal/platform: the SMTP   *)
(* pool, and the pipeline of scheduler, broker and subscribers.  The two   *)
(* share no variable and no theorem.                                       *)
(***************************************************************************)
EXTENDS Pipeline, SmtpPool, FiniteSetTheorems, WellFoundedInduction, TLAPS

(***************************************************************************)
(* The SMTP pool: ownership of connections, the count of them and single   *)
(* delivery, for any number of senders, connections and failures.          *)
(***************************************************************************)
LEMMA FiniteParts == ASSUME PoolTypeOK PROVE IsFiniteSet(open) /\ IsFiniteSet(Dialing)
BY SmtpConstants, FS_Subset DEF PoolTypeOK, Dialing

\* The count follows the connection that is made, closed or given up.
LEMMA Counting ==
    ASSUME NEW S, IsFiniteSet(S), NEW x
    PROVE  /\ Cardinality(S) \in Nat
           /\ x \notin S => Cardinality(S \cup {x}) = Cardinality(S) + 1
           /\ x \in S => Cardinality(S \ {x}) = Cardinality(S) - 1
BY FS_AddElement, FS_RemoveElement, FS_CardinalityType

LEMMA PoolInitInvariant == PoolInit => PoolInv
<1> SUFFICES ASSUME PoolInit PROVE PoolInv OBVIOUS
<1>1. PoolTypeOK
  <2>1. NewSend \in SendRecord BY DEF NewSend, SendRecord
  <2>2. SweeperAsleep \in SweepRecord BY DEF SweeperAsleep, SweepRecord
  <2>3. closed \in BOOLEAN BY Zenon DEF PoolInit
  <2>4. sender \in [Sender -> SendRecord] BY <2>1 DEF PoolInit
  <2>5. QED BY <2>2, <2>3, <2>4 DEF PoolInit, PoolTypeOK
<1>2. OneOwner BY DEF PoolInit, OneOwner, Held, NewSend, SweeperAsleep
<1>3. SweeperIdle BY DEF PoolInit, SweeperIdle, SweeperAsleep
<1>4. CountIsExact
  <2>1. open = {} /\ Dialing = {} /\ createdConns = 0 BY DEF PoolInit, Dialing, NewSend
  <2>2. QED BY <2>1, FS_EmptySet DEF CountIsExact
<1>5. Taken BY DEF PoolInit, Taken, NewSend
<1>6. QED BY <1>1, <1>2, <1>3, <1>4, <1>5 DEF PoolInv

\* A step of s replaces its record and leaves the others alone.
LEMMA Replaced ==
    ASSUME PoolTypeOK, NEW s \in Sender, NEW r \in SendRecord, sender' = [sender EXCEPT ![s] = r]
    PROVE  /\ sender' \in [Sender -> SendRecord]
           /\ sender'[s] = r
           /\ \A t \in Sender \ {s} : sender'[t] = sender[t]
BY DEF PoolTypeOK

LEMMA Records ==
    ASSUME NEW r \in SendRecord,
           NEW p \in {"new", "try", "create", "dial", "wait", "send", "return"}
    PROVE  /\ [r EXCEPT !.pc = p] \in SendRecord
           /\ \A c \in Conn : [r EXCEPT !.pc = p, !.conn = c] \in SendRecord
           /\ \A l \in BOOLEAN : [r EXCEPT !.pc = p, !.late = l] \in SendRecord
           /\ \A e \in {"none", "5xx", "421", "address", "network"}, y \in BOOLEAN :
                 [r EXCEPT !.pc = p, !.error = e, !.retry = y] \in SendRecord
<1>1. [r EXCEPT !.pc = p] \in SendRecord BY DEF SendRecord
<1>2. ASSUME NEW c \in Conn PROVE [r EXCEPT !.pc = p, !.conn = c] \in SendRecord
  BY DEF SendRecord
<1>3. ASSUME NEW l \in BOOLEAN PROVE [r EXCEPT !.pc = p, !.late = l] \in SendRecord
  BY DEF SendRecord
<1>4. ASSUME NEW e \in {"none", "5xx", "421", "address", "network"}, NEW y \in BOOLEAN
      PROVE  [r EXCEPT !.pc = p, !.error = e, !.retry = y] \in SendRecord
  BY DEF SendRecord
<1>5. QED BY <1>1, <1>2, <1>3, <1>4

\* What After makes of the sender.
LEMMA AfterSend ==
    ASSUME PoolTypeOK, NEW s \in Sender, NEW error, NEW retry \in BOOLEAN, After(s, error, retry)
    PROVE  \E r \in SendRecord :
              /\ sender' = [sender EXCEPT ![s] = r]
              /\ r.conn = None
              /\ r.pc \in {"sent", "try", "failed"}
              /\ (r.pc = "sent") => (error = "none")
              /\ (r.pc = "try") => retry
<1> DEFINE tries == sender[s].tries + 1
           pc == IF error = "none" THEN "sent" ELSE IF retry /\ tries < MaxRetries THEN "try" ELSE "failed"
           r == [NewSend EXCEPT !.tries = tries, !.pc = pc]
<1>1. sender' = [sender EXCEPT ![s] = r] BY DEF After
<1>2. tries \in Nat BY DEF PoolTypeOK, SendRecord
<1>3. pc \in {"sent", "try", "failed"} OBVIOUS
<1>4. (pc = "sent" => error = "none") /\ (pc = "try" => retry) OBVIOUS
<1>5. NewSend \in SendRecord /\ NewSend.conn = None
  <2>1. NewSend \in SendRecord BY DEF NewSend, SendRecord
  <2>2. NewSend.conn = None BY DEF NewSend
  <2>3. QED BY <2>1, <2>2
<1> HIDE DEF tries, pc
<1>6. r \in SendRecord BY <1>2, <1>3, <1>5 DEF SendRecord
<1>7. r.pc = pc /\ r.conn = None BY <1>5 DEF SendRecord
<1> HIDE DEF r
<1>8. QED BY <1>1, <1>3, <1>4, <1>6, <1>7

\* Steps of a sender that holds no connection and is not dialling.
LEMMA EmptyHandedStep ==
    ASSUME PoolInv, NEW s \in Sender, Send(s) \/ Refused(s) \/ Room(s) \/ NoRoom(s) \/ WaitEnds(s)
    PROVE  PoolInv'
<1> USE DEF PoolInv
<1>0. /\ sender[s].pc \in {"new", "try", "wait"}
      /\ poolFaults' \in Nat
      /\ UNCHANGED <<conns, createdConns, closed, open, broken, sweeper, accepted, late>>
  <2> USE DEF At, PoolTypeOK, PoolFault
  <2>1. CASE Send(s) BY <2>1 DEF Send
  <2>2. CASE Refused(s)
    <3>1. CASE closed BY <2>2, <3>1 DEF Refused
    <3>2. CASE ~closed BY <2>2, <3>2 DEF Refused
    <3>3. QED BY <3>1, <3>2
  <2>3. CASE Room(s) BY <2>3 DEF Room
  <2>4. CASE NoRoom(s) BY <2>4 DEF NoRoom
  <2>5. CASE WaitEnds(s) BY <2>5 DEF WaitEnds
  <2>6. QED BY <2>1, <2>2, <2>3, <2>4, <2>5
<1>1. PICK r \in SendRecord :
        /\ sender' = [sender EXCEPT ![s] = r]
        /\ r.pc \in {"try", "create", "wait", "failed"} /\ r.conn = None
  <2> USE DEF At
  <2>1. sender[s] \in SendRecord /\ sender[s].conn = None BY <1>0 DEF PoolTypeOK, SendRecord, OneOwner
  <2>2. CASE \E p \in {"try", "create", "wait"} : sender' = [sender EXCEPT ![s].pc = p]
    <3>1. PICK p \in {"try", "create", "wait"} : sender' = [sender EXCEPT ![s].pc = p] BY <2>2
    <3>2. [sender[s] EXCEPT !.pc = p] \in SendRecord BY <2>1, Records
    <3>3. [sender[s] EXCEPT !.pc = p].pc = p /\ [sender[s] EXCEPT !.pc = p].conn = None
      BY <2>1 DEF SendRecord
    <3>4. QED BY <3>1, <3>2, <3>3
  <2>3. CASE Refused(s)
    <3>1. \E retry \in BOOLEAN : After(s, "closed", retry) BY <2>3 DEF Refused
    <3>2. PICK retry \in BOOLEAN : After(s, "closed", retry) BY <3>1
    <3>3. QED BY <3>2, AfterSend
  <2>4. CASE WaitEnds(s)
    <3>1. \E retry \in BOOLEAN : After(s, "timeout", retry) BY <2>4 DEF WaitEnds
    <3>2. PICK retry \in BOOLEAN : After(s, "timeout", retry) BY <3>1
    <3>3. QED BY <3>2, AfterSend
  <2>5. QED BY <2>2, <2>3, <2>4 DEF Send, Room, NoRoom
<1>2. PoolTypeOK' BY <1>0, <1>1, Replaced DEF PoolTypeOK
<1>3. \A t \in Sender : sender'[t].conn = sender[t].conn
  BY <1>0, <1>1, Replaced DEF OneOwner
<1>4. OneOwner' BY <1>0, <1>1, <1>3, Replaced DEF OneOwner, Held
<1>5. SweeperIdle' BY <1>0 DEF SweeperIdle
<1>6. Dialing' = Dialing BY <1>0, <1>1, Replaced DEF Dialing
<1>7. CountIsExact' BY <1>0, <1>6 DEF CountIsExact
<1>8. Taken' BY <1>0, <1>1, Replaced DEF Taken
<1>9. QED BY <1>2, <1>4, <1>5, <1>7, <1>8

\* The counter goes up when the dial begins.
LEMMA CountStep == ASSUME PoolInv, NEW s \in Sender, Count(s) PROVE PoolInv'
<1> USE DEF PoolInv, Count, At
<1>1. PoolTypeOK'
  <2>1. [sender[s] EXCEPT !.pc = "dial", !.late = closed \/ SawZero] \in SendRecord
    <3>1. (closed \/ SawZero) \in BOOLEAN /\ sender[s] \in SendRecord BY Zenon DEF PoolTypeOK
    <3>2. QED BY <3>1, Records
  <2>2. sender' \in [Sender -> SendRecord] BY <2>1, Replaced
  <2>3. QED BY <2>2 DEF PoolTypeOK
<1>2. \A t \in Sender : sender'[t].conn = sender[t].conn BY DEF PoolTypeOK, SendRecord
<1>3. OneOwner' BY <1>2 DEF PoolTypeOK, OneOwner, Held
<1>4. SweeperIdle' BY DEF SweeperIdle
<1>5. s \notin Dialing /\ Dialing' = Dialing \cup {s} BY DEF PoolTypeOK, SendRecord, Dialing
<1>6. Cardinality(Dialing') = Cardinality(Dialing) + 1 BY <1>5, FiniteParts, Counting
<1>7. Cardinality(open) \in Nat /\ Cardinality(Dialing) \in Nat BY FiniteParts, Counting
<1>8. CountIsExact' BY <1>6, <1>7 DEF PoolTypeOK, CountIsExact
<1>9. Taken' BY DEF PoolTypeOK, SendRecord, Taken
<1>10. QED BY <1>1, <1>3, <1>4, <1>8, <1>9

\* The connection is new, and so nobody else's.
LEMMA NewConnStep == ASSUME PoolInv, NEW s \in Sender, NewConn(s) PROVE PoolInv'
<1> USE DEF PoolInv, At
<1>0. PICK c \in Conn \ open :
        /\ sender[s].pc = "dial"
        /\ open' = open \cup {c}
        /\ late' = IF sender[s].late THEN late \cup {c} ELSE late
        /\ sender' = [sender EXCEPT ![s] = [@ EXCEPT !.pc = "send", !.conn = c]]
        /\ UNCHANGED <<conns, createdConns, closed, broken, sweeper, accepted, poolFaults>>
  BY DEF NewConn
<1>1. PoolTypeOK'
  <2>1. [sender[s] EXCEPT !.pc = "send", !.conn = c] \in SendRecord BY Records DEF PoolTypeOK
  <2>2. sender' \in [Sender -> SendRecord] BY <1>0, <2>1, Replaced
  <2>3. QED BY <1>0, <2>2 DEF PoolTypeOK
<1>2. Held' = Held \cup {c}
  <2>1. sender[s].conn = None /\ c # None BY <1>0, SmtpConstants DEF OneOwner
  <2>2. \A t \in Sender : sender'[t].conn = IF t = s THEN c ELSE sender[t].conn BY <1>0 DEF PoolTypeOK, SendRecord
  <2>3. QED BY <2>1, <2>2 DEF Held
<1>3. c \notin conns \cup Held \cup sweeper.active BY <1>0 DEF OneOwner
<1>4. OneOwner'
  <2>1. \A t \in Sender : sender[t].conn # c BY <1>0, <1>3, SmtpConstants DEF Held
  <2>2. \A t \in Sender : sender'[t].pc \in {"send", "return"} <=> sender'[t].conn # None
    BY <1>0, SmtpConstants DEF PoolTypeOK, SendRecord, OneOwner
  <2>3. \A t, u \in Sender :
           sender'[t].conn = sender'[u].conn /\ t # u => sender'[t].conn = None
    BY <1>0, <2>1 DEF PoolTypeOK, SendRecord, OneOwner
  <2>4. QED BY <1>0, <1>2, <1>3, <2>2, <2>3 DEF OneOwner
<1>5. SweeperIdle' BY <1>0 DEF SweeperIdle
<1>6. s \in Dialing /\ Dialing' = Dialing \ {s} BY <1>0 DEF PoolTypeOK, SendRecord, Dialing
<1>7. /\ Cardinality(Dialing') = Cardinality(Dialing) - 1
      /\ Cardinality(open') = Cardinality(open) + 1
      /\ Cardinality(Dialing) \in Nat /\ Cardinality(open) \in Nat
  BY <1>0, <1>6, FiniteParts, Counting
<1>8. CountIsExact' BY <1>0, <1>7 DEF PoolTypeOK, CountIsExact
<1>9. Taken' BY <1>0 DEF PoolTypeOK, SendRecord, Taken
<1>10. QED BY <1>1, <1>4, <1>5, <1>8, <1>9

LEMMA DialFailsStep == ASSUME PoolInv, NEW s \in Sender, DialFails(s) PROVE PoolInv'
<1> USE DEF PoolInv, DialFails, At, PoolFault
<1>0. PICK retry \in BOOLEAN : After(s, "dial", retry) OBVIOUS
<1>1. PICK r \in SendRecord :
        /\ sender' = [sender EXCEPT ![s] = r]
        /\ r.pc \in {"try", "failed"} /\ r.conn = None
  BY <1>0, AfterSend
<1>2. PoolTypeOK' BY <1>1, Replaced DEF PoolTypeOK
<1>3. \A t \in Sender : sender'[t].conn = sender[t].conn BY <1>1, Replaced DEF OneOwner
<1>4. OneOwner' BY <1>1, <1>3, Replaced DEF OneOwner, Held
<1>5. SweeperIdle' BY DEF SweeperIdle
<1>6. s \in Dialing /\ Dialing' = Dialing \ {s} BY <1>1, Replaced DEF Dialing
<1>7. /\ Cardinality(Dialing') = Cardinality(Dialing) - 1
      /\ Cardinality(Dialing) \in Nat /\ Cardinality(open) \in Nat
  BY <1>6, FiniteParts, Counting
<1>8. CountIsExact' BY <1>7 DEF PoolTypeOK, CountIsExact
<1>9. Taken' BY <1>1, Replaced DEF Taken
<1>10. QED BY <1>2, <1>4, <1>5, <1>8, <1>9

\* A free connection changes hands.
LEMMA TakeStep == ASSUME PoolInv, NEW s \in Sender, Take(s) PROVE PoolInv'
<1> USE DEF PoolInv, At
<1>0. PICK c \in conns :
        /\ sender[s].pc = "wait"
        /\ conns' = conns \ {c}
        /\ sender' = [sender EXCEPT ![s] = [@ EXCEPT !.pc = "send", !.conn = c]]
        /\ UNCHANGED <<createdConns, closed, open, broken, sweeper, accepted, late, poolFaults>>
  BY DEF Take
<1>1. PoolTypeOK'
  <2>1. [sender[s] EXCEPT !.pc = "send", !.conn = c] \in SendRecord BY <1>0, Records DEF PoolTypeOK
  <2>2. sender' \in [Sender -> SendRecord] BY <1>0, <2>1, Replaced
  <2>3. QED BY <1>0, <2>2 DEF PoolTypeOK
<1>2. c # None /\ sender[s].conn = None BY <1>0, SmtpConstants DEF PoolTypeOK, SendRecord, OneOwner
<1>3. Held' = Held \cup {c}
  <2>1. \A t \in Sender : sender'[t].conn = IF t = s THEN c ELSE sender[t].conn BY <1>0 DEF PoolTypeOK, SendRecord
  <2>2. QED BY <1>2, <2>1 DEF Held
<1>4. OneOwner'
  <2>1. \A t \in Sender : sender[t].conn # c BY <1>0, <1>2 DEF OneOwner, Held
  <2>2. \A t \in Sender : sender'[t].pc \in {"send", "return"} <=> sender'[t].conn # None
    BY <1>0, <1>2 DEF PoolTypeOK, SendRecord, OneOwner
  <2>3. \A t, u \in Sender :
           sender'[t].conn = sender'[u].conn /\ t # u => sender'[t].conn = None
    BY <1>0, <2>1 DEF PoolTypeOK, SendRecord, OneOwner
  <2>4. QED BY <1>0, <1>3, <2>2, <2>3 DEF OneOwner
<1>5. SweeperIdle' BY <1>0 DEF SweeperIdle
<1>6. Dialing' = Dialing BY <1>0 DEF PoolTypeOK, SendRecord, Dialing
<1>7. CountIsExact' BY <1>0, <1>6 DEF CountIsExact
<1>8. Taken' BY <1>0 DEF PoolTypeOK, SendRecord, Taken
<1>9. QED BY <1>1, <1>4, <1>5, <1>7, <1>8

\* The exchange with the server: only an error that rules delivery out is retried.
LEMMA ExchangeStep ==
    ASSUME PoolInv, NEW s \in Sender,
           Delivered(s) \/ Rejected(s) \/ BadRecipient(s) \/ SendFails(s) \/ AnswerLost(s)
    PROVE  PoolInv'
<1> USE DEF PoolInv
<1>0. /\ sender[s].pc = "send"
      /\ UNCHANGED <<conns, createdConns, closed, open, broken, sweeper, late>>
  BY DEF Delivered, Rejected, BadRecipient, SendFails, AnswerLost, At
<1>a. poolFaults' = poolFaults \/ poolFaults' = poolFaults + 1
  <2>1. CASE SendFails(s)
    <3>1. CASE sender[s].conn \in broken BY <2>1, <3>1 DEF SendFails
    <3>2. CASE sender[s].conn \notin broken BY <2>1, <3>2 DEF SendFails, PoolFault
    <3>3. QED BY <3>1, <3>2
  <2>2. CASE ~SendFails(s) BY <2>2 DEF Delivered, Rejected, BadRecipient, AnswerLost, PoolFault
  <2>3. QED BY <2>1, <2>2
<1>b. accepted' = accepted \/ accepted' = [accepted EXCEPT ![s] = @ + 1]
  BY DEF Delivered, Rejected, BadRecipient, SendFails, AnswerLost, Accept
<1>c. PICK error \in {"none", "5xx", "421", "address", "network"}, retry \in BOOLEAN :
        /\ Outcome(s, error, retry)
        /\ retry => (accepted' = accepted)
        /\ (error = "none") => Accept(s)
  <2>1. CASE Delivered(s) BY <2>1, Zenon DEF Delivered
  <2>2. CASE Rejected(s)
    <3>1. PICK code \in {"5xx", "421"} : Outcome(s, code, FALSE) BY <2>2 DEF Rejected
    <3>2. accepted' = accepted BY <2>2 DEF Rejected
    <3>3. code # "none" /\ code \in {"none", "5xx", "421", "address", "network"} OBVIOUS
    <3>4. QED BY <3>1, <3>2, <3>3, Zenon
  <2>3. CASE BadRecipient(s) BY <2>3, Zenon DEF BadRecipient
  <2>4. CASE SendFails(s) BY <2>4, Zenon DEF SendFails
  <2>5. CASE AnswerLost(s) BY <2>5, Zenon DEF AnswerLost
  <2>6. QED BY <2>1, <2>2, <2>3, <2>4, <2>5
<1>d. sender' = [sender EXCEPT ![s] = [@ EXCEPT !.pc = "return", !.error = error, !.retry = retry]]
  BY <1>c DEF Outcome
<1>1. PoolTypeOK'
  <2>1. [sender[s] EXCEPT !.pc = "return", !.error = error, !.retry = retry] \in SendRecord
    BY Records DEF PoolTypeOK
  <2>2. sender' \in [Sender -> SendRecord] BY <1>d, <2>1, Replaced
  <2>3. accepted' \in [Sender -> Nat] BY <1>b DEF PoolTypeOK
  <2>4. poolFaults' \in Nat BY <1>a DEF PoolTypeOK
  <2>5. QED BY <1>0, <2>2, <2>3, <2>4 DEF PoolTypeOK
<1>2. \A t \in Sender : sender'[t].conn = sender[t].conn BY <1>d DEF PoolTypeOK, SendRecord
<1>3. OneOwner' BY <1>0, <1>d, <1>2 DEF PoolTypeOK, SendRecord, OneOwner, Held
<1>4. SweeperIdle' BY <1>0 DEF SweeperIdle
<1>5. Dialing' = Dialing BY <1>0, <1>d DEF PoolTypeOK, SendRecord, Dialing
<1>6. CountIsExact' BY <1>0, <1>5 DEF CountIsExact
<1>7. Taken'
  <2>1. \A t \in Sender \ {s} : sender'[t] = sender[t] /\ accepted'[t] = accepted[t]
    BY <1>b, <1>d DEF PoolTypeOK
  <2>2. sender'[s].pc = "return" /\ sender'[s].error = error BY <1>d DEF PoolTypeOK, SendRecord
  <2>3. sender'[s].retry = retry BY <1>d DEF PoolTypeOK, SendRecord
  <2>4. accepted[s] = 0 BY <1>0 DEF Taken
  <2>5. accepted'[s] <= 1 BY <1>b, <2>4 DEF PoolTypeOK
  <2>6. error = "none" => accepted'[s] = 1 BY <1>c, <2>4 DEF PoolTypeOK, Accept
  <2>7. retry => accepted'[s] = 0 BY <1>c, <2>4
  <2>8. QED BY <2>1, <2>2, <2>3, <2>5, <2>6, <2>7 DEF Taken
<1>8. QED BY <1>1, <1>3, <1>4, <1>6, <1>7

\* The sender lets its connection go, to the pool or for good.
LEMMA ReturnStep ==
    ASSUME PoolInv, NEW s \in Sender, ReturnBroken(s) \/ Return(s) \/ ReturnRefused(s)
    PROVE  PoolInv'
<1> USE DEF PoolInv
<1> DEFINE c == sender[s].conn
<1>0. /\ sender[s].pc = "return"
      /\ After(s, sender[s].error, sender[s].retry)
      /\ UNCHANGED <<closed, sweeper, accepted, poolFaults>>
      /\ \/ Discard(c) /\ UNCHANGED conns
         \/ conns' = conns \cup {c} /\ UNCHANGED <<createdConns, open, broken, late>>
  BY DEF ReturnBroken, Return, ReturnRefused, At
<1>1. c \in Conn /\ c # None /\ c \in Held
      /\ sender[s].retry \in BOOLEAN
  <2>1. sender[s] \in SendRecord BY DEF PoolTypeOK
  <2>2. c \in Conn \cup {None} /\ sender[s].retry \in BOOLEAN BY <2>1 DEF SendRecord
  <2>3. QED BY <1>0, <2>2, SmtpConstants DEF OneOwner, Held
<1>2. PICK r \in SendRecord :
        /\ sender' = [sender EXCEPT ![s] = r]
        /\ r.conn = None /\ r.pc \in {"sent", "try", "failed"}
        /\ (r.pc = "sent") => (sender[s].error = "none")
        /\ (r.pc = "try") => sender[s].retry
  BY <1>0, <1>1, AfterSend
<1>3. PoolTypeOK'
  <2>1. sender' \in [Sender -> SendRecord] BY <1>2, Replaced
  <2>2. QED BY <1>0, <1>1, <2>1 DEF PoolTypeOK, Discard
<1>4. Held' = Held \ {c}
  <2>1. \A t \in Sender : sender'[t].conn = IF t = s THEN None ELSE sender[t].conn BY <1>2, Replaced
  <2>2. \A t \in Sender \ {s} : sender[t].conn # c BY <1>1 DEF OneOwner
  <2>3. QED BY <2>1, <2>2 DEF Held
<1>5. OneOwner'
  <2>1. \A t \in Sender : sender'[t].pc \in {"send", "return"} <=> sender'[t].conn # None
    BY <1>2, Replaced DEF OneOwner
  <2>2. \A t, u \in Sender :
           sender'[t].conn = sender'[u].conn /\ t # u => sender'[t].conn = None
    BY <1>2, Replaced DEF OneOwner
  <2>3. c \notin conns \cup sweeper.active BY <1>1 DEF OneOwner
  <2>4. open' = conns' \cup Held' \cup sweeper'.active
    BY <1>0, <1>1, <1>4, <2>3 DEF OneOwner, Discard
  <2>5. /\ conns' \cap Held' = {} /\ conns' \cap sweeper'.active = {}
        /\ Held' \cap sweeper'.active = {}
    BY <1>0, <1>4, <2>3 DEF OneOwner
  <2>6. QED BY <2>1, <2>2, <2>4, <2>5 DEF OneOwner
<1>6. SweeperIdle' BY <1>0 DEF SweeperIdle
<1>7. Dialing' = Dialing BY <1>0, <1>2, Replaced DEF Dialing
<1>8. c \in open BY <1>1 DEF OneOwner
<1>9. /\ Cardinality(open \ {c}) = Cardinality(open) - 1
      /\ Cardinality(Dialing) \in Nat /\ Cardinality(open) \in Nat
  BY <1>8, FiniteParts, Counting
<1>10. CountIsExact'
  <2>1. CASE Discard(c) BY <1>7, <1>9, <2>1 DEF PoolTypeOK, CountIsExact, Discard
  <2>2. CASE UNCHANGED <<createdConns, open>> BY <1>7, <2>2 DEF CountIsExact
  <2>3. QED BY <1>0, <2>1, <2>2
<1>11. Taken' BY <1>0, <1>2, Replaced DEF Taken
<1>12. QED BY <1>3, <1>5, <1>6, <1>10, <1>11

\* The sweeper takes free connections, closes them or puts them back.
LEMMA SweepStep == ASSUME PoolInv, Sweep \/ SweepBye PROVE PoolInv'
<1> USE DEF PoolInv
<1>0. /\ UNCHANGED <<closed, sender, accepted, poolFaults>>
      /\ sweeper' \in SweepRecord
      /\ SweeperIdle'
      /\ \/ UNCHANGED <<conns, open, createdConns, broken, late>> /\ sweeper'.active = sweeper.active
         \/ \E c \in conns :
               /\ conns' = conns \ {c} /\ UNCHANGED <<open, createdConns, broken, late>>
               /\ sweeper'.active = sweeper.active \cup {c}
         \/ \E c \in conns :
               conns' = conns \ {c} /\ Discard(c) /\ sweeper'.active = sweeper.active
         \/ \E c \in sweeper.active :
               /\ conns' = conns \cup {c} /\ UNCHANGED <<open, createdConns, broken, late>>
               /\ sweeper'.active = sweeper.active \ {c}
         \/ \E c \in sweeper.active :
               conns' = conns /\ Discard(c) /\ sweeper'.active = sweeper.active \ {c}
  <2> USE DEF PoolTypeOK, SweepRecord, SweeperIdle
  <2>1. CASE PassLooks
    <3>1. Cardinality(conns) \in Nat BY SmtpConstants, FS_Subset, FS_CardinalityType
    <3>2. CASE createdConns = 0 BY <2>1, <3>1, <3>2 DEF PassLooks, SweeperAsleep
    <3>3. CASE createdConns # 0 BY <2>1, <3>1, <3>3 DEF PassLooks, SweeperAsleep
    <3>4. QED BY <3>2, <3>3
  <2>2. CASE PassBegins
    <3>1. CASE closed BY <2>2, <3>1 DEF PassBegins, SweeperAsleep
    <3>2. CASE ~closed BY <2>2, <3>2 DEF PassBegins, SweeperAsleep
    <3>3. QED BY <3>1, <3>2
  <2>3. CASE SweepKeep
    <3>1. PICK c \in conns :
            /\ conns' = conns \ {c}
            /\ sweeper' = [sweeper EXCEPT !.left = @ - 1, !.active = @ \cup {c}]
            /\ sweeper.pc = "sweep" /\ sweeper.left > 0
            /\ UNCHANGED <<createdConns, closed, open, broken, sender, accepted, late, poolFaults>>
      BY <2>3 DEF SweepKeep
    <3>2. sweeper.left - 1 \in Nat /\ sweeper.active \cup {c} \in SUBSET Conn BY <3>1
    <3>3. \A n \in Nat, A \in SUBSET Conn :
             [sweeper EXCEPT !.left = n, !.active = A] \in SweepRecord
      OBVIOUS
    <3>4. sweeper' = [sweeper EXCEPT !.left = sweeper.left - 1, !.active = sweeper.active \cup {c}]
      BY <3>1
    <3>5. sweeper' \in SweepRecord BY <3>2, <3>3, <3>4
    <3>6. sweeper'.active = sweeper.active \cup {c} BY <3>4
    <3>7. sweeper'.pc = "sweep" BY <3>1
    <3>8. QED BY <3>1, <3>5, <3>6, <3>7
  <2>4. CASE SweepClose
    <3>1. PICK c \in conns : conns' = conns \ {c} /\ Discard(c) BY <2>4 DEF SweepClose
    <3>2. PICK p \in {"bye", "sweep"} : sweeper' = [sweeper EXCEPT !.left = @ - 1, !.pc = p]
      BY <2>4 DEF SweepClose
    <3>3. sweeper.left - 1 \in Nat BY <2>4 DEF SweepClose
    <3>4. sweeper' \in SweepRecord BY <3>2, <3>3
    <3>5. sweeper'.pc = p /\ sweeper'.active = sweeper.active BY <3>2
    <3>6. UNCHANGED <<closed, sender, accepted, poolFaults>> BY <2>4 DEF SweepClose
    <3>7. QED BY <3>1, <3>4, <3>5, <3>6
  <2>5. CASE SweepNone BY <2>5 DEF SweepNone
  <2>6. CASE PutBack BY <2>6 DEF PutBack
  <2>7. CASE PassEnds BY <2>7 DEF PassEnds, SweeperAsleep
  <2>8. CASE SweepBye BY <2>8 DEF SweepBye
  <2>9. QED BY <2>1, <2>2, <2>3, <2>4, <2>5, <2>6, <2>7, <2>8 DEF Sweep
<1>1. PoolTypeOK'
  <2>1. /\ conns' \subseteq Conn /\ open' \subseteq Conn /\ broken' \subseteq Conn
        /\ late' \subseteq Conn /\ createdConns' \in Int
    BY <1>0 DEF PoolTypeOK, SweepRecord, Discard
  <2>2. UNCHANGED <<closed, sender, accepted, poolFaults>> /\ sweeper' \in SweepRecord BY <1>0
  <2>3. QED BY <2>1, <2>2 DEF PoolTypeOK
<1>2. Held' = Held /\ Dialing' = Dialing BY <1>0 DEF Held, Dialing
<1>3. OneOwner' BY <1>0, <1>2 DEF OneOwner, Discard
<1>4. \A c \in conns \cup sweeper.active : Cardinality(open \ {c}) = Cardinality(open) - 1
  BY FiniteParts, Counting DEF OneOwner
<1>5. Cardinality(open) \in Nat /\ Cardinality(Dialing) \in Nat BY FiniteParts, Counting
<1>6. CountIsExact'
  <2>1. CASE UNCHANGED <<createdConns, open>> BY <1>2, <2>1 DEF CountIsExact
  <2>2. ASSUME NEW c \in conns \cup sweeper.active, Discard(c) PROVE CountIsExact'
    <3>1. open' = open \ {c} /\ createdConns' = createdConns - 1 BY <2>2 DEF Discard
    <3>2. Cardinality(open') = Cardinality(open) - 1 BY <1>4, <3>1
    <3>3. QED BY <1>2, <1>5, <3>1, <3>2 DEF PoolTypeOK, CountIsExact
  <2>3. QED BY <1>0, <2>1, <2>2
<1>7. Taken' BY <1>0 DEF Taken
<1>8. QED BY <1>0, <1>1, <1>3, <1>6, <1>7

LEMMA NextKeepsPoolInv == PoolInv /\ [PoolNext]_poolVars => PoolInv'
<1> SUFFICES ASSUME PoolInv, [PoolNext]_poolVars PROVE PoolInv' OBVIOUS
<1>1. ASSUME NEW s \in Sender, Send(s) \/ Step(s) PROVE PoolInv'
  BY <1>1, EmptyHandedStep, CountStep, NewConnStep, DialFailsStep, TakeStep, ExchangeStep, ReturnStep
  DEF Step
<1>2. CASE Sweep \/ SweepBye BY <1>2, SweepStep
<1>3. CASE Close \/ UNCHANGED poolVars \/ \E c \in Conn : Drop(c)
  <2>1. /\ UNCHANGED <<conns, createdConns, open, sender, sweeper, accepted, late>>
        /\ closed' \in BOOLEAN /\ broken' \subseteq Conn /\ poolFaults' \in Nat
    <3> USE DEF PoolInv, PoolTypeOK
    <3>1. CASE Close BY <3>1 DEF Close
    <3>2. CASE UNCHANGED poolVars BY <3>2 DEF poolVars
    <3>3. ASSUME NEW c \in Conn, Drop(c)
          PROVE  /\ UNCHANGED <<conns, createdConns, closed, open, sender, sweeper, accepted, late>>
                 /\ broken' = broken \cup {c} /\ poolFaults' = poolFaults + 1
      BY <3>3 DEF Drop, PoolFault
    <3>4. QED BY <1>3, <3>1, <3>2, <3>3
  <2>2. QED BY <2>1 DEF PoolInv, PoolTypeOK, OneOwner, Held, SweeperIdle, CountIsExact, Dialing, Taken
<1>4. QED BY <1>1, <1>2, <1>3 DEF PoolNext

\* The inductive invariant holds in every reachable state.
THEOREM PoolInvariantHolds == PoolSpec => []PoolInv
<1>1. QED BY PoolInitInvariant, NextKeepsPoolInv, PTL DEF PoolSpec

\* Every variable keeps its type.
THEOREM PoolTypeCorrect == PoolSpec => []PoolTypeOK
<1>1. PoolInv => PoolTypeOK BY DEF PoolInv
<1>2. QED BY <1>1, PoolInvariantHolds, PTL

\* No connection is in two hands, and none is lost sight of.
THEOREM ConnectionsHaveOneOwner == PoolSpec => []OneOwner
<1>1. PoolInv => OneOwner BY DEF PoolInv
<1>2. QED BY <1>1, PoolInvariantHolds, PTL

\* createdConns counts the connections there are and the dials in progress.
THEOREM CountStaysExact == PoolSpec => []CountIsExact
<1>1. PoolInv => CountIsExact BY DEF PoolInv
<1>2. QED BY <1>1, PoolInvariantHolds, PTL

\* No message is handed over twice, and success means once.
THEOREM MailIsSentOnce == PoolSpec => []AtMostOnce
<1>1. PoolInv => AtMostOnce BY DEF PoolInv, Taken, AtMostOnce
<1>2. QED BY <1>1, PoolInvariantHolds, PTL

-----------------------------------------------------------------------------
(* What Close leaves behind. *)

\* Once the sweeper has seen the counter at zero, whoever is dialling counted after
\* that, like whoever holds a connection.  It quits only if the pool is closed.
Drained ==
    /\ sweeper.pc = "quit" => closed
    /\ SawZero \/ sweeper.pc = "quit" =>
         /\ open \subseteq late
         /\ \A s \in Sender : sender[s].pc = "dial" => sender[s].late

\* A step after which nothing new is open or dialled that would have been counted
\* before Close.
LEMMA DrainFrame ==
    ASSUME Drained,
           closed => closed', sweeper'.pc = "quit" => sweeper.pc = "quit", SawZero' => SawZero,
           open' \ late' \subseteq open \ late,
           \A s \in Sender : sender'[s].pc = "dial" =>
              sender'[s].late \/ (sender[s].pc = "dial" /\ sender'[s] = sender[s])
    PROVE  Drained'
BY DEF Drained, SawZero

\* The sender whose attempt is over does not dial.
LEMMA AfterDials ==
    ASSUME PoolTypeOK, NEW s \in Sender, NEW error, NEW retry \in BOOLEAN, After(s, error, retry)
    PROVE  \A t \in Sender : sender'[t].pc = "dial" => sender'[t] = sender[t]
<1>1. PICK r \in SendRecord : sender' = [sender EXCEPT ![s] = r] /\ r.pc \in {"sent", "try", "failed"}
  BY AfterSend
<1>2. QED BY <1>1, Replaced

LEMMA SenderDrains ==
    ASSUME PoolInv, Drained, NEW s \in Sender, Send(s) \/ Step(s)
    PROVE  Drained'
<1>0. PoolTypeOK BY DEF PoolInv
<1>1. sender \in [Sender -> SendRecord] /\ sender[s] \in SendRecord BY <1>0 DEF PoolTypeOK
<1>2. CASE NewConn(s)
  <2>1. PICK c \in Conn \ open :
          /\ sender[s].pc = "dial" /\ open' = open \cup {c}
          /\ late' = IF sender[s].late THEN late \cup {c} ELSE late
          /\ sender' = [sender EXCEPT ![s] = [@ EXCEPT !.pc = "send", !.conn = c]]
          /\ UNCHANGED <<closed, sweeper>>
    BY <1>2 DEF NewConn, At
  <2>2. \A t \in Sender : sender'[t].pc = "dial" => sender'[t] = sender[t]
    BY <1>1, <2>1 DEF SendRecord
  <2>3. QED BY <2>1, <2>2 DEF Drained, SawZero
<1>3. CASE Count(s)
  <2>1. /\ sender' = [sender EXCEPT ![s] = [@ EXCEPT !.pc = "dial", !.late = closed \/ SawZero]]
        /\ UNCHANGED <<closed, open, sweeper, late>>
    BY <1>3 DEF Count
  <2>2. \A t \in Sender : sender'[t].pc = "dial" =>
           (t = s /\ sender'[t].late = (closed \/ SawZero)) \/ sender'[t] = sender[t]
    BY <1>1, <2>1 DEF SendRecord
  <2>3. SawZero' = SawZero BY <2>1 DEF SawZero
  <2>4. CASE SawZero \/ sweeper.pc = "quit"
    <3>1. closed \/ SawZero BY <2>4 DEF Drained
    <3>2. \A t \in Sender : sender'[t].pc = "dial" => sender'[t].late
      BY <2>2, <2>4, <3>1 DEF Drained
    <3>3. QED BY <2>1, <2>3, <3>2 DEF Drained
  <2>5. CASE ~(SawZero \/ sweeper.pc = "quit") BY <2>1, <2>3, <2>5 DEF Drained
  <2>6. QED BY <2>4, <2>5
<1>4. CASE Send(s) \/ Room(s) \/ NoRoom(s)
  <2>1. PICK p \in {"try", "create", "wait"} : sender' = [sender EXCEPT ![s].pc = p]
    BY <1>4 DEF Send, Room, NoRoom
  <2>2. \A t \in Sender : sender'[t].pc = "dial" => sender'[t] = sender[t]
    BY <1>1, <2>1 DEF SendRecord
  <2>3. UNCHANGED <<closed, open, sweeper, late>> BY <1>4 DEF Send, Room, NoRoom
  <2>4. QED BY <2>2, <2>3 DEF Drained, SawZero
<1>5. CASE Take(s)
  <2>1. PICK c \in conns : sender' = [sender EXCEPT ![s] = [@ EXCEPT !.pc = "send", !.conn = c]]
    BY <1>5 DEF Take
  <2>2. \A t \in Sender : sender'[t].pc = "dial" => sender'[t] = sender[t]
    BY <1>1, <2>1 DEF SendRecord
  <2>3. UNCHANGED <<closed, open, sweeper, late>> BY <1>5 DEF Take
  <2>4. QED BY <2>2, <2>3 DEF Drained, SawZero
<1>6. CASE Delivered(s) \/ Rejected(s) \/ BadRecipient(s) \/ SendFails(s) \/ AnswerLost(s)
  <2>1. \E error, retry : Outcome(s, error, retry)
    BY <1>6 DEF Delivered, Rejected, BadRecipient, SendFails, AnswerLost
  <2>2. PICK error, retry : Outcome(s, error, retry) BY <2>1
  <2>3. \A t \in Sender : sender'[t].pc = "dial" => sender'[t] = sender[t]
    BY <1>1, <2>2 DEF SendRecord, Outcome
  <2>4. UNCHANGED <<closed, open, sweeper, late>>
    BY <1>6 DEF Delivered, Rejected, BadRecipient, SendFails, AnswerLost
  <2>5. QED BY <2>3, <2>4 DEF Drained, SawZero
<1>7. CASE Refused(s) \/ DialFails(s) \/ WaitEnds(s) \/ ReturnBroken(s) \/ Return(s) \/ ReturnRefused(s)
  <2>1. \E error, retry : retry \in BOOLEAN /\ After(s, error, retry)
    <3>1. sender[s].retry \in BOOLEAN BY <1>1 DEF SendRecord
    <3>2. QED
      BY <1>7, <3>1 DEF Refused, DialFails, WaitEnds, ReturnBroken, Return, ReturnRefused
  <2>2. PICK error, retry : retry \in BOOLEAN /\ After(s, error, retry) BY <2>1
  <2>3. \A t \in Sender : sender'[t].pc = "dial" => sender'[t] = sender[t]
    BY <1>0, <2>2, AfterDials
  <2>4. /\ UNCHANGED <<closed, sweeper>>
        /\ UNCHANGED <<open, late>> \/ \E c : open' = open \ {c} /\ late' = late \ {c}
    BY <1>7 DEF Refused, DialFails, WaitEnds, ReturnBroken, Return, ReturnRefused, Discard
  <2>5. open' \ late' \subseteq open \ late BY <2>4
  <2>6. SawZero' => SawZero BY <2>4 DEF SawZero
  <2>7. QED BY <2>3, <2>4, <2>5, <2>6, DrainFrame
<1>8. QED BY <1>2, <1>3, <1>4, <1>5, <1>6, <1>7 DEF Step

\* The sweeper that sees the counter at zero: nothing is open and nobody dials.
LEMMA SweepDrains ==
    ASSUME PoolInv, Drained, Sweep \/ SweepBye
    PROVE  Drained'
<1>0. PoolTypeOK /\ CountIsExact BY DEF PoolInv
<1>1. UNCHANGED <<closed, sender>>
  BY DEF Sweep, PassLooks, PassBegins, SweepKeep, SweepClose, SweepNone, PutBack, PassEnds, SweepBye
<1>2. CASE PassLooks
  <2>1. UNCHANGED <<open, late>> /\ sweeper'.pc = "look" /\ sweeper'.zero = (createdConns = 0)
    BY <1>2 DEF PassLooks, SweeperAsleep
  <2>2. CASE createdConns = 0
    <3>1. /\ Cardinality(open) \in Nat /\ Cardinality(Dialing) \in Nat
          /\ IsFiniteSet(open) /\ IsFiniteSet(Dialing)
      BY <1>0, FiniteParts, Counting
    <3>2. Cardinality(open) = 0 /\ Cardinality(Dialing) = 0
      BY <1>0, <2>2, <3>1 DEF CountIsExact
    <3>3. open = {} /\ Dialing = {} BY <3>1, <3>2, FS_EmptySet
    <3>4. QED BY <1>1, <2>1, <3>3 DEF Drained, Dialing
  <2>3. CASE createdConns # 0 BY <2>1, <2>3 DEF Drained, SawZero
  <2>4. QED BY <2>2, <2>3
<1>3. CASE PassBegins
  <2>1. UNCHANGED <<open, late>> /\ sweeper.pc = "look" BY <1>3 DEF PassBegins
  <2>2. CASE closed /\ sweeper.zero
    <3>1. sweeper'.pc = "quit" BY <1>3, <2>2 DEF PassBegins, SweeperAsleep
    <3>2. SawZero BY <2>1, <2>2 DEF SawZero
    <3>3. QED BY <1>1, <2>1, <2>2, <3>1, <3>2 DEF Drained
  <2>3. CASE ~(closed /\ sweeper.zero)
    <3>1. sweeper'.pc = "sweep" BY <1>0, <1>3, <2>3 DEF PassBegins, PoolTypeOK, SweepRecord
    <3>2. QED BY <3>1 DEF Drained, SawZero
  <2>4. QED BY <2>2, <2>3
<1>4. CASE ~PassLooks /\ ~PassBegins
  <2>1. sweeper \in SweepRecord BY <1>0 DEF PoolTypeOK
  <2>2. sweeper'.pc \in {"sleep", "sweep", "bye"}
    <3> USE <2>1 DEF SweepRecord
    <3>1. CASE SweepKeep BY <3>1 DEF SweepKeep
    <3>2. CASE SweepClose
      <4>1. PICK p \in {"bye", "sweep"} : sweeper' = [sweeper EXCEPT !.left = @ - 1, !.pc = p]
        BY <3>2 DEF SweepClose
      <4>2. QED BY <4>1
    <3>3. CASE SweepNone BY <3>3 DEF SweepNone
    <3>4. CASE PutBack BY <3>4 DEF PutBack
    <3>5. CASE PassEnds BY <3>5 DEF PassEnds, SweeperAsleep
    <3>6. CASE SweepBye BY <3>6 DEF SweepBye
    <3>7. QED BY <1>4, <3>1, <3>2, <3>3, <3>4, <3>5, <3>6 DEF Sweep
  <2>3. QED BY <2>2 DEF Drained, SawZero
<1>5. QED BY <1>2, <1>3, <1>4

\* Close drains the pool: when the sweeper has quit, every connection left was
\* counted after Close, or between the two looks of the sweeper, by a sender that
\* had found the pool open.
THEOREM LeftoversCameLate == PoolSpec => []LeftoversAreLate
<1>1. PoolInit => Drained BY DEF PoolInit, SweeperAsleep, Drained, SawZero
<1>2. PoolInv /\ Drained /\ [PoolNext]_poolVars => Drained'
  <2>1. SUFFICES ASSUME PoolInv, Drained, [PoolNext]_poolVars PROVE Drained' OBVIOUS
  <2>2. ASSUME NEW s \in Sender, Send(s) \/ Step(s) PROVE Drained' BY <2>1, <2>2, SenderDrains
  <2>3. CASE Sweep \/ SweepBye BY <2>1, <2>3, SweepDrains
  <2>4. CASE Close \/ UNCHANGED poolVars \/ \E c \in Conn : Drop(c)
    <3>1. UNCHANGED <<open, sender, sweeper, late>> /\ (closed => closed')
      BY <2>4 DEF Close, poolVars, Drop
    <3>2. QED BY <2>1, <3>1 DEF Drained, SawZero
  <2>5. QED BY <2>1, <2>2, <2>3, <2>4 DEF PoolNext
<1>3. Drained => LeftoversAreLate BY DEF Drained, LeftoversAreLate
<1>4. QED BY <1>1, <1>2, <1>3, PoolInvariantHolds, PTL DEF PoolSpec

(***************************************************************************)
(* The pipeline: delivery, shutdown and the scheduler's clock, for any     *)
(* number of subscriber processes, messages, restarts and faults.          *)
(***************************************************************************)
-----------------------------------------------------------------------------
(* Sequences. *)
LEMMA Appended ==
    ASSUME NEW S, NEW s \in Seq(S), NEW e \in S
    PROVE  /\ Append(s, e) \in Seq(S) /\ Len(Append(s, e)) = Len(s) + 1
           /\ DOMAIN Append(s, e) = 1..(Len(s) + 1) /\ DOMAIN s = 1..Len(s)
           /\ \A k \in DOMAIN s : k <= Len(s) /\ Append(s, e)[k] = s[k]
           /\ Append(s, e)[Len(s) + 1] = e
           /\ Ranges(Append(s, e)) = Ranges(s) \cup {e}
BY DEF Ranges

LEMMA Dropped ==
    ASSUME NEW S, NEW s \in Seq(S), s # <<>>
    PROVE  /\ Tail(s) \in Seq(S) /\ Len(Tail(s)) = Len(s) - 1 /\ Len(s) > 0
           /\ Head(s) = s[1] /\ Head(s) \in S
           /\ \A k \in DOMAIN Tail(s) : k + 1 \in DOMAIN s /\ Tail(s)[k] = s[k + 1]
           /\ \A k \in DOMAIN s : k # 1 => k - 1 \in DOMAIN Tail(s) /\ Tail(s)[k - 1] = s[k]
OBVIOUS

LEMMA Cut ==
    ASSUME NEW S, NEW s \in Seq(S), NEW a \in Nat, NEW b \in Nat, b <= Len(s)
    PROVE  /\ SubSeq(s, a + 1, b) \in Seq(S)
           /\ Len(SubSeq(s, a + 1, b)) = IF a <= b THEN b - a ELSE 0
           /\ \A k \in DOMAIN SubSeq(s, a + 1, b) :
                 k \in 1..(b - a) /\ a + k \in DOMAIN s /\ SubSeq(s, a + 1, b)[k] = s[a + k]
OBVIOUS

LEMMA CutHead ==
    ASSUME NEW S, NEW s \in Seq(S), NEW a \in Nat, a <= Len(s)
    PROVE  /\ SubSeq(s, a + 1, Len(s)) \in Seq(S)
           /\ Len(SubSeq(s, a + 1, Len(s))) = Len(s) - a
           /\ \A k \in DOMAIN SubSeq(s, a + 1, Len(s)) :
                 k \in Nat /\ a + k \in DOMAIN s /\ SubSeq(s, a + 1, Len(s))[k] = s[a + k]
OBVIOUS

LEMMA WithoutIs ==
    ASSUME NEW S, NEW s \in Seq(S), NEW k \in DOMAIN s
    PROVE  /\ Without(s, k) \in Seq(S) /\ Len(Without(s, k)) = Len(s) - 1
           /\ \A n \in DOMAIN Without(s, k) :
                 /\ (IF n < k THEN n ELSE n + 1) \in DOMAIN s
                 /\ Without(s, k)[n] = s[IF n < k THEN n ELSE n + 1]
<1> DEFINE a == SubSeq(s, 1, k - 1)
           b == SubSeq(s, k + 1, Len(s))
<1>0. k \in 1..Len(s) /\ Len(s) \in Nat OBVIOUS
<1>1. /\ a \in Seq(S) /\ Len(a) = k - 1
      /\ \A n \in 1..(k - 1) : a[n] = s[n] BY <1>0
<1>2. /\ b \in Seq(S) /\ Len(b) = Len(s) - k
      /\ \A n \in 1..(Len(s) - k) : b[n] = s[k + n]
  BY <1>0, Cut
<1>3. Without(s, k) = a \o b BY DEF Without
<1> HIDE DEF a, b
<1>4. /\ a \o b \in Seq(S) /\ Len(a \o b) = Len(a) + Len(b)
      /\ \A n \in 1..(Len(a) + Len(b)) :
            (a \o b)[n] = IF n <= Len(a) THEN a[n] ELSE b[n - Len(a)]
  BY <1>1, <1>2
<1>5. DOMAIN (a \o b) = 1..(Len(s) - 1) BY <1>4, <1>1, <1>2, <1>0
<1>6. ASSUME NEW n \in 1..(Len(s) - 1)
      PROVE  /\ (IF n < k THEN n ELSE n + 1) \in DOMAIN s
             /\ (a \o b)[n] = s[IF n < k THEN n ELSE n + 1]
  <2>1. CASE n < k
    <3>1. n \in 1..(k - 1) /\ n <= Len(a) /\ n \in 1..(Len(a) + Len(b)) BY <2>1, <1>0, <1>1, <1>2
    <3>2. (a \o b)[n] = a[n] BY <3>1, <1>4
    <3>3. a[n] = s[n] BY <3>1, <1>1
    <3>. QED BY <3>2, <3>3, <2>1, <1>0
  <2>2. CASE ~(n < k)
    <3>1. ~(n <= Len(a)) /\ n \in 1..(Len(a) + Len(b)) /\ n - Len(a) \in 1..(Len(s) - k)
      BY <2>2, <1>0, <1>1, <1>2
    <3>2. (a \o b)[n] = b[n - Len(a)] BY <3>1, <1>4
    <3>3. b[n - Len(a)] = s[k + (n - Len(a))] BY <3>1, <1>2
    <3>4. k + (n - Len(a)) = n + 1 BY <1>0, <1>1
    <3>. QED BY <3>2, <3>3, <3>4, <2>2, <1>0
  <2>. QED BY <2>1, <2>2
<1>7. Len(a \o b) = Len(s) - 1 BY <1>4, <1>1, <1>2, <1>0
<1>. QED BY <1>3, <1>4, <1>5, <1>6, <1>7

LEMMA Nothing ==
    ASSUME NEW S, NEW s, s = <<>>
    PROVE  s \in Seq(S) /\ Len(s) = 0 /\ DOMAIN s = {} /\ Ranges(s) = {}
BY DEF Ranges

LEMMA Single ==
    ASSUME NEW S, NEW s \in Seq(S), Len(s) <= 1, NEW a \in DOMAIN s
    PROVE  a = 1 /\ Len(s) = 1
<1> DEFINE l == Len(s)
<1>1. l \in Nat /\ a \in 1..l /\ l <= 1 OBVIOUS
<1> HIDE DEF l
<1>2. a \in Int /\ 1 <= a /\ a <= l BY <1>1
<1>3. a <= 1 /\ l >= 1 BY <1>1, <1>2
<1>4. a = 1 /\ l = 1 BY <1>1, <1>2, <1>3
<1>. QED BY <1>4 DEF l

LEMMA NoneLeft ==
    ASSUME NEW S, NEW s \in Seq(S), Len(s) = 0
    PROVE  DOMAIN s = {}
<1>1. \A a \in DOMAIN s : a \in Int /\ 1 <= a /\ a <= 0 OBVIOUS
<1>. QED BY <1>1

LEMMA NoneLeftIs ==
    ASSUME NEW S, NEW s \in Seq(S), Len(s) = 0
    PROVE  s = <<>>
OBVIOUS

LEMMA TailOfOne ==
    ASSUME NEW S, NEW s \in Seq(S), Len(s) = 1
    PROVE  Tail(s) = <<>>
<1>1. s # <<>> BY Nothing
<1>2. Tail(s) \in Seq(S) /\ Len(Tail(s)) = 0 BY <1>1, Dropped
<1>. QED BY <1>2, NoneLeftIs

-----------------------------------------------------------------------------
(* A subscriber: the driver d, the number n of messages published, the process p, *)
(* what it has still to take s, and the messages h handled and k skipped.         *)
Message == Nat \ {0}

Process ==
    [pc : {"off", "ready", "up", "away", "stopping", "cut", "returned"}, bound : BOOLEAN,
     hand : Seq(Message), out : Nat, marked : Nat, asked : BOOLEAN, starts : Nat]

States(d) ==
    CASE d = "kafka" -> {"off", "ready", "up", "stopping"}
      [] d = "memory" -> {"off", "ready", "up", "stopping", "returned"}
      [] d = "redis" -> {"off", "ready", "up", "away", "stopping"}
      [] d = "rabbitmq" -> {"off", "ready", "up", "stopping", "cut"}

Typed(d, n, p, s, h, k) ==
    /\ d \in {"memory", "redis", "rabbitmq", "kafka"}
    /\ n \in Nat
    /\ p \in Process
    /\ p.pc \in States(d)
    /\ s \in Seq(Message)
    /\ h \in Seq(Message)
    /\ k \in SUBSET Message

\* Published in order, and published at all.
Queued(n, s, h, k) ==
    /\ \A a, b \in DOMAIN s : a < b => s[a] < s[b]
    /\ \A a \in DOMAIN s : s[a] <= n
    /\ \A a \in DOMAIN h : h[a] <= n
    /\ \A m \in k : m <= n

\* How many messages of the store the process has behind it.
Behind(p) == p.out - Len(p.hand)

\* What is in hand is still in the store.
Lent(d, p) == d = "kafka" \/ (d = "rabbitmq" /\ p.pc # "cut")

\* What the process holds are messages of the store, but for those that have been
\* taken from it, and the one that a broken connection has given back.
Holding(d, n, p, s) ==
    /\ p.pc = "off" => p.hand = <<>> /\ p.out = 0
    /\ d # "kafka" => p.marked = 0 /\ Len(p.hand) <= 1
    /\ p.out <= Len(s)
    /\ Lent(d, p) =>
          /\ p.marked <= Behind(p)
          /\ d = "rabbitmq" => Behind(p) = 0
          /\ \A a \in DOMAIN p.hand : p.hand[a] = s[Behind(p) + a]
    /\ ~Lent(d, p) =>
          /\ p.out = 0
          /\ \A a \in DOMAIN p.hand :
                /\ p.hand[a] <= n
                /\ \A b \in DOMAIN s :
                      /\ d = "rabbitmq" => p.hand[a] <= s[b]
                      /\ d = "redis" => p.hand[a] < s[b]
                      /\ d = "memory" => p.hand[a] # s[b]

\* Whatever the process has behind it was handled, or dropped.
Passed(d, p, s, h, k) ==
    d = "kafka" => \A a \in 1..Behind(p) : s[a] \in Ranges(h) \cup k

\* A message that is still to come is later than what was handled.
Later(m, h, k) == m \in Ranges(h) \cup k \/ \A x \in Ranges(h) : x < m

InTurn(d, p, s, h, k) ==
    d # "memory" =>
        /\ \A a \in DOMAIN s : Later(s[a], h, k)
        /\ \A a \in DOMAIN p.hand : Later(p.hand[a], h, k)

Times(m, h) == Cardinality({a \in DOMAIN h : h[a] = m})

\* A process still handles only what it has not handled yet.
Fresh(p, s, h) ==
    /\ p.pc # "off" => p.starts > 0
    /\ \A m \in Message : Times(m, h) <= p.starts
    /\ \A a \in DOMAIN p.hand : Times(p.hand[a], h) < p.starts
    /\ p.pc \notin {"off", "cut"} =>
          \A a \in DOMAIN s : a > p.out => Times(s[a], h) < p.starts

\* On the drivers that take a message out of the store it comes once.
Once(d, p, s, h) ==
    d \in {"memory", "redis"} =>
        /\ p.pc = "off" => s = <<>>
        /\ d = "memory" => (p.bound <=> p.pc # "off")
        /\ \A m \in Message : Times(m, h) <= 1
        /\ \A a \in DOMAIN s : s[a] \notin Ranges(h)
        /\ \A a \in DOMAIN p.hand : p.hand[a] \notin Ranges(h)

Ordered(d, h, k) ==
    d # "memory" =>
        \A a \in DOMAIN h :
            LET before == {h[b] : b \in 1..(a - 1)} IN
            \/ h[a] \in before \cup k
            \/ \A m \in before : m < h[a]

Subscriber(d, n, p, s, h, k) ==
    /\ Typed(d, n, p, s, h, k)
    /\ Queued(n, s, h, k)
    /\ Holding(d, n, p, s)
    /\ Passed(d, p, s, h, k)
    /\ InTurn(d, p, s, h, k)
    /\ Fresh(p, s, h)
    /\ Once(d, p, s, h)
    /\ Ordered(d, h, k)

LEMMA TimesType ==
    ASSUME NEW h \in Seq(Message), NEW m \in Message
    PROVE  /\ Times(m, h) \in Nat
           /\ m \notin Ranges(h) => Times(m, h) = 0
           /\ IsFiniteSet({a \in DOMAIN h : h[a] = m})
<1>1. IsFiniteSet(1..Len(h)) BY FS_Interval
<1>2. {a \in DOMAIN h : h[a] = m} \subseteq 1..Len(h) OBVIOUS
<1>3. IsFiniteSet({a \in DOMAIN h : h[a] = m}) BY <1>1, <1>2, FS_Subset
<1>4. ASSUME m \notin Ranges(h) PROVE Times(m, h) = 0
  <2>1. {a \in DOMAIN h : h[a] = m} = {} BY <1>4 DEF Ranges
  <2>. QED BY <2>1, FS_EmptySet DEF Times
<1>. QED BY <1>3, <1>4, FS_CardinalityType DEF Times

LEMMA TimesMore ==
    ASSUME NEW h \in Seq(Message), NEW e \in Message, NEW m \in Message
    PROVE  Times(m, Append(h, e)) = IF m = e THEN Times(m, h) + 1 ELSE Times(m, h)
<1> DEFINE before == {a \in DOMAIN h : h[a] = m}
           after == {a \in DOMAIN Append(h, e) : Append(h, e)[a] = m}
<1>0. Times(m, h) = Cardinality(before) /\ Times(m, Append(h, e)) = Cardinality(after) BY DEF Times
<1>1. IsFiniteSet(before) BY TimesType
<1>2. CASE m = e
  <2>1. after = before \cup {Len(h) + 1} BY <1>2, Appended
  <2>2. Len(h) + 1 \notin before OBVIOUS
  <2>3. Cardinality(before \cup {Len(h) + 1}) = Cardinality(before) + 1
    <3> HIDE DEF before
    <3>. QED BY <1>1, <2>2, FS_AddElement
  <2>. QED BY <1>0, <2>1, <2>3, <1>2
<1>3. CASE m # e
  <2>1. after = before BY <1>3, Appended
  <2>. QED BY <1>0, <2>1, <1>3
<1>. QED BY <1>2, <1>3

-----------------------------------------------------------------------------
(* What a step does to one subscriber. *)

LEMMA NothingInHand ==
    ASSUME NEW p, p.hand = <<>>
    PROVE  /\ Len(p.hand) = 0 /\ DOMAIN p.hand = {}
           /\ p.out \in Nat => Behind(p) = p.out
<1>1. Len(p.hand) = 0 /\ DOMAIN p.hand = {} BY Nothing
<1>2. Behind(p) = p.out - 0 BY <1>1 DEF Behind
<1>. QED BY <1>1, <1>2

\* Messages that others were sent.
LEMMA MorePublished ==
    ASSUME NEW d, NEW n, NEW p, NEW s, NEW h, NEW k, Subscriber(d, n, p, s, h, k),
           NEW l \in Nat, n <= l
    PROVE  Subscriber(d, l, p, s, h, k)
<1> USE DEF Subscriber, Typed
<1>1. Queued(l, s, h, k) BY DEF Queued, Message
<1>2. Holding(d, l, p, s) BY DEF Holding, Process, Message
<1>. QED BY <1>1, <1>2

\* A message of its own.
LEMMA HandedOver ==
    ASSUME NEW d, NEW n, NEW p, NEW s, NEW h, NEW k, Subscriber(d, n, p, s, h, k),
           d = "redis" => p.pc # "off", d = "memory" => p.bound
    PROVE  Subscriber(d, n + 1, p, Append(s, n + 1), h, k)
<1> DEFINE t == Append(s, n + 1)
<1> USE DEF Subscriber, Typed
<1>0. n + 1 \in Message /\ n \in Nat /\ p \in Process BY DEF Message
<1>1. Typed(d, n + 1, p, t, h, k) BY <1>0, Appended
<1>2. \A a \in DOMAIN t : (a \in DOMAIN s /\ t[a] = s[a]) \/ (a = Len(s) + 1 /\ t[a] = n + 1)
  BY <1>0, Appended
<1>3. DOMAIN t = 1..(Len(s) + 1) /\ DOMAIN s = 1..Len(s) /\ Len(t) = Len(s) + 1
      /\ Len(s) \in Nat BY <1>0, Appended
<1>4. n + 1 \notin Ranges(h) /\ \A x \in Ranges(h) : x < n + 1
  BY DEF Queued, Ranges, Message
<1> HIDE DEF t
<1>5. Queued(n + 1, t, h, k)
  <2>1. /\ \A a \in DOMAIN s : s[a] \in Nat /\ a \in 1..Len(s) /\ s[a] <= n
        /\ \A a \in DOMAIN h : h[a] \in Nat /\ h[a] <= n
        /\ \A m \in k : m \in Nat /\ m <= n
    BY DEF Queued, Message
  <2>2. \A a, b \in DOMAIN t : a < b => t[a] < t[b]
    <3> SUFFICES ASSUME NEW a \in DOMAIN t, NEW b \in DOMAIN t, a < b PROVE t[a] < t[b]
      OBVIOUS
    <3>1. a \in DOMAIN s /\ t[a] = s[a] BY <1>2, <1>3
    <3>2. CASE b \in DOMAIN s /\ t[b] = s[b] BY <3>1, <3>2 DEF Queued
    <3>3. CASE b = Len(s) + 1 /\ t[b] = n + 1 BY <3>1, <3>3, <2>1, <1>0
    <3>. QED BY <3>2, <3>3, <1>2
  <2>3. \A a \in DOMAIN t : t[a] <= n + 1 BY <2>1, <1>2, <1>0
  <2>4. (\A a \in DOMAIN h : h[a] <= n + 1) /\ \A m \in k : m <= n + 1 BY <2>1, <1>0
  <2>. QED BY <2>2, <2>3, <2>4 DEF Queued
<1>6. Holding(d, n + 1, p, t)
  <2>1. Holding(d, n, p, s) OBVIOUS
  <2>2. \A a \in DOMAIN p.hand : p.hand[a] \in Message BY <1>0 DEF Process
  <2>3. \A a \in DOMAIN p.hand : a \in 1..Len(p.hand) /\ Len(p.hand) \in Nat BY <1>0 DEF Process
  <2>4. p.out \in Nat /\ p.marked \in Nat BY <1>0 DEF Process
  <2>5. ASSUME NEW a \in DOMAIN p.hand, Lent(d, p) PROVE p.hand[a] = t[Behind(p) + a]
    <3>1. Behind(p) + a \in 1..Len(s) BY <2>1, <2>3, <2>4, <2>5, <1>3 DEF Holding, Behind
    <3>. QED BY <3>1, <2>1, <2>5, <1>2, <1>3 DEF Holding
  <2>6. ASSUME NEW a \in DOMAIN p.hand, ~Lent(d, p)
        PROVE  /\ p.hand[a] <= n + 1
               /\ \A b \in DOMAIN t :
                     /\ d = "rabbitmq" => p.hand[a] <= t[b]
                     /\ d = "redis" => p.hand[a] < t[b]
                     /\ d = "memory" => p.hand[a] # t[b]
    <3>1. p.hand[a] <= n /\ p.hand[a] \in Nat BY <2>1, <2>2, <2>6 DEF Holding, Message
    <3>2. p.hand[a] < n + 1 BY <3>1, <1>0
    <3>. QED BY <3>1, <3>2, <2>1, <2>6, <1>0, <1>2 DEF Holding
  <2>7. p.out <= Len(t) BY <2>1, <2>4, <1>3 DEF Holding
  <2>. QED BY <2>1, <2>5, <2>6, <2>7 DEF Holding
<1>7. Passed(d, p, t, h, k)
  <2>1. CASE d = "kafka"
    <3>1. Behind(p) \in Int /\ Behind(p) <= Len(s) BY <1>0, <1>3 DEF Holding, Behind, Process
    <3>. QED BY <3>1, <1>2, <1>3 DEF Passed
  <2>. QED BY <2>1 DEF Passed
<1>8. InTurn(d, p, t, h, k) BY <1>2, <1>4 DEF InTurn, Later
<1>9. Fresh(p, t, h)
  <2>1. Times(n + 1, h) = 0 BY <1>0, <1>4, TimesType
  <2>2. p.out \in Nat /\ p.starts \in Nat /\ p.out <= Len(s) BY <1>0 DEF Process, Holding
  <2>. QED BY <2>1, <2>2, <1>2, <1>3 DEF Fresh
<1>10. Once(d, p, t, h) BY <1>2, <1>4 DEF Once
<1>. QED BY <1>1, <1>5, <1>6, <1>7, <1>8, <1>9, <1>10 DEF t

\* A step that moves no message.
LEMMA Moved ==
    ASSUME NEW d, NEW n, NEW p, NEW s, NEW h, NEW k, Subscriber(d, n, p, s, h, k),
           NEW q \in Process, q.hand = p.hand, q.out = p.out, q.marked = p.marked,
           q.pc \in States(d), q.pc # "off", d = "memory" => q.bound,
           \/ q.starts = p.starts /\ p.pc # "off" /\ (p.pc = "cut" <=> q.pc = "cut")
           \/ q.starts = p.starts + 1 /\ p.pc = "off"
    PROVE  Subscriber(d, n, q, s, h, k)
<1> USE DEF Subscriber, Typed
<1>0. p \in Process /\ p.starts \in Nat /\ q.starts \in Nat /\ p.starts <= q.starts BY DEF Process
<1>1. Behind(q) = Behind(p) BY DEF Behind
<1>2. Typed(d, n, q, s, h, k) OBVIOUS
<1>3. Holding(d, n, q, s)
  <2>1. CASE p.pc = "off"
    <3>0. p.hand = <<>> /\ p.out = 0 BY <2>1 DEF Holding
    <3>1. p.hand = <<>> /\ p.out = 0 /\ DOMAIN p.hand = {} /\ Len(p.hand) = 0 BY <3>0, Nothing
    <3>2. p.marked \in Nat /\ (d # "kafka" => p.marked = 0) BY <1>0 DEF Process, Holding
    <3>3. d = "kafka" => Lent(d, p) BY DEF Lent
    <3>4. d = "kafka" => p.marked <= 0 BY <3>1, <3>3 DEF Holding, Behind
    <3>5. Behind(p) = 0 BY <3>1, NothingInHand
    <3>6. q.marked <= Behind(q) BY <3>2, <3>4, <3>5, <1>1
    <3>. QED BY <3>1, <3>2, <3>5, <3>6, <1>1 DEF Holding
  <2>2. CASE p.pc # "off"
    <3>1. Lent(d, q) <=> Lent(d, p) BY <2>2, <1>0 DEF Lent
    <3>. QED BY <3>1, <1>1 DEF Holding
  <2>. QED BY <2>1, <2>2
<1>4. Passed(d, q, s, h, k) /\ InTurn(d, q, s, h, k) BY <1>1 DEF Passed, InTurn
<1>5. Fresh(q, s, h)
  <2>1. \A m \in Message : Times(m, h) \in Nat /\ Times(m, h) <= p.starts
    BY TimesType DEF Fresh
  <2>2. \A a \in DOMAIN s : s[a] \in Message OBVIOUS
  <2>3. \A a \in DOMAIN p.hand : p.hand[a] \in Message BY <1>0 DEF Process
  <2>4. CASE q.starts = p.starts /\ p.pc # "off" /\ (p.pc = "cut" <=> q.pc = "cut")
    BY <2>4 DEF Fresh
  <2>5. CASE q.starts = p.starts + 1 /\ p.pc = "off"
    <3>1. \A m \in Message : Times(m, h) < q.starts BY <2>1, <2>5, <1>0
    <3>2. q.starts > 0 BY <2>5, <1>0
    <3>. QED BY <3>1, <3>2, <2>1, <2>2, <2>3, <1>0 DEF Fresh
  <2>. QED BY <2>4, <2>5
<1>6. Once(d, q, s, h)
  <2>1. d = "memory" => (q.bound <=> q.pc # "off") OBVIOUS
  <2>. QED BY <2>1 DEF Once
<1>. QED BY <1>2, <1>3, <1>4, <1>5, <1>6

\* The process ends with nothing in hand; its queue stays as it is, or goes with it.
LEMMA Ended ==
    ASSUME NEW d, NEW n, NEW p, NEW s, NEW h, NEW k, Subscriber(d, n, p, s, h, k),
           NEW q \in Process, q.pc = "off", q.hand = <<>>, q.out = 0, q.marked = 0,
           q.starts = p.starts, d # "memory",
           NEW t, t = <<>> \/ (t = s /\ d # "redis")
    PROVE  Subscriber(d, n, q, t, h, k)
<1> USE DEF Subscriber, Typed
<1>0. /\ DOMAIN q.hand = {} /\ Len(q.hand) = 0 /\ Behind(q) = 0
      /\ t = s \/ (DOMAIN t = {} /\ Len(t) = 0)
      /\ t \in Seq(Message)
  <2>1. DOMAIN q.hand = {} /\ Len(q.hand) = 0 /\ Behind(q) = 0 BY NothingInHand
  <2>2. t = <<>> => t \in Seq(Message) /\ DOMAIN t = {} /\ Len(t) = 0 BY Nothing
  <2>. QED BY <2>1, <2>2
<1>1. Typed(d, n, q, t, h, k) BY <1>0 DEF States
<1>2. Queued(n, t, h, k) BY <1>0 DEF Queued
<1>3. Holding(d, n, q, t) BY <1>0 DEF Holding
<1>4. Passed(d, q, t, h, k) BY <1>0 DEF Passed
<1>5. InTurn(d, q, t, h, k) BY <1>0 DEF InTurn
<1>6. Fresh(q, t, h) BY <1>0 DEF Fresh
<1>7. Once(d, q, t, h) BY <1>0 DEF Once
<1>. QED BY <1>1, <1>2, <1>3, <1>4, <1>5, <1>6, <1>7

\* Close commits what the process has behind it.
LEMMA Closed ==
    ASSUME NEW d, NEW n, NEW p, NEW s, NEW h, NEW k, Subscriber(d, n, p, s, h, k),
           NEW q \in Process, q.pc = "off", q.hand = <<>>, q.out = 0, q.marked = 0,
           q.starts = p.starts, d = "kafka"
    PROVE  Subscriber(d, n, q, SubSeq(s, p.out + 1, Len(s)), h, k)
<1> DEFINE t == SubSeq(s, p.out + 1, Len(s))
<1> USE DEF Subscriber, Typed
<1>0. DOMAIN q.hand = {} /\ Len(q.hand) = 0 /\ Behind(q) = 0 BY NothingInHand
<1>1. p.out \in Nat /\ p.out <= Len(s) BY DEF Process, Holding
<1>2. /\ t \in Seq(Message)
      /\ \A a \in DOMAIN t : a \in Nat /\ p.out + a \in DOMAIN s /\ t[a] = s[p.out + a]
  BY <1>1, CutHead
<1> HIDE DEF t
<1>3. Typed(d, n, q, t, h, k) BY <1>2 DEF States
<1>4. Queued(n, t, h, k)
  <2>1. \A a, b \in DOMAIN t : a < b => t[a] < t[b]
    <3> SUFFICES ASSUME NEW a \in DOMAIN t, NEW b \in DOMAIN t, a < b PROVE t[a] < t[b]
      OBVIOUS
    <3>1. p.out + a < p.out + b BY <1>1, <1>2
    <3>. QED BY <3>1, <1>2 DEF Queued
  <2>. QED BY <2>1, <1>2 DEF Queued
<1>5. Holding(d, n, q, t)
  <2>1. 0 <= Len(t) BY <1>2
  <2>. QED BY <1>0, <2>1 DEF Holding, Lent
<1>6. Passed(d, q, t, h, k) BY <1>0 DEF Passed
<1>7. InTurn(d, q, t, h, k) BY <1>0, <1>2 DEF InTurn
<1>8. Fresh(q, t, h) BY <1>0 DEF Fresh
<1>9. Once(d, q, t, h) BY <1>0 DEF Once
<1>. QED BY <1>3, <1>4, <1>5, <1>6, <1>7, <1>8, <1>9 DEF t

\* The broker takes the delivery back, and the queue or not.
LEMMA CutOff ==
    ASSUME NEW d, NEW n, NEW p, NEW s, NEW h, NEW k, Subscriber(d, n, p, s, h, k),
           NEW q \in Process, q.pc = "cut", q.hand = p.hand, q.out = 0, q.marked = p.marked,
           q.starts = p.starts, d = "rabbitmq", p.pc \notin {"off", "cut"},
           NEW t, t \in {s, <<>>}
    PROVE  Subscriber(d, n, q, t, h, k)
<1> USE DEF Subscriber, Typed
<1>0. /\ t = s \/ (DOMAIN t = {} /\ Len(t) = 0)
      /\ t \in Seq(Message)
  BY Nothing
<1>1. Typed(d, n, q, t, h, k) BY <1>0 DEF States
<1>2. Queued(n, t, h, k) BY <1>0 DEF Queued
<1>3. Holding(d, n, q, t)
  <2>1. Lent(d, p) /\ ~Lent(d, q) BY DEF Lent
  <2>2. p.hand \in Seq(Message) BY DEF Process
  <2>3. ASSUME NEW a \in DOMAIN p.hand
        PROVE  p.hand[a] <= n /\ \A b \in DOMAIN t : p.hand[a] <= t[b]
    <3>0. Len(p.hand) <= 1 BY DEF Holding
    <3>1. a = 1 /\ Len(p.hand) = 1 BY <3>0, <2>2, Single
    <3>2. p.hand[a] = s[1] /\ p.out = 1
      <4>1. p.out \in Nat BY DEF Process
      <4>2. Behind(p) = 0 /\ p.hand[1] = s[Behind(p) + 1] BY <2>1, <3>1 DEF Holding
      <4>3. p.out = 1 BY <4>1, <4>2, <3>1 DEF Behind
      <4>4. Behind(p) + 1 = 1 BY <4>2
      <4>. QED BY <4>2, <4>3, <4>4, <3>1
    <3>3. 1 \in DOMAIN s BY <3>2 DEF Holding
    <3>4. s[1] <= n /\ \A b \in DOMAIN s : s[1] <= s[b]
      <4>1. s[1] <= n BY <3>3 DEF Queued
      <4>2. ASSUME NEW b \in DOMAIN s PROVE s[1] <= s[b]
        <5>1. s[1] \in Nat /\ s[b] \in Nat /\ b \in Nat /\ (b = 1 \/ 1 < b) BY <3>3 DEF Message
        <5>2. 1 < b => s[1] < s[b] BY <3>3 DEF Queued
        <5>. QED BY <5>1, <5>2
      <4>. QED BY <4>1, <4>2
    <3>. QED BY <3>2, <3>4, <1>0
  <2>4. p.marked = 0 /\ Len(p.hand) <= 1 BY DEF Holding
  <2>5. 0 <= Len(t) BY <1>0
  <2>. QED BY <2>1, <2>3, <2>4, <2>5 DEF Holding
<1>4. Passed(d, q, t, h, k) BY DEF Passed
<1>5. InTurn(d, q, t, h, k) BY <1>0 DEF InTurn
<1>6. Fresh(q, t, h) BY DEF Fresh
<1>7. Once(d, q, t, h) BY DEF Once
<1>. QED BY <1>1, <1>2, <1>3, <1>4, <1>5, <1>6, <1>7

\* rabbitmq: the delivery stays in the queue until it is acknowledged.
LEMMA TakenOver ==
    ASSUME NEW d, NEW n, NEW p, NEW s, NEW h, NEW k, Subscriber(d, n, p, s, h, k),
           NEW q \in Process, q.pc = p.pc, q.hand = <<s[1]>>, q.out = 1, q.marked = p.marked,
           q.starts = p.starts, d = "rabbitmq", p.pc \notin {"off", "cut"},
           p.hand = <<>>, s # <<>>
    PROVE  Subscriber(d, n, q, s, h, k)
<1> USE DEF Subscriber, Typed
<1>0. Len(p.hand) = 0 /\ DOMAIN p.hand = {} BY NothingInHand
<1>1. p.out = 0
  <2>1. p.out \in Nat BY DEF Process
  <2>2. Behind(p) = 0 BY DEF Holding, Lent
  <2>. QED BY <2>1, <2>2, NothingInHand
<1>2. 1 \in DOMAIN s /\ 1 <= Len(s) /\ s[1] \in Message BY Dropped
<1>3. Len(q.hand) = 1 /\ DOMAIN q.hand = {1} /\ q.hand[1] = s[1] OBVIOUS
<1>4. Behind(q) = 0 BY <1>3 DEF Behind
<1>5. Holding(d, n, q, s)
  <2>1. Lent(d, q) /\ p.marked = 0 BY DEF Lent, Holding
  <2>2. Behind(q) + 1 = 1 BY <1>4
  <2>. QED BY <1>2, <1>3, <1>4, <2>1, <2>2 DEF Holding
<1>6. Passed(d, q, s, h, k) BY DEF Passed
<1>7. InTurn(d, q, s, h, k) BY <1>2, <1>3 DEF InTurn
<1>8. Fresh(q, s, h)
  <2>1. Times(s[1], h) < p.starts BY <1>1, <1>2 DEF Fresh
  <2>2. \A a \in DOMAIN s : a > 1 => a > p.out BY <1>1
  <2>. QED BY <1>3, <2>1, <2>2 DEF Fresh
<1>9. Once(d, q, s, h) BY DEF Once
<1>. QED BY <1>5, <1>6, <1>7, <1>8, <1>9

\* memory and redis: the message leaves the channel.
LEMMA TakenOut ==
    ASSUME NEW d, NEW n, NEW p, NEW s, NEW h, NEW k, Subscriber(d, n, p, s, h, k),
           NEW q \in Process, q.pc = p.pc, q.bound = p.bound, q.out = 0, q.marked = p.marked,
           q.starts = p.starts, d \in {"memory", "redis"}, p.pc # "off",
           p.hand = <<>>, NEW c \in DOMAIN s, q.hand = <<s[c]>>, d = "redis" => c = 1
    PROVE  Subscriber(d, n, q, Without(s, c), h, k)
<1> DEFINE t == Without(s, c)
           f(b) == IF b < c THEN b ELSE b + 1
<1> USE DEF Subscriber, Typed
<1>0. c \in Nat /\ s[c] \in Message OBVIOUS
<1>1. t \in Seq(Message) /\ \A b \in DOMAIN t : f(b) \in DOMAIN s /\ t[b] = s[f(b)] /\ b \in Nat
  <2>1. t \in Seq(Message) BY WithoutIs
  <2>2. \A b \in DOMAIN t : b \in Nat BY <2>1
  <2>3. \A b \in DOMAIN t : f(b) \in DOMAIN s /\ t[b] = s[f(b)] BY WithoutIs
  <2>. QED BY <2>1, <2>2, <2>3
<1>2. DOMAIN q.hand = {1} /\ q.hand[1] = s[c] /\ Len(q.hand) = 1 OBVIOUS
<1> HIDE DEF t
<1>3. \A a, b \in DOMAIN t : a < b => f(a) < f(b) BY <1>0, <1>1
<1>4. \A b \in DOMAIN t : f(b) # c /\ (c = 1 => c < f(b)) /\ f(b) \in Nat /\ f(b) >= b
  BY <1>0, <1>1
<1> HIDE DEF f
<1>5. Queued(n, t, h, k) BY <1>1, <1>3 DEF Queued
<1>6. ASSUME NEW b \in DOMAIN t
      PROVE  (d = "redis" => s[c] < t[b]) /\ s[c] # t[b]
  <2>1. f(b) < c \/ c < f(b) BY <1>0, <1>4
  <2>2. f(b) < c => s[f(b)] < s[c] BY <1>1 DEF Queued
  <2>3. c < f(b) => s[c] < s[f(b)] BY <1>1 DEF Queued
  <2>4. d = "redis" => c < f(b) BY <1>4
  <2>5. s[f(b)] \in Nat /\ s[c] \in Nat BY <1>0, <1>1 DEF Message
  <2>. QED BY <1>1, <2>1, <2>2, <2>3, <2>4, <2>5
<1>7. Holding(d, n, q, t)
  <2>1. ~Lent(d, q) BY DEF Lent
  <2>2. s[c] <= n BY DEF Queued
  <2>3. p.marked = 0 /\ 0 <= Len(t) BY <1>1 DEF Holding
  <2>. QED BY <1>2, <1>6, <2>1, <2>2, <2>3 DEF Holding
<1>8. Passed(d, q, t, h, k) BY DEF Passed
<1>9. InTurn(d, q, t, h, k) BY <1>1, <1>2 DEF InTurn
<1>10. Fresh(q, t, h)
  <2>1. p.out = 0 /\ p.pc # "cut" BY DEF Holding, Lent, States
  <2>2. \A b \in DOMAIN s : b > 0 /\ Times(s[b], h) < p.starts BY <2>1 DEF Fresh
  <2>. QED BY <1>1, <1>2, <2>2 DEF Fresh
<1>11. Once(d, q, t, h) BY <1>1, <1>2 DEF Once
<1>. QED BY <1>1, <1>5, <1>7, <1>8, <1>9, <1>10, <1>11 DEF t

\* kafka: the records of a fetch come into hand.
LEMMA Polled ==
    ASSUME NEW d, NEW n, NEW p, NEW s, NEW h, NEW k, Subscriber(d, n, p, s, h, k),
           NEW q \in Process, NEW l \in Nat, q.pc = p.pc,
           q.out = p.out + l, q.marked = p.out,
           q.starts = p.starts, d = "kafka", p.pc # "off", p.hand = <<>>,
           p.out + l <= Len(s), Len(q.hand) = l,
           \A a \in DOMAIN q.hand : a \in 1..l /\ q.hand[a] = s[p.out + a]
    PROVE  Subscriber(d, n, q, s, h, k)
<1> USE DEF Subscriber, Typed
<1>0. p.out \in Nat /\ Behind(p) = p.out /\ Behind(q) = p.out
  <2>1. p.out \in Nat /\ q.out \in Nat BY DEF Process
  <2>2. Behind(p) = p.out BY <2>1, NothingInHand
  <2>3. Behind(q) = (p.out + l) - l BY DEF Behind
  <2>. QED BY <2>1, <2>2, <2>3
<1>1. \A a \in DOMAIN q.hand : p.out + a \in DOMAIN s /\ p.out + a > p.out
  <2>1. Len(s) \in Nat /\ DOMAIN s = 1..Len(s) OBVIOUS
  <2>. QED BY <1>0, <2>1
<1>2. Holding(d, n, q, s) BY <1>0 DEF Holding, Lent
<1>3. Passed(d, q, s, h, k) BY <1>0 DEF Passed
<1>4. InTurn(d, q, s, h, k) BY <1>1 DEF InTurn
<1>5. Fresh(q, s, h)
  <2>1. \A a \in DOMAIN s : a > q.out => a > p.out BY <1>0
  <2>2. p.pc # "cut" BY DEF States
  <2>3. \A a \in DOMAIN q.hand : Times(q.hand[a], h) < p.starts BY <1>1, <2>2 DEF Fresh
  <2>. QED BY <2>1, <2>2, <2>3 DEF Fresh
<1>6. Once(d, q, s, h) BY DEF Once
<1>. QED BY <1>2, <1>3, <1>4, <1>5, <1>6

\* kafka: the records of a fetch with errors are dropped.
LEMMA Skipped ==
    ASSUME NEW d, NEW n, NEW p, NEW s, NEW h, NEW k, Subscriber(d, n, p, s, h, k),
           NEW q \in Process, NEW l \in Nat, q.pc = p.pc, q.hand = <<>>,
           q.out = p.out + l, q.marked = p.out,
           q.starts = p.starts, d = "kafka", p.pc # "off", p.hand = <<>>,
           p.out + l <= Len(s), NEW e, e = k \cup {s[p.out + a] : a \in 1..l}
    PROVE  Subscriber(d, n, q, s, h, e)
<1> USE DEF Subscriber, Typed
<1>0. /\ p.out \in Nat /\ Behind(p) = p.out /\ Behind(q) = p.out + l
      /\ DOMAIN q.hand = {} /\ Len(q.hand) = 0 /\ q.out \in Nat
  BY NothingInHand DEF Process
<1>1. \A a \in 1..l : p.out + a \in DOMAIN s
  <2>1. Len(s) \in Nat /\ DOMAIN s = 1..Len(s) OBVIOUS
  <2>. QED BY <1>0, <2>1
<1>2. e \in SUBSET Message /\ k \subseteq e BY <1>1
<1>3. Queued(n, s, h, e) BY <1>1 DEF Queued
<1>4. Holding(d, n, q, s)
  <2>1. p.out <= p.out + l BY <1>0
  <2>. QED BY <1>0, <2>1 DEF Holding, Lent
<1>5. Passed(d, q, s, h, e)
  <2>1. ASSUME NEW a \in 1..(p.out + l), ~(a \in 1..p.out) PROVE s[a] \in e
    <3>1. a - p.out \in 1..l /\ p.out + (a - p.out) = a BY <1>0, <2>1
    <3>. QED BY <3>1
  <2>2. \A a \in 1..p.out : s[a] \in Ranges(h) \cup k BY <1>0 DEF Passed
  <2>. QED BY <1>0, <1>2, <2>1, <2>2 DEF Passed
<1>6. InTurn(d, q, s, h, e) BY <1>0, <1>2 DEF InTurn, Later
<1>7. Fresh(q, s, h)
  <2>1. \A a \in DOMAIN s : a > q.out => a > p.out BY <1>0
  <2>. QED BY <1>0, <2>1 DEF Fresh
<1>8. Once(d, q, s, h) BY DEF Once
<1>9. Ordered(d, h, e) BY <1>2 DEF Ordered
<1>. QED BY <1>2, <1>3, <1>4, <1>5, <1>6, <1>7, <1>8, <1>9

LEMMA Shifted ==
    ASSUME NEW a \in Int, NEW b \in Int, NEW m \in Int, NEW l \in Int, NEW w \in Int,
           1 <= a, a <= b - m, l = w - m, b <= w, 0 <= m
    PROVE  a \in 1..l /\ m + a \in 1..b
OBVIOUS

\* kafka: the offset moves over what was marked.
LEMMA Committed ==
    ASSUME NEW d, NEW n, NEW p, NEW s, NEW h, NEW k, Subscriber(d, n, p, s, h, k),
           NEW q \in Process, q.pc = p.pc, q.hand = p.hand,
           q.out = p.out - p.marked, q.marked = 0,
           q.starts = p.starts, d = "kafka", p.pc # "off"
    PROVE  Subscriber(d, n, q, SubSeq(s, p.marked + 1, Len(s)), h, k)
<1> DEFINE t == SubSeq(s, p.marked + 1, Len(s))
<1> USE DEF Subscriber, Typed
<1>0. /\ p.out \in Nat /\ p.marked \in Nat /\ Len(p.hand) \in Nat
      /\ p.out <= Len(s) /\ p.marked <= p.out - Len(p.hand)
      /\ DOMAIN p.hand = 1..Len(p.hand) /\ Len(s) \in Nat /\ DOMAIN s = 1..Len(s)
  BY DEF Holding, Lent, Process, Behind
<1>1. /\ Behind(q) = Behind(p) - p.marked /\ Behind(p) = p.out - Len(p.hand)
      /\ Behind(p) \in Int /\ Behind(q) \in Int /\ Behind(p) <= Len(s) - Len(p.hand)
  BY <1>0 DEF Behind
<1>2. /\ t \in Seq(Message) /\ Len(t) = Len(s) - p.marked
      /\ \A a \in DOMAIN t : a \in Nat /\ p.marked + a \in DOMAIN s /\ t[a] = s[p.marked + a]
  <2>1. p.marked <= Len(s) /\ p.marked \in Nat BY <1>0
  <2>. QED BY <2>1, CutHead
<1> HIDE DEF t
<1>3. DOMAIN t = 1..Len(t) /\ Len(t) \in Nat BY <1>2
<1>4. Queued(n, t, h, k)
  <2>1. \A a, b \in DOMAIN t : a < b => t[a] < t[b]
    <3> SUFFICES ASSUME NEW a \in DOMAIN t, NEW b \in DOMAIN t, a < b PROVE t[a] < t[b]
      OBVIOUS
    <3>1. p.marked + a < p.marked + b BY <1>0, <1>2
    <3>. QED BY <3>1, <1>2 DEF Queued
  <2>. QED BY <2>1, <1>2 DEF Queued
<1>5. Holding(d, n, q, t)
  <2>1. Lent(d, q) /\ Lent(d, p) BY DEF Lent
  <2>2. q.out <= Len(t) BY <1>0, <1>2
  <2>3. 0 <= Behind(q) BY <1>0, <1>1
  <2>4. ASSUME NEW a \in DOMAIN p.hand PROVE p.hand[a] = t[Behind(q) + a]
    <3>1. p.hand[a] = s[Behind(p) + a] BY <2>1 DEF Holding
    <3>2. Behind(q) + a \in 1..Len(t) /\ p.marked + (Behind(q) + a) = Behind(p) + a
      <4>1. a \in Int /\ 1 <= a /\ a <= Len(p.hand) BY <1>0
      <4>2. 0 <= Behind(q) /\ Behind(q) + p.marked + Len(p.hand) <= Len(s) BY <1>0, <1>1
      <4>3. Len(t) = Len(s) - p.marked BY <1>2
      <4> DEFINE b == Behind(q)
                 m == p.marked
      <4>4. /\ b \in Int /\ m \in Int /\ Behind(p) = b + m /\ 0 <= b /\ Len(t) = Len(s) - m
            /\ b + m + Len(p.hand) <= Len(s)
        BY <4>2, <4>3, <1>0, <1>1
      <4> HIDE DEF b, m, Subscriber, Typed
      <4>5. b + a \in Int /\ 1 <= b + a /\ b + a <= Len(t) /\ m + (b + a) = Behind(p) + a
        BY <4>1, <4>4, <1>0
      <4>. QED BY <4>5, <1>3 DEF b, m
    <3>. QED BY <3>1, <3>2, <1>2, <1>3
  <2>. QED BY <2>1, <2>2, <2>3, <2>4 DEF Holding
<1>6. Passed(d, q, t, h, k)
  <2> SUFFICES ASSUME NEW a \in 1..Behind(q) PROVE t[a] \in Ranges(h) \cup k
    BY DEF Passed
  <2>1. a \in DOMAIN t /\ p.marked + a \in 1..Behind(p)
    <3>1. a \in Int /\ 1 <= a /\ a <= Behind(p) - p.marked BY <1>1
    <3>2. Len(t) = Len(s) - p.marked BY <1>2
    <3>3. Behind(p) <= Len(s) BY <1>0, <1>1
    <3>4. p.marked \in Int /\ 0 <= p.marked /\ Behind(p) \in Int /\ Len(s) \in Int /\ Len(t) \in Int
      BY <1>0, <1>1, <1>3
    <3> HIDE DEF Subscriber, Typed
    <3>5. a \in 1..Len(t) /\ p.marked + a \in 1..Behind(p) BY <3>1, <3>2, <3>3, <3>4, Shifted
    <3>. QED BY <3>5, <1>3
  <2>. QED BY <2>1, <1>2 DEF Passed
<1>7. InTurn(d, q, t, h, k) BY <1>2 DEF InTurn
<1>8. Fresh(q, t, h)
  <2>1. \A a \in DOMAIN t : a > q.out => p.marked + a > p.out BY <1>0, <1>2
  <2>. QED BY <1>2, <2>1 DEF Fresh
<1>9. Once(d, q, t, h) BY DEF Once
<1>. QED BY <1>2, <1>4, <1>5, <1>6, <1>7, <1>8, <1>9 DEF t

\* The history after a message x that was due.
LEMMA Noted ==
    ASSUME NEW d, NEW n, NEW p, NEW s, NEW h, NEW k, Subscriber(d, n, p, s, h, k),
           NEW x \in Message, x <= n, d # "memory" => Later(x, h, k),
           Times(x, h) < p.starts, d \in {"memory", "redis"} => x \notin Ranges(h)
    PROVE  /\ Append(h, x) \in Seq(Message)
           /\ Ranges(Append(h, x)) = Ranges(h) \cup {x}
           /\ \A a \in DOMAIN Append(h, x) : Append(h, x)[a] <= n
           /\ Ordered(d, Append(h, x), k)
           /\ \A m \in Message : Times(m, Append(h, x)) <= p.starts
           /\ \A m \in Message \ {x} : Times(m, Append(h, x)) = Times(m, h)
           /\ d \in {"memory", "redis"} => \A m \in Message : Times(m, Append(h, x)) <= 1
           /\ \A y \in Message : Later(y, h, k) /\ (x <= y \/ y \in Ranges(h) \cup k)
                 => Later(y, Append(h, x), k)
<1> DEFINE g == Append(h, x)
<1> USE DEF Subscriber, Typed
<1>1. /\ g \in Seq(Message) /\ Len(g) = Len(h) + 1 /\ Len(h) \in Nat
      /\ DOMAIN g = 1..(Len(h) + 1) /\ DOMAIN h = 1..Len(h)
      /\ \A a \in DOMAIN h : a <= Len(h) /\ g[a] = h[a]
      /\ g[Len(h) + 1] = x
      /\ Ranges(g) = Ranges(h) \cup {x}
  BY Appended
<1>2. \A m \in Message : Times(m, g) = IF m = x THEN Times(m, h) + 1 ELSE Times(m, h)
  BY TimesMore
<1> HIDE DEF g
<1>3. \A a \in DOMAIN g : (a \in DOMAIN h /\ g[a] = h[a]) \/ (a = Len(h) + 1 /\ g[a] = x)
  BY <1>1
<1>4. \A a \in DOMAIN g : g[a] <= n BY <1>3 DEF Queued
<1>5. Ordered(d, g, k)
  <2> SUFFICES ASSUME d # "memory", NEW a \in DOMAIN g
               PROVE  \/ g[a] \in {g[b] : b \in 1..(a - 1)} \cup k
                      \/ \A m \in {g[b] : b \in 1..(a - 1)} : m < g[a]
    BY DEF Ordered
  <2>1. \A b \in 1..(a - 1) : b \in DOMAIN h /\ g[b] = h[b] BY <1>1
  <2>2. {g[b] : b \in 1..(a - 1)} = {h[b] : b \in 1..(a - 1)} BY <2>1
  <2>3. CASE a \in DOMAIN h /\ g[a] = h[a] BY <2>2, <2>3 DEF Ordered
  <2>4. CASE a = Len(h) + 1 /\ g[a] = x
    <3>1. a - 1 = Len(h) BY <2>4, <1>1
    <3>2. {h[b] : b \in 1..(a - 1)} = Ranges(h) BY <3>1, <1>1 DEF Ranges
    <3>. QED BY <2>2, <2>4, <3>2 DEF Later
  <2>. QED BY <2>3, <2>4, <1>3
<1>6. \A m \in Message : Times(m, g) <= p.starts
  <2> SUFFICES ASSUME NEW m \in Message PROVE Times(m, g) <= p.starts OBVIOUS
  <2>1. Times(m, h) \in Nat /\ p.starts \in Nat /\ Times(m, h) <= p.starts
    BY TimesType DEF Process, Fresh
  <2>. QED BY <2>1, <1>2
<1>7. d \in {"memory", "redis"} => \A m \in Message : Times(m, g) <= 1
  <2> SUFFICES ASSUME d \in {"memory", "redis"}, NEW m \in Message PROVE Times(m, g) <= 1 OBVIOUS
  <2>1. Times(m, h) <= 1 BY DEF Once
  <2>2. Times(x, h) = 0 BY TimesType
  <2>. QED BY <2>1, <2>2, <1>2
<1>8. ASSUME NEW y \in Message, Later(y, h, k), x <= y \/ y \in Ranges(h) \cup k
      PROVE  Later(y, g, k)
  <2>1. CASE y \in Ranges(h) \cup k BY <2>1, <1>1 DEF Later
  <2>2. CASE y \notin Ranges(h) \cup k
    <3>1. x <= y /\ \A z \in Ranges(h) : z < y BY <2>2, <1>8 DEF Later
    <3>2. x = y \/ x < y BY <3>1 DEF Message
    <3>. QED BY <3>1, <3>2, <1>1 DEF Later
  <2>. QED BY <2>1, <2>2
<1>. QED BY <1>1, <1>2, <1>4, <1>5, <1>6, <1>7, <1>8 DEF g

\* What is in hand is due.
LEMMA Due ==
    ASSUME NEW d, NEW n, NEW p, NEW s, NEW h, NEW k, Subscriber(d, n, p, s, h, k),
           p.hand # <<>>
    PROVE  /\ p.hand[1] \in Message /\ p.hand[1] = Head(p.hand) /\ p.hand[1] <= n
           /\ 1 \in DOMAIN p.hand /\ Len(p.hand) >= 1
           /\ p.pc # "off"
           /\ d # "memory" => Later(p.hand[1], h, k)
           /\ Times(p.hand[1], h) < p.starts
           /\ d \in {"memory", "redis"} => p.hand[1] \notin Ranges(h)
           /\ Lent(d, p) => Behind(p) + 1 \in DOMAIN s /\ p.hand[1] = s[Behind(p) + 1]
<1> USE DEF Subscriber, Typed
<1>1. p.hand \in Seq(Message) BY DEF Process
<1>2. p.hand[1] \in Message /\ p.hand[1] = Head(p.hand) /\ 1 \in DOMAIN p.hand /\ Len(p.hand) >= 1
      /\ Len(p.hand) \in Nat
  BY <1>1, Dropped
<1>3. ASSUME Lent(d, p) PROVE Behind(p) + 1 \in DOMAIN s /\ p.hand[1] = s[Behind(p) + 1]
  <2>1. p.hand[1] = s[Behind(p) + 1] /\ p.marked <= Behind(p) BY <1>2, <1>3 DEF Holding
  <2>2. p.out <= Len(s) /\ p.out \in Nat /\ p.marked \in Nat /\ Len(s) \in Nat BY DEF Holding, Process
  <2>3. Behind(p) = p.out - Len(p.hand) BY DEF Behind
  <2>4. Behind(p) + 1 \in 1..Len(s) BY <2>1, <2>2, <2>3, <1>2
  <2>. QED BY <2>1, <2>4
<1>4. p.hand[1] <= n
  <2>1. CASE Lent(d, p) BY <2>1, <1>3 DEF Queued
  <2>2. CASE ~Lent(d, p) BY <2>2, <1>2 DEF Holding
  <2>. QED BY <2>1, <2>2
<1>5. /\ d # "memory" => Later(p.hand[1], h, k)
      /\ Times(p.hand[1], h) < p.starts
      /\ d \in {"memory", "redis"} => p.hand[1] \notin Ranges(h)
      /\ p.pc # "off"
  BY <1>2 DEF InTurn, Fresh, Once, Holding
<1>. QED BY <1>2, <1>3, <1>4, <1>5

\* rabbitmq: handled and acknowledged.
LEMMA HandledAcked ==
    ASSUME NEW d, NEW n, NEW p, NEW s, NEW h, NEW k, Subscriber(d, n, p, s, h, k),
           NEW q \in Process, q.pc = p.pc, q.hand = Tail(p.hand), q.out = 0,
           q.marked = p.marked, q.starts = p.starts, p.hand # <<>>, d = "rabbitmq", p.pc # "cut"
    PROVE  Subscriber(d, n, q, Tail(s), Append(h, Head(p.hand)), k)
<1> DEFINE x == p.hand[1]
           t == Tail(s)
           g == Append(h, x)
<1> USE DEF Subscriber, Typed
<1>0. Lent(d, p) /\ Lent(d, q) BY DEF Lent
<1>1. Behind(p) = 0 /\ p.out \in Nat /\ p.hand \in Seq(Message) /\ p.marked = 0
      /\ p.starts \in Nat
  BY <1>0 DEF Holding, Process
<1>2. x \in Message /\ x = Head(p.hand) /\ x <= n /\ Later(x, h, k) /\ Times(x, h) < p.starts
      /\ p.pc # "off"
  BY Due
<1>3. 1 \in DOMAIN s /\ x = s[1]
  <2>1. Behind(p) + 1 = 1 BY <1>1
  <2>. QED BY <1>0, <2>1, Due
<1>4. Len(p.hand) = 1 /\ p.out = 1
  <2>1. Len(p.hand) <= 1 /\ 1 \in DOMAIN p.hand BY Due DEF Holding
  <2>2. Len(p.hand) = 1 BY <2>1, <1>1, Single
  <2>. QED BY <2>2, <1>1 DEF Behind
<1>5. Len(q.hand) = 0 /\ DOMAIN q.hand = {} /\ Behind(q) = 0
  <2>1. q.hand \in Seq(Message) /\ Len(q.hand) = 0 BY <1>1, <1>4, Dropped
  <2>2. DOMAIN q.hand = {} BY <2>1, NoneLeft
  <2>3. Behind(q) = 0 - 0 BY <2>1 DEF Behind
  <2>. QED BY <2>1, <2>2, <2>3
<1>6. /\ g \in Seq(Message)
      /\ Ranges(g) = Ranges(h) \cup {x}
      /\ \A a \in DOMAIN g : g[a] <= n
      /\ Ordered(d, g, k)
      /\ \A m \in Message : Times(m, g) <= p.starts
      /\ \A m \in Message \ {x} : Times(m, g) = Times(m, h)
      /\ \A y \in Message : Later(y, h, k) /\ (x <= y \/ y \in Ranges(h) \cup k)
            => Later(y, g, k)
  BY <1>2, Noted
<1>7. /\ t \in Seq(Message) /\ Len(t) \in Nat
      /\ \A a \in DOMAIN t : a \in Nat /\ 1 < a + 1 /\ a + 1 \in DOMAIN s /\ t[a] = s[a + 1]
  <2>1. s # <<>> BY <1>3
  <2>2. t \in Seq(Message) /\ \A a \in DOMAIN t : a + 1 \in DOMAIN s /\ t[a] = s[a + 1]
    BY <2>1, Dropped
  <2>. QED BY <2>2
<1> HIDE DEF t, g, x
<1>8. \A a \in DOMAIN t : x < t[a] /\ t[a] \in Message BY <1>3, <1>7 DEF Queued
<1>9. Typed(d, n, q, t, g, k) BY <1>6, <1>7
<1>10. Queued(n, t, g, k)
  <2>1. \A a, b \in DOMAIN t : a < b => t[a] < t[b]
    <3> SUFFICES ASSUME NEW a \in DOMAIN t, NEW b \in DOMAIN t, a < b PROVE t[a] < t[b]
      OBVIOUS
    <3>1. a + 1 < b + 1 BY <1>7
    <3>. QED BY <3>1, <1>7 DEF Queued
  <2>. QED BY <2>1, <1>6, <1>7 DEF Queued
<1>11. Holding(d, n, q, t) BY <1>0, <1>1, <1>2, <1>5, <1>7 DEF Holding
<1>12. Passed(d, q, t, g, k) BY DEF Passed
<1>13. InTurn(d, q, t, g, k)
  <2>1. ASSUME NEW a \in DOMAIN t PROVE Later(t[a], g, k)
    <3>1. Later(t[a], h, k) BY <1>7 DEF InTurn
    <3>2. x <= t[a] BY <1>2, <1>8 DEF Message
    <3>. QED BY <3>1, <3>2, <1>6, <1>8
  <2>. QED BY <2>1, <1>5 DEF InTurn
<1>14. Fresh(q, t, g)
  <2>1. ASSUME NEW a \in DOMAIN t PROVE Times(t[a], g) < p.starts
    <3>1. t[a] # x BY <1>2, <1>8 DEF Message
    <3>2. Times(t[a], h) < p.starts BY <1>2, <1>4, <1>7 DEF Fresh
    <3>. QED BY <3>1, <3>2, <1>6, <1>8
  <2>. QED BY <2>1, <1>2, <1>5, <1>6 DEF Fresh
<1>15. Once(d, q, t, g) BY DEF Once
<1>16. Subscriber(d, n, q, t, g, k)
  BY <1>6, <1>9, <1>10, <1>11, <1>12, <1>13, <1>14, <1>15
<1>. QED BY <1>2, <1>16 DEF t, g

\* kafka: the message stays behind the process until it is committed.
LEMMA HandledPolled ==
    ASSUME NEW d, NEW n, NEW p, NEW s, NEW h, NEW k, Subscriber(d, n, p, s, h, k),
           NEW q \in Process, q.pc = p.pc, q.hand = Tail(p.hand), q.out = p.out,
           q.marked = p.marked, q.starts = p.starts, p.hand # <<>>, d = "kafka"
    PROVE  Subscriber(d, n, q, s, Append(h, Head(p.hand)), k)
<1> DEFINE x == p.hand[1]
           g == Append(h, x)
<1> USE DEF Subscriber, Typed
<1>0. Lent(d, p) /\ Lent(d, q) BY DEF Lent
<1>1. /\ p.out \in Nat /\ p.hand \in Seq(Message) /\ Len(p.hand) \in Nat /\ p.marked \in Nat
      /\ p.starts \in Nat /\ Behind(p) = p.out - Len(p.hand) /\ p.marked <= Behind(p)
      /\ p.out <= Len(s)
  BY <1>0 DEF Holding, Process, Behind
<1>2. /\ x \in Message /\ x = Head(p.hand) /\ x <= n /\ Later(x, h, k) /\ Times(x, h) < p.starts
      /\ p.pc # "off" /\ Len(p.hand) >= 1
  BY Due
<1>3. Behind(p) + 1 \in DOMAIN s /\ x = s[Behind(p) + 1] BY <1>0, Due
<1>4. /\ q.hand \in Seq(Message) /\ Len(q.hand) = Len(p.hand) - 1 /\ Len(q.hand) \in Nat
      /\ \A a \in DOMAIN q.hand : /\ a \in Nat /\ 1 <= a /\ a + 1 \in DOMAIN p.hand
                                  /\ q.hand[a] = p.hand[a + 1] /\ q.hand[a] \in Message
  <2>1. /\ q.hand \in Seq(Message) /\ Len(q.hand) = Len(p.hand) - 1
        /\ \A a \in DOMAIN q.hand : a + 1 \in DOMAIN p.hand /\ q.hand[a] = p.hand[a + 1]
    BY <1>1, Dropped
  <2>. QED BY <2>1
<1>5. Behind(q) = Behind(p) + 1 /\ Behind(p) \in Nat /\ Behind(q) <= p.out
  <2>1. Behind(q) = p.out - (Len(p.hand) - 1) BY <1>4 DEF Behind
  <2>. QED BY <2>1, <1>1, <1>2
<1>6. /\ g \in Seq(Message)
      /\ Ranges(g) = Ranges(h) \cup {x}
      /\ \A a \in DOMAIN g : g[a] <= n
      /\ Ordered(d, g, k)
      /\ \A m \in Message : Times(m, g) <= p.starts
      /\ \A m \in Message \ {x} : Times(m, g) = Times(m, h)
      /\ \A y \in Message : Later(y, h, k) /\ (x <= y \/ y \in Ranges(h) \cup k)
            => Later(y, g, k)
  BY <1>2, Noted
<1> HIDE DEF g, x
<1>7. \A a \in DOMAIN s : a > Behind(p) + 1 => x < s[a] /\ x # s[a]
  <2>1. x \in Nat /\ \A a \in DOMAIN s : s[a] \in Nat /\ a \in Nat BY <1>2 DEF Message
  <2>2. ASSUME NEW a \in DOMAIN s, a > Behind(p) + 1 PROVE x < s[a]
    <3>1. Behind(p) + 1 < a BY <2>1, <2>2, <1>5
    <3>. QED BY <3>1, <1>3 DEF Queued
  <2>. QED BY <2>1, <2>2
<1>8. \A a \in DOMAIN q.hand : /\ Behind(p) + 1 + a \in DOMAIN s
                              /\ q.hand[a] = s[Behind(p) + 1 + a] /\ x < q.hand[a]
  <2> SUFFICES ASSUME NEW a \in DOMAIN q.hand
               PROVE  /\ Behind(p) + 1 + a \in DOMAIN s
                      /\ q.hand[a] = s[Behind(p) + 1 + a] /\ x < q.hand[a]
    OBVIOUS
  <2> DEFINE b == Behind(p)
             l == Len(p.hand)
  <2>1. /\ a \in Nat /\ 1 <= a /\ a + 1 \in DOMAIN p.hand /\ q.hand[a] = p.hand[a + 1]
        /\ a + 1 <= l
    BY <1>1, <1>4
  <2>2. p.hand[a + 1] = s[b + (a + 1)] BY <2>1, <1>0 DEF Holding
  <2>3. b \in Nat /\ l \in Nat /\ b + l <= Len(s) /\ Len(s) \in Nat BY <1>1, <1>5
  <2>4. DOMAIN s = 1..Len(s) OBVIOUS
  <2> HIDE DEF b, l, Subscriber, Typed
  <2>5. b + (a + 1) = b + 1 + a /\ b + 1 + a \in 1..Len(s) /\ b + 1 + a > b + 1
    BY <2>1, <2>3
  <2>. QED BY <2>1, <2>2, <2>4, <2>5, <1>7 DEF b
<1>9. Typed(d, n, q, s, g, k) BY <1>6
<1>10. Queued(n, s, g, k) BY <1>6 DEF Queued
<1>11. Holding(d, n, q, s)
  <2>1. q.marked <= Behind(q) BY <1>1, <1>5
  <2>2. \A a \in DOMAIN q.hand : q.hand[a] = s[Behind(q) + a] BY <1>5, <1>8
  <2>. QED BY <2>1, <2>2, <1>0, <1>1, <1>2 DEF Holding
<1>12. Passed(d, q, s, g, k)
  <2> SUFFICES ASSUME NEW a \in 1..Behind(q) PROVE s[a] \in Ranges(g) \cup k
    BY DEF Passed
  <2>1. a \in 1..Behind(p) \/ a = Behind(p) + 1 BY <1>5
  <2>. QED BY <2>1, <1>3, <1>6 DEF Passed
<1>13. InTurn(d, q, s, g, k)
  <2>1. ASSUME NEW a \in DOMAIN s PROVE Later(s[a], g, k)
    <3>1. Later(s[a], h, k) /\ s[a] \in Message BY DEF InTurn
    <3>2. a \in 1..Behind(p) \/ a = Behind(p) + 1 \/ a > Behind(p) + 1 BY <1>5
    <3>3. CASE a \in 1..Behind(p) BY <3>1, <3>3, <1>6 DEF Passed
    <3>4. CASE a = Behind(p) + 1 BY <3>4, <1>3, <1>6 DEF Later
    <3>5. CASE a > Behind(p) + 1
      <4>1. x <= s[a] BY <3>1, <3>5, <1>2, <1>7 DEF Message
      <4>. QED BY <4>1, <3>1, <1>6
    <3>. QED BY <3>2, <3>3, <3>4, <3>5
  <2>2. \A a \in DOMAIN q.hand : Later(q.hand[a], g, k) BY <2>1, <1>8
  <2>. QED BY <2>1, <2>2 DEF InTurn
<1>14. Fresh(q, s, g)
  <2>1. ASSUME NEW a \in DOMAIN q.hand PROVE Times(q.hand[a], g) < p.starts
    <3>1. q.hand[a] # x BY <1>2, <1>4, <1>8 DEF Message
    <3>2. Times(q.hand[a], h) < p.starts BY <1>4 DEF Fresh
    <3>. QED BY <3>1, <3>2, <1>4, <1>6
  <2>2. ASSUME NEW a \in DOMAIN s, a > p.out, p.pc # "cut" PROVE Times(s[a], g) < p.starts
    <3>1. a > Behind(p) + 1 BY <2>2, <1>1, <1>5
    <3>2. s[a] # x /\ s[a] \in Message BY <3>1, <1>7
    <3>3. Times(s[a], h) < p.starts BY <2>2, <1>2 DEF Fresh
    <3>. QED BY <3>2, <3>3, <1>6
  <2>. QED BY <2>1, <2>2, <1>2, <1>6 DEF Fresh
<1>15. Once(d, q, s, g) BY DEF Once
<1>16. Subscriber(d, n, q, s, g, k)
  BY <1>6, <1>9, <1>10, <1>11, <1>12, <1>13, <1>14, <1>15
<1>. QED BY <1>2, <1>16 DEF g

\* memory, redis, and rabbitmq without its connection: the message was in hand only.
LEMMA HandledTaken ==
    ASSUME NEW d, NEW n, NEW p, NEW s, NEW h, NEW k, Subscriber(d, n, p, s, h, k),
           NEW q \in Process, q.pc = p.pc, q.bound = p.bound, q.hand = Tail(p.hand), q.out = p.out,
           q.marked = p.marked, q.starts = p.starts, p.hand # <<>>, ~Lent(d, p)
    PROVE  Subscriber(d, n, q, s, Append(h, Head(p.hand)), k)
<1> DEFINE x == p.hand[1]
           g == Append(h, x)
<1> USE DEF Subscriber, Typed
<1>0. ~Lent(d, q) /\ d # "kafka" /\ (d = "rabbitmq" => p.pc = "cut") BY DEF Lent
<1>1. p.out = 0 /\ p.hand \in Seq(Message) /\ p.marked = 0 /\ p.starts \in Nat
  BY <1>0 DEF Holding, Process
<1>2. /\ x \in Message /\ x = Head(p.hand) /\ x <= n /\ Times(x, h) < p.starts /\ p.pc # "off"
      /\ d # "memory" => Later(x, h, k)
      /\ d \in {"memory", "redis"} => x \notin Ranges(h)
  BY Due
<1>3. /\ 1 \in DOMAIN p.hand
      /\ \A b \in DOMAIN s :
            /\ s[b] \in Message
            /\ d = "rabbitmq" => x <= s[b]
            /\ d = "redis" => x < s[b]
            /\ d = "memory" => x # s[b]
  BY Due DEF Holding
<1>4. Len(q.hand) = 0 /\ DOMAIN q.hand = {}
  <2>1. Len(p.hand) <= 1 /\ 1 \in DOMAIN p.hand BY <1>0, <1>3 DEF Holding
  <2>2. Len(p.hand) = 1 BY <2>1, <1>1, Single
  <2>3. q.hand \in Seq(Message) /\ Len(q.hand) = 0 BY <2>2, <1>1, Dropped
  <2>4. DOMAIN q.hand = {} BY <2>3, NoneLeft
  <2>. QED BY <2>3, <2>4
<1>6. /\ g \in Seq(Message)
      /\ Ranges(g) = Ranges(h) \cup {x}
      /\ \A a \in DOMAIN g : g[a] <= n
      /\ Ordered(d, g, k)
      /\ \A m \in Message : Times(m, g) <= p.starts
      /\ \A m \in Message \ {x} : Times(m, g) = Times(m, h)
      /\ d \in {"memory", "redis"} => \A m \in Message : Times(m, g) <= 1
      /\ \A y \in Message : Later(y, h, k) /\ (x <= y \/ y \in Ranges(h) \cup k)
            => Later(y, g, k)
  BY <1>2, Noted
<1> HIDE DEF g, x
<1>7. Typed(d, n, q, s, g, k) BY <1>6
<1>8. Queued(n, s, g, k) BY <1>6 DEF Queued
<1>9. Holding(d, n, q, s) BY <1>0, <1>1, <1>2, <1>4 DEF Holding
<1>10. Passed(d, q, s, g, k) BY <1>0 DEF Passed
<1>11. InTurn(d, q, s, g, k)
  <2>1. ASSUME NEW a \in DOMAIN s, d # "memory" PROVE Later(s[a], g, k)
    <3>1. Later(s[a], h, k) BY <2>1 DEF InTurn
    <3>2. x <= s[a] BY <2>1, <1>0, <1>2, <1>3 DEF Message
    <3>. QED BY <3>1, <3>2, <1>3, <1>6
  <2>. QED BY <2>1, <1>4 DEF InTurn
<1>12. Fresh(q, s, g)
  <2>1. ASSUME NEW a \in DOMAIN s, a > p.out, p.pc # "cut" PROVE Times(s[a], g) < p.starts
    <3>1. s[a] # x BY <2>1, <1>0, <1>2, <1>3 DEF Message
    <3>2. Times(s[a], h) < p.starts BY <2>1, <1>2 DEF Fresh
    <3>. QED BY <3>1, <3>2, <1>3, <1>6
  <2>. QED BY <2>1, <1>2, <1>4, <1>6 DEF Fresh
<1>13. Once(d, q, s, g)
  <2> SUFFICES ASSUME d \in {"memory", "redis"}
               PROVE  \A a \in DOMAIN s : s[a] \notin Ranges(g)
    BY <1>2, <1>4, <1>6 DEF Once
  <2>1. \A a \in DOMAIN s : x # s[a] BY <1>2, <1>3 DEF Message
  <2>. QED BY <2>1, <1>6 DEF Once
<1>14. Subscriber(d, n, q, s, g, k)
  BY <1>6, <1>7, <1>8, <1>9, <1>10, <1>11, <1>12, <1>13
<1>. QED BY <1>2, <1>14 DEF g

LEMMA Remains ==
    ASSUME NEW S, NEW s \in Seq(S), NEW a \in Nat, a <= Len(s), NEW m \in Ranges(s)
    PROVE  m \in Ranges(SubSeq(s, a + 1, Len(s))) \/ \E b \in 1..a : m = s[b]
<1>1. PICK c \in DOMAIN s : m = s[c] BY DEF Ranges
<1>2. CASE c <= a
  <2>1. c \in 1..a BY <1>2
  <2>. QED BY <1>1, <2>1
<1>3. CASE ~(c <= a)
  <2> DEFINE t == SubSeq(s, a + 1, Len(s))
  <2>1. t \in Seq(S) /\ Len(t) = Len(s) - a BY CutHead
  <2>2. c - a \in 1..(Len(s) - a) /\ a + (c - a) = c BY <1>3
  <2>3. c - a \in DOMAIN t BY <2>1, <2>2
  <2>4. t[c - a] = s[a + (c - a)] BY <2>3, CutHead
  <2>. QED BY <1>1, <2>2, <2>3, <2>4 DEF Ranges
<1>. QED BY <1>2, <1>3

-----------------------------------------------------------------------------
(* The subscribers of a state, and their steps. *)
Shapes ==
    /\ DOMAIN sub = Instance /\ sub = [i \in Instance |-> sub[i]]
    /\ store = [i \in Instance |-> store[i]]
    /\ handled = [i \in Instance |-> handled[i]]
    /\ skipped = [i \in Instance |-> skipped[i]]

Sound(i) == Subscriber(driver, Len(result), sub[i], store[i], handled[i], skipped[i])

Content(i) == Ranges(handled[i]) \cup Ranges(store[i]) \cup skipped[i]

Subscribers ==
    /\ Shapes
    /\ \A i \in Instance : Sound(i)
    /\ driver \in Drivers
    /\ durable \in BOOLEAN
    /\ driver # "rabbitmq" => durable = FALSE

\* A step of the subscriber i leaves the rest alone, and loses no message where
\* none may be lost.
Becomes(i) ==
    /\ UNCHANGED <<driver, durable, link, result, confirms>>
    /\ Shapes'
    /\ \A j \in Instance \ {i} : /\ sub'[j] = sub[j] /\ store'[j] = store[j]
                                 /\ handled'[j] = handled[j] /\ skipped'[j] = skipped[j]
    /\ Subscriber(driver, Len(result), sub'[i], store'[i], handled'[i], skipped'[i])
    /\ durable \/ driver = "kafka" =>
          Ranges(handled[i]) \cup Ranges(store[i]) \cup skipped[i] \subseteq
          Ranges(handled'[i]) \cup Ranges(store'[i]) \cup skipped'[i]

LEMMA AfterMoved ==
    ASSUME Subscribers, NEW i \in Instance, SubscriberOnly, UNCHANGED <<store, handled, skipped>>,
           NEW q \in Process, sub' = [sub EXCEPT ![i] = q],
           q.hand = sub[i].hand, q.out = sub[i].out, q.marked = sub[i].marked,
           q.pc \in States(driver), q.pc # "off", driver = "memory" => q.bound = TRUE,
           \/ q.starts = sub[i].starts /\ sub[i].pc # "off" /\ (sub[i].pc = "cut" <=> q.pc = "cut")
           \/ q.starts = sub[i].starts + 1 /\ sub[i].pc = "off"
    PROVE  Becomes(i)
<1>1. sub'[i] = q /\ Shapes' /\ \A j \in Instance \ {i} : sub'[j] = sub[j]
  BY DEF Subscribers, Shapes
<1>2. Sound(i) BY DEF Subscribers
<1>3. Subscriber(driver, Len(result), q, store[i], handled[i], skipped[i])
  BY <1>2, Moved DEF Sound
<1>. QED BY <1>1, <1>3 DEF Becomes, SubscriberOnly

LEMMA OffType ==
    /\ Off \in Process
    /\ Off.hand = <<>> /\ Off.out = 0 /\ Off.marked = 0 /\ Off.pc = "off"
BY Nothing DEF Process, Off

LEMMA Idle ==
    ASSUME Subscribers, NEW i \in Instance, sub[i].pc = "off"
    PROVE  sub[i].hand = <<>> /\ sub[i].out = 0 /\ sub[i].marked = 0
<1>0. Sound(i) BY DEF Subscribers
<1>1. sub[i] \in Process BY <1>0 DEF Sound, Subscriber, Typed
<1>2. sub[i].hand = <<>> /\ sub[i].out = 0 /\ sub[i].marked \in Nat
  BY <1>0, <1>1 DEF Sound, Subscriber, Holding, Process
<1>3. driver # "kafka" => sub[i].marked = 0 BY <1>0 DEF Sound, Subscriber, Holding
<1>4. driver = "kafka" => sub[i].marked <= Behind(sub[i])
  BY <1>0 DEF Sound, Subscriber, Holding, Lent
<1>5. Behind(sub[i]) = 0 BY <1>2, NothingInHand
<1>. QED BY <1>2, <1>3, <1>4, <1>5

LEMMA SubscribeStep ==
    ASSUME Subscribers, NEW i \in Instance, Subscribe(i)
    PROVE  Becomes(i)
<1>0. Sound(i) BY DEF Subscribers
<1>1. sub[i] \in Process /\ driver \in {"memory", "redis", "rabbitmq", "kafka"}
  BY <1>0 DEF Sound, Subscriber, Typed
<1>2. /\ sub[i].pc = "off" /\ SubscriberOnly /\ UNCHANGED <<store, handled, skipped>>
      /\ sub[i].starts + 1 \in Nat
  BY <1>1 DEF Subscribe, Process
<1>3. "ready" \in States(driver) BY <1>1 DEF States
<1>4. ASSUME NEW b \in BOOLEAN, driver = "memory" => b = TRUE,
             NEW q, q = [Off EXCEPT !.pc = "ready", !.starts = sub[i].starts + 1, !.bound = b],
             sub' = [sub EXCEPT ![i] = q]
      PROVE  Becomes(i)
  <2>1. q \in Process BY <1>2, <1>4, OffType DEF Process
  <2>2. /\ q.pc = "ready" /\ q.hand = Off.hand /\ q.out = Off.out /\ q.marked = Off.marked
        /\ q.starts = sub[i].starts + 1 /\ q.bound = b
    BY <1>4, OffType DEF Process
  <2>. QED BY <1>2, <1>3, <1>4, <2>1, <2>2, OffType, Idle, AfterMoved
<1>5. CASE driver \in {"memory", "rabbitmq"}
  <2>1. (driver \in {"memory", "rabbitmq"}) = TRUE BY <1>5
  <2>2. sub' = [sub EXCEPT ![i] = [Off EXCEPT !.pc = "ready", !.starts = sub[i].starts + 1,
                                             !.bound = TRUE]]
    BY <2>1, Zenon DEF Subscribe
  <2>. QED BY <1>4, <2>2
<1>6. CASE driver \notin {"memory", "rabbitmq"}
  <2>1. (driver \in {"memory", "rabbitmq"}) = FALSE BY <1>6
  <2>2. sub' = [sub EXCEPT ![i] = [Off EXCEPT !.pc = "ready", !.starts = sub[i].starts + 1,
                                             !.bound = FALSE]]
    BY <2>1, Zenon DEF Subscribe
  <2>3. driver # "memory" BY <1>6
  <2>. QED BY <1>4, <2>2, <2>3
<1>. QED BY <1>5, <1>6

LEMMA SubscribeFailsStep ==
    ASSUME Subscribers, NEW i \in Instance, SubscribeFails(i)
    PROVE  Becomes(i)
<1> DEFINE q == [sub[i] EXCEPT !.pc = "cut", !.starts = @ + 1]
<1>0. Sound(i) BY DEF Subscribers
<1>1. sub[i] \in Process BY <1>0 DEF Sound, Subscriber, Typed
<1>2. /\ driver = "rabbitmq" /\ sub[i].pc = "off"
      /\ SubscriberOnly /\ UNCHANGED <<store, handled, skipped>>
      /\ sub' = [sub EXCEPT ![i] = q]
  BY DEF SubscribeFails, Subscribers, Shapes
<1>3. /\ q \in Process /\ q.pc = "cut" /\ q.hand = sub[i].hand /\ q.out = sub[i].out
      /\ q.marked = sub[i].marked /\ q.starts = sub[i].starts + 1
  <2>1. sub[i].starts + 1 \in Nat BY <1>1 DEF Process
  <2>. QED BY <1>1, <2>1 DEF Process
<1>4. "cut" \in States(driver) BY <1>2 DEF States
<1> HIDE DEF q
<1>. QED BY <1>2, <1>3, <1>4, AfterMoved

LEMMA RunSubscriberStep ==
    ASSUME Subscribers, NEW i \in Instance, RunSubscriber(i)
    PROVE  Becomes(i)
<1>0. Sound(i) BY DEF Subscribers
<1>1. sub[i] \in Process /\ driver \in {"memory", "redis", "rabbitmq", "kafka"}
  BY <1>0 DEF Sound, Subscriber, Typed
<1>2. /\ sub[i].pc = "ready"
      /\ SubscriberOnly /\ UNCHANGED <<store, handled, skipped>>
  BY DEF RunSubscriber
<1>3. driver = "memory" => sub[i].bound = TRUE
  BY <1>0, <1>1, <1>2 DEF Sound, Subscriber, Once, Process
<1>4. PICK pc \in {"stopping", "up"} : sub' = [sub EXCEPT ![i] = [sub[i] EXCEPT !.pc = pc]]
  BY DEF RunSubscriber, Subscribers, Shapes
<1> DEFINE q == [sub[i] EXCEPT !.pc = pc]
<1>5. /\ q \in Process /\ q.pc = pc /\ q.hand = sub[i].hand /\ q.out = sub[i].out
      /\ q.marked = sub[i].marked /\ q.starts = sub[i].starts /\ q.bound = sub[i].bound
  BY <1>1 DEF Process
<1>6. pc \in States(driver) BY <1>1 DEF States
<1>7. sub' = [sub EXCEPT ![i] = q] BY <1>4
<1> HIDE DEF q
<1>. QED BY <1>2, <1>3, <1>5, <1>6, <1>7, AfterMoved

LEMMA StopSubscriberStep ==
    ASSUME Subscribers, NEW i \in Instance, StopSubscriber(i)
    PROVE  Becomes(i)
<1>0. Sound(i) BY DEF Subscribers
<1>1. sub[i] \in Process /\ driver \in {"memory", "redis", "rabbitmq", "kafka"}
  BY <1>0 DEF Sound, Subscriber, Typed
<1>2. /\ sub[i].pc \in {"ready", "up", "away"}
      /\ SubscriberOnly /\ UNCHANGED <<store, handled, skipped>>
  BY DEF StopSubscriber
<1>3. driver = "memory" => sub[i].bound = TRUE
  BY <1>0, <1>1, <1>2 DEF Sound, Subscriber, Once, Process
<1>4. PICK pc \in {"stopping", "ready"} :
         sub' = [sub EXCEPT ![i] = [sub[i] EXCEPT !.asked = TRUE, !.pc = pc]]
  BY DEF StopSubscriber, Subscribers, Shapes
<1> DEFINE q == [sub[i] EXCEPT !.asked = TRUE, !.pc = pc]
<1>5. /\ q \in Process /\ q.pc = pc /\ q.hand = sub[i].hand /\ q.out = sub[i].out
      /\ q.marked = sub[i].marked /\ q.starts = sub[i].starts /\ q.bound = sub[i].bound
  BY <1>1 DEF Process
<1>6. pc \in States(driver) BY <1>1 DEF States
<1>7. sub' = [sub EXCEPT ![i] = q] BY <1>4
<1> HIDE DEF q
<1>. QED BY <1>2, <1>3, <1>5, <1>6, <1>7, AfterMoved

LEMMA DisconnectedStep ==
    ASSUME Subscribers, NEW i \in Instance, Disconnected(i) \/ Reconnected(i)
    PROVE  Becomes(i)
<1>0. Sound(i) BY DEF Subscribers
<1>1. sub[i] \in Process /\ driver \in {"memory", "redis", "rabbitmq", "kafka"}
      /\ sub[i].pc \in States(driver)
  BY <1>0 DEF Sound, Subscriber, Typed
<1>2. /\ sub[i].pc \in {"up", "away"}
      /\ SubscriberOnly /\ UNCHANGED <<store, handled, skipped>>
      /\ driver = "redis"
  BY <1>1 DEF Disconnected, Reconnected, States
<1>3. PICK pc \in {"up", "away"} : sub' = [sub EXCEPT ![i] = [sub[i] EXCEPT !.pc = pc]]
  BY DEF Disconnected, Reconnected, Subscribers, Shapes
<1> DEFINE q == [sub[i] EXCEPT !.pc = pc]
<1>4. /\ q \in Process /\ q.pc = pc /\ q.hand = sub[i].hand /\ q.out = sub[i].out
      /\ q.marked = sub[i].marked /\ q.starts = sub[i].starts
  BY <1>1 DEF Process
<1>5. pc \in States(driver) BY <1>2 DEF States
<1>6. sub' = [sub EXCEPT ![i] = q] BY <1>3
<1> HIDE DEF q
<1>. QED BY <1>2, <1>4, <1>5, <1>6, AfterMoved

LEMMA GoneStep ==
    ASSUME Subscribers, NEW i \in Instance, Gone(i), SubscriberOnly, UNCHANGED <<handled, skipped>>,
           driver # "memory"
    PROVE  Becomes(i)
<1>0. Sound(i) /\ Shapes BY DEF Subscribers
<1>1. /\ sub[i] \in Process /\ driver \in {"memory", "redis", "rabbitmq", "kafka"}
      /\ driver # "rabbitmq" => durable = FALSE
      /\ sub[i].starts \in Nat
  BY <1>0 DEF Sound, Subscriber, Typed, Subscribers, Process
<1>2. ASSUME NEW b \in BOOLEAN,
             NEW q, q = [Off EXCEPT !.starts = sub[i].starts, !.bound = b],
             NEW t, t = <<>> \/ (t = store[i] /\ driver # "redis"),
             durable \/ driver = "kafka" => t = store[i],
             sub' = [sub EXCEPT ![i] = q], store' = [store EXCEPT ![i] = t]
      PROVE  Becomes(i)
  <2>1. q \in Process BY <1>1, <1>2, OffType DEF Process
  <2>2. /\ q.pc = "off" /\ q.hand = Off.hand /\ q.out = Off.out /\ q.marked = Off.marked
        /\ q.starts = sub[i].starts
    BY <1>2, OffType DEF Process
  <2>3. Subscriber(driver, Len(result), q, t, handled[i], skipped[i])
    BY <1>0, <1>2, <2>1, <2>2, OffType, Ended DEF Sound
  <2>4. sub'[i] = q /\ store'[i] = t BY <1>0, <1>2 DEF Shapes
  <2>5. Shapes' BY <1>0, <1>2 DEF Shapes
  <2>6. \A j \in Instance \ {i} : sub'[j] = sub[j] /\ store'[j] = store[j]
    BY <1>0, <1>2 DEF Shapes
  <2>. QED BY <1>2, <2>3, <2>4, <2>5, <2>6 DEF Becomes, SubscriberOnly
<1>3. CASE driver = "rabbitmq" /\ durable
  <2>1. (driver = "rabbitmq" /\ durable) = TRUE BY <1>3
  <2>2. /\ sub' = [sub EXCEPT ![i] = [Off EXCEPT !.starts = sub[i].starts, !.bound = TRUE]]
        /\ store' = [store EXCEPT ![i] = store[i]]
    BY <2>1, <1>3, Zenon DEF Gone
  <2>. QED BY <1>2, <1>3, <2>2
<1>4. CASE ~(driver = "rabbitmq" /\ durable)
  <2>1. (driver = "rabbitmq" /\ durable) = FALSE BY <1>4
  <2>2. /\ sub' = [sub EXCEPT ![i] = [Off EXCEPT !.starts = sub[i].starts, !.bound = FALSE]]
        /\ store' = [store EXCEPT ![i] = IF driver = "kafka" THEN store[i] ELSE <<>>]
    BY <2>1, <1>4, Zenon DEF Gone
  <2>. QED BY <1>1, <1>2, <1>4, <2>2
<1>. QED BY <1>3, <1>4

LEMMA ReturnsStep ==
    ASSUME Subscribers, NEW i \in Instance, SubscriberReturns(i)
    PROVE  Becomes(i)
<1>0. Sound(i) /\ Shapes BY DEF Subscribers
<1>1. /\ sub[i] \in Process /\ driver \in {"memory", "redis", "rabbitmq", "kafka"}
      /\ sub[i].starts \in Nat
  BY <1>0 DEF Sound, Subscriber, Typed, Process
<1>2. /\ SubscriberOnly /\ UNCHANGED <<handled, skipped>>
      /\ sub[i].hand = <<>> /\ sub[i].pc \in {"stopping", "cut"}
  BY DEF SubscriberReturns
<1>3. CASE driver = "kafka"
  <2> DEFINE q == [Off EXCEPT !.starts = sub[i].starts]
             t == SubSeq(store[i], sub[i].out + 1, Len(store[i]))
  <2>1. sub' = [sub EXCEPT ![i] = q] /\ store' = [store EXCEPT ![i] = t]
    BY <1>3 DEF SubscriberReturns, Waiting
  <2>2. q \in Process BY <1>1, OffType DEF Process
  <2>3. /\ q.pc = "off" /\ q.hand = Off.hand /\ q.out = Off.out /\ q.marked = Off.marked
        /\ q.starts = sub[i].starts
    BY OffType DEF Process
  <2> HIDE DEF q
  <2>4. Subscriber(driver, Len(result), q, t, handled[i], skipped[i])
    BY <1>0, <1>3, <2>2, <2>3, OffType, Closed DEF Sound
  <2>5. Ranges(store[i]) \subseteq Ranges(handled[i]) \cup Ranges(t) \cup skipped[i]
    <3>1. store[i] \in Seq(Message) /\ sub[i].out \in Nat /\ sub[i].out <= Len(store[i])
      BY <1>0, <1>1 DEF Sound, Subscriber, Typed, Holding, Process
    <3>2. Behind(sub[i]) = sub[i].out BY <1>2, <3>1, NothingInHand
    <3>3. \A b \in 1..sub[i].out : store[i][b] \in Ranges(handled[i]) \cup skipped[i]
      BY <1>0, <1>3, <3>2 DEF Sound, Subscriber, Passed
    <3>. QED BY <3>1, <3>3, Remains
  <2> HIDE DEF t
  <2>6. sub'[i] = q /\ store'[i] = t BY <1>0, <2>1 DEF Shapes
  <2>7. Shapes' BY <1>0, <1>2, <2>1 DEF Shapes
  <2>8. \A j \in Instance \ {i} : sub'[j] = sub[j] /\ store'[j] = store[j]
    BY <1>0, <2>1 DEF Shapes
  <2>. QED BY <1>2, <2>4, <2>5, <2>6, <2>7, <2>8 DEF Becomes, SubscriberOnly
<1>4. CASE driver = "memory"
  <2> DEFINE q == [sub[i] EXCEPT !.pc = "returned"]
  <2>1. sub' = [sub EXCEPT ![i] = q] /\ UNCHANGED store
    BY <1>0, <1>4 DEF SubscriberReturns, Shapes
  <2>2. /\ q \in Process /\ q.pc = "returned" /\ q.hand = sub[i].hand /\ q.out = sub[i].out
        /\ q.marked = sub[i].marked /\ q.starts = sub[i].starts /\ q.bound = sub[i].bound
    BY <1>1 DEF Process
  <2>3. sub[i].bound = TRUE /\ sub[i].pc # "cut"
    BY <1>0, <1>1, <1>2, <1>4 DEF Sound, Subscriber, Typed, Once, Process, States
  <2>4. "returned" \in States(driver) BY <1>4 DEF States
  <2> HIDE DEF q
  <2>. QED BY <1>2, <2>1, <2>2, <2>3, <2>4, AfterMoved
<1>5. CASE driver \notin {"kafka", "memory"}
  <2>1. Gone(i) BY <1>5 DEF SubscriberReturns
  <2>. QED BY <1>2, <1>5, <2>1, GoneStep
<1>. QED BY <1>3, <1>4, <1>5

LEMMA CrashStep ==
    ASSUME Subscribers, NEW i \in Instance, Crash(i)
    PROVE  Becomes(i)
<1>1. Gone(i) /\ SubscriberOnly /\ UNCHANGED <<handled, skipped>> /\ driver # "memory"
  BY DEF Crash
<1>. QED BY <1>1, GoneStep

LEMMA ConnectionLostStep ==
    ASSUME Subscribers, NEW i \in Instance, ConnectionLost(i)
    PROVE  Becomes(i)
<1>0. Sound(i) /\ Shapes BY DEF Subscribers
<1>1. sub[i] \in Process BY <1>0 DEF Sound, Subscriber, Typed
<1>2. /\ SubscriberOnly /\ UNCHANGED <<handled, skipped>>
      /\ driver = "rabbitmq" /\ sub[i].pc \in {"ready", "up", "stopping"}
  BY DEF ConnectionLost
<1>3. durable \in BOOLEAN BY DEF Subscribers
<1> DEFINE q == [sub[i] EXCEPT !.pc = "cut", !.out = 0, !.bound = durable]
<1>4. sub' = [sub EXCEPT ![i] = q] BY <1>0 DEF ConnectionLost, Shapes
<1>5. q \in Process BY <1>1, <1>3 DEF Process
<1>6. /\ q.pc = "cut" /\ q.hand = sub[i].hand /\ q.out = 0
      /\ q.marked = sub[i].marked /\ q.starts = sub[i].starts
  BY <1>1 DEF Process
<1> HIDE DEF q
<1>7. PICK t \in {store[i], <<>>} : store' = [store EXCEPT ![i] = t] /\ (durable => t = store[i])
  BY <1>0 DEF ConnectionLost, Shapes
<1>8. Subscriber(driver, Len(result), q, t, handled[i], skipped[i])
  BY <1>0, <1>2, <1>5, <1>6, CutOff DEF Sound
<1>9. sub'[i] = q /\ store'[i] = t BY <1>0, <1>4, <1>7 DEF Shapes
<1>10. Shapes' BY <1>0, <1>2, <1>4, <1>7 DEF Shapes
<1>11. \A j \in Instance \ {i} : sub'[j] = sub[j] /\ store'[j] = store[j]
  BY <1>0, <1>4, <1>7 DEF Shapes
<1>. QED BY <1>2, <1>7, <1>8, <1>9, <1>10, <1>11 DEF Becomes, SubscriberOnly

LEMMA ReceiveStep ==
    ASSUME Subscribers, NEW i \in Instance, Receive(i)
    PROVE  Becomes(i)
<1>0. Sound(i) /\ Shapes BY DEF Subscribers
<1>1. /\ sub[i] \in Process /\ driver \in {"memory", "redis", "rabbitmq", "kafka"}
      /\ store[i] \in Seq(Message) /\ sub[i].pc \in States(driver)
  BY <1>0 DEF Sound, Subscriber, Typed
<1>2. /\ SubscriberOnly /\ UNCHANGED <<handled, skipped>>
      /\ driver \in {"memory", "redis", "rabbitmq"} /\ sub[i].hand = <<>>
  BY DEF Receive
<1>3. sub[i].pc # "off"
  <2>1. driver = "memory" => sub[i].bound BY DEF Receive
  <2>2. driver = "memory" => sub[i].pc # "off"
    BY <1>0, <2>1 DEF Sound, Subscriber, Once
  <2>3. driver # "memory" => sub[i].pc \in {"up", "away", "stopping"} BY DEF Receive
  <2>. QED BY <2>2, <2>3
<1>4. sub[i].out = 0
  <2>1. driver # "rabbitmq" => sub[i].out = 0
    BY <1>0, <1>2 DEF Sound, Subscriber, Holding, Lent
  <2>2. ASSUME driver = "rabbitmq" PROVE sub[i].out = 0
    <3>1. sub[i].pc # "cut" BY <2>2 DEF Receive
    <3>2. Behind(sub[i]) = 0 /\ sub[i].out \in Nat
      BY <1>0, <1>1, <2>2, <3>1 DEF Sound, Subscriber, Holding, Lent, Process
    <3>. QED BY <1>2, <3>2, NothingInHand
  <2>. QED BY <2>1, <2>2
<1>5. Waiting(i) = SubSeq(store[i], 0 + 1, Len(store[i])) BY <1>4 DEF Waiting
<1>6. /\ Waiting(i) \in Seq(Message)
      /\ \A c \in DOMAIN Waiting(i) : c \in DOMAIN store[i] /\ Waiting(i)[c] = store[i][c]
  <2>1. 0 \in Nat /\ 0 <= Len(store[i]) BY <1>1
  <2>2. \A c \in DOMAIN Waiting(i) : c \in Nat /\ 0 + c \in DOMAIN store[i]
                                    /\ Waiting(i)[c] = store[i][0 + c]
    BY <1>1, <1>5, <2>1, CutHead
  <2>3. Waiting(i) \in Seq(Message) BY <1>1, <1>5, <2>1, CutHead
  <2>. QED BY <2>2, <2>3
<1>7. PICK c \in DOMAIN Waiting(i) :
         /\ driver # "memory" => c = 1
         /\ sub' = [sub EXCEPT ![i].hand = <<Waiting(i)[c]>>,
                               ![i].out = IF driver = "rabbitmq" THEN 1 ELSE 0]
         /\ store' = IF driver = "rabbitmq" THEN store
                     ELSE [store EXCEPT ![i] = Without(@, c)]
  BY DEF Receive
<1>8. c \in DOMAIN store[i] /\ Waiting(i)[c] = store[i][c] /\ store[i][c] \in Message
      /\ <<store[i][c]>> \in Seq(Message)
  BY <1>1, <1>6
<1>9. CASE driver = "rabbitmq"
  <2> DEFINE q == [sub[i] EXCEPT !.hand = <<store[i][c]>>, !.out = 1]
  <2>1. sub' = [sub EXCEPT ![i] = q] /\ UNCHANGED store BY <1>0, <1>7, <1>8, <1>9 DEF Shapes
  <2>2. /\ q \in Process /\ q.pc = sub[i].pc /\ q.hand = <<store[i][c]>> /\ q.out = 1
        /\ q.marked = sub[i].marked /\ q.starts = sub[i].starts
    BY <1>1, <1>8 DEF Process
  <2>3. c = 1 /\ store[i] # <<>> /\ sub[i].pc # "cut"
    <3>1. store[i] = <<>> => DOMAIN store[i] = {} BY Nothing
    <3>. QED BY <3>1, <1>7, <1>8, <1>9 DEF Receive
  <2> HIDE DEF q
  <2>4. Subscriber(driver, Len(result), q, store[i], handled[i], skipped[i])
    BY <1>0, <1>2, <1>3, <1>9, <2>2, <2>3, TakenOver DEF Sound
  <2>5. sub'[i] = q /\ Shapes' /\ \A j \in Instance \ {i} : sub'[j] = sub[j]
    BY <1>0, <1>2, <2>1 DEF Shapes
  <2>. QED BY <1>2, <2>1, <2>4, <2>5 DEF Becomes, SubscriberOnly
<1>10. CASE driver # "rabbitmq"
  <2> DEFINE q == [sub[i] EXCEPT !.hand = <<store[i][c]>>, !.out = 0]
             t == Without(store[i], c)
  <2>1. sub' = [sub EXCEPT ![i] = q] /\ store' = [store EXCEPT ![i] = t]
    BY <1>0, <1>7, <1>8, <1>10 DEF Shapes
  <2>2. /\ q \in Process /\ q.pc = sub[i].pc /\ q.hand = <<store[i][c]>> /\ q.out = 0
        /\ q.marked = sub[i].marked /\ q.starts = sub[i].starts /\ q.bound = sub[i].bound
    BY <1>1, <1>8 DEF Process
  <2> HIDE DEF q
  <2>3. Subscriber(driver, Len(result), q, t, handled[i], skipped[i])
    <3>1. driver \in {"memory", "redis"} /\ (driver = "redis" => c = 1) BY <1>2, <1>7, <1>10
    <3>. QED BY <1>0, <1>2, <1>3, <1>8, <2>2, <3>1, TakenOut DEF Sound
  <2> HIDE DEF t
  <2>4. sub'[i] = q /\ store'[i] = t BY <1>0, <2>1 DEF Shapes
  <2>5. Shapes' BY <1>0, <1>2, <2>1 DEF Shapes
  <2>6. \A j \in Instance \ {i} : sub'[j] = sub[j] /\ store'[j] = store[j]
    BY <1>0, <2>1 DEF Shapes
  <2>7. ~(durable \/ driver = "kafka") BY <1>2, <1>10 DEF Subscribers
  <2>. QED BY <1>2, <2>3, <2>4, <2>5, <2>6, <2>7 DEF Becomes, SubscriberOnly
<1>. QED BY <1>9, <1>10

\* The records a fetch of l messages brings.
LEMMA Fetched ==
    ASSUME Subscribers, NEW i \in Instance, NEW l \in 1..Len(Waiting(i))
    PROVE  /\ sub[i].out + l <= Len(store[i]) /\ sub[i].out + l \in Nat /\ sub[i].out \in Nat
           /\ Waiting(i) \in Seq(Message)
           /\ SubSeq(Waiting(i), 1, l) \in Seq(Message) /\ Len(SubSeq(Waiting(i), 1, l)) = l
           /\ \A a \in DOMAIN SubSeq(Waiting(i), 1, l) :
                 a \in 1..l /\ SubSeq(Waiting(i), 1, l)[a] = store[i][sub[i].out + a]
           /\ Ranges(SubSeq(Waiting(i), 1, l)) = {store[i][sub[i].out + a] : a \in 1..l}
<1> DEFINE w == Waiting(i)
           r == SubSeq(w, 1, l)
<1>0. Sound(i) BY DEF Subscribers
<1>1. store[i] \in Seq(Message) /\ sub[i].out \in Nat /\ sub[i].out <= Len(store[i])
  BY <1>0 DEF Sound, Subscriber, Typed, Holding, Process
<1>2. /\ w \in Seq(Message) /\ Len(w) = Len(store[i]) - sub[i].out
      /\ \A a \in DOMAIN w : a \in Nat /\ w[a] = store[i][sub[i].out + a]
  BY <1>1, CutHead DEF Waiting
<1> HIDE DEF w
<1>3. l \in Nat /\ l <= Len(w) /\ Len(w) \in Nat BY <1>2 DEF w
<1>4. r \in Seq(Message) /\ Len(r) = l /\ DOMAIN r = 1..l BY <1>2, <1>3
<1>5. \A a \in 1..l : a \in DOMAIN w /\ r[a] = w[a] BY <1>2, <1>3
<1>6. sub[i].out + l <= Len(store[i]) /\ sub[i].out + l \in Nat BY <1>1, <1>2, <1>3
<1> HIDE DEF r
<1>7. \A a \in 1..l : r[a] = store[i][sub[i].out + a] BY <1>2, <1>5
<1>8. Ranges(r) = {store[i][sub[i].out + a] : a \in 1..l} BY <1>4, <1>7 DEF Ranges
<1>. QED BY <1>1, <1>2, <1>4, <1>6, <1>7, <1>8 DEF r, w

LEMMA PollStep ==
    ASSUME Subscribers, NEW i \in Instance, Poll(i)
    PROVE  Becomes(i)
<1>0. Sound(i) /\ Shapes BY DEF Subscribers
<1>1. sub[i] \in Process BY <1>0 DEF Sound, Subscriber, Typed
<1>2. /\ SubscriberOnly /\ UNCHANGED <<store, handled, skipped>>
      /\ driver = "kafka" /\ sub[i].hand = <<>> /\ sub[i].pc = "up"
  BY DEF Poll
<1>3. PICK l \in 1..Len(Waiting(i)) :
         sub' = [sub EXCEPT ![i].hand = SubSeq(Waiting(i), 1, l), ![i].marked = sub[i].out,
                            ![i].out = @ + l]
  BY DEF Poll
<1> DEFINE r == SubSeq(Waiting(i), 1, l)
           q == [sub[i] EXCEPT !.hand = r, !.marked = sub[i].out, !.out = sub[i].out + l]
<1>4. /\ sub[i].out + l <= Len(store[i]) /\ sub[i].out + l \in Nat /\ sub[i].out \in Nat
      /\ r \in Seq(Message) /\ Len(r) = l
      /\ \A a \in DOMAIN r : a \in 1..l /\ r[a] = store[i][sub[i].out + a]
  BY Fetched
<1>5. l \in Nat
  <2>1. Len(Waiting(i)) \in Nat BY Fetched
  <2>. QED BY <2>1
<1>6. sub' = [sub EXCEPT ![i] = q] BY <1>0, <1>3 DEF Shapes
<1> HIDE DEF r
<1>7. q \in Process BY <1>1, <1>4 DEF Process
<1>8. /\ q.pc = sub[i].pc /\ q.hand = r /\ q.out = sub[i].out + l /\ q.marked = sub[i].out
      /\ q.starts = sub[i].starts
  BY <1>1 DEF Process
<1> HIDE DEF q
<1>9. Subscriber(driver, Len(result), q, store[i], handled[i], skipped[i])
  BY <1>0, <1>2, <1>4, <1>5, <1>7, <1>8, Polled DEF Sound
<1>10. sub'[i] = q /\ Shapes' /\ \A j \in Instance \ {i} : sub'[j] = sub[j]
  BY <1>0, <1>2, <1>6 DEF Shapes
<1>. QED BY <1>2, <1>9, <1>10 DEF Becomes, SubscriberOnly

LEMMA PollErrorsStep ==
    ASSUME Subscribers, NEW i \in Instance, PollErrors(i)
    PROVE  Becomes(i)
<1>0. Sound(i) /\ Shapes BY DEF Subscribers
<1>1. sub[i] \in Process BY <1>0 DEF Sound, Subscriber, Typed
<1>2. /\ SubscriberOnly /\ UNCHANGED <<store, handled>>
      /\ driver = "kafka" /\ sub[i].hand = <<>> /\ sub[i].pc = "up"
  BY DEF PollErrors
<1>3. PICK l \in 1..Len(Waiting(i)) :
         /\ skipped' = [skipped EXCEPT ![i] = @ \cup Ranges(SubSeq(Waiting(i), 1, l))]
         /\ sub' = [sub EXCEPT ![i].marked = sub[i].out, ![i].out = @ + l]
  BY DEF PollErrors
<1> DEFINE e == {store[i][sub[i].out + a] : a \in 1..l}
           q == [sub[i] EXCEPT !.marked = sub[i].out, !.out = sub[i].out + l]
<1>4. /\ sub[i].out + l <= Len(store[i]) /\ sub[i].out + l \in Nat /\ sub[i].out \in Nat
      /\ Ranges(SubSeq(Waiting(i), 1, l)) = e
  BY Fetched
<1>5. l \in Nat
  <2>1. Len(Waiting(i)) \in Nat BY Fetched
  <2>. QED BY <2>1
<1>6. sub' = [sub EXCEPT ![i] = q] /\ skipped' = [skipped EXCEPT ![i] = skipped[i] \cup e]
  BY <1>0, <1>3, <1>4 DEF Shapes
<1>7. q \in Process BY <1>1, <1>4 DEF Process
<1>8. /\ q.pc = sub[i].pc /\ q.hand = sub[i].hand /\ q.out = sub[i].out + l /\ q.marked = sub[i].out
      /\ q.starts = sub[i].starts
  BY <1>1 DEF Process
<1> HIDE DEF q
<1>9. Subscriber(driver, Len(result), q, store[i], handled[i], skipped[i] \cup e)
  BY <1>0, <1>2, <1>4, <1>5, <1>7, <1>8, Skipped DEF Sound
<1> HIDE DEF e
<1>10. sub'[i] = q /\ skipped'[i] = skipped[i] \cup e BY <1>0, <1>6 DEF Shapes
<1>11. Shapes' BY <1>0, <1>2, <1>6 DEF Shapes
<1>12. \A j \in Instance \ {i} : sub'[j] = sub[j] /\ skipped'[j] = skipped[j]
  BY <1>0, <1>6 DEF Shapes
<1>. QED BY <1>2, <1>9, <1>10, <1>11, <1>12 DEF Becomes, SubscriberOnly

LEMMA AutoCommitStep ==
    ASSUME Subscribers, NEW i \in Instance, AutoCommit(i)
    PROVE  Becomes(i)
<1>0. Sound(i) /\ Shapes BY DEF Subscribers
<1>1. /\ sub[i] \in Process /\ store[i] \in Seq(Message)
      /\ sub[i].marked \in Nat /\ sub[i].out \in Nat /\ Len(sub[i].hand) \in Nat
  BY <1>0 DEF Sound, Subscriber, Typed, Process
<1>2. /\ SubscriberOnly /\ UNCHANGED <<handled, skipped>> /\ sub[i].marked > 0
  BY DEF AutoCommit
<1>3. driver = "kafka" BY <1>0, <1>2 DEF Sound, Subscriber, Holding
<1>4. sub[i].marked <= Behind(sub[i]) /\ sub[i].out <= Len(store[i])
  BY <1>0, <1>3 DEF Sound, Subscriber, Holding, Lent
<1>5. /\ Behind(sub[i]) = sub[i].out - Len(sub[i].hand) /\ Behind(sub[i]) \in Int
      /\ sub[i].out - sub[i].marked \in Nat /\ sub[i].marked <= Len(store[i]) /\ sub[i].out > 0
  <2>1. Behind(sub[i]) = sub[i].out - Len(sub[i].hand) BY DEF Behind
  <2>2. sub[i].out >= sub[i].marked /\ sub[i].out > 0 /\ Behind(sub[i]) \in Int
    BY <1>1, <1>2, <1>4, <2>1
  <2>3. Len(store[i]) \in Nat BY <1>1
  <2>. QED BY <1>1, <1>4, <2>1, <2>2, <2>3
<1>6. sub[i].pc # "off" BY <1>0, <1>5 DEF Sound, Subscriber, Holding
<1> DEFINE q == [sub[i] EXCEPT !.marked = 0, !.out = sub[i].out - sub[i].marked]
           t == SubSeq(store[i], sub[i].marked + 1, Len(store[i]))
<1>7. sub' = [sub EXCEPT ![i] = q] /\ store' = [store EXCEPT ![i] = t]
  BY <1>0 DEF AutoCommit, Shapes
<1>8. q \in Process BY <1>1, <1>5 DEF Process
<1>9. /\ q.pc = sub[i].pc /\ q.hand = sub[i].hand /\ q.out = sub[i].out - sub[i].marked
      /\ q.marked = 0 /\ q.starts = sub[i].starts
  BY <1>1 DEF Process
<1> HIDE DEF q
<1>10. Subscriber(driver, Len(result), q, t, handled[i], skipped[i])
  BY <1>0, <1>3, <1>6, <1>8, <1>9, Committed DEF Sound
<1>11. Ranges(store[i]) \subseteq Ranges(handled[i]) \cup Ranges(t) \cup skipped[i]
  <2>1. \A b \in 1..sub[i].marked : b \in 1..Behind(sub[i]) BY <1>1, <1>4, <1>5
  <2>2. \A b \in 1..sub[i].marked : store[i][b] \in Ranges(handled[i]) \cup skipped[i]
    BY <1>0, <1>3, <2>1 DEF Sound, Subscriber, Passed
  <2>3. \A m \in Ranges(store[i]) : m \in Ranges(t) \/ \E b \in 1..sub[i].marked : m = store[i][b]
    BY <1>1, <1>5, Remains
  <2> HIDE DEF t
  <2>. QED BY <2>2, <2>3
<1> HIDE DEF t
<1>12. sub'[i] = q /\ store'[i] = t BY <1>0, <1>7 DEF Shapes
<1>13. Shapes' BY <1>0, <1>2, <1>7 DEF Shapes
<1>14. \A j \in Instance \ {i} : sub'[j] = sub[j] /\ store'[j] = store[j]
  BY <1>0, <1>7 DEF Shapes
<1>. QED BY <1>2, <1>10, <1>11, <1>12, <1>13, <1>14 DEF Becomes, SubscriberOnly

LEMMA HandleStep ==
    ASSUME Subscribers, NEW i \in Instance, Handle(i)
    PROVE  Becomes(i)
<1> DEFINE g == Append(handled[i], Head(sub[i].hand))
<1>0. Sound(i) /\ Shapes BY DEF Subscribers
<1>1. /\ sub[i] \in Process /\ store[i] \in Seq(Message) /\ handled[i] \in Seq(Message)
      /\ sub[i].hand \in Seq(Message)
      /\ driver \in {"memory", "redis", "rabbitmq", "kafka"}
  BY <1>0 DEF Sound, Subscriber, Typed, Process
<1>2. /\ SubscriberOnly /\ UNCHANGED skipped /\ sub[i].hand # <<>>
      /\ handled' = [handled EXCEPT ![i] = g]
  BY <1>0 DEF Handle, Shapes
<1>3. Tail(sub[i].hand) \in Seq(Message) /\ Head(sub[i].hand) \in Message BY <1>1, <1>2, Dropped
<1>4. Ranges(g) = Ranges(handled[i]) \cup {Head(sub[i].hand)} BY <1>1, <1>3, Appended
<1>5. CASE driver = "rabbitmq" /\ sub[i].pc # "cut"
  <2> DEFINE q == [sub[i] EXCEPT !.hand = Tail(sub[i].hand), !.out = 0]
             t == Tail(store[i])
  <2>1. sub' = [sub EXCEPT ![i] = q] /\ store' = [store EXCEPT ![i] = t]
    BY <1>0, <1>5 DEF Handle, Shapes
  <2>2. q \in Process BY <1>1, <1>3 DEF Process
  <2>3. /\ q.pc = sub[i].pc /\ q.hand = Tail(sub[i].hand) /\ q.out = 0
        /\ q.marked = sub[i].marked /\ q.starts = sub[i].starts
    BY <1>1 DEF Process
  <2> HIDE DEF q
  <2>4. Subscriber(driver, Len(result), q, t, g, skipped[i])
    BY <1>0, <1>2, <1>5, <2>2, <2>3, HandledAcked DEF Sound
  <2>5. Ranges(store[i]) \subseteq Ranges(g) \cup Ranges(t)
    <3>1. Lent(driver, sub[i]) BY <1>5 DEF Lent
    <3>2. /\ Behind(sub[i]) = 0
          /\ Behind(sub[i]) + 1 \in DOMAIN store[i] /\ sub[i].hand[1] = store[i][Behind(sub[i]) + 1]
          /\ sub[i].hand[1] = Head(sub[i].hand)
      BY <1>0, <1>2, <1>5, <3>1, Due DEF Sound, Subscriber, Holding
    <3>3. 1 \in DOMAIN store[i] /\ Head(sub[i].hand) = store[i][1]
      <4>1. Behind(sub[i]) + 1 = 1 BY <3>2
      <4>. QED BY <3>2, <4>1
    <3>4. store[i] # <<>> BY <3>3
    <3>5. \A k \in DOMAIN store[i] : k # 1 => k - 1 \in DOMAIN t /\ t[k - 1] = store[i][k]
      BY <1>1, <3>4, Dropped
    <3> HIDE DEF t, g
    <3>6. ASSUME NEW m \in Ranges(store[i]) PROVE m \in Ranges(g) \cup Ranges(t)
      <4>1. PICK k \in DOMAIN store[i] : m = store[i][k] BY DEF Ranges
      <4>2. CASE k = 1 BY <1>4, <3>3, <4>1, <4>2
      <4>3. CASE k # 1 BY <3>5, <4>1, <4>3 DEF Ranges
      <4>. QED BY <4>2, <4>3
    <3>. QED BY <3>6
  <2> HIDE DEF t, g
  <2>6. sub'[i] = q /\ store'[i] = t /\ handled'[i] = g BY <1>0, <1>2, <2>1 DEF Shapes
  <2>7. Shapes' BY <1>0, <1>2, <2>1 DEF Shapes
  <2>8. \A j \in Instance \ {i} : sub'[j] = sub[j] /\ store'[j] = store[j] /\ handled'[j] = handled[j]
    BY <1>0, <1>2, <2>1 DEF Shapes
  <2>. QED BY <1>2, <1>4, <2>4, <2>5, <2>6, <2>7, <2>8 DEF Becomes, SubscriberOnly
<1>6. CASE ~(driver = "rabbitmq" /\ sub[i].pc # "cut")
  <2> DEFINE q == [sub[i] EXCEPT !.hand = Tail(sub[i].hand)]
  <2>1. sub' = [sub EXCEPT ![i] = q] /\ UNCHANGED store
    BY <1>0, <1>6 DEF Handle, Shapes
  <2>2. q \in Process BY <1>1, <1>3 DEF Process
  <2>3. /\ q.pc = sub[i].pc /\ q.hand = Tail(sub[i].hand) /\ q.out = sub[i].out
        /\ q.marked = sub[i].marked /\ q.starts = sub[i].starts /\ q.bound = sub[i].bound
    BY <1>1 DEF Process
  <2> HIDE DEF q
  <2>4. Subscriber(driver, Len(result), q, store[i], g, skipped[i])
    <3>1. CASE driver = "kafka"
      BY <1>0, <1>2, <3>1, <2>2, <2>3, HandledPolled DEF Sound
    <3>2. CASE driver # "kafka"
      <4>1. ~Lent(driver, sub[i]) BY <1>6, <3>2 DEF Lent
      <4>. QED BY <1>0, <1>2, <4>1, <2>2, <2>3, HandledTaken DEF Sound
    <3>. QED BY <3>1, <3>2
  <2> HIDE DEF g
  <2>5. sub'[i] = q /\ handled'[i] = g BY <1>0, <1>2, <2>1 DEF Shapes
  <2>6. Shapes' BY <1>0, <1>2, <2>1 DEF Shapes
  <2>7. \A j \in Instance \ {i} : sub'[j] = sub[j] /\ handled'[j] = handled[j]
    BY <1>0, <1>2, <2>1 DEF Shapes
  <2>. QED BY <1>2, <1>4, <2>1, <2>4, <2>5, <2>6, <2>7 DEF Becomes, SubscriberOnly
<1>. QED BY <1>5, <1>6

LEMMA SubscriberStepAfter ==
    ASSUME Subscribers, NEW i \in Instance, SubscriberStep(i)
    PROVE  Becomes(i)
BY SubscribeStep, SubscribeFailsStep, RunSubscriberStep, StopSubscriberStep, ReturnsStep,
   ReceiveStep, PollStep, PollErrorsStep, AutoCommitStep, HandleStep, CrashStep,
   ConnectionLostStep, DisconnectedStep DEF SubscriberStep

-----------------------------------------------------------------------------
(* The publisher. *)
Entry == [is : {"open", "ok", "slow", "cancelled", "error"}, to : SUBSET Instance]

Results == result \in Seq(Entry) /\ confirms \in Seq(BOOLEAN) /\ link \in BOOLEAN

Answered(n) == \A m \in 1..n : result[m].is \notin {"slow", "cancelled"}

Kept(m) == \A i \in result[m].to : m \in Content(i)

Lasting == durable = TRUE \/ driver = "kafka"

\* Only the last Publish can be waiting, and where none has left its answer behind
\* there is the answer to that one in the channel, or none.
Publisher ==
    /\ \A m \in DOMAIN result : result[m].is = "open" => m = Len(result)
    /\ driver # "rabbitmq" => confirms = <<>> /\ ~Sending
    /\ Len(confirms) <= Len(result)
    /\ Lasting /\ Answered(Len(result) - 1) =>
          /\ Sending => /\ Len(confirms) <= 1
                        /\ (confirms # <<>> /\ confirms[1] = TRUE) => Kept(Len(result))
          /\ (~Sending /\ Answered(Len(result))) => confirms = <<>>

\* What ConfirmedIsKept says.
KeptInv == Lasting => \A m \in DOMAIN result : Trusted(m) => Kept(m)

PubSubInv == Subscribers /\ Results /\ Publisher /\ KeptInv

LEMMA KeptInvIsConfirmedIsKept ==
    ASSUME Subscribers, KeptInv
    PROVE  ConfirmedIsKept
<1>1. (durable \/ driver = "kafka") => Lasting BY DEF Lasting, Subscribers
<1>. QED BY <1>1 DEF KeptInv, ConfirmedIsKept, Kept, Content

LEMMA EntryType ==
    ASSUME Results, NEW m \in DOMAIN result
    PROVE  result[m].to \subseteq Instance
<1>1. result[m] \in Entry BY DEF Results
<1>. QED BY <1>1 DEF Entry

\* A step of a subscriber.
LEMMA SubscriberKeepsInv ==
    ASSUME PubSubInv, NEW i \in Instance, SubscriberStep(i)
    PROVE  PubSubInv' /\ UNCHANGED <<driver, durable, link, result, confirms>>
<1>0. Subscribers BY DEF PubSubInv
<1>1. Becomes(i) BY <1>0, SubscriberStepAfter
<1>2. UNCHANGED <<driver, durable, link, result, confirms>> BY <1>1 DEF Becomes
<1>3. Subscribers'
  <2>1. Shapes' BY <1>1 DEF Becomes
  <2>2. ASSUME NEW j \in Instance PROVE Sound(j)'
    <3>1. Sound(j) BY <1>0 DEF Subscribers
    <3>2. CASE j = i BY <1>1, <1>2, <3>2 DEF Becomes, Sound
    <3>3. CASE j # i
      <4>1. sub'[j] = sub[j] /\ store'[j] = store[j] /\ handled'[j] = handled[j] /\ skipped'[j] = skipped[j]
        BY <1>1, <3>3 DEF Becomes
      <4>. QED BY <1>2, <3>1, <4>1 DEF Sound
    <3>. QED BY <3>2, <3>3
  <2>. QED BY <1>0, <1>2, <2>1, <2>2 DEF Subscribers
<1>4. ASSUME Lasting, NEW m \in DOMAIN result, Kept(m) PROVE Kept(m)'
  <2>1. \A j \in Instance : Content(j) \subseteq Content(j)'
    BY <1>1, <1>4 DEF Becomes, Content, Lasting
  <2>2. result[m].to \subseteq Instance BY EntryType DEF PubSubInv
  <2>. QED BY <1>2, <1>4, <2>1, <2>2 DEF Kept
<1>5. /\ Results' /\ (Lasting' <=> Lasting) /\ (Sending' <=> Sending)
      /\ \A n \in Int : Answered(n)' <=> Answered(n)
      /\ \A m \in DOMAIN result : Trusted(m)' <=> Trusted(m)
  BY <1>2 DEF PubSubInv, Results, Lasting, Sending, Answered, Trusted
<1>6. Publisher'
  <2>1. ASSUME Lasting, Answered(Len(result) - 1), Sending, confirms # <<>>, confirms[1] = TRUE
        PROVE  Kept(Len(result))'
    <3>1. Kept(Len(result)) BY <2>1 DEF PubSubInv, Publisher
    <3>2. Len(result) \in DOMAIN result BY <2>1 DEF PubSubInv, Publisher, Sending
    <3>. QED BY <2>1, <3>1, <3>2, <1>2, <1>4
  <2>2. Len(result) - 1 \in Int /\ Len(result) \in Int BY DEF PubSubInv, Results
  <2>. QED BY <1>2, <1>5, <2>1, <2>2 DEF PubSubInv, Publisher
<1>7. KeptInv' BY <1>2, <1>4, <1>5 DEF PubSubInv, KeptInv
<1>. QED BY <1>2, <1>3, <1>5, <1>6, <1>7 DEF PubSubInv

\* A message is put where it goes.
LEMMA PublishedAfter ==
    ASSUME Subscribers, Results, NEW to \in {{}, Audience}, Put(to), Len(result') = Len(result) + 1,
           UNCHANGED <<driver, durable, sub, handled, skipped>>
    PROVE  /\ Subscribers'
           /\ \A i \in Instance : Content(i) \subseteq Content(i)'
           /\ \A i \in to : i \in Instance => Len(result) + 1 \in Content(i)'
<1> DEFINE n == Len(result)
<1>0. n \in Nat /\ n + 1 \in Message BY DEF Results, Message
<1>1. \A i \in Instance : store'[i] = IF i \in to THEN Append(store[i], n + 1) ELSE store[i]
  BY DEF Put
<1>2. Shapes'
  <2>1. store' = [i \in Instance |-> store'[i]] BY DEF Put
  <2>. QED BY <2>1 DEF Subscribers, Shapes
<1> HIDE DEF n
<1>3. ASSUME NEW i \in Instance
      PROVE  /\ Sound(i)'
             /\ Content(i) \subseteq Content(i)'
             /\ i \in to => n + 1 \in Content(i)'
  <2>1. Subscriber(driver, n, sub[i], store[i], handled[i], skipped[i])
    BY DEF Subscribers, Sound, n
  <2>2. store[i] \in Seq(Message) BY <2>1 DEF Subscriber, Typed
  <2>3. CASE i \in to
    <3>1. i \in Audience BY <2>3
    <3>2. driver = "redis" => sub[i].pc # "off" BY <3>1 DEF Audience
    <3>3. driver = "memory" => sub[i].bound BY <3>1 DEF Audience
    <3>4. Subscriber(driver, n + 1, sub[i], Append(store[i], n + 1), handled[i], skipped[i])
      BY <2>1, <3>2, <3>3, HandedOver
    <3>5. Ranges(Append(store[i], n + 1)) = Ranges(store[i]) \cup {n + 1} BY <1>0, <2>2, Appended
    <3>6. store'[i] = Append(store[i], n + 1) BY <1>1, <2>3
    <3>7. Sound(i)' BY <3>4, <3>6 DEF Sound, n
    <3>8. Content(i) \subseteq Content(i)' /\ n + 1 \in Content(i)' BY <3>5, <3>6 DEF Content
    <3>. QED BY <3>7, <3>8
  <2>4. CASE i \notin to
    <3>1. store'[i] = store[i] BY <1>1, <2>4
    <3>2. n + 1 \in Nat /\ n <= n + 1 BY <1>0
    <3>3. Subscriber(driver, n + 1, sub[i], store[i], handled[i], skipped[i])
      BY <2>1, <3>2, MorePublished
    <3>4. Sound(i)' BY <3>1, <3>3 DEF Sound, n
    <3>. QED BY <2>4, <3>1, <3>4 DEF Content
  <2>. QED BY <2>3, <2>4
<1>. QED BY <1>2, <1>3 DEF Subscribers, n

LEMMA AudienceType ==
    ASSUME Subscribers
    PROVE  Audience \subseteq Instance
<1>1. driver \in {"memory", "redis", "rabbitmq", "kafka"} BY PubSubConstants DEF Subscribers
<1>. QED BY <1>1, PubSubConstants DEF Audience

\* Publish, of whatever driver.
LEMMA PublishKeepsInv ==
    ASSUME PubSubInv, ~Sending,
           \/ PublishNow \/ PublishRefused
           \/ \E c \in BOOLEAN : PublishFails(c)
           \/ \E ack \in BOOLEAN : PublishSent(ack)
    PROVE  PubSubInv' /\ UNCHANGED driver
<1>a. Len(result) \in Nat BY DEF PubSubInv, Results
<1>b. PICK n \in Nat : n = Len(result) BY <1>a
<1>0. /\ Subscribers /\ Results /\ Publisher /\ KeptInv
      /\ result \in Seq(Entry) /\ n \in Nat /\ DOMAIN result = 1..n
  BY <1>b DEF PubSubInv, Results
<1>1. PICK to \in {{}, Audience}, heard \in {{}, Audience}, is \in {"open", "ok", "error"} :
         /\ Put(to) /\ Entered(is, heard)
         /\ is = "ok" => to = heard
         /\ UNCHANGED <<driver, durable, sub, handled, skipped, link>>
         /\ \/ is # "open" /\ confirms' = confirms
            \/ /\ is = "open" /\ driver = "rabbitmq"
               /\ \E ack \in BOOLEAN : confirms' = Append(confirms, ack) /\ (ack = TRUE => to = heard)
  <2>1. CASE PublishNow BY <2>1 DEF PublishNow
  <2>2. CASE PublishRefused
    <3>1. store = [i \in Instance |-> store[i]] BY <1>0 DEF Subscribers, Shapes
    <3>2. Put({}) BY <2>2, <3>1 DEF PublishRefused, Put
    <3>. QED BY <2>2, <3>2 DEF PublishRefused
  <2>3. CASE \E c \in BOOLEAN : PublishFails(c)
    <3>1. PICK to \in {{}, Audience} : Put(to) /\ Entered("error", to) BY <2>3 DEF PublishFails
    <3>. QED BY <2>3, <3>1 DEF PublishFails
  <2>4. CASE \E ack \in BOOLEAN : PublishSent(ack)
    <3>1. PICK ack \in BOOLEAN : PublishSent(ack) BY <2>4
    <3>2. CASE ack = TRUE BY <3>1, <3>2 DEF PublishSent
    <3>3. CASE ack = FALSE BY <3>1, <3>3 DEF PublishSent
    <3>. QED BY <3>1, <3>2, <3>3
  <2>. QED BY <2>1, <2>2, <2>3, <2>4
<1>2. heard \subseteq Instance /\ to \subseteq Instance BY <1>0, AudienceType
<1>3. [is |-> is, to |-> heard] \in Entry BY <1>2 DEF Entry
<1>4. /\ result' \in Seq(Entry) /\ Len(result') = n + 1 /\ DOMAIN result' = 1..(n + 1)
      /\ \A m \in DOMAIN result : m <= n /\ result'[m] = result[m]
      /\ result'[n + 1] = [is |-> is, to |-> heard]
  <2>1. result' = Append(result, [is |-> is, to |-> heard]) BY <1>1 DEF Entered
  <2>. QED BY <1>b, <1>0, <1>3, <2>1, Appended
<1>5. /\ Subscribers'
      /\ \A i \in Instance : Content(i) \subseteq Content(i)'
      /\ \A i \in to : i \in Instance => n + 1 \in Content(i)'
  <2>1. Len(result') = Len(result) + 1 BY <1>b, <1>4
  <2>. QED BY <1>b, <1>0, <1>1, <2>1, PublishedAfter
<1>6. Results'
  <2>1. confirms' \in Seq(BOOLEAN) BY <1>0, <1>1, Appended DEF Results
  <2>. QED BY <1>0, <1>1, <1>4, <2>1 DEF Results
<1>7. result'[n + 1].is = is /\ result'[n + 1].to = heard BY <1>4
<1>8. (Lasting' <=> Lasting) /\ n + 1 = Len(result') BY <1>1, <1>4 DEF Lasting
<1>9. \A m \in 1..n : Answered(m)' <=> Answered(m) BY <1>0, <1>4 DEF Answered
<1>10. Answered(n)' <=> Answered(n) BY <1>0, <1>4 DEF Answered
<1>11. \A m \in DOMAIN result : Kept(m) => Kept(m)'
  <2>1. \A m \in DOMAIN result : result[m].to \subseteq Instance BY <1>0, EntryType
  <2>. QED BY <1>4, <1>5, <2>1 DEF Kept
<1>12. to = heard => \A l \in Nat : l = n + 1 => Kept(l)' BY <1>2, <1>5, <1>7 DEF Kept
<1>13. \A m \in DOMAIN result : result[m].is # "open" BY DEF Sending
<1>14. Sending' <=> is = "open" BY <1>0, <1>4, <1>7, <1>13 DEF Sending
<1>15. Publisher'
  <2>1. \A m \in DOMAIN result' : result'[m].is = "open" => m = Len(result')
    BY <1>0, <1>4, <1>7, <1>8, <1>13
  <2>2. driver' # "rabbitmq" => confirms' = <<>> /\ ~Sending'
    BY <1>0, <1>1, <1>14 DEF Publisher
  <2>3. Len(confirms') <= Len(result')
    <3>1. Len(confirms) <= n /\ confirms \in Seq(BOOLEAN) BY <1>b, <1>0 DEF Publisher, Results
    <3>2. Len(confirms') = Len(confirms) \/ Len(confirms') = Len(confirms) + 1
      BY <1>1, <3>1, Appended
    <3>3. Len(confirms) \in Nat BY <3>1
    <3>. QED BY <1>0, <1>8, <3>1, <3>2, <3>3
  <2>4. PICK l \in Nat : l = n + 1 /\ l - 1 = n BY <1>0
  <2>5. ASSUME Lasting, Answered(n)
        PROVE  /\ is = "open" => Len(confirms') <= 1
               /\ (is = "open" /\ confirms' # <<>> /\ confirms'[1] = TRUE) => Kept(l)'
               /\ is # "open" => confirms' = <<>>
    <3>1. Answered(Len(result) - 1) BY <2>5, <1>b, <1>0 DEF Answered
    <3>2. confirms = <<>> BY <1>b, <1>0, <2>5, <3>1 DEF Publisher
    <3>3. CASE is = "open"
      <4>1. PICK ack \in BOOLEAN : confirms' = Append(<<>>, ack) /\ (ack = TRUE => to = heard)
        BY <1>1, <3>2, <3>3
      <4>2. Len(confirms') = 1 /\ confirms'[1] = ack BY <4>1
      <4>3. ack = TRUE => Kept(l)' BY <4>1, <2>4, <1>12
      <4>. QED BY <3>3, <4>2, <4>3
    <3>4. CASE is # "open" BY <3>2, <3>4, <1>1
    <3>. QED BY <3>3, <3>4
  <2>6. Len(result') = l /\ Len(result') - 1 = n BY <1>8, <2>4
  <2>7. (Answered(Len(result) - 1))' <=> Answered(n) BY <2>6, <1>10 DEF Answered
  <2>8. Kept(Len(result))' <=> Kept(l)' BY <2>6 DEF Kept
  <2>. QED BY <1>8, <1>14, <2>1, <2>2, <2>3, <2>5, <2>7, <2>8 DEF Publisher
<1>16. KeptInv'
  <2> SUFFICES ASSUME Lasting', NEW m \in DOMAIN result', Trusted(m)' PROVE Kept(m)'
    BY DEF KeptInv
  <2>1. CASE m \in DOMAIN result
    <3>1. Trusted(m) BY <2>1, <1>0, <1>4 DEF Trusted
    <3>. QED BY <2>1, <3>1, <1>0, <1>8, <1>11 DEF KeptInv
  <2>2. CASE m = n + 1
    <3>0. m \in Nat BY <2>2, <1>0
    <3>1. is = "ok" BY <2>2, <1>7 DEF Trusted
    <3>. QED BY <2>2, <3>0, <3>1, <1>1, <1>12
  <2>. QED BY <2>1, <2>2, <1>0, <1>4
<1>. QED BY <1>1, <1>5, <1>6, <1>15, <1>16 DEF PubSubInv

\* Publish comes to an end.
LEMMA SettleKeepsInv ==
    ASSUME PubSubInv, PublishAnswered \/ PublishCut \/ PublishTimesOut \/ PublishCancelled
    PROVE  PubSubInv' /\ Sending /\ UNCHANGED driver
<1>a. Len(result) \in Nat BY DEF PubSubInv, Results
<1>b. PICK n \in Nat : n = Len(result) BY <1>a
<1>0. /\ Subscribers /\ Results /\ Publisher /\ KeptInv
      /\ result \in Seq(Entry) /\ DOMAIN result = 1..n
  BY <1>b DEF PubSubInv, Results
<1>1. PICK is \in {"ok", "error", "slow", "cancelled"} :
         /\ Settle(is)
         /\ is = "ok" => confirms # <<>> /\ confirms[1] = TRUE
         /\ \/ confirms # <<>> /\ confirms' = Tail(confirms) /\ is \in {"ok", "error"}
            \/ confirms = <<>> /\ confirms' = confirms
            \/ is \in {"slow", "cancelled"} /\ confirms' = confirms
  <2>1. CASE PublishAnswered
    <3>1. Head(confirms) = confirms[1] /\ confirms[1] \in BOOLEAN
      BY <1>0, <2>1, Dropped DEF PublishAnswered, Results
    <3>2. CASE confirms[1] = TRUE BY <2>1, <3>1, <3>2 DEF PublishAnswered
    <3>3. CASE confirms[1] = FALSE BY <2>1, <3>1, <3>3 DEF PublishAnswered
    <3>. QED BY <3>1, <3>2, <3>3
  <2>2. CASE PublishCut BY <2>2 DEF PublishCut
  <2>3. CASE PublishTimesOut BY <2>3 DEF PublishTimesOut
  <2>4. CASE PublishCancelled BY <2>4 DEF PublishCancelled
  <2>. QED BY <2>1, <2>2, <2>3, <2>4
<1>2. /\ Sending /\ result' = [result EXCEPT ![n].is = is]
      /\ UNCHANGED <<driver, durable, link, sub, store, handled, skipped>>
  BY <1>1, <1>b DEF Settle
<1>3. n \in DOMAIN result /\ result[n].is = "open"
  BY <1>b, <1>0, <1>2 DEF Sending, Publisher
<1>4. [result[n] EXCEPT !.is = is] \in Entry
      /\ [result[n] EXCEPT !.is = is].is = is /\ [result[n] EXCEPT !.is = is].to = result[n].to
  <2>1. result[n] \in Entry BY <1>0, <1>3
  <2>. QED BY <2>1 DEF Entry
<1>5. /\ result' \in Seq(Entry) /\ Len(result') = n /\ DOMAIN result' = 1..n
      /\ \A m \in DOMAIN result : m # n => result'[m] = result[m]
      /\ result'[n].is = is /\ result'[n].to = result[n].to
  <2>1. result' = [result EXCEPT ![n] = [result[n] EXCEPT !.is = is]] BY <1>0, <1>2
  <2>. QED BY <1>0, <1>b, <1>3, <1>4, <2>1
<1>6. Subscribers'
  <2>1. Len(result') = Len(result) BY <1>b, <1>5
  <2>2. \A i \in Instance : Sound(i)' BY <1>0, <1>2, <2>1 DEF Subscribers, Sound
  <2>. QED BY <1>0, <1>2, <2>2 DEF Subscribers, Shapes
<1>7. Results'
  <2>1. confirms' \in Seq(BOOLEAN) BY <1>0, <1>1, Dropped DEF Results
  <2>. QED BY <1>0, <1>2, <1>5, <2>1 DEF Results
<1>8. (Lasting' <=> Lasting) /\ (\A i : Content(i)' = Content(i)) BY <1>2 DEF Lasting, Content
<1>9. \A m \in DOMAIN result : Kept(m)' <=> Kept(m)
  <2>1. \A m \in DOMAIN result : result'[m].to = result[m].to BY <1>5
  <2>. QED BY <1>8, <2>1 DEF Kept
<1>10. \A k \in Int : k < n => (Answered(k)' <=> Answered(k)) BY <1>0, <1>5 DEF Answered
<1>11. ~Sending'
  <2>1. \A m \in DOMAIN result : result[m].is = "open" => m = n BY <1>0, <1>b DEF Publisher
  <2>. QED BY <1>0, <1>5, <2>1 DEF Sending
<1>12. n - 1 \in Int /\ n - 1 < n /\ Len(result) - 1 = n - 1 BY <1>b
<1>13. Lasting /\ Answered(n - 1) => Len(confirms) <= 1 /\ (confirms # <<>> /\ confirms[1] = TRUE => Kept(n))
  <2>1. Answered(n - 1) <=> Answered(Len(result) - 1) BY <1>12
  <2>. QED BY <1>0, <1>2, <1>b, <2>1 DEF Publisher
<1>14. Publisher'
  <2>1. \A m \in DOMAIN result' : result'[m].is # "open" BY <1>11 DEF Sending
  <2>2. driver' # "rabbitmq" => FALSE BY <1>0, <1>2 DEF Publisher
  <2>3. Len(confirms') <= Len(result')
    <3>1. Len(confirms) <= n /\ confirms \in Seq(BOOLEAN) BY <1>0, <1>b DEF Publisher, Results
    <3>2. Len(confirms') = Len(confirms) \/ Len(confirms') = Len(confirms) - 1
      BY <1>1, <3>1, Dropped
    <3>3. Len(confirms) \in Nat BY <3>1
    <3>. QED BY <1>5, <3>1, <3>2, <3>3
  <2>4. ASSUME Lasting, Answered(n - 1), is \notin {"slow", "cancelled"} PROVE confirms' = <<>>
    <3>1. Len(confirms) <= 1 BY <1>13, <2>4
    <3>2. CASE confirms # <<>> /\ confirms' = Tail(confirms)
      <4>1. confirms \in Seq(BOOLEAN) BY <1>0 DEF Results
      <4>2. 1 \in DOMAIN confirms
        <5>1. Len(confirms) \in Nat /\ Len(confirms) > 0 BY <3>2, <4>1, Dropped
        <5>. QED BY <4>1, <5>1
      <4>3. Len(confirms) = 1 BY <3>1, <4>1, <4>2, Single
      <4>. QED BY <3>2, <4>1, <4>3, TailOfOne
    <3>. QED BY <1>1, <2>4, <3>2
  <2>5. (Answered(Len(result) - 1))' <=> Answered(n - 1) BY <1>5, <1>10, <1>12 DEF Answered
  <2>6. (Answered(Len(result)))' => is \notin {"slow", "cancelled"} BY <1>0, <1>3, <1>5 DEF Answered
  <2>. QED BY <1>8, <1>11, <2>1, <2>2, <2>3, <2>4, <2>5, <2>6 DEF Publisher
<1>15. KeptInv'
  <2> SUFFICES ASSUME Lasting', NEW m \in DOMAIN result', Trusted(m)' PROVE Kept(m)'
    BY DEF KeptInv
  <2>0. m \in 1..n /\ m \in DOMAIN result BY <1>0, <1>5
  <2>1. CASE m # n
    <3>1. Trusted(m) BY <2>0, <2>1, <1>0, <1>5 DEF Trusted
    <3>. QED BY <2>0, <3>1, <1>0, <1>8, <1>9 DEF KeptInv
  <2>2. CASE m = n
    <3>1. is = "ok" BY <2>2, <1>5 DEF Trusted
    <3>2. Answered(n - 1)
      <4>1. \A k \in 1..(n - 1) : result'[k].is \notin {"slow", "cancelled"} BY <2>2 DEF Trusted
      <4>. QED BY <4>1, <1>0, <1>5 DEF Answered
    <3>3. Kept(n) BY <1>1, <1>8, <1>13, <3>1, <3>2
    <3>. QED BY <2>0, <2>2, <3>3, <1>9
  <2>. QED BY <2>1, <2>2
<1>. QED BY <1>2, <1>6, <1>7, <1>14, <1>15 DEF PubSubInv

LEMMA LinkLostKeepsInv ==
    ASSUME PubSubInv, LinkLost
    PROVE  PubSubInv' /\ UNCHANGED <<driver, result>>
<1>0. Subscribers /\ Results /\ Publisher /\ KeptInv BY DEF PubSubInv
<1>1. /\ UNCHANGED <<driver, durable, result, sub, store, handled, skipped>>
      /\ driver = "rabbitmq" /\ link' = FALSE
  BY DEF LinkLost
<1>2. PICK k \in 0..Len(confirms) : confirms' = SubSeq(confirms, 1, k) BY DEF LinkLost
<1>3. confirms \in Seq(BOOLEAN) /\ Len(confirms) \in Nat /\ Len(result) \in Nat BY <1>0 DEF Results
<1>4. /\ confirms' \in Seq(BOOLEAN) /\ Len(confirms') = k /\ k <= Len(confirms) /\ k \in Nat
      /\ \A a \in 1..k : confirms'[a] = confirms[a]
  BY <1>2, <1>3
<1>5. Subscribers' BY <1>0, <1>1 DEF Subscribers, Shapes, Sound
<1>6. Results' BY <1>0, <1>1, <1>4 DEF Results
<1>7. /\ (Lasting' <=> Lasting) /\ (Sending' <=> Sending)
      /\ \A m : (Kept(m)' <=> Kept(m)) /\ (Answered(m)' <=> Answered(m)) /\ (Trusted(m)' <=> Trusted(m))
  BY <1>1 DEF Lasting, Sending, Kept, Content, Answered, Trusted
<1>8. confirms = <<>> => confirms' = <<>> BY <1>2
<1>9. confirms' # <<>> => k >= 1 /\ confirms # <<>> /\ confirms'[1] = confirms[1]
  <2>1. k = 0 => confirms' = <<>> BY <1>2, <1>3
  <2>. QED BY <1>4, <1>8, <2>1
<1>10. Publisher'
  <2>1. Len(confirms') <= Len(result) BY <1>0, <1>3, <1>4 DEF Publisher
  <2>2. Len(confirms) <= 1 => Len(confirms') <= 1 BY <1>3, <1>4
  <2>3. ASSUME Lasting, Answered(Len(result) - 1)
        PROVE  /\ Sending => Len(confirms') <= 1
               /\ (Sending /\ confirms' # <<>> /\ confirms'[1] = TRUE) => Kept(Len(result))
               /\ (~Sending /\ Answered(Len(result))) => confirms' = <<>>
    BY <1>0, <1>8, <1>9, <2>2, <2>3 DEF Publisher
  <2>4. /\ (Answered(Len(result) - 1))' <=> Answered(Len(result) - 1)
        /\ (Answered(Len(result)))' <=> Answered(Len(result))
        /\ (Kept(Len(result)))' <=> Kept(Len(result))
    BY <1>1, <1>7 DEF Answered, Kept, Content
  <2>. QED BY <1>0, <1>1, <1>7, <2>1, <2>3, <2>4 DEF Publisher
<1>11. KeptInv' BY <1>0, <1>1, <1>7 DEF KeptInv
<1>. QED BY <1>1, <1>5, <1>6, <1>10, <1>11 DEF PubSubInv

-----------------------------------------------------------------------------
(* The scheduler. *)
LEMMA LeastNat ==
    ASSUME NEW T, T \in SUBSET Nat, NEW w \in T
    PROVE  \E x \in T : \A y \in T : x <= y
<1> DEFINE R == OpToRel(<, Nat)
<1>1. IsWellFoundedOn(R, Nat) BY NatLessThanWellFounded
<1>2. \A x, y \in Nat : <<y, x>> \in R <=> y < x BY DEF OpToRel
<1> HIDE DEF R
<1>3. PICK x \in T : \A y \in T : ~ (<<y, x>> \in R) BY <1>1, WFMin
<1>4. ASSUME NEW y \in T PROVE x <= y
  <2>1. x \in Nat /\ y \in Nat OBVIOUS
  <2>2. ~(y < x) BY <1>2, <1>3, <2>1
  <2>. QED BY <2>1, <2>2
<1>. QED BY <1>4

LEMMA Extremes ==
    ASSUME NEW n \in Nat, NEW S, S \subseteq 0..n, NEW w \in S
    PROVE  /\ Min(S) \in S /\ \A x \in S : Min(S) <= x
           /\ Max(S) \in S /\ \A x \in S : x <= Max(S)
<1>1. \E x \in S : \A y \in S : x <= y
  <2>1. S \in SUBSET Nat BY SMT
  <2>. QED BY <2>1, LeastNat
<1>2. \E x \in S : \A y \in S : x >= y
  <2> DEFINE T == {n - x : x \in S}
  <2>1. T \in SUBSET Nat /\ n - w \in T BY SMT
  <2>2. PICK l \in T : \A y \in T : l <= y BY <2>1, LeastNat
  <2>3. PICK x \in S : l = n - x BY <2>2
  <2>4. ASSUME NEW y \in S PROVE x >= y
    <3>1. n - y \in T OBVIOUS
    <3>2. n - x <= n - y BY <2>2, <2>3, <3>1
    <3>3. x \in 0..n /\ y \in 0..n OBVIOUS
    <3>. QED BY <3>2, <3>3
  <2>. QED BY <2>4
<1>3. Min(S) \in S /\ \A x \in S : Min(S) <= x BY <1>1 DEF Min
<1>4. Max(S) \in S /\ \A x \in S : Max(S) >= x BY <1>2 DEF Max
<1>5. \A x \in S : x \in Int OBVIOUS
<1>. QED BY <1>3, <1>4, <1>5

\* The minute boundary that time.Date gives is a minute with the same wall-clock time.
LEMMA ResolveIs ==
    ASSUME SchedulerTypeOK, NEW t \in 0..Horizon
    PROVE  /\ Resolve(t) \in 0..Horizon
           /\ Wall[Resolve(t)] = Wall[t]
           /\ zone = "second" => t <= Resolve(t)
<1> DEFINE same == {u \in 0..Horizon : Wall[u] = Wall[t]}
<1>1. same \subseteq 0..Horizon /\ t \in same OBVIOUS
<1>2. Horizon \in Nat BY SchedulerConstants
<1>3. Resolve(t) = IF zone = "first" THEN Min(same) ELSE Max(same) BY DEF Resolve
<1>4. /\ Min(same) \in same /\ \A x \in same : Min(same) <= x
      /\ Max(same) \in same /\ \A x \in same : x <= Max(same)
  <2> HIDE DEF same
  <2>. QED BY <1>1, <1>2, Extremes
<1>. QED BY <1>1, <1>3, <1>4

\* What a loop sleeps to was read off the clock at or after its last run.
Waking(j) ==
    loop[j].pc = "asleep" =>
        \E t \in 0..clock : runs[j].last <= t /\ loop[j].wake = Resolve(t) + 1

LoopInv(j) ==
    /\ loop[j].pc = "off" <=> run = "new"
    /\ loop[j].pc \in {"asleep", "handler"} => Parses(cron[j])
    /\ Waking(j)

TickInv ==
    /\ SchedulerTypeOK
    /\ \A j \in Job : LoopInv(j)
    /\ run = "returned" => done /\ \A j \in Job : loop[j].pc = "ended"

PublishingInv ==
    /\ publishing \subseteq {j \in Job : loop[j].pc = "handler"}
    /\ Sending => publishing # {}

PipelineInv == TickInv /\ PubSubInv /\ PublishingInv

LEMMA AsleepType ==
    ASSUME SchedulerTypeOK
    PROVE  /\ Asleep \in [pc : {"off", "asleep", "handler", "ended"}, wake : 0..(Horizon + 1)]
           /\ Asleep.pc = "asleep" /\ Asleep.wake = Resolve(clock) + 1
           /\ \A pc \in {"off", "asleep", "handler", "ended"} :
                 Going(pc) \in [pc : {"off", "asleep", "handler", "ended"}, wake : 0..(Horizon + 1)]
<1>1. clock \in 0..Horizon /\ Horizon \in Nat BY SchedulerConstants DEF SchedulerTypeOK
<1>2. Resolve(clock) \in 0..Horizon BY <1>1, ResolveIs
<1>3. Resolve(clock) + 1 \in 0..(Horizon + 1) /\ 0 \in 0..(Horizon + 1) BY <1>1, <1>2
<1>. QED BY <1>3 DEF Asleep, Going

LEMMA TickInit == SchedulerInit => TickInv
<1> SUFFICES ASSUME SchedulerInit PROVE TickInv OBVIOUS
<1> USE DEF SchedulerInit
<1>0. Horizon \in Nat /\ MaxRuns \in Nat BY SchedulerConstants
<1>1. SchedulerTypeOK
  <2>1. loop \in [Job -> [pc : {"off", "asleep", "handler", "ended"}, wake : 0..(Horizon + 1)]]
    BY <1>0
  <2>2. runs \in [Job -> [count : 0..MaxRuns, last : -1..clock]] BY <1>0
  <2>3. clock \in 0..Horizon BY <1>0
  <2>. QED BY <2>1, <2>2, <2>3 DEF SchedulerTypeOK
<1>2. \A j \in Job : loop[j].pc = "off" /\ run = "new" OBVIOUS
<1>3. \A j \in Job : LoopInv(j) BY <1>2 DEF LoopInv, Waking
<1>. QED BY <1>1, <1>3 DEF TickInv

\* A step in which the loop of j, and no other, moves, not before the clock says so.
LEMMA LoopMoves ==
    ASSUME TickInv, NEW j \in Job,
           NEW q \in [pc : {"asleep", "handler", "ended"}, wake : 0..(Horizon + 1)],
           loop' = [loop EXCEPT ![j] = q], UNCHANGED <<clock, zone, cron, run, done>>,
           loop[j].pc \notin {"off", "ended"},
           q.pc = "asleep" => q.wake = Resolve(clock) + 1 /\ runs' = runs,
           runs' \in [Job -> [count : 0..MaxRuns, last : -1..clock]],
           \A k \in Job \ {j} : runs'[k] = runs[k]
    PROVE  TickInv'
<1>1. /\ loop \in [Job -> [pc : {"off", "asleep", "handler", "ended"}, wake : 0..(Horizon + 1)]]
      /\ clock \in 0..Horizon /\ Horizon \in Nat
      /\ runs \in [Job -> [count : 0..MaxRuns, last : -1..clock]]
  BY SchedulerConstants DEF TickInv, SchedulerTypeOK
<1>2. loop' \in [Job -> [pc : {"off", "asleep", "handler", "ended"}, wake : 0..(Horizon + 1)]]
  BY <1>1
<1>3. loop'[j] = q /\ \A k \in Job \ {j} : loop'[k] = loop[k] BY <1>1
<1>4. SchedulerTypeOK' BY <1>1, <1>2 DEF TickInv, SchedulerTypeOK
<1>5. \A t : Resolve(t)' = Resolve(t) BY DEF Resolve
<1>6. q.pc # "off" /\ run # "new" /\ run # "returned" /\ Parses(cron[j]) BY <1>1 DEF TickInv, LoopInv
<1>7. ASSUME NEW k \in Job PROVE LoopInv(k)'
  <2>1. CASE k # j
    <3>1. loop'[k] = loop[k] /\ runs'[k] = runs[k] BY <1>3, <2>1
    <3>2. LoopInv(k) BY DEF TickInv
    <3>3. Waking(k)'
      <4> SUFFICES ASSUME loop[k].pc = "asleep"
                   PROVE  \E t \in 0..clock : runs[k].last <= t /\ loop[k].wake = (Resolve(t))' + 1
        BY <3>1 DEF Waking
      <4>1. PICK t \in 0..clock : runs[k].last <= t /\ loop[k].wake = Resolve(t) + 1
        BY <3>2 DEF LoopInv, Waking
      <4>. QED BY <4>1, <1>5
    <3>. QED BY <3>1, <3>2, <3>3 DEF LoopInv
  <2>2. CASE k = j
    <3>1. Waking(j)'
      <4> SUFFICES ASSUME q.pc = "asleep"
                   PROVE  \E t \in 0..clock : runs[j].last <= t /\ q.wake = (Resolve(t))' + 1
        BY <1>3 DEF Waking
      <4>1. clock \in 0..clock /\ runs[j].last <= clock BY <1>1
      <4>. QED BY <4>1, <1>5
    <3>. QED BY <2>2, <3>1, <1>3, <1>6 DEF LoopInv
  <2>. QED BY <2>1, <2>2
<1>. QED BY <1>4, <1>6, <1>7 DEF TickInv

LEMMA LookKeepsInv ==
    ASSUME TickInv, NEW j \in Job, Look(j)
    PROVE  TickInv'
<1>0. /\ SchedulerTypeOK /\ clock \in 0..Horizon /\ Horizon \in Nat /\ MaxRuns \in Nat
      /\ runs \in [Job -> [count : 0..MaxRuns, last : -1..clock]]
  BY SchedulerConstants DEF TickInv, SchedulerTypeOK
<1>1. /\ UNCHANGED <<clock, zone, cron, run, done>> /\ loop[j].pc = "asleep"
      /\ runs[j].count < MaxRuns
  BY DEF Look
<1>2. CASE Match(Parse(cron[j]), Wall[clock])
  <2> DEFINE q == Going("handler")
             r == [count |-> runs[j].count + 1, last |-> clock]
  <2>1. q \in [pc : {"asleep", "handler", "ended"}, wake : 0..(Horizon + 1)] /\ q.pc = "handler"
    BY <1>0 DEF Going
  <2>2. r \in [count : 0..MaxRuns, last : -1..clock]
    <3>1. runs[j].count \in 0..MaxRuns BY <1>0
    <3>2. runs[j].count + 1 \in 0..MaxRuns /\ clock \in -1..clock BY <3>1, <1>0, <1>1
    <3>. QED BY <3>2
  <2>3. loop' = [loop EXCEPT ![j] = q] /\ runs' = [runs EXCEPT ![j] = r]
    BY <1>0, <1>2 DEF Look
  <2> HIDE DEF q, r
  <2>. QED BY <1>0, <1>1, <2>1, <2>2, <2>3, LoopMoves
<1>3. CASE ~Match(Parse(cron[j]), Wall[clock])
  <2>1. loop' = [loop EXCEPT ![j] = Asleep] /\ runs' = runs BY <1>3 DEF Look
  <2>2. Asleep \in [pc : {"asleep", "handler", "ended"}, wake : 0..(Horizon + 1)]
        /\ Asleep.wake = Resolve(clock) + 1
    BY <1>0, AsleepType DEF Asleep
  <2>. QED BY <1>0, <1>1, <2>1, <2>2, LoopMoves
<1>. QED BY <1>2, <1>3

LEMMA SchedulerKeepsInv ==
    ASSUME TickInv,
           Pass \/ Run \/ Stop \/ RunReturns \/ \E j \in Job : Look(j) \/ LoopEnds(j) \/ HandlerEnds(j)
    PROVE  TickInv'
<1>0. /\ SchedulerTypeOK /\ clock \in 0..Horizon /\ Horizon \in Nat /\ MaxRuns \in Nat
      /\ runs \in [Job -> [count : 0..MaxRuns, last : -1..clock]]
      /\ loop \in [Job -> [pc : {"off", "asleep", "handler", "ended"}, wake : 0..(Horizon + 1)]]
  BY SchedulerConstants DEF TickInv, SchedulerTypeOK
<1>1. CASE Pass
  <2>1. /\ clock' = clock + 1 /\ clock < Horizon /\ UNCHANGED <<zone, cron, loop, run, done, runs>>
        /\ clock' \in 0..Horizon
    BY <1>0, <1>1 DEF Pass
  <2>2. runs' \in [Job -> [count : 0..MaxRuns, last : -1..clock']]
    <3>1. \A j \in Job : runs[j] \in [count : 0..MaxRuns, last : -1..(clock + 1)] BY <1>0
    <3>. QED BY <3>1, <1>0, <2>1
  <2>3. SchedulerTypeOK' BY <1>0, <2>1, <2>2 DEF SchedulerTypeOK
  <2>4. ASSUME NEW j \in Job PROVE LoopInv(j)'
    <3>1. LoopInv(j) BY DEF TickInv
    <3>2. Waking(j)'
      <4> SUFFICES ASSUME loop[j].pc = "asleep"
                   PROVE  \E t \in 0..clock' : runs[j].last <= t /\ loop[j].wake = (Resolve(t))' + 1
        BY <2>1 DEF Waking
      <4>1. PICK t \in 0..clock : runs[j].last <= t /\ loop[j].wake = Resolve(t) + 1
        BY <3>1 DEF LoopInv, Waking
      <4>2. t \in 0..clock' BY <1>0, <2>1
      <4>3. (Resolve(t))' = Resolve(t) BY <2>1 DEF Resolve
      <4>. QED BY <4>1, <4>2, <4>3
    <3>. QED BY <2>1, <3>1, <3>2 DEF LoopInv
  <2>. QED BY <2>1, <2>3, <2>4 DEF TickInv
<1>2. CASE Run
  <2>1. /\ run = "new" /\ run' = "running" /\ UNCHANGED <<clock, zone, cron, done, runs>>
        /\ loop' = [j \in Job |-> IF Parses(cron[j]) THEN Asleep ELSE Going("ended")]
    BY <1>2 DEF Run
  <2>2. loop' \in [Job -> [pc : {"off", "asleep", "handler", "ended"}, wake : 0..(Horizon + 1)]]
    BY <1>0, <2>1, AsleepType
  <2>3. SchedulerTypeOK' BY <1>0, <2>1, <2>2 DEF SchedulerTypeOK
  <2>4. ASSUME NEW j \in Job PROVE LoopInv(j)'
    <3>1. CASE Parses(cron[j])
      <4>1. loop'[j] = Asleep BY <2>1, <3>1
      <4>2. loop'[j].pc = "asleep" /\ loop'[j].wake = Resolve(clock) + 1 BY <1>0, <4>1, AsleepType
      <4>3. clock \in 0..clock /\ runs[j].last <= clock BY <1>0
      <4>4. \A t : (Resolve(t))' = Resolve(t) BY <2>1 DEF Resolve
      <4>5. Waking(j)' BY <2>1, <4>2, <4>3, <4>4 DEF Waking
      <4>. QED BY <2>1, <3>1, <4>2, <4>5 DEF LoopInv
    <3>2. CASE ~Parses(cron[j])
      <4>1. loop'[j].pc = "ended" BY <2>1, <3>2 DEF Going
      <4>. QED BY <2>1, <4>1 DEF LoopInv, Waking
    <3>. QED BY <3>1, <3>2
  <2>. QED BY <2>1, <2>3, <2>4 DEF TickInv
<1>3. CASE Stop
  <2>1. done' = TRUE /\ UNCHANGED <<clock, zone, cron, loop, run, runs>> BY <1>3 DEF Stop
  <2>. QED BY <2>1 DEF TickInv, SchedulerTypeOK, LoopInv, Waking, Resolve
<1>4. CASE RunReturns
  <2>1. /\ run = "running" /\ run' = "returned" /\ done /\ \A j \in Job : loop[j].pc = "ended"
        /\ UNCHANGED <<clock, zone, cron, loop, done, runs>>
    BY <1>4 DEF RunReturns
  <2>2. SchedulerTypeOK' BY <1>0, <2>1 DEF SchedulerTypeOK
  <2>3. \A j \in Job : LoopInv(j)' BY <2>1 DEF LoopInv, Waking
  <2>. QED BY <2>1, <2>2, <2>3 DEF TickInv
<1>5. CASE \E j \in Job : LoopEnds(j)
  <2>1. PICK j \in Job : LoopEnds(j) BY <1>5
  <2>2. /\ UNCHANGED <<clock, zone, cron, run, done, runs>> /\ loop[j].pc = "asleep"
        /\ loop' = [loop EXCEPT ![j] = Going("ended")]
    BY <2>1 DEF LoopEnds
  <2>3. Going("ended") \in [pc : {"asleep", "handler", "ended"}, wake : 0..(Horizon + 1)]
        /\ Going("ended").pc = "ended"
    BY <1>0 DEF Going
  <2>. QED BY <1>0, <2>2, <2>3, LoopMoves
<1>6. CASE \E j \in Job : HandlerEnds(j)
  <2>1. PICK j \in Job : HandlerEnds(j) BY <1>6
  <2>2. /\ UNCHANGED <<clock, zone, cron, run, done, runs>> /\ loop[j].pc = "handler"
        /\ loop' = [loop EXCEPT ![j] = Asleep]
    BY <2>1 DEF HandlerEnds
  <2>3. Asleep \in [pc : {"asleep", "handler", "ended"}, wake : 0..(Horizon + 1)]
        /\ Asleep.wake = Resolve(clock) + 1
    BY <1>0, AsleepType DEF Asleep
  <2>. QED BY <1>0, <2>2, <2>3, LoopMoves
<1>. QED BY <1>1, <1>2, <1>3, <1>4, <1>5, <1>6, LookKeepsInv

LEMMA Quotient ==
    ASSUME NEW x \in Int, NEW k \in Nat, NEW q \in Int, NEW r \in 0..(k - 1), k > 0, x = q * k + r
    PROVE  x % k = r
OBVIOUS

\* What the loop of parsePart steps over.
LEMMA Steps ==
    ASSUME NEW k \in Nat, k > 0
    PROVE  /\ 0 % k = 0
           /\ \A x \in 1..(k - 1) : x % k # 0
           /\ \A x \in Int : (x + k) % k = x % k
<1>1. 0 % k = 0 OBVIOUS
<1>2. ASSUME NEW x \in 1..(k - 1) PROVE x % k # 0
  <2>1. x % k = x OBVIOUS
  <2>. QED BY <2>1
<1>3. ASSUME NEW x \in Int PROVE (x + k) % k = x % k
  <2>1. PICK q \in Int : x = q * k + (x % k)
    <3>1. x = (x \div k) * k + (x % k) /\ x \div k \in Int OBVIOUS
    <3>. QED BY <3>1
  <2>2. x % k \in 0..(k - 1) OBVIOUS
  <2>3. PICK r \in 0..(k - 1) : r = x % k BY <2>2
  <2>4. x + k = (q + 1) * k + r
    <3>1. (q + 1) * k = q * k + k OBVIOUS
    <3>2. q * k \in Int OBVIOUS
    <3>. QED BY <2>1, <2>3, <3>1, <3>2
  <2>5. q + 1 \in Int /\ x + k \in Int OBVIOUS
  <2>. QED BY <2>3, <2>4, <2>5, Quotient
<1>. QED BY <1>1, <1>2, <1>3

\* The bits of a list item that the loop sets are every step-th from lo to hi.
LEMMA FilledIs ==
    ASSUME NEW part \in [lo : Int, hi : Int, step : Int], part.step > 0, part.lo <= part.hi
    PROVE  Filled(part) = {w \in part.lo..part.hi : (w - part.lo) % part.step = 0}
<1> DEFINE from[v \in Int] == IF v > part.hi THEN {} ELSE {v} \cup from[v + part.step]
<1>a. Filled(part) = from[part.lo] BY DEF Filled
<1>b. from = CHOOSE f : f = [v \in Int |-> IF v > part.hi THEN {} ELSE {v} \cup f[v + part.step]]
  OBVIOUS
<1> HIDE DEF from
<1>c. PICK lo, hi, k \in Int : lo = part.lo /\ hi = part.hi /\ k = part.step OBVIOUS
<1>2. k \in Nat /\ k > 0 /\ lo <= hi /\ lo \in Int /\ hi \in Int BY <1>c
<1> DEFINE Stepped(v) == {w \in v..hi : (w - v) % k = 0}
           Wrong == {n \in Nat : \E v \in Int : n = hi - v + k /\ from[v] # Stepped(v)}
<1>1. \A v \in Int : v > hi => Stepped(v) = {}
  <2> SUFFICES ASSUME NEW v \in Int, v > hi PROVE Stepped(v) = {} OBVIOUS
  <2>1. v..hi = {} BY <1>2
  <2>. QED BY <2>1
<1>5. \A v \in Int : v <= hi => Stepped(v) = {v} \cup Stepped(v + k)
  <2> SUFFICES ASSUME NEW v \in Int, v <= hi PROVE Stepped(v) = {v} \cup Stepped(v + k) OBVIOUS
  <2>1. 0 % k = 0 /\ (\A x \in 1..(k - 1) : x % k # 0) /\ \A x \in Int : (x + k) % k = x % k
    BY <1>2, Steps
  <2>2. ASSUME NEW w \in Stepped(v), w # v PROVE w \in Stepped(v + k)
    <3>1. w \in v..hi /\ (w - v) % k = 0 /\ w \in Int /\ w - v \in Int OBVIOUS
    <3>2. w - v >= k
      <4>1. w - v \notin 1..(k - 1) BY <2>1, <3>1
      <4>. QED BY <1>2, <2>2, <3>1, <4>1
    <3>3. PICK x \in Int : x = w - (v + k) BY <1>2, <3>1
    <3>4. x + k = w - v BY <1>2, <3>1, <3>3
    <3>5. x % k = 0 BY <2>1, <3>1, <3>4
    <3>6. w \in (v + k)..hi BY <1>2, <3>1, <3>2
    <3>. QED BY <3>3, <3>5, <3>6
  <2>3. ASSUME NEW w \in Stepped(v + k) PROVE w \in Stepped(v)
    <3>1. w \in (v + k)..hi /\ (w - (v + k)) % k = 0 OBVIOUS
    <3>2. PICK x \in Int : x = w - (v + k) BY <1>2, <3>1
    <3>3. x + k = w - v BY <1>2, <3>1, <3>2
    <3>4. (w - v) % k = 0 BY <2>1, <3>1, <3>2, <3>3
    <3>5. w \in v..hi BY <1>2, <3>1
    <3>. QED BY <3>4, <3>5
  <2>4. v \in Stepped(v)
    <3>1. v - v = 0 /\ v \in v..hi BY <1>2
    <3>. QED BY <2>1, <3>1
  <2> HIDE DEF Stepped
  <2>. QED BY <2>2, <2>3, <2>4
<1>3. \A v \in Int : from[v] = IF v > hi THEN {} ELSE {v} \cup from[v + k]
  <2> HIDE DEF Stepped, Wrong
  <2> DEFINE stepped == [v \in Int |-> Stepped(v)]
  <2>1. stepped = [v \in Int |-> IF v > part.hi THEN {} ELSE {v} \cup stepped[v + part.step]]
    <3>1. ASSUME NEW v \in Int
          PROVE  Stepped(v) = IF v > hi THEN {} ELSE {v} \cup stepped[v + k]
      <4>1. v + k \in Int /\ (v <= hi \/ v > hi) /\ ~(v <= hi /\ v > hi) BY <1>2
      <4>2. stepped[v + k] = Stepped(v + k) BY <4>1
      <4>. QED BY <1>1, <1>5, <4>1, <4>2
    <3>. QED BY <3>1, <1>c
  <2>2. from = [v \in Int |-> IF v > part.hi THEN {} ELSE {v} \cup from[v + part.step]]
    <3> HIDE DEF stepped
    <3>. QED BY <2>1, <1>b
  <2>3. \A v \in Int : from[v] = IF v > part.hi THEN {} ELSE {v} \cup from[v + part.step]
    <3>. QED BY <2>2, Zenon
  <2>. QED BY <2>3, <1>c
<1>4. \A v \in Int : v > hi => from[v] = Stepped(v)
  <2> HIDE DEF Stepped
  <2>. QED BY <1>1, <1>3
<1>6. ASSUME NEW n \in Wrong PROVE \E m \in Wrong : m < n
  <2>1. PICK v \in Int : n = hi - v + k /\ from[v] # Stepped(v) OBVIOUS
  <2> HIDE DEF Stepped, Wrong
  <2>2. v <= hi BY <1>2, <1>4, <2>1
  <2>3. from[v + k] # Stepped(v + k)
    <3>1. ~(v > hi) BY <1>2, <2>2
    <3>2. from[v] = {v} \cup from[v + k] BY <1>3, <3>1
    <3>. QED BY <1>5, <2>1, <2>2, <3>2
  <2>4. hi - (v + k) + k \in Nat /\ hi - (v + k) + k < n /\ v + k \in Int BY <1>2, <2>1, <2>2
  <2>5. hi - (v + k) + k \in Wrong BY <2>3, <2>4 DEF Wrong
  <2>. QED BY <2>4, <2>5
<1>7. from[lo] = Stepped(lo)
  <2>1. SUFFICES ASSUME from[lo] # Stepped(lo) PROVE FALSE OBVIOUS
  <2>2. hi - lo + k \in Wrong BY <1>2, <2>1
  <2>3. Wrong \in SUBSET Nat OBVIOUS
  <2> HIDE DEF Wrong
  <2>4. PICK x \in Wrong : \A y \in Wrong : x <= y BY <2>2, <2>3, LeastNat
  <2>5. PICK m \in Wrong : m < x BY <1>6
  <2>6. m \in Nat /\ x \in Nat /\ x <= m BY <2>3, <2>4
  <2>. QED BY <2>5, <2>6
<1>. QED BY <1>a, <1>c, <1>7

\* A loop runs the handler exactly in the minutes that the expression allows.
LEMMA MatchIs ==
    ASSUME NEW e \in Expression, Parses(e), NEW t \in [Fields -> Int]
    PROVE  Match(Parse(e), t) <=> Allows(e, t)
<1> DEFINE Sets(part) == {w \in part.lo..part.hi : (w - part.lo) % part.step = 0}
           Values(f) == {t[f]} \cup (IF f = "dow" /\ t.dow = 0 THEN {7} ELSE {})
           dow == IF t.dow = 0 /\ 7 \in Parse(e).dow THEN 7 ELSE t.dow
<1>1. \A f \in Fields : e[f] \subseteq [lo : Int, hi : Int, step : Int]
  BY SchedulerConstants
<1>2. \A f \in Fields : \A part \in e[f] : Filled(part) = Sets(part)
  <2> SUFFICES ASSUME NEW f \in Fields, NEW part \in e[f] PROVE Filled(part) = Sets(part) OBVIOUS
  <2>1. part.step > 0 /\ part.lo <= part.hi BY DEF Parses, Accepted
  <2>2. part \in [lo : Int, hi : Int, step : Int] BY <1>1
  <2>. QED BY <2>1, <2>2, FilledIs
<1> HIDE DEF Sets
<1>3. \A f \in Fields : Parse(e)[f] = UNION {Sets(part) : part \in e[f]}
  <2> SUFFICES ASSUME NEW f \in Fields PROVE Parse(e)[f] = UNION {Sets(part) : part \in e[f]} OBVIOUS
  <2>1. Parse(e)[f] = UNION {Filled(part) : part \in e[f]} BY DEF Parse
  <2>. QED BY <1>2, <2>1
<1>4. \A f \in Fields : \A v : v \in Parse(e)[f] <=> \E part \in e[f] : v \in Sets(part)
  BY <1>3
<1>5. Match(Parse(e), t) <=> \A f \in Fields : (IF f = "dow" THEN dow ELSE t[f]) \in Parse(e)[f]
  BY DEF Match
<1>6. Allows(e, t) <=> \A f \in Fields : \E v \in Values(f) : v \in Parse(e)[f]
  <2>1. Allows(e, t) <=> \A f \in Fields : \E part \in e[f] : \E v \in Values(f) : v \in Sets(part)
    BY DEF Allows, Sets
  <2> HIDE DEF Values
  <2>. QED BY <1>4, <2>1
<1>7. "dow" \in Fields BY DEF Fields
<1>8. ASSUME NEW f \in Fields
      PROVE  (IF f = "dow" THEN dow ELSE t[f]) \in Parse(e)[f] <=> \E v \in Values(f) : v \in Parse(e)[f]
  <2>1. CASE f # "dow" BY <2>1
  <2>2. CASE f = "dow" BY <2>2
  <2>. QED BY <2>1, <2>2
<1> HIDE DEF Values, dow
<1>. QED BY <1>5, <1>6, <1>8

-----------------------------------------------------------------------------
(* The pipeline. *)
LEMMA PubSubInitInv == PubSubInit => PubSubInv /\ ~Sending
<1> SUFFICES ASSUME PubSubInit PROVE PubSubInv /\ ~Sending OBVIOUS
<1> USE DEF PubSubInit
<1>1. driver \in {"memory", "redis", "rabbitmq", "kafka"} BY PubSubConstants
<1>2. Len(<<>>) = 0 /\ DOMAIN <<>> = {} /\ Ranges(<<>>) = {} BY Nothing
<1>3. ~Sending BY <1>2 DEF Sending
<1>4. Results
  <2>1. result \in Seq(Entry) BY Nothing
  <2>2. confirms \in Seq(BOOLEAN) BY Nothing
  <2>. QED BY <2>1, <2>2 DEF Results
<1>5. Subscriber(driver, 0, Off, <<>>, <<>>, {})
  <2>1. <<>> \in Seq(Message) BY Nothing
  <2>2. Typed(driver, 0, Off, <<>>, <<>>, {}) BY <1>1, <2>1, OffType DEF Typed, States
  <2>3. Queued(0, <<>>, <<>>, {}) BY <1>2 DEF Queued
  <2>4. Behind(Off) = 0 BY OffType, NothingInHand
  <2>5. Holding(driver, 0, Off, <<>>)
    BY <1>2, <2>4, OffType DEF Holding
  <2>6. Passed(driver, Off, <<>>, <<>>, {}) BY <2>4 DEF Passed
  <2>7. InTurn(driver, Off, <<>>, <<>>, {}) BY <1>2, OffType DEF InTurn
  <2>8. Fresh(Off, <<>>, <<>>)
    <3>1. \A m \in Message : Times(m, <<>>) = 0 BY <1>2, <2>1, TimesType
    <3>2. Off.starts = 0 BY DEF Off
    <3>. QED BY <1>2, <3>1, <3>2, OffType DEF Fresh
  <2>9. Once(driver, Off, <<>>, <<>>)
    <3>1. \A m \in Message : Times(m, <<>>) = 0 BY <1>2, <2>1, TimesType
    <3>2. Off.bound = FALSE BY DEF Off
    <3>. QED BY <1>2, <3>1, <3>2, OffType DEF Once
  <2>10. Ordered(driver, <<>>, {}) BY <1>2 DEF Ordered
  <2>. QED BY <2>2, <2>3, <2>5, <2>6, <2>7, <2>8, <2>9, <2>10 DEF Subscriber
<1>6. Subscribers
  <2>1. Shapes BY DEF Shapes
  <2>2. Len(result) = 0 BY <1>2
  <2>3. \A i \in Instance : Sound(i) BY <1>5, <2>2 DEF Sound
  <2>. QED BY <2>1, <2>3 DEF Subscribers
<1>7. Publisher BY <1>2, <1>3 DEF Publisher
<1>8. KeptInv BY <1>2 DEF KeptInv
<1>. QED BY <1>3, <1>4, <1>6, <1>7, <1>8 DEF PubSubInv

LEMMA PubSubStays ==
    ASSUME PubSubInv, UNCHANGED pubsubVars
    PROVE  PubSubInv' /\ (Sending' <=> Sending)
<1>1. UNCHANGED <<driver, durable, link, result, confirms, sub, store, handled, skipped>>
  BY DEF pubsubVars
<1>2. Subscribers' /\ Results'
  BY <1>1 DEF PubSubInv, Subscribers, Shapes, Sound, Results
<1>3. Publisher' /\ KeptInv' /\ (Sending' <=> Sending)
  BY <1>1 DEF PubSubInv, Publisher, KeptInv, Sending, Lasting, Answered, Kept, Content, Trusted
<1>. QED BY <1>2, <1>3 DEF PubSubInv

LEMMA TickStays ==
    ASSUME TickInv, UNCHANGED schedulerVars
    PROVE  TickInv'
BY DEF TickInv, schedulerVars, SchedulerTypeOK, LoopInv, Waking, Resolve

LEMMA PipelineInit == Init => PipelineInv
BY TickInit, PubSubInitInv DEF Init, PipelineInv, PublishingInv

LEMMA PipelineStep == PipelineInv /\ [Next]_vars => PipelineInv'
<1> SUFFICES ASSUME PipelineInv, [Next]_vars PROVE PipelineInv' OBVIOUS
<1>0. TickInv /\ PubSubInv /\ PublishingInv BY DEF PipelineInv
<1>1. CASE SchedulerMoves
  <2>1. UNCHANGED <<pubsubVars, publishing>>
        /\ (Pass \/ Run \/ Stop \/ RunReturns \/ \E j \in Job : Look(j) \/ LoopEnds(j))
    BY <1>1 DEF SchedulerMoves
  <2>2. TickInv' BY <1>0, <2>1, SchedulerKeepsInv
  <2>3. PubSubInv' /\ (Sending' <=> Sending) BY <1>0, <2>1, PubSubStays
  <2>4. ASSUME NEW j \in publishing PROVE j \in Job /\ loop'[j].pc = "handler"
    <3>1. j \in Job /\ loop[j].pc = "handler" BY <1>0 DEF PublishingInv
    <3>2. \A k \in Job : Look(k) \/ LoopEnds(k) => loop[k].pc = "asleep" /\ k # j
      BY <3>1 DEF Look, LoopEnds
    <3>3. \A k \in Job : Look(k) \/ LoopEnds(k) => loop'[j] = loop[j]
      BY <1>0, <3>1, <3>2 DEF Look, LoopEnds, TickInv, SchedulerTypeOK
    <3>4. ~Run BY <1>0, <3>1 DEF Run, TickInv, LoopInv
    <3>5. Pass \/ Stop \/ RunReturns => loop' = loop BY DEF Pass, Stop, RunReturns
    <3>. QED BY <2>1, <3>1, <3>3, <3>4, <3>5
  <2>. QED BY <1>0, <2>1, <2>2, <2>3, <2>4 DEF PipelineInv, PublishingInv
<1>2. CASE BrokerMoves
  <2>1. UNCHANGED schedulerVars /\ UNCHANGED publishing /\ loop' = loop
    BY <1>2 DEF BrokerMoves, schedulerVars
  <2>2. TickInv' BY <1>0, <2>1, TickStays
  <2>3. PubSubInv' /\ (Sending' => Sending)
    <3>1. CASE PublishEnds BY <1>0, <3>1, SettleKeepsInv DEF PublishEnds
    <3>2. CASE LinkLost
      <4>1. PubSubInv' /\ result' = result BY <1>0, <3>2, LinkLostKeepsInv
      <4>. QED BY <4>1 DEF Sending
    <3>3. CASE \E i \in Instance : SubscriberStep(i)
      <4>1. PubSubInv' /\ result' = result BY <1>0, <3>3, SubscriberKeepsInv
      <4>. QED BY <4>1 DEF Sending
    <3>. QED BY <1>2, <3>1, <3>2, <3>3 DEF BrokerMoves
  <2>. QED BY <1>0, <2>1, <2>2, <2>3 DEF PipelineInv, PublishingInv
<1>3. ASSUME NEW j \in Job, TickPublishes(j) PROVE PipelineInv'
  <2>1. /\ loop[j].pc = "handler" /\ j \notin publishing /\ publishing' = publishing \cup {j}
        /\ UNCHANGED schedulerVars
    BY <1>3 DEF TickPublishes
  <2>2. ~Sending BY <1>0, <2>1, OneJob DEF PublishingInv
  <2>3. \/ PublishNow \/ PublishRefused
        \/ PublishFails(Cancelled)
        \/ \E ack \in BOOLEAN : PublishSent(ack)
    BY <1>3 DEF TickPublishes
  <2>4. PublishFails(Cancelled) => \E c \in BOOLEAN : PublishFails(c)
    <3>1. CASE Cancelled
      <4>1. PublishFails(Cancelled) => PublishFails(TRUE) BY <3>1 DEF PublishFails
      <4>. QED BY <4>1
    <3>2. CASE ~Cancelled
      <4>1. PublishFails(Cancelled) => PublishFails(FALSE) BY <3>2 DEF PublishFails
      <4>. QED BY <4>1
    <3>. QED BY <3>1, <3>2
  <2>5. PubSubInv' BY <1>0, <2>2, <2>3, <2>4, PublishKeepsInv
  <2>6. TickInv' BY <1>0, <2>1, TickStays
  <2>7. PublishingInv' BY <1>0, <2>1 DEF PublishingInv, schedulerVars
  <2>. QED BY <2>5, <2>6, <2>7 DEF PipelineInv
<1>4. ASSUME NEW j \in Job, TickEnds(j) PROVE PipelineInv'
  <2>1. /\ publishing' = publishing \ {j} /\ ~Sending /\ HandlerEnds(j) /\ UNCHANGED pubsubVars
    BY <1>4 DEF TickEnds
  <2>2. TickInv' BY <1>0, <2>1, SchedulerKeepsInv
  <2>3. PubSubInv' /\ ~Sending' BY <1>0, <2>1, PubSubStays
  <2>4. \A k \in Job : k # j => loop'[k] = loop[k]
    BY <1>0, <2>1 DEF HandlerEnds, TickInv, SchedulerTypeOK
  <2>5. PublishingInv' BY <1>0, <2>1, <2>3, <2>4 DEF PublishingInv
  <2>. QED BY <2>2, <2>3, <2>5 DEF PipelineInv
<1>5. CASE UNCHANGED vars
  <2>1. UNCHANGED schedulerVars /\ UNCHANGED pubsubVars /\ UNCHANGED publishing BY <1>5 DEF vars
  <2>2. TickInv' BY <1>0, <2>1, TickStays
  <2>3. PubSubInv' /\ (Sending' <=> Sending) BY <1>0, <2>1, PubSubStays
  <2>4. loop' = loop BY <2>1 DEF schedulerVars
  <2>. QED BY <1>0, <2>1, <2>2, <2>3, <2>4 DEF PipelineInv, PublishingInv
<1>. QED BY <1>1, <1>2, <1>3, <1>4, <1>5 DEF Next

LEMMA PipelineInvariant == Spec => []PipelineInv
BY PipelineInit, PipelineStep, PTL DEF Spec

\* What PipelineInv says of a subscriber is what the run checks.
LEMMA SoundIs ==
    ASSUME PubSubInv, NEW i \in Instance
    PROVE  /\ sub[i].pc \in {"off", "ready", "up", "away", "stopping", "cut", "returned"}
           /\ sub[i].marked \in 0..sub[i].out
           /\ sub[i].out \in 0..Len(store[i])
           /\ Ranges(store[i]) \cup Ranges(handled[i]) \cup skipped[i] \subseteq DOMAIN result
<1>0. Sound(i) /\ Len(result) \in Nat /\ DOMAIN result = 1..Len(result)
  BY DEF PubSubInv, Subscribers, Results
<1>1. /\ sub[i] \in Process /\ store[i] \in Seq(Message) /\ handled[i] \in Seq(Message)
      /\ skipped[i] \in SUBSET Message
      /\ driver \in {"memory", "redis", "rabbitmq", "kafka"}
  BY <1>0 DEF Sound, Subscriber, Typed
<1>2. /\ sub[i].pc \in {"off", "ready", "up", "away", "stopping", "cut", "returned"}
      /\ sub[i].marked \in Nat /\ sub[i].out \in Nat /\ Len(sub[i].hand) \in Nat
      /\ Len(store[i]) \in Nat
  BY <1>1 DEF Process
<1>3. Holding(driver, Len(result), sub[i], store[i]) BY <1>0 DEF Sound, Subscriber
<1>4. sub[i].out \in 0..Len(store[i]) BY <1>2, <1>3 DEF Holding
<1>5. sub[i].marked <= sub[i].out
  <2>1. CASE driver = "kafka"
    <3>1. sub[i].marked <= Behind(sub[i]) BY <1>3, <2>1 DEF Holding, Lent
    <3>2. Behind(sub[i]) = sub[i].out - Len(sub[i].hand) BY DEF Behind
    <3>. QED BY <1>2, <3>1, <3>2
  <2>2. CASE driver # "kafka" BY <1>2, <1>3, <2>2 DEF Holding
  <2>. QED BY <2>1, <2>2
<1>6. Ranges(store[i]) \cup Ranges(handled[i]) \cup skipped[i] \subseteq DOMAIN result
  <2>1. Queued(Len(result), store[i], handled[i], skipped[i]) BY <1>0 DEF Sound, Subscriber
  <2>2. \A m \in Ranges(store[i]) \cup Ranges(handled[i]) \cup skipped[i] :
           m \in Message /\ m <= Len(result)
    BY <1>1, <2>1 DEF Queued, Ranges
  <2>. QED BY <1>0, <2>2 DEF Message
<1>. QED BY <1>2, <1>4, <1>5, <1>6

LEMMA DeliveryFollows == PipelineInv => DeliveryInv
<1> SUFFICES ASSUME PipelineInv PROVE DeliveryInv OBVIOUS
<1>0. TickInv /\ PubSubInv /\ PublishingInv BY DEF PipelineInv
<1>1. PubSubTypeOK
  <2>1. \A m \in DOMAIN result : result[m].is \in {"open", "ok", "slow", "cancelled", "error"}
    <3>1. \A m \in DOMAIN result : result[m] \in Entry BY <1>0 DEF PubSubInv, Results
    <3>. QED BY <3>1 DEF Entry
  <2>2. driver \in Drivers /\ {durable, link} \subseteq BOOLEAN /\ Len(confirms) <= Len(result)
    BY <1>0 DEF PubSubInv, Subscribers, Results, Publisher
  <2>. QED BY <1>0, <2>1, <2>2, SoundIs DEF PubSubTypeOK
<1>2. TypeOK BY <1>0, <1>1 DEF TypeOK, TickInv, PublishingInv
<1>3. OrderKept
  <2>1. \A i \in Instance : Ordered(driver, handled[i], skipped[i])
    BY <1>0 DEF PubSubInv, Subscribers, Sound, Subscriber
  <2>. QED BY <2>1 DEF OrderKept, Ordered
<1>4. ReplaysNeedRestart
  <2> SUFFICES ASSUME NEW i \in Instance, NEW m \in Ranges(handled[i])
               PROVE  /\ Times(m, handled[i]) <= sub[i].starts
                      /\ driver \in {"memory", "redis"} => Times(m, handled[i]) = 1
    BY DEF ReplaysNeedRestart, Times
  <2>1. Sound(i) BY <1>0 DEF PubSubInv, Subscribers
  <2>2. handled[i] \in Seq(Message) /\ m \in Message
    BY <2>1 DEF Sound, Subscriber, Typed, Ranges
  <2>3. Times(m, handled[i]) <= sub[i].starts BY <2>1, <2>2 DEF Sound, Subscriber, Fresh
  <2>4. driver \in {"memory", "redis"} => Times(m, handled[i]) <= 1
    BY <2>1, <2>2 DEF Sound, Subscriber, Once
  <2>5. Times(m, handled[i]) \in Nat /\ Times(m, handled[i]) # 0
    <3>1. PICK a \in DOMAIN handled[i] : handled[i][a] = m BY DEF Ranges
    <3>2. IsFiniteSet({b \in DOMAIN handled[i] : handled[i][b] = m}) /\ Times(m, handled[i]) \in Nat
      BY <2>2, TimesType
    <3>3. {b \in DOMAIN handled[i] : handled[i][b] = m} # {} BY <3>1
    <3>. QED BY <3>2, <3>3, FS_EmptySet DEF Times
  <2>. QED BY <2>3, <2>4, <2>5
<1>. QED BY <1>2, <1>3, <1>4 DEF DeliveryInv

-----------------------------------------------------------------------------
(* What the runs check of the pipeline. *)

\* Scheduler, broker and subscribers keep their types, a subscriber handles what
\* it handles for the first time in the order of publication, but for what a
\* failed fetch dropped, and repeats a message only in a new process.
\* (consume, PollFetches, the automatic commits, Run and Stop of the drivers.)
THEOREM Delivery == Spec => []DeliveryInv
BY PipelineInvariant, DeliveryFollows, PTL

\* What the broker has confirmed reaches every queue there was, through all
\* crashes, stops and restarts, as long as no earlier Publish has left without
\* its answer.  (RabbitMQPublisher.Publish, consume, KafkaSubscriber.Run.)
THEOREM ConfirmedKept == Spec => []ConfirmedIsKept
<1>1. PipelineInv => ConfirmedIsKept
  BY KeptInvIsConfirmedIsKept DEF PipelineInv, PubSubInv
<1>. QED BY <1>1, PipelineInvariant, PTL

\* When the scheduler's Run has returned, no handler runs, and no Publish begins
\* or ends.  (wg.Wait in Run; the handler is inside Publish until it returns.)
THEOREM QuietAfterReturn == Spec => QuietAfterRun
<1>1. PipelineInv /\ [Next]_vars => [run = "returned" => UNCHANGED <<runs, result>>]_vars
  <2> SUFFICES ASSUME PipelineInv, [Next]_vars, run = "returned"
               PROVE  UNCHANGED <<runs, result>>
    OBVIOUS
  <2>0. TickInv /\ PubSubInv /\ PublishingInv BY DEF PipelineInv
  <2>1. \A j \in Job : loop[j].pc = "ended" BY <2>0 DEF TickInv
  <2>2. publishing = {} /\ ~Sending BY <2>0, <2>1 DEF PublishingInv
  <2>3. CASE SchedulerMoves
    <3>1. result' = result BY <2>3 DEF SchedulerMoves, pubsubVars
    <3>2. \A j \in Job : ~Look(j) BY <2>1 DEF Look
    <3>3. runs' = runs BY <2>3, <3>2 DEF SchedulerMoves, Pass, Run, Stop, RunReturns, LoopEnds
    <3>. QED BY <3>1, <3>3
  <2>4. CASE BrokerMoves
    <3>1. ~PublishEnds BY <2>0, <2>2, SettleKeepsInv DEF PublishEnds
    <3>2. LinkLost => result' = result BY <2>0, LinkLostKeepsInv
    <3>3. (\E i \in Instance : SubscriberStep(i)) => result' = result BY <2>0, SubscriberKeepsInv
    <3>. QED BY <2>4, <3>1, <3>2, <3>3 DEF BrokerMoves, schedulerVars
  <2>5. ASSUME NEW j \in Job, TickPublishes(j) \/ TickEnds(j) PROVE FALSE
    BY <2>1, <2>2, <2>5 DEF TickPublishes, TickEnds
  <2>6. CASE UNCHANGED vars BY <2>6 DEF vars, schedulerVars, pubsubVars
  <2>. QED BY <2>3, <2>4, <2>5, <2>6 DEF Next
<1>. QED BY <1>1, PipelineInvariant, PTL DEF Spec, QuietAfterRun

\* Only a loop that looks at the clock runs a handler.
LEMMA RunsChange ==
    ASSUME PipelineInv, [Next]_vars, NEW j \in Job, runs'[j] # runs[j]
    PROVE  Look(j)
<1>0. runs \in [Job -> [count : 0..MaxRuns, last : -1..clock]]
  BY DEF PipelineInv, TickInv, SchedulerTypeOK
<1>1. runs' # runs OBVIOUS
<1>2. SchedulerMoves
  <2>1. ~BrokerMoves BY <1>1 DEF BrokerMoves, schedulerVars
  <2>2. \A k \in Job : ~TickPublishes(k) /\ ~TickEnds(k)
    BY <1>1 DEF TickPublishes, TickEnds, HandlerEnds, schedulerVars
  <2>3. ~UNCHANGED vars BY <1>1 DEF vars, schedulerVars
  <2>. QED BY <2>1, <2>2, <2>3 DEF Next
<1>3. PICK k \in Job : Look(k)
  BY <1>1, <1>2 DEF SchedulerMoves, Pass, Run, Stop, RunReturns, LoopEnds
<1>4. k # j => runs'[j] = runs[j] BY <1>0, <1>3 DEF Look
<1>. QED BY <1>3, <1>4

\* A job runs at most once in a minute, but for the repeated minutes of a
\* location whose first one time.Date gives.  (sleepUntilNextMinute, loop.)
THEOREM AtMostOncePerMinute == Spec => OncePerMinute
<1> DEFINE Twice == \A j \in Job : runs'[j] # runs[j] /\ runs[j].last = clock =>
                       zone = "first" /\ \E u \in 0..(clock - 1) : Wall[u] = Wall[clock]
<1>1. PipelineInv /\ [Next]_vars => [Twice]_schedulerVars
  <2> SUFFICES ASSUME PipelineInv, [Next]_vars,
                      NEW j \in Job, runs'[j] # runs[j], runs[j].last = clock
               PROVE  zone = "first" /\ \E u \in 0..(clock - 1) : Wall[u] = Wall[clock]
    OBVIOUS
  <2>0. /\ SchedulerTypeOK /\ LoopInv(j) /\ clock \in 0..Horizon /\ Horizon \in Nat
        /\ zone \in {"first", "second"}
    BY SchedulerConstants DEF PipelineInv, TickInv, SchedulerTypeOK
  <2>1. loop[j].pc = "asleep" /\ clock >= loop[j].wake BY RunsChange DEF Look
  <2>2. PICK t \in 0..clock : runs[j].last <= t /\ loop[j].wake = Resolve(t) + 1
    BY <2>0, <2>1 DEF LoopInv, Waking
  <2>3. t = clock BY <2>0, <2>2
  <2>4. /\ Resolve(clock) \in 0..Horizon /\ Wall[Resolve(clock)] = Wall[clock]
        /\ zone = "second" => clock <= Resolve(clock)
    BY <2>0, ResolveIs
  <2>5. clock >= Resolve(clock) + 1 BY <2>1, <2>2, <2>3
  <2>6. Resolve(clock) \in 0..(clock - 1) /\ zone # "second"
    <3> HIDE DEF Twice
    <3>. QED BY <2>0, <2>4, <2>5
  <2>. QED BY <2>0, <2>4, <2>6
<1>. QED BY <1>1, PipelineInvariant, PTL DEF Spec, OncePerMinute

\* A loop that has woken runs the handler exactly if the expression its job was
\* registered with allows the minute it reads off the clock, and a refused
\* expression is never looked at.  (Register, parsePart, Match, loop.)
THEOREM RunsWhenDue == Spec => RunsExactlyWhenDue
<1> DEFINE Looks == \A j \in Job : Looked(j) =>
                       /\ Parses(cron[j])
                       /\ loop'[j].pc = "handler" <=> Allows(cron[j], Wall[clock])
<1>1. PipelineInv /\ [Next]_vars => [Looks]_schedulerVars
  <2> SUFFICES ASSUME PipelineInv, [Next]_vars, NEW j \in Job, Looked(j)
               PROVE  /\ Parses(cron[j])
                      /\ loop'[j].pc = "handler" <=> Allows(cron[j], Wall[clock])
    OBVIOUS
  <2>0. /\ SchedulerTypeOK /\ LoopInv(j) /\ clock \in 0..Horizon /\ cron \in [Job -> Expression]
        /\ loop \in [Job -> [pc : {"off", "asleep", "handler", "ended"}, wake : 0..(Horizon + 1)]]
    BY DEF PipelineInv, TickInv, SchedulerTypeOK
  <2>1. loop[j].pc = "asleep" /\ loop'[j].pc # "ended" /\ loop' # loop BY DEF Looked
  <2>2. Parses(cron[j]) BY <2>0, <2>1 DEF LoopInv
  <2>3. Look(j)
    <3>1. SchedulerMoves
      <4>1. ~BrokerMoves BY <2>1 DEF BrokerMoves, schedulerVars
      <4>2. \A k \in Job : ~TickPublishes(k) /\ ~TickEnds(k)
        BY <2>1, OneJob DEF TickPublishes, TickEnds, HandlerEnds, schedulerVars
      <4>3. ~UNCHANGED vars BY <2>1 DEF vars, schedulerVars
      <4>. QED BY <4>1, <4>2, <4>3 DEF Next
    <3>2. ~Run BY <2>0, <2>1 DEF Run, LoopInv
    <3>3. ~LoopEnds(j) BY <2>0, <2>1 DEF LoopEnds, Going
    <3>4. Pass \/ Stop \/ RunReturns => loop' = loop BY DEF Pass, Stop, RunReturns
    <3>. QED BY <2>1, <3>1, <3>2, <3>3, <3>4, OneJob DEF SchedulerMoves
  <2>4. loop'[j].pc = "handler" <=> Match(Parse(cron[j]), Wall[clock])
    <3>1. Going("handler").pc = "handler" /\ Asleep.pc = "asleep" BY DEF Going, Asleep
    <3>. QED BY <2>0, <2>3, <3>1 DEF Look
  <2>5. Wall[clock] \in [Fields -> Int] BY <2>0, SchedulerConstants
  <2>. QED BY <2>0, <2>2, <2>4, <2>5, MatchIs
<1>. QED BY <1>1, PipelineInvariant, PTL DEF Spec, RunsExactlyWhenDue

=============================================================================
