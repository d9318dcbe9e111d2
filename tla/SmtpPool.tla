------------------------------- MODULE SmtpPool -------------------------------
(***************************************************************************)
(* The SMTP mail driver: a pool of connections that senders borrow and     *)
(* return, a sweeper that closes idle ones, and Close.                     *)
(*                                                                         *)
(* createdConns is an atomic counter that a sender reads, compares with    *)
(* maxConns and later increments, in separate steps.  The channel of free  *)
(* connections is a set: which of them is next does not matter.  A         *)
(* connection counts as closed from the decrement of the counter on; its   *)
(* name may then be used again.                                            *)
(*                                                                         *)
(* Three exchanges with the server have neither a deadline nor a context:  *)
(* what follows the connect in newConn, the RSET of returnConn and the     *)
(* QUIT of the sweeper.  They may end or last for ever.                    *)
(***************************************************************************)
EXTENDS Integers, FiniteSets

CONSTANTS
    Sender,     \* goroutines that send one message each
    Conn,       \* connections
    MaxConns,   \* smtpOpt.maxConns
    MaxRetries, \* smtpOpt.maxRetries: attempts in all
    None,
    MaxPoolFaults  \* bound: errors of the network and the server

ASSUME SmtpConstants ==
    /\ IsFiniteSet(Sender)
    /\ IsFiniteSet(Conn)
    /\ None \notin Conn
    /\ MaxConns \in Nat \ {0}
    /\ MaxRetries \in Nat \ {0}
    /\ MaxPoolFaults \in Nat

VARIABLES
    conns,     \* the free connections in the channel
    createdConns,
    closed,    \* also: stopBorrow is closed
    open,      \* connections that exist
    broken,    \* those of which the server has let go
    sender,    \* sender[s]: what s is doing
    sweeper,   \* what the sweeper is doing
    \* History, for the properties only.
    accepted,  \* accepted[s]: how often the server has taken the message of s
    late,      \* connections counted too late for the last pass of the sweeper
    poolFaults

poolVars == <<conns, createdConns, closed, open, broken, sender, sweeper, accepted, late, poolFaults>>

NewSend == [pc |-> "new", tries |-> 0, conn |-> None, error |-> "none", retry |-> FALSE,
            late |-> FALSE]

SweeperAsleep ==
    [pc |-> "sleep", left |-> 0, zero |-> FALSE, closing |-> FALSE, active |-> {}]

PoolInit ==
    /\ conns = {}
    /\ createdConns = 0
    /\ closed = FALSE
    /\ open = {}
    /\ broken = {}
    /\ sender = [s \in Sender |-> NewSend]
    /\ sweeper = SweeperAsleep
    /\ accepted = [s \in Sender |-> 0]
    /\ late = {}
    /\ poolFaults = 0

At(s, label) == sender[s].pc = label

PoolFault == poolFaults < MaxPoolFaults /\ poolFaults' = poolFaults + 1

\* The attempt is over: with an error it is repeated, if it may be.
After(s, error, retry) ==
    LET tries == sender[s].tries + 1 IN
    sender' = [sender EXCEPT ![s] =
                 [NewSend EXCEPT !.tries = tries,
                                 !.pc = IF error = "none" THEN "sent"
                                        ELSE IF retry /\ tries < MaxRetries THEN "try"
                                        ELSE "failed"]]

\* The connection of s is counted out and closed.
Discard(c) ==
    /\ createdConns' = createdConns - 1
    /\ open' = open \ {c}
    /\ broken' = broken \ {c}
    /\ late' = late \ {c}

(***************************************************************************)
(* borrowConn.                                                             *)
(***************************************************************************)
Send(s) ==
    /\ At(s, "new")
    /\ sender' = [sender EXCEPT ![s].pc = "try"]
    /\ UNCHANGED <<conns, createdConns, closed, open, broken, sweeper, accepted, late, poolFaults>>

\* The context has ended, or the pool is closed.
Refused(s) ==
    /\ At(s, "try")
    /\ IF closed THEN UNCHANGED poolFaults ELSE PoolFault
    /\ After(s, "closed", FALSE)
    /\ UNCHANGED <<conns, createdConns, closed, open, broken, sweeper, accepted, late>>

Room(s) ==
    /\ At(s, "try")
    /\ ~closed
    /\ createdConns < MaxConns
    /\ conns = {}
    /\ sender' = [sender EXCEPT ![s].pc = "create"]
    /\ UNCHANGED <<conns, createdConns, closed, open, broken, sweeper, accepted, late, poolFaults>>

NoRoom(s) ==
    /\ At(s, "try")
    /\ ~closed
    /\ createdConns >= MaxConns \/ conns # {}
    /\ sender' = [sender EXCEPT ![s].pc = "wait"]
    /\ UNCHANGED <<conns, createdConns, closed, open, broken, sweeper, accepted, late, poolFaults>>

\* The sweeper has read the counter as zero, and closed not yet.
SawZero == sweeper.pc = "look" /\ sweeper.zero

Count(s) ==
    /\ At(s, "create")
    /\ createdConns' = createdConns + 1
    /\ sender' = [sender EXCEPT ![s] = [@ EXCEPT !.pc = "dial", !.late = closed \/ SawZero]]
    /\ UNCHANGED <<conns, closed, open, broken, sweeper, accepted, late, poolFaults>>

\* newConn: only the connect has a timeout; the greeting, EHLO, STARTTLS and AUTH
\* last as long as the server likes.
NewConn(s) ==
    LET c == CHOOSE c \in Conn \ open : TRUE IN
    /\ At(s, "dial")
    /\ Conn \ open # {}
    /\ open' = open \cup {c}
    /\ late' = IF sender[s].late THEN late \cup {c} ELSE late
    /\ sender' = [sender EXCEPT ![s] = [@ EXCEPT !.pc = "send", !.conn = c]]
    /\ UNCHANGED <<conns, createdConns, closed, broken, sweeper, accepted, poolFaults>>

DialFails_StillCounted(s) ==
    /\ At(s, "dial")
    /\ PoolFault
    /\ \E retry \in BOOLEAN : After(s, "dial", retry)
    /\ UNCHANGED <<conns, createdConns, closed, open, broken, sweeper, accepted, late>>

\* An error of the network may be tried again, one of TLS or AUTH may not.
DialFails(s) ==
    /\ At(s, "dial")
    /\ PoolFault
    /\ createdConns' = createdConns - 1
    /\ \E retry \in BOOLEAN : After(s, "dial", retry)
    /\ UNCHANGED <<conns, closed, open, broken, sweeper, accepted, late>>

Take(s) ==
    \E c \in conns :
       /\ At(s, "wait")
       /\ conns' = conns \ {c}
       /\ sender' = [sender EXCEPT ![s] = [@ EXCEPT !.pc = "send", !.conn = c]]
       /\ UNCHANGED <<createdConns, closed, open, broken, sweeper, accepted, late, poolFaults>>

WaitEnds_NoTimeout(s) ==
    /\ At(s, "wait")
    /\ closed
    /\ After(s, "timeout", FALSE)
    /\ UNCHANGED <<conns, createdConns, closed, open, broken, sweeper, accepted, late, poolFaults>>

\* Close, the end of the context, or waitTimeout with nothing to take.
WaitEnds(s) ==
    /\ At(s, "wait")
    /\ closed \/ conns = {}
    /\ After(s, "timeout", FALSE)
    /\ UNCHANGED <<conns, createdConns, closed, open, broken, sweeper, accepted, late, poolFaults>>

(***************************************************************************)
(* sendOnConn.                                                             *)
(***************************************************************************)
Outcome(s, error, retry) ==
    sender' = [sender EXCEPT ![s] = [@ EXCEPT !.pc = "return", !.error = error, !.retry = retry]]

Accept(s) == accepted' = [accepted EXCEPT ![s] = @ + 1]

Delivered(s) ==
    /\ At(s, "send")
    /\ sender[s].conn \notin broken
    /\ Accept(s)
    /\ Outcome(s, "none", FALSE)
    /\ UNCHANGED <<conns, createdConns, closed, open, broken, sweeper, late, poolFaults>>

\* A reply of the server: not to be tried again; 421 ends the connection.
Rejected(s) ==
    /\ At(s, "send")
    /\ sender[s].conn \notin broken
    /\ PoolFault
    /\ \E code \in {"5xx", "421"} : Outcome(s, code, FALSE)
    /\ UNCHANGED <<conns, createdConns, closed, open, broken, sweeper, accepted, late>>

\* A recipient that does not parse, though nothing is wrong with the server.
BadRecipient(s) ==
    /\ At(s, "send")
    /\ PoolFault
    /\ Outcome(s, "address", TRUE)
    /\ UNCHANGED <<conns, createdConns, closed, open, broken, sweeper, accepted, late>>

\* The connection fails before the end of the data.
SendFails(s) ==
    /\ At(s, "send")
    /\ IF sender[s].conn \in broken THEN UNCHANGED poolFaults ELSE PoolFault
    /\ Outcome(s, "network", TRUE)
    /\ UNCHANGED <<conns, createdConns, closed, open, broken, sweeper, accepted, late>>

AnswerLost_Retried(s) ==
    /\ At(s, "send")
    /\ sender[s].conn \notin broken
    /\ PoolFault
    /\ Accept(s) \/ UNCHANGED accepted
    /\ Outcome(s, "network", TRUE)
    /\ UNCHANGED <<conns, createdConns, closed, open, broken, sweeper, late>>

\* The connection fails at the end of the data: the server may have taken the
\* message, which is not tried again.
AnswerLost(s) ==
    /\ At(s, "send")
    /\ sender[s].conn \notin broken
    /\ PoolFault
    /\ Accept(s) \/ UNCHANGED accepted
    /\ Outcome(s, "network", FALSE)
    /\ UNCHANGED <<conns, createdConns, closed, open, broken, sweeper, late>>

(***************************************************************************)
(* returnConn.                                                             *)
(***************************************************************************)
\* The connection is reset first: RSET lasts as long as the server likes, for
\* sendOnConn has cleared the deadline of the connection.
Reusable(s) == sender[s].error \in {"none", "5xx"}

\* An error that is no reply, a 421, or a RSET that fails.
ReturnBroken(s) ==
    /\ At(s, "return")
    /\ ~Reusable(s) \/ sender[s].conn \in broken
    /\ Discard(sender[s].conn)
    /\ After(s, sender[s].error, sender[s].retry)
    /\ UNCHANGED <<conns, closed, sweeper, accepted, poolFaults>>

Return_Everything(s) ==
    /\ At(s, "return")
    /\ Cardinality(conns) < MaxConns
    /\ conns' = conns \cup {sender[s].conn}
    /\ sender' = [sender EXCEPT ![s].pc = "return", ![s].error = "5xx"]
    /\ UNCHANGED <<createdConns, closed, open, broken, sweeper, accepted, late, poolFaults>>

Return(s) ==
    /\ At(s, "return")
    /\ Reusable(s)
    /\ sender[s].conn \notin broken
    /\ Cardinality(conns) < MaxConns
    /\ conns' = conns \cup {sender[s].conn}
    /\ After(s, sender[s].error, sender[s].retry)
    /\ UNCHANGED <<createdConns, closed, open, broken, sweeper, accepted, late, poolFaults>>

\* The pool is closed, or stays full for waitTimeout.
ReturnRefused(s) ==
    /\ At(s, "return")
    /\ Reusable(s)
    /\ sender[s].conn \notin broken
    /\ closed \/ Cardinality(conns) >= MaxConns
    /\ Discard(sender[s].conn)
    /\ After(s, sender[s].error, sender[s].retry)
    /\ UNCHANGED <<conns, closed, sweeper, accepted, poolFaults>>

(***************************************************************************)
(* sweepConns: one pass takes as many connections as were free when it     *)
(* began, closes some, and puts the others back.                           *)
(***************************************************************************)
PassLooks ==
    /\ sweeper.pc = "sleep"
    /\ sweeper' = [SweeperAsleep EXCEPT !.pc = "look", !.left = Cardinality(conns),
                                        !.zero = (createdConns = 0)]
    /\ UNCHANGED <<conns, createdConns, closed, open, broken, sender, accepted, late, poolFaults>>

PassBegins_QuitsOnClose ==
    /\ sweeper.pc = "look"
    /\ sweeper' = IF closed THEN [SweeperAsleep EXCEPT !.pc = "quit"]
                  ELSE [sweeper EXCEPT !.pc = "sweep", !.zero = FALSE]
    /\ UNCHANGED <<conns, createdConns, closed, open, broken, sender, accepted, late, poolFaults>>

\* closed is read after the counter.
PassBegins ==
    /\ sweeper.pc = "look"
    /\ sweeper' = IF closed /\ sweeper.zero THEN [SweeperAsleep EXCEPT !.pc = "quit"]
                  ELSE [sweeper EXCEPT !.pc = "sweep", !.zero = FALSE, !.closing = closed]
    /\ UNCHANGED <<conns, createdConns, closed, open, broken, sender, accepted, late, poolFaults>>

\* A connection that is not idle is kept for the end of the pass.
SweepKeep ==
    \E c \in conns :
       /\ sweeper.pc = "sweep" /\ sweeper.left > 0
       /\ ~sweeper.closing
       /\ conns' = conns \ {c}
       /\ sweeper' = [sweeper EXCEPT !.left = @ - 1, !.active = @ \cup {c}]
       /\ UNCHANGED <<createdConns, closed, open, broken, sender, accepted, late, poolFaults>>

\* An idle connection is closed; with the pool closed, every one is sent a QUIT.
SweepClose ==
    \E c \in conns :
       /\ sweeper.pc = "sweep" /\ sweeper.left > 0
       /\ conns' = conns \ {c}
       /\ Discard(c)
       /\ sweeper' = [sweeper EXCEPT !.left = @ - 1,
                                     !.pc = IF sweeper.closing THEN "bye" ELSE "sweep"]
       /\ UNCHANGED <<closed, sender, accepted, poolFaults>>

\* The answer to the QUIT, whenever the server gives it, or an error.
SweepBye ==
    /\ sweeper.pc = "bye"
    /\ sweeper' = [sweeper EXCEPT !.pc = "sweep"]
    /\ UNCHANGED <<conns, createdConns, closed, open, broken, sender, accepted, late, poolFaults>>

\* Borrowers have been faster.
SweepNone ==
    /\ sweeper.pc = "sweep" /\ sweeper.left > 0
    /\ conns = {}
    /\ sweeper' = [sweeper EXCEPT !.left = 0]
    /\ UNCHANGED <<conns, createdConns, closed, open, broken, sender, accepted, late, poolFaults>>

PutBack ==
    \E c \in sweeper.active :
       /\ sweeper.pc = "sweep" /\ sweeper.left = 0
       /\ sweeper' = [sweeper EXCEPT !.active = @ \ {c}]
       /\ IF Cardinality(conns) < MaxConns
            THEN conns' = conns \cup {c} /\ UNCHANGED <<createdConns, open, broken, late>>
            ELSE Discard(c) /\ UNCHANGED conns
       /\ UNCHANGED <<closed, sender, accepted, poolFaults>>

PassEnds ==
    /\ sweeper.pc = "sweep" /\ sweeper.left = 0 /\ sweeper.active = {}
    /\ sweeper' = SweeperAsleep
    /\ UNCHANGED <<conns, createdConns, closed, open, broken, sender, accepted, late, poolFaults>>

(***************************************************************************)
(* The environment.                                                        *)
(***************************************************************************)
Close ==
    /\ ~closed
    /\ closed' = TRUE
    /\ UNCHANGED <<conns, createdConns, open, broken, sender, sweeper, accepted, late, poolFaults>>

\* The server gives up a connection that nobody uses.
Drop(c) ==
    /\ c \in conns \ broken
    /\ PoolFault
    /\ broken' = broken \cup {c}
    /\ UNCHANGED <<conns, createdConns, closed, open, sender, sweeper, accepted, late>>

Step(s) ==
    \/ Refused(s) \/ Room(s) \/ NoRoom(s) \/ Count(s) \/ NewConn(s) \/ DialFails(s)
    \/ Take(s) \/ WaitEnds(s)
    \/ Delivered(s) \/ Rejected(s) \/ BadRecipient(s) \/ SendFails(s) \/ AnswerLost(s)
    \/ ReturnBroken(s) \/ Return(s) \/ ReturnRefused(s)

Sweep ==
    PassLooks \/ PassBegins \/ SweepKeep \/ SweepClose \/ SweepNone \/ PutBack \/ PassEnds

PoolNext ==
    \/ \E s \in Sender : Send(s) \/ Step(s)
    \/ Sweep
    \/ SweepBye
    \/ Close
    \/ \E c \in Conn : Drop(c)

PoolSpec == PoolInit /\ [][PoolNext]_poolVars

\* s is in an exchange that only the server can end: the handshake of a new
\* connection, or the RSET of one that goes back.
InExchange(s) == At(s, "dial") \/ (At(s, "return") /\ Reusable(s))

\* Goroutines that can go on do: the timeouts of the exchange of sendOnConn and of
\* the two waits see to it that they can, and the sweeper wakes again and again.
\* Nothing makes the server answer where there is no timeout.
PoolFairSpec ==
    /\ PoolSpec
    /\ WF_poolVars(Sweep)
    /\ \A s \in Sender : WF_poolVars(~InExchange(s) /\ Step(s))

-----------------------------------------------------------------------------
(* Properties. *)

Held == {sender[s].conn : s \in Sender} \ {None}
Dialing == {s \in Sender : sender[s].pc = "dial"}

SendRecord ==
    [pc : {"new", "try", "create", "dial", "wait", "send", "return", "sent", "failed"},
     tries : Nat, conn : Conn \cup {None},
     error : {"none", "5xx", "421", "address", "network"},
     retry : BOOLEAN, late : BOOLEAN]

SweepRecord ==
    [pc : {"sleep", "look", "sweep", "bye", "quit"}, left : Nat, zero : BOOLEAN,
     closing : BOOLEAN, active : SUBSET Conn]

\* Every variable keeps its type.
PoolTypeOK ==
    /\ conns \subseteq Conn
    /\ createdConns \in Int
    /\ closed \in BOOLEAN
    /\ open \subseteq Conn
    /\ broken \subseteq Conn
    /\ sender \in [Sender -> SendRecord]
    /\ sweeper \in SweepRecord
    /\ accepted \in [Sender -> Nat]
    /\ late \subseteq Conn
    /\ poolFaults \in Nat

\* A connection is free, held by one sender or in the hands of the sweeper, and
\* never in two of these places, whatever way the last send on it ended.
OneOwner ==
    /\ \A s \in Sender : sender[s].pc \in {"send", "return"} <=> sender[s].conn # None
    /\ \A s, t \in Sender : sender[s].conn = sender[t].conn /\ s # t => sender[s].conn = None
    /\ conns \cap Held = {}
    /\ conns \cap sweeper.active = {}
    /\ Held \cap sweeper.active = {}
    /\ open = conns \cup Held \cup sweeper.active

\* createdConns is the number of connections that exist or are being dialled:
\* no path through a failure, a full pool, the sweeper or Close loses or
\* doubles a decrement, which would close the pool to senders or open it to all.
CountIsExact == createdConns = Cardinality(open) + Cardinality(Dialing)

\* A Send that reports success has handed the message over once, and no Send
\* ever does so twice, though it tries again after errors.
AtMostOnce ==
    \A s \in Sender : accepted[s] <= 1 /\ (sender[s].pc = "sent" => accepted[s] = 1)

\* Between passes the sweeper keeps nothing.
SweeperIdle == sweeper.pc \notin {"sweep", "bye"} => sweeper.active = {}

\* What the server has taken, by where the sender is.
Taken ==
    \A s \in Sender :
       /\ accepted[s] <= 1
       /\ sender[s].pc \in {"new", "try", "create", "dial", "wait", "send"} => accepted[s] = 0
       /\ sender[s].pc = "return" /\ sender[s].retry => accepted[s] = 0
       /\ sender[s].pc = "return" /\ sender[s].error = "none" => accepted[s] = 1
       /\ sender[s].pc = "sent" => accepted[s] = 1

\* The inductive invariant of the pool: every connection has one owner and is
\* counted once, and the server has taken the message of a sender as often as
\* the place of that sender says.  It implies the invariants above.
PoolInv ==
    /\ PoolTypeOK
    /\ OneOwner
    /\ SweeperIdle
    /\ CountIsExact
    /\ Taken

\* Close drains the pool: once the sweeper has quit, a connection is left only if
\* its sender had passed the check of closed before Close and counted it after, or
\* counted it between the two looks of the sweeper, at a counter of zero and at
\* closed.
LeftoversAreLate == sweeper.pc = "quit" => open \subseteq late

\* A Send ends if the server ends the exchanges of that Send that have no
\* deadline, whatever the network, Close and the other senders do, even if those
\* hang for ever.  After Close the sweeper ends, if the server ends its QUITs and
\* the exchanges of all the senders: a sender that hangs stays counted.
GoroutinesEnd ==
    /\ \A s \in Sender :
          []<>~InExchange(s) => (At(s, "try") ~> At(s, "sent") \/ At(s, "failed"))
    /\ []<>(sweeper.pc # "bye") /\ (\A s \in Sender : []<>~InExchange(s))
          => (closed ~> sweeper.pc = "quit")
=============================================================================
