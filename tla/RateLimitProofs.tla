--------------------------- MODULE RateLimitProofs ---------------------------
(* The safety properties of RateLimits for every value of its constants. *)
EXTENDS RateLimits, FiniteSetTheorems, TLAPS

USE RateLimitConstants DEF SQL, None, Never, Key

ClientState == [pc : {"idle", "seeded", "read", "expire", "reset", "take"},
                inserted : BOOLEAN, n : Nat, expires : Nat]

LEMMA Types ==
    ASSUME TypeOK
    PROVE  /\ driver \in {"memory", "redis", "mysql", "postgres"}
           /\ now \in Nat /\ made \in Nat /\ taken \in Nat /\ faults \in Nat
           /\ item \in [Key -> [value : Int, expires : Nat]]
           /\ exclusive \in [Key -> Client \cup {None}] /\ shared \in [Key -> SUBSET Client]
           /\ client \in [Client -> ClientState]
           /\ attempts \in Seq(Attempt) /\ Len(attempts) \in Nat
           /\ \A i \in 1..Len(attempts) : attempts[i] \in Attempt
           /\ \A c \in Client : client[c] \in ClientState
BY DEF TypeOK, ClientState

-----------------------------------------------------------------------------
(* The history of attempts. *)

\* A counted request is the newest attempt, and its window is due.
LEMMA CountedShape ==
    ASSUME TypeOK, NEW c \in Client, NEW n \in Nat
    PROVE  /\ Counted(c, n) \in Seq(Attempt) /\ Len(Counted(c, n)) = Len(attempts) + 1
           /\ \A i \in 1..Len(attempts) : Counted(c, n)[i] = attempts[i]
           /\ Counted(c, n)[Len(attempts) + 1] = [by |-> c, at |-> now, n |-> n, window |-> "due"]
<1>1. attempts \in Seq(Attempt) /\ now \in Nat BY DEF TypeOK
<1>2. [by |-> c, at |-> now, n |-> n, window |-> "due"] \in Attempt BY <1>1 DEF Attempt
<1>3. QED BY <1>1, <1>2 DEF Counted

\* What became of a window changes nothing else about the attempts.
LEMMA AppliedShape ==
    ASSUME TypeOK, NEW c \in Client, NEW w \in {"applied", "lost"}
    PROVE  /\ Applied(c, w) \in Seq(Attempt) /\ Len(Applied(c, w)) = Len(attempts)
           /\ \A i \in 1..Len(attempts) :
                 /\ Applied(c, w)[i].at = attempts[i].at /\ Applied(c, w)[i].n = attempts[i].n
                 /\ Applied(c, w)[i].by = attempts[i].by
                 /\ Applied(c, w)[i].window =
                       IF attempts[i].by = c /\ attempts[i].window = "due" THEN w
                                                                         ELSE attempts[i].window
<1>1. attempts \in Seq(Attempt) /\ Len(attempts) \in Nat BY DEF TypeOK
<1>2. \A i \in 1..Len(attempts) : attempts[i] \in Attempt BY <1>1
<1>3. ASSUME NEW a \in Attempt
      PROVE  /\ [a EXCEPT !.window = w] \in Attempt
             /\ [a EXCEPT !.window = w].at = a.at /\ [a EXCEPT !.window = w].n = a.n
             /\ [a EXCEPT !.window = w].by = a.by /\ [a EXCEPT !.window = w].window = w
  BY DEF Attempt
<1>4. QED BY <1>1, <1>2, <1>3 DEF Applied

-----------------------------------------------------------------------------
(* The steps.  What each does to the locks, the counter and the attempts is *)
(* stated first; the parts of the invariant follow from that.               *)

LEMMA InitInvariant == Init => LimiterInv
<1> SUFFICES ASSUME Init PROVE LimiterInv OBVIOUS
<1>1. Len(attempts) = 0 /\ attempts = << >> BY DEF Init
<1>2. \A c \in Client : client[c].pc = "idle" /\ client[c].inserted = FALSE BY DEF Init, Idle
<1>3. TypeOK
  BY DEF Init, TypeOK, Idle, Absent
<1>4. /\ item["limit"] = Absent /\ item["challenge"] = Absent /\ taken = 0
      /\ exclusive["limit"] = None /\ shared["limit"] = {} /\ item["limit"].expires = 0
  BY DEF Init, Absent
<1>5. Locks /\ Challenge BY <1>2, <1>4 DEF Locks, Challenge
<1>6. Clock /\ Counter /\ Numbering /\ RefusedOnlyWhenBusy
  BY <1>1, <1>2, <1>4 DEF Clock, Counter, Numbering, RefusedOnlyWhenBusy
<1>7. RedeemedOnce BY <1>4 DEF RedeemedOnce
<1>8. QED BY <1>3, <1>5, <1>6, <1>7 DEF LimiterInv

\* A refused request came after MaxRequests others, since no count is ahead of
\* its place.
LEMMA RefusedFollows == TypeOK /\ Counter => RefusedOnlyWhenBusy
<1> SUFFICES ASSUME TypeOK, Counter, NEW i \in 1..Len(attempts), ~Passed(attempts[i])
             PROVE  /\ i > MaxRequests
                    /\ \/ attempts[i-1].window # "applied"
                       \/ attempts[i].at - attempts[i-1].at <= Window
  BY DEF RefusedOnlyWhenBusy
<1>1. attempts[i].n \in 1..i /\ ~(attempts[i].n <= MaxRequests) BY DEF Counter, Passed
<1>2. \/ attempts[i-1].window = "lost"
      \/ attempts[i].at - attempts[i-1].at <= Window
  BY DEF Counter
<1>3. QED BY <1>1, <1>2, Types

LEMMA Parts ==
    LimiterInv <=> TypeOK /\ RedeemedOnce /\ Locks /\ Challenge /\ Clock /\ Counter /\ Numbering
BY RefusedFollows DEF LimiterInv

\* The parts that are about the counter and its attempts do not notice a step that
\* leaves them, the clock and the handlers' labels alone.
LEMMA CounterFrame ==
    ASSUME LimiterInv, UNCHANGED <<driver, now, attempts>>, item'["limit"] = item["limit"],
           \A c \in Client :
              /\ client'[c].pc \in {"read", "expire"} => client'[c] = client[c]
              /\ client'[c].pc = "read" /\ exclusive["limit"] = c => exclusive'["limit"] = c,
           \A i \in 1..Len(attempts) :
              attempts[i].window = "due" => client'[attempts[i].by] = client[attempts[i].by]
    PROVE  Clock' /\ Counter' /\ Numbering'
<1>1. Clock' BY DEF LimiterInv, Clock, Last
<1>2. Counter' BY DEF LimiterInv, Counter, Last, Passed
<1>3. Numbering' BY DEF LimiterInv, Numbering, Last, Live
<1>4. QED BY <1>1, <1>2, <1>3

\* A refused attempt is not the first one.
LEMMA RefusedLater ==
    ASSUME TypeOK, Counter, NEW i \in 1..Len(attempts), ~Passed(attempts[i])
    PROVE  i > 1 /\ i - 1 \in 1..Len(attempts)
BY Types DEF Counter, Passed

\* A request is counted: as the next one of a counter that is alive, or as the
\* first of a new one.
LEMMA CountStep ==
    ASSUME LimiterInv, NEW c \in Client, NEW n \in Nat, NEW e \in Nat,
           UNCHANGED <<driver, now>>, attempts' = Counted(c, n), client'[c].pc = "expire",
           \A d \in Client \ {c} : client'[d] = client[d],
           \A d \in Client \ {c} : client[d].pc = "read" => driver = "postgres" /\ client[d].n = 1,
           n >= 1, n <= Len(attempts) + 1, e <= now + Window,
           n > 1 => Last.window = "lost" \/ now <= Last.at + Window,
           \/ item'["limit"] = Absent /\ driver = "postgres"
           \/ item'["limit"].value = n /\ item'["limit"].expires = e,
           driver # "postgres" =>
              /\ n = (IF Live("limit") THEN item["limit"].value ELSE 0) + 1
              /\ e = (IF Live("limit") THEN item["limit"].expires ELSE Never)
    PROVE  Clock' /\ Counter' /\ Numbering'
<1> DEFINE len == Len(attempts)
<1>0. TypeOK /\ Clock /\ Counter /\ Numbering BY DEF LimiterInv
<1>1. /\ attempts \in Seq(Attempt) /\ len \in Nat /\ now \in Nat
      /\ \A i \in 1..len : attempts[i] \in Attempt
      /\ \A i \in 1..len : attempts[i].at \in Nat /\ attempts[i].n \in Nat
      /\ item["limit"].value \in Int /\ item["limit"].expires \in Nat
  BY Types DEF LimiterInv, Attempt
<1>2. /\ Len(attempts') = len + 1 /\ attempts' # << >>
      /\ \A i \in 1..len : attempts'[i] = attempts[i]
      /\ attempts'[len + 1].by = c /\ attempts'[len + 1].at = now
      /\ attempts'[len + 1].n = n /\ attempts'[len + 1].window = "due"
  <2>1. attempts' \in Seq(Attempt) BY <1>0, CountedShape
  <2>2. /\ Len(attempts') = len + 1
        /\ \A i \in 1..len : attempts'[i] = attempts[i]
        /\ attempts'[len + 1] = [by |-> c, at |-> now, n |-> n, window |-> "due"]
    BY <1>0, CountedShape
  <2>3. attempts' # << >> BY <1>1, <2>1, <2>2
  <2>4. QED BY <2>2, <2>3
<1>3. Last' = attempts'[len + 1] BY <1>2 DEF Last
<1>4. item'["limit"] # Absent => item'["limit"].value = n /\ item'["limit"].expires = e
  OBVIOUS
<1>5. attempts # << >> => len >= 1 /\ Last = attempts[len] BY <1>1 DEF Last
<1>6. Clock'
  <2>1. \A i \in 1..len : attempts[i].at <= now BY DEF LimiterInv, Clock
  <2>2. \A i, j \in 1..(len + 1) : i <= j => attempts'[i].at <= attempts'[j].at
    BY <1>1, <1>2, <2>1 DEF LimiterInv, Clock
  <2>3. ASSUME NEW i \in 1..(len + 1)
        PROVE  /\ attempts'[i].at <= now
               /\ attempts'[i].window = "due" =>
                     attempts'[i].at = now /\ client'[attempts'[i].by].pc = "expire"
    <3>1. CASE i = len + 1 BY <1>1, <1>2, <3>1
    <3>2. CASE i \in 1..len
      <4>1. attempts[i].by \in Client BY <1>1, <3>2 DEF Attempt
      <4>2. QED BY <1>1, <1>2, <3>2, <4>1 DEF LimiterInv, Clock
    <3>3. QED BY <1>1, <3>1, <3>2
  <2>4. QED BY <1>2, <1>3, <2>2, <2>3 DEF Clock
<1>7. Counter'
  <2>1. item'["limit"] # Absent =>
          /\ item'["limit"].value \in 0..(len + 1)
          /\ item'["limit"].expires <= now + Window
          /\ item'["limit"].expires <= Last'.at + Window
          /\ Last'.window # "applied"
    BY <1>1, <1>2, <1>3, <1>4
  <2>2. \A i \in 1..(len + 1) : attempts'[i].n \in 1..i
    BY <1>1, <1>2 DEF LimiterInv, Counter
  <2>3. \A d \in Client : client'[d].pc = "read" =>
           /\ client'[d].n \in 1..(len + 2) /\ client'[d].expires <= now + Window
           /\ ~(client'[d].n > 1)
    BY <1>1 DEF LimiterInv, Counter
  <2>4. ASSUME NEW i \in 1..(len + 1), ~Passed(attempts'[i])
        PROVE  \/ attempts'[i-1].window = "lost"
               \/ attempts'[i].at - attempts'[i-1].at <= Window
    <3>1. CASE i = len + 1
      <4>1. n > 1 /\ len >= 1 BY <1>1, <1>2, <2>4, <3>1 DEF Passed
      <4>2. attempts # << >> BY <1>1, <4>1
      <4>3. QED BY <1>1, <1>2, <1>5, <3>1, <4>1, <4>2
    <3>2. CASE i \in 1..len
      <4>1. ~Passed(attempts[i]) BY <1>2, <2>4, <3>2 DEF Passed
      <4>2. i - 1 \in 1..len BY <3>2, <4>1, RefusedLater DEF LimiterInv
      <4>3. QED BY <1>2, <3>2, <4>1, <4>2 DEF LimiterInv, Counter
    <3>3. i = len + 1 \/ i \in 1..len BY <1>1
    <3>4. QED BY <3>1, <3>2, <3>3
  <2>5. QED BY <1>1, <1>2, <2>1, <2>2, <2>3, <2>4 DEF Counter
<1>8. CASE driver = "postgres" BY <1>6, <1>7, <1>8 DEF Numbering
<1>9. CASE driver # "postgres"
  <2>1. /\ item'["limit"] # Absent /\ item'["limit"].value = n /\ item'["limit"].expires = e
        /\ n = (IF Live("limit") THEN item["limit"].value ELSE 0) + 1
        /\ e = (IF Live("limit") THEN item["limit"].expires ELSE Never)
    BY <1>1, <1>9 DEF Absent, Live
  <2>2. Live("limit")' BY <1>1, <2>1 DEF Live
  <2>3. ASSUME NEW k \in 1..len, ~Live("limit"), attempts[k].window # "lost"
        PROVE  attempts[k].at + Window <= now
    <3>1. attempts # << >> /\ Last = attempts[len] /\ len \in 1..len BY <1>1, <1>5, <2>3
    <3>2. item["limit"] # Absent /\ Last.at # now
      BY <1>9, <2>3, <3>1 DEF LimiterInv, Numbering
    <3>3. item["limit"].expires # Never /\ item["limit"].expires <= now
      BY <1>1, <2>3, <3>2 DEF Live
    <3>4. attempts[k].at <= Last.at /\ Last.at <= now
      BY <1>1, <3>1 DEF LimiterInv, Clock
    <3>5. attempts[k].window # "due" BY <1>1, <3>1, <3>2, <3>4 DEF LimiterInv, Clock
    <3>6. attempts[k].window = "applied" BY <1>1, <2>3, <3>5 DEF Attempt
    <3>7. QED BY <1>1, <1>9, <3>3, <3>6 DEF LimiterInv, Numbering
  <2>4. ASSUME NEW i \in 1..len
        PROVE  \/ n = attempts[i].n + (len + 1 - i)
               \/ \A k \in 1..i : attempts[k].window # "lost" => attempts[k].at + Window <= now
    <3>1. attempts # << >> /\ Last = attempts[len] /\ len \in 1..len /\ Last.at <= now
      BY <1>1, <1>5 DEF LimiterInv, Clock
    <3>2. CASE ~Live("limit") BY <1>1, <2>3, <3>2
    <3>3. CASE Live("limit")
      <4>1. n = attempts[len].n + 1
        BY <1>9, <2>1, <3>1, <3>3 DEF LimiterInv, Numbering
      <4>2. CASE i = len BY <1>1, <3>1, <4>1, <4>2
      <4>3. CASE i < len
        <5>1. \/ attempts[len].n = attempts[i].n + (len - i)
              \/ \A k \in 1..i : attempts[k].window # "lost" =>
                    attempts[k].at + Window <= attempts[len].at
          BY <1>1, <1>9, <3>1, <4>3 DEF LimiterInv, Numbering
        <5>2. attempts[len].n \in Nat /\ attempts[i].n \in Nat BY <1>1, <3>1
        <5>3. CASE attempts[len].n = attempts[i].n + (len - i)
          <6>1. len \in Nat /\ i \in Nat BY <1>1
          <6>2. n = (attempts[i].n + (len - i)) + 1 BY <4>1, <5>3
          <6>3. \A a \in Nat, l \in Nat, k \in Nat : (a + (l - k)) + 1 = a + (l + 1 - k)
            OBVIOUS
          <6>4. (attempts[i].n + (len - i)) + 1 = attempts[i].n + (len + 1 - i)
            <7> HIDE DEF len
            <7>1. QED BY <5>2, <6>1, <6>3
          <6>5. n = attempts[i].n + (len + 1 - i) BY <6>2, <6>4, Zenon
          <6>6. QED BY <6>5
        <5>4. CASE \A k \in 1..i : attempts[k].window # "lost" =>
                      attempts[k].at + Window <= attempts[len].at
          <6>1. ASSUME NEW k \in 1..i, attempts[k].window # "lost"
                PROVE  attempts[k].at + Window <= now
            <7>1. attempts[k].at + Window <= attempts[len].at BY <5>4, <6>1
            <7>2. k \in 1..len BY <1>1
            <7>3. attempts[k].at \in Nat /\ attempts[len].at \in Nat BY <1>1, <3>1, <7>2
            <7>4. attempts[len].at <= now BY <3>1
            <7>5. QED BY <1>1, <7>1, <7>3, <7>4
          <6>2. QED BY <6>1
        <5>5. QED BY <5>1, <5>3, <5>4
      <4>4. QED BY <1>1, <4>2, <4>3
    <3>4. QED BY <3>2, <3>3
  <2>5. ASSUME NEW i \in 1..(len + 1), NEW j \in 1..(len + 1), i < j
        PROVE  \/ attempts'[j].n = attempts'[i].n + (j - i)
               \/ \A k \in 1..i : attempts'[k].window # "lost" =>
                     attempts'[k].at + Window <= attempts'[j].at
    <3>1. i \in 1..len BY <1>1, <2>5
    <3>2. \A k \in 1..i : k \in 1..len BY <1>1, <3>1
    <3>3. attempts'[i] = attempts[i] /\ \A k \in 1..i : attempts'[k] = attempts[k]
      BY <1>2, <3>1, <3>2
    <3>4. CASE j = len + 1
      <4>1. attempts'[j].n = n /\ attempts'[j].at = now BY <1>2, <3>4
      <4>2. j - i = len + 1 - i BY <3>4
      <4>3. QED BY <2>4, <3>1, <3>3, <4>1, <4>2
    <3>5. CASE j \in 1..len
      <4>1. attempts'[j] = attempts[j] BY <1>2, <3>5
      <4>2. \/ attempts[j].n = attempts[i].n + (j - i)
            \/ \A k \in 1..i : attempts[k].window # "lost" =>
                  attempts[k].at + Window <= attempts[j].at
        BY <1>0, <1>9, <2>5, <3>1, <3>5 DEF Numbering
      <4>3. QED BY <3>3, <4>1, <4>2
    <3>6. j = len + 1 \/ j \in 1..len BY <1>1
    <3>7. QED BY <3>4, <3>5, <3>6
  <2>6. e # Never => \A i \in 1..(len + 1) : attempts'[i].window = "applied" =>
                        attempts'[i].at + Window <= e
    <3>1. SUFFICES ASSUME e # Never, NEW i \in 1..(len + 1), attempts'[i].window = "applied"
                   PROVE  attempts'[i].at + Window <= e
      OBVIOUS
    <3>2. Live("limit") /\ e = item["limit"].expires BY <2>1, <3>1
    <3>3. i # len + 1 BY <1>1, <1>2, <3>1
    <3>4. i \in 1..len BY <1>1, <3>3
    <3>5. attempts'[i] = attempts[i] BY <1>2, <3>4
    <3>6. QED BY <1>1, <1>9, <3>1, <3>2, <3>4, <3>5 DEF LimiterInv, Numbering
  <2>7. \A d \in Client : client'[d].pc # "read" BY <1>9
  <2>8. Numbering'
    BY <1>2, <1>3, <2>1, <2>2, <2>5, <2>6, <2>7 DEF Numbering
  <2>9. QED BY <1>6, <1>7, <2>8
<1>10. QED BY <1>8, <1>9

\* What becomes of a window leaves the order and the numbers of the attempts as
\* they are, and recovers no window that was lost.
LEMMA SettledAttempts ==
    ASSUME LimiterInv, NEW c \in Client, NEW w \in {"applied", "lost"},
           attempts' = Applied(c, w)
    PROVE  /\ Len(attempts') = Len(attempts) /\ Len(attempts) \in Nat
           /\ attempts' # << >> => attempts # << >> /\ Len(attempts) \in 1..Len(attempts)
           /\ attempts = << >> => attempts' = << >>
           /\ attempts # << >> => Last'.at = Last.at /\ Last'.n = Last.n
           /\ \A i \in 1..Len(attempts) :
                 /\ attempts[i].at \in Nat /\ attempts[i].n \in Nat /\ attempts[i].by \in Client
                 /\ attempts'[i].at = attempts[i].at /\ attempts'[i].n = attempts[i].n
                 /\ attempts'[i].by = attempts[i].by
                 /\ attempts[i].window = "lost" => attempts'[i].window = "lost"
                 /\ attempts'[i].window = "due" => attempts[i].window = "due" /\ attempts[i].by # c
                 /\ attempts'[i].window = "applied" => attempts[i].window = "applied" \/ w = "applied"
<1>1. /\ attempts \in Seq(Attempt) /\ Len(attempts) \in Nat
      /\ \A i \in 1..Len(attempts) : attempts[i] \in Attempt
  BY Types DEF LimiterInv
<1>2. TypeOK BY DEF LimiterInv
<1>3. attempts' \in Seq(Attempt) /\ Len(attempts') = Len(attempts) BY <1>2, AppliedShape
<1>4. /\ attempts' # << >> => attempts # << >> /\ Len(attempts) \in 1..Len(attempts)
      /\ attempts = << >> => attempts' = << >>
      /\ attempts # << >> => Len(attempts) \in 1..Len(attempts)
  BY <1>1, <1>3
<1>5. \A i \in 1..Len(attempts) :
         /\ attempts'[i].at = attempts[i].at /\ attempts'[i].n = attempts[i].n
         /\ attempts'[i].by = attempts[i].by
         /\ attempts'[i].window = IF attempts[i].by = c /\ attempts[i].window = "due" THEN w
                                                                        ELSE attempts[i].window
  BY <1>2, AppliedShape
<1>6. attempts # << >> => Last'.at = Last.at /\ Last'.n = Last.n
  BY <1>3, <1>4, <1>5 DEF Last
<1>7. \A i \in 1..Len(attempts) :
         attempts[i].at \in Nat /\ attempts[i].n \in Nat /\ attempts[i].by \in Client
  BY <1>1 DEF Attempt
<1>8. QED BY <1>1, <1>3, <1>4, <1>5, <1>6, <1>7

\* A request whose Expire is lost is over, or its handler is; a row that was only
\* inserted goes with it.
LEMMA LostStep ==
    ASSUME LimiterInv, NEW c \in Client, UNCHANGED <<driver, now>>,
           attempts' = Applied(c, "lost"), client'[c].pc \notin {"read", "expire"},
           \A d \in Client \ {c} :
              /\ client'[d] = client[d]
              /\ exclusive["limit"] = d => exclusive'["limit"] = d,
           \/ item'["limit"] = item["limit"]
           \/ /\ item'["limit"] = Absent
              /\ driver # "postgres" =>
                    attempts = << >> /\ \A d \in Client \ {c} : client[d].pc # "read"
    PROVE  Clock' /\ Counter' /\ Numbering'
<1> DEFINE len == Len(attempts)
<1>0. TypeOK /\ Clock /\ Counter /\ Numbering BY DEF LimiterInv
<1>1. /\ Len(attempts') = len /\ len \in Nat
      /\ attempts' # << >> => attempts # << >> /\ len \in 1..len
      /\ attempts = << >> => attempts' = << >>
      /\ attempts # << >> => Last'.at = Last.at /\ Last'.n = Last.n
      /\ \A i \in 1..len :
            /\ attempts[i].at \in Nat /\ attempts[i].n \in Nat /\ attempts[i].by \in Client
            /\ attempts'[i].at = attempts[i].at /\ attempts'[i].n = attempts[i].n
            /\ attempts'[i].by = attempts[i].by
            /\ attempts[i].window = "lost" => attempts'[i].window = "lost"
            /\ attempts'[i].window = "due" => attempts[i].window = "due" /\ attempts[i].by # c
            /\ attempts'[i].window = "applied" => attempts[i].window = "applied"
  BY SettledAttempts
<1>2. attempts' # << >> /\ Last'.window = "applied" => Last.window = "applied"
  BY <1>1 DEF Last
<1>3. now \in Nat /\ item["limit"].value \in Int /\ item["limit"].expires \in Nat
  BY <1>0, Types
<1>4. Clock'
  <2>1. \A i, j \in 1..len : i <= j => attempts'[i].at <= attempts'[j].at
    BY <1>0, <1>1 DEF Clock
  <2>2. \A i \in 1..len :
           /\ attempts'[i].at <= now
           /\ attempts'[i].window = "due" =>
                 attempts'[i].at = now /\ client'[attempts'[i].by].pc = "expire"
    BY <1>0, <1>1 DEF Clock
  <2>3. \A d \in Client : client'[d].pc = "expire" /\ attempts' # << >> => Last'.at = now
    BY <1>0, <1>1 DEF Clock
  <2>4. QED BY <1>1, <2>1, <2>2, <2>3 DEF Clock
<1>5. Counter'
  <2>1. item'["limit"] # Absent =>
          /\ item'["limit"].value \in 0..len
          /\ item'["limit"].expires <= now + Window
          /\ attempts' # << >> =>
                /\ item'["limit"].expires <= Last'.at + Window
                /\ Last'.window = "applied" /\ item'["limit"].value > 0 =>
                      item'["limit"].expires # Never
    BY <1>0, <1>1, <1>2 DEF Counter
  <2>2. \A i \in 1..len : attempts'[i].n \in 1..i BY <1>0, <1>1 DEF Counter
  <2>3. ASSUME NEW d \in Client, client'[d].pc = "read"
        PROVE  /\ client'[d].n \in 1..len+1
               /\ client'[d].expires <= now + Window
               /\ client'[d].n > 1 =>
                     /\ exclusive'["limit"] = d
                     /\ Last'.window = "applied" => now <= Last'.at + Window
    <3>1. d # c /\ client'[d] = client[d] BY <2>3
    <3>2. client[d].n \in Nat BY <1>0, Types DEF ClientState
    <3>3. client[d].n > 1 => attempts' # << >>
      <4>1. len + 1 > 1 => attempts # << >> /\ attempts' # << >> BY <1>0, <1>1, Types
      <4>2. QED BY <1>0, <1>1, <2>3, <3>1, <4>1 DEF Counter
    <3>4. QED BY <1>0, <1>1, <1>2, <2>3, <3>1, <3>2, <3>3 DEF Counter
  <2>4. ASSUME NEW i \in 1..len, ~Passed(attempts'[i])
        PROVE  \/ attempts'[i-1].window = "lost"
               \/ attempts'[i].at - attempts'[i-1].at <= Window
    <3>1. ~Passed(attempts[i]) BY <1>1, <2>4 DEF Passed
    <3>2. i - 1 \in 1..len BY <1>0, <3>1, RefusedLater
    <3>3. QED BY <1>0, <1>1, <3>1, <3>2 DEF Counter
  <2>5. QED BY <1>1, <2>1, <2>2, <2>3, <2>4 DEF Counter
<1>6. Numbering'
  <2>1. SUFFICES ASSUME driver # "postgres" PROVE Numbering' BY DEF Numbering
  <2>2. attempts # << >> => item'["limit"] = item["limit"] BY <2>1
  <2>3. /\ item'["limit"] = Absent => attempts' = << >>
        /\ attempts' # << >> =>
              item'["limit"].value = Last'.n /\ (Last'.at = now => Live("limit")')
    BY <1>0, <1>1, <2>1, <2>2 DEF Numbering, Live
  <2>4. \A d \in Client : client'[d].pc = "read" =>
           /\ client'[d].n = (IF Live("limit")' THEN item'["limit"].value ELSE 0) + 1
           /\ client'[d].expires = (IF Live("limit")' THEN item'["limit"].expires ELSE Never)
    BY <1>0, <2>1 DEF Numbering, Live
  <2>5. item'["limit"].expires # Never =>
           \A i \in 1..len : attempts'[i].window = "applied" =>
              attempts'[i].at + Window <= item'["limit"].expires
    BY <1>0, <1>1, <2>1 DEF Numbering, Absent
  <2>6. ASSUME NEW i \in 1..len, NEW j \in 1..len, i < j
        PROVE  \/ attempts'[j].n = attempts'[i].n + (j - i)
               \/ \A k \in 1..i : attempts'[k].window # "lost" =>
                     attempts'[k].at + Window <= attempts'[j].at
    <3>1. \A k \in 1..i : k \in 1..len BY <1>1
    <3>2. \/ attempts[j].n = attempts[i].n + (j - i)
          \/ \A k \in 1..i : attempts[k].window # "lost" =>
                attempts[k].at + Window <= attempts[j].at
      BY <1>0, <2>1, <2>6 DEF Numbering
    <3>3. QED BY <1>1, <3>1, <3>2
  <2>7. QED BY <1>1, <2>3, <2>4, <2>5, <2>6 DEF Numbering
<1>7. QED BY <1>4, <1>5, <1>6

\* The window is applied: the newest attempt is of this instant, so the counter is
\* alive on redis, and everywhere its expiration covers every attempt.
LEMMA AppliedStep ==
    ASSUME LimiterInv, NEW c \in Client, UNCHANGED <<driver, now, exclusive>>,
           client[c].pc = "expire", Free("limit", c),
           attempts' = Applied(c, "applied"), client'[c].pc \notin {"read", "expire"},
           \A d \in Client \ {c} : client'[d] = client[d],
           \/ /\ item["limit"] # Absent
              /\ item'["limit"] = [item["limit"] EXCEPT !.expires = now + Window]
           \/ /\ item["limit"] # Absent => ~Live("limit") /\ driver = "redis"
              /\ item'["limit"] = item["limit"]
    PROVE  Clock' /\ Counter' /\ Numbering'
<1> DEFINE len == Len(attempts)
<1>0. TypeOK /\ Clock /\ Counter /\ Numbering /\ Locks BY DEF LimiterInv
<1>1. /\ Len(attempts') = len /\ len \in Nat
      /\ attempts' # << >> => attempts # << >> /\ len \in 1..len
      /\ attempts = << >> => attempts' = << >>
      /\ attempts # << >> => Last'.at = Last.at /\ Last'.n = Last.n
      /\ \A i \in 1..len :
            /\ attempts[i].at \in Nat /\ attempts[i].n \in Nat /\ attempts[i].by \in Client
            /\ attempts'[i].at = attempts[i].at /\ attempts'[i].n = attempts[i].n
            /\ attempts'[i].by = attempts[i].by
            /\ attempts[i].window = "lost" => attempts'[i].window = "lost"
            /\ attempts'[i].window = "due" => attempts[i].window = "due" /\ attempts[i].by # c
  BY SettledAttempts
<1>2. attempts # << >> => Last.at = now BY <1>0 DEF Clock
<1>3. now \in Nat /\ item["limit"] \in [value : Int, expires : Nat] BY <1>0, Types
<1>4. item["limit"] # Absent =>
         \/ item'["limit"].value = item["limit"].value /\ item'["limit"].expires = now + Window
         \/ attempts = << >> /\ item'["limit"] = item["limit"]
  BY <1>0, <1>2, <1>3 DEF Numbering
<1>5. item'["limit"] # Absent => item["limit"] # Absent
  OBVIOUS
<1>6. \A d \in Client : client'[d].pc = "read" =>
         driver = "postgres" /\ d # c /\ client'[d] = client[d] /\ ~(client[d].n > 1)
  <2>1. SUFFICES ASSUME NEW d \in Client, client'[d].pc = "read"
                 PROVE driver = "postgres" /\ d # c /\ client'[d] = client[d] /\ ~(client[d].n > 1)
    OBVIOUS
  <2>2. d # c /\ client'[d] = client[d] BY <2>1
  <2>3. exclusive["limit"] # d BY <2>2 DEF Free
  <2>4. client[d].pc \in {"seeded", "read"} BY <2>1, <2>2
  <2>5. driver = "postgres" BY <1>0, <2>1, <2>2, <2>3, <2>4 DEF Locks
  <2>6. ~(client[d].n > 1) BY <1>0, <2>1, <2>2, <2>3 DEF Counter
  <2>7. QED BY <2>2, <2>5, <2>6
<1>7. Clock'
  <2>1. \A i, j \in 1..len : i <= j => attempts'[i].at <= attempts'[j].at
    BY <1>0, <1>1 DEF Clock
  <2>2. \A i \in 1..len :
           /\ attempts'[i].at <= now
           /\ attempts'[i].window = "due" =>
                 attempts'[i].at = now /\ client'[attempts'[i].by].pc = "expire"
    BY <1>0, <1>1 DEF Clock
  <2>3. \A d \in Client : client'[d].pc = "expire" /\ attempts' # << >> => Last'.at = now
    BY <1>1, <1>2
  <2>4. QED BY <1>1, <2>1, <2>2, <2>3 DEF Clock
<1>8. Counter'
  <2>1. item'["limit"] # Absent =>
          /\ item'["limit"].value \in 0..len
          /\ item'["limit"].expires <= now + Window
          /\ attempts' # << >> =>
                /\ item'["limit"].expires <= Last'.at + Window
                /\ Last'.window = "applied" /\ item'["limit"].value > 0 =>
                      item'["limit"].expires # Never
    BY <1>0, <1>1, <1>2, <1>3, <1>4, <1>5 DEF Counter
  <2>2. \A i \in 1..len : attempts'[i].n \in 1..i BY <1>0, <1>1 DEF Counter
  <2>3. \A d \in Client : client'[d].pc = "read" =>
           /\ client'[d].n \in 1..len+1 /\ client'[d].expires <= now + Window
           /\ ~(client'[d].n > 1)
    BY <1>0, <1>6 DEF Counter
  <2>4. ASSUME NEW i \in 1..len, ~Passed(attempts'[i])
        PROVE  \/ attempts'[i-1].window = "lost"
               \/ attempts'[i].at - attempts'[i-1].at <= Window
    <3>1. ~Passed(attempts[i]) BY <1>1, <2>4 DEF Passed
    <3>2. i - 1 \in 1..len BY <1>0, <3>1, RefusedLater
    <3>3. QED BY <1>0, <1>1, <3>1, <3>2 DEF Counter
  <2>5. QED BY <1>1, <2>1, <2>2, <2>3, <2>4 DEF Counter
<1>9. Numbering'
  <2>1. SUFFICES ASSUME driver # "postgres" PROVE Numbering' BY DEF Numbering
  <2>2. item'["limit"] = Absent => attempts' = << >>
    BY <1>0, <1>1, <1>3, <1>4, <2>1 DEF Numbering, Absent
  <2>3. ASSUME attempts' # << >>
        PROVE  item'["limit"] # Absent /\ item["limit"] # Absent
               /\ item'["limit"].value = item["limit"].value
               /\ item'["limit"].expires = now + Window
    BY <1>0, <1>1, <1>4, <2>1, <2>2, <2>3 DEF Numbering
  <2>4. attempts' # << >> =>
           item'["limit"].value = Last'.n /\ (Last'.at = now => Live("limit")')
    BY <1>0, <1>1, <1>3, <2>1, <2>3 DEF Numbering, Live
  <2>5. ASSUME NEW i \in 1..len
        PROVE  attempts'[i].at + Window <= now + Window /\ attempts' # << >>
    <3>1. attempts'[i].at \in Nat /\ attempts'[i].at <= now BY <1>0, <1>1 DEF Clock
    <3>2. attempts' # << >> BY <1>1
    <3>3. QED BY <1>3, <3>1, <3>2
  <2>6. item'["limit"].expires # Never =>
           \A i \in 1..len : attempts'[i].window = "applied" =>
              attempts'[i].at + Window <= item'["limit"].expires
    BY <2>3, <2>5
  <2>7. ASSUME NEW i \in 1..len, NEW j \in 1..len, i < j
        PROVE  \/ attempts'[j].n = attempts'[i].n + (j - i)
               \/ \A k \in 1..i : attempts'[k].window # "lost" =>
                     attempts'[k].at + Window <= attempts'[j].at
    <3>1. \A k \in 1..i : k \in 1..len BY <1>1
    <3>2. \/ attempts[j].n = attempts[i].n + (j - i)
          \/ \A k \in 1..i : attempts[k].window # "lost" =>
                attempts[k].at + Window <= attempts[j].at
      BY <1>0, <2>1, <2>7 DEF Numbering
    <3>3. QED BY <1>1, <3>1, <3>2
  <2>8. QED BY <1>1, <1>6, <2>1, <2>2, <2>4, <2>6, <2>7 DEF Numbering
<1>10. QED BY <1>7, <1>8, <1>9

\* A counter that is alive and not zero was counted lately.
LEMMA LiveRecently ==
    ASSUME LimiterInv, Live("limit"), item["limit"].value > 0
    PROVE  /\ attempts # << >>
           /\ Last.window = "lost" \/ now <= Last.at + Window
<1>0. TypeOK /\ Clock /\ Counter BY DEF LimiterInv
<1>1. /\ now \in Nat /\ item["limit"].value \in Int /\ item["limit"].expires \in Nat
      /\ attempts \in Seq(Attempt) /\ Len(attempts) \in Nat
      /\ \A i \in 1..Len(attempts) : attempts[i] \in Attempt
  BY <1>0, Types
<1>2. item["limit"] # Absent BY DEF Live
<1>3. attempts # << >> /\ Len(attempts) \in 1..Len(attempts) BY <1>0, <1>1, <1>2 DEF Counter
<1>4. Last \in Attempt BY <1>1, <1>3 DEF Last
<1>5. Last.at \in Nat /\ Last.window \in {"due", "applied", "lost"} BY <1>4 DEF Attempt
<1>6. CASE Last.window = "due" BY <1>0, <1>1, <1>3, <1>5, <1>6 DEF Clock, Last
<1>7. CASE Last.window = "applied"
  <2>1. item["limit"].expires # Never /\ item["limit"].expires <= Last.at + Window
    BY <1>0, <1>2, <1>3, <1>7 DEF Counter
  <2>2. item["limit"].expires >= now BY <1>1, <2>1 DEF Live
  <2>3. QED BY <1>1, <1>3, <1>5, <2>1, <2>2
<1>8. QED BY <1>3, <1>5, <1>6, <1>7

\* A transaction that ends takes only its own locks along.
LEMMA ReleaseLocks ==
    ASSUME LimiterInv, NEW c \in Client, Release(c), UNCHANGED driver,
           client'[c].pc \notin {"seeded", "read"}, client'[c].inserted = FALSE,
           \A d \in Client \ {c} : client'[d] = client[d],
           \/ item["limit"] # Absent => item'["limit"] # Absent
           \/ client[c].inserted,
           \/ attempts = << >> => attempts' = << >>
           \/ \A d \in Client \ {c} : exclusive["limit"] # d
    PROVE  /\ Locks'
           /\ \A d \in Client \ {c}, k \in Key : exclusive[k] = d => exclusive'[k] = d
<1>0. TypeOK /\ Locks BY DEF LimiterInv
<1>1. /\ exclusive'["limit"] = IF exclusive["limit"] = c THEN None ELSE exclusive["limit"]
      /\ shared'["limit"] = shared["limit"] \ {c}
      /\ \A d \in Client \ {c}, k \in Key : exclusive[k] = d => exclusive'[k] = d
  BY DEF Release
<1>2. ASSUME NEW d \in Client, d # c
      PROVE  LET active == client'[d].pc \in {"seeded", "read"} IN
             /\ active => SQL'
             /\ exclusive'["limit"] = d => active /\ item'["limit"] # Absent
             /\ d \in shared'["limit"] => active /\ driver' = "mysql"
             /\ client'[d].inserted => active /\ exclusive'["limit"] = d
             /\ driver' = "mysql" =>
                   /\ active => /\ item'["limit"] # Absent
                                /\ exclusive'["limit"] = d \/ d \in shared'["limit"]
                   /\ client'[d].pc = "read" => exclusive'["limit"] = d
                   /\ client'[d].inserted => shared'["limit"] = {} /\ attempts' = << >>
  <2>1. client'[d] = client[d] BY <1>2
  <2>2. exclusive'["limit"] = d => exclusive["limit"] = d BY <1>1
  <2>3. client[c].inserted => exclusive["limit"] = c BY <1>0 DEF Locks
  <2>4. client[c].inserted /\ driver = "mysql" => shared["limit"] = {} BY <1>0 DEF Locks
  <2>5. QED BY <1>0, <1>1, <1>2, <2>1, <2>2, <2>3, <2>4 DEF Locks
<1>3. exclusive'["limit"] # c /\ c \notin shared'["limit"] BY <1>1
<1>4. QED BY <1>1, <1>2, <1>3 DEF Locks

LEMMA IdleState == Idle \in ClientState
BY DEF Idle, ClientState

-----------------------------------------------------------------------------
(* One lemma for each action. *)

\* Memory and redis count in one step.
LEMMA IncrementInPlaceStep ==
    ASSUME LimiterInv, NEW c \in Client, IncrementInPlace(c)
    PROVE  LimiterInv'
<1> DEFINE n == (IF Live("limit") THEN item["limit"].value ELSE 0) + 1
           e == IF Live("limit") THEN item["limit"].expires ELSE Never
<1>0. TypeOK /\ RedeemedOnce /\ Locks /\ Challenge /\ Clock /\ Counter /\ Numbering
  BY DEF LimiterInv
<1>1. /\ now \in Nat /\ item \in [Key -> [value : Int, expires : Nat]]
      /\ Len(attempts) \in Nat /\ client \in [Client -> ClientState]
  BY <1>0, Types
<1>2. Live("limit") => item["limit"] # Absent BY DEF Live
<1>3. n \in Nat /\ n >= 1 /\ n <= Len(attempts) + 1 /\ e \in Nat /\ e <= now + Window
  BY <1>0, <1>1, <1>2 DEF Counter
<1>4. n > 1 => Last.window = "lost" \/ now <= Last.at + Window
  BY <1>1, LiveRecently
<1>5. /\ attempts' = Counted(c, n) /\ client'[c].pc = "expire" /\ client'[c].inserted = FALSE
      /\ item'["limit"] = [value |-> n, expires |-> e]
      /\ item'["challenge"] = item["challenge"]
      /\ UNCHANGED <<driver, now, exclusive, shared, taken, faults>>
      /\ \A d \in Client \ {c} : client'[d] = client[d]
  BY <1>1 DEF IncrementInPlace, Idle
<1>6. ~SQL /\ \A d \in Client : client[d].pc \notin {"seeded", "read"}
  BY <1>0 DEF IncrementInPlace, Locks
<1>7. Clock' /\ Counter' /\ Numbering'
  <2> HIDE DEF n, e
  <2>1. item'["limit"].value = n /\ item'["limit"].expires = e BY <1>5
  <2>2. driver # "postgres" =>
           /\ n = (IF Live("limit") THEN item["limit"].value ELSE 0) + 1
           /\ e = (IF Live("limit") THEN item["limit"].expires ELSE Never)
    BY DEF n, e
  <2>3. QED BY <1>3, <1>4, <1>5, <1>6, <2>1, <2>2, CountStep
<1>8. TypeOK'
  <2>1. attempts' \in Seq(Attempt) BY <1>0, <1>3, <1>5, CountedShape
  <2>2. client' \in [Client -> ClientState]
    BY <1>1, <1>3, IdleState DEF IncrementInPlace, ClientState
  <2>3. item' \in [Key -> [value : Int, expires : Nat]] BY <1>1, <1>3 DEF IncrementInPlace
  <2>4. made' \in Nat
    <3>1. made \in Nat /\ made' = made + 1 BY <1>0, Types DEF IncrementInPlace
    <3>2. QED BY <3>1
  <2>5. QED BY <1>0, <1>5, <2>1, <2>2, <2>3, <2>4 DEF TypeOK, ClientState
<1>9. Locks' BY <1>0, <1>5, <1>6 DEF Locks
<1>10. Challenge' /\ RedeemedOnce' BY <1>0, <1>5 DEF Challenge, RedeemedOnce
<1>11. QED BY <1>7, <1>8, <1>9, <1>10, Parts, PTL

\* The insert: a new row is the transaction's own and counts nothing yet.
LEMMA SeedStep ==
    ASSUME LimiterInv, NEW c \in Client, Seed(c)
    PROVE  LimiterInv'
<1>0. TypeOK /\ RedeemedOnce /\ Locks /\ Challenge /\ Clock /\ Counter /\ Numbering
  BY DEF LimiterInv
<1>1. /\ now \in Nat /\ item \in [Key -> [value : Int, expires : Nat]]
      /\ Len(attempts) \in Nat /\ client \in [Client -> ClientState]
      /\ exclusive \in [Key -> Client \cup {None}] /\ shared \in [Key -> SUBSET Client]
      /\ \A i \in 1..Len(attempts) : attempts[i] \in Attempt
  BY <1>0, Types
<1>2. /\ SQL /\ client[c].pc = "idle" /\ client'[c].pc = "seeded"
      /\ client'[c].inserted = (item["limit"] = Absent)
      /\ \A d \in Client \ {c} : client'[d] = client[d]
      /\ item'["challenge"] = item["challenge"]
      /\ exclusive'["challenge"] = exclusive["challenge"]
      /\ driver = "mysql" => exclusive["limit"] = None
      /\ UNCHANGED <<driver, now, attempts, taken, faults>>
  BY <1>1 DEF Seed, Idle
<1>3. \A i \in 1..Len(attempts) : attempts[i].window = "due" =>
         client'[attempts[i].by] = client[attempts[i].by]
  BY <1>0, <1>1, <1>2 DEF Clock, Attempt
<1>4. TypeOK'
  <2>1. client' \in [Client -> ClientState]
    BY <1>1, IdleState DEF Seed, ClientState
  <2>2. item' \in [Key -> [value : Int, expires : Nat]] BY <1>1 DEF Seed
  <2>3. exclusive' \in [Key -> Client \cup {None}] /\ shared' \in [Key -> SUBSET Client]
    BY <1>1 DEF Seed
  <2>4. made' \in Nat
    <3>1. made \in Nat /\ made' = made + 1 BY <1>0, Types DEF Seed
    <3>2. QED BY <3>1
  <2>5. QED BY <1>0, <1>2, <2>1, <2>2, <2>3, <2>4 DEF TypeOK, ClientState
<1>5. Challenge' /\ RedeemedOnce' BY <1>0, <1>2 DEF Challenge, RedeemedOnce
<1>6. CASE item["limit"] # Absent
  <2>1. /\ UNCHANGED <<item, exclusive>>
        /\ shared'["limit"] = IF driver = "mysql" THEN shared["limit"] \cup {c} ELSE shared["limit"]
    BY <1>1, <1>6 DEF Seed
  <2>2. Clock' /\ Counter' /\ Numbering' BY <1>2, <1>3, <2>1, CounterFrame
  <2>3. \A d \in Client : client[d].inserted => driver # "mysql"
    BY <1>0, <1>2 DEF Locks
  <2>4. exclusive["limit"] # c /\ c \notin shared["limit"] BY <1>0, <1>2 DEF Locks
  <2>5. ~client'[c].inserted BY <1>2, <1>6
  <2>6. driver = "mysql" => c \in shared'["limit"] BY <2>1
  <2>7. driver # "mysql" => shared'["limit"] = shared["limit"] BY <2>1
  <2>8. \A d \in Client \ {c} : d \in shared'["limit"] <=> d \in shared["limit"] BY <2>1
  <2>9. exclusive'["limit"] = exclusive["limit"] /\ item'["limit"] = item["limit"] BY <2>1
  <2>10. \A d \in Client \ {c} : driver = "mysql" => ~client'[d].inserted BY <1>2, <2>3
  <2>11. Locks'
    BY <1>0, <1>2, <1>6, <2>4, <2>5, <2>6, <2>7, <2>8, <2>9, <2>10 DEF Locks
  <2>12. QED BY <1>4, <1>5, <2>2, <2>11, Parts, PTL
<1>7. CASE item["limit"] = Absent
  <2>1. /\ item'["limit"] = [value |-> 0, expires |-> Never]
        /\ exclusive'["limit"] = c /\ shared' = shared
    BY <1>1, <1>7 DEF Seed
  <2>2. \A d \in Client : exclusive["limit"] # d /\ ~client[d].inserted
    BY <1>0, <1>7 DEF Locks
  <2>3. driver = "mysql" =>
           /\ attempts = << >> /\ \A d \in Client : client[d].pc \notin {"seeded", "read"}
           /\ shared["limit"] = {}
    BY <1>0, <1>1, <1>7 DEF Locks, Numbering
  <2>4. item'["limit"] # Absent BY <2>1 DEF Absent
  <2>5. Locks' BY <1>0, <1>2, <1>7, <2>1, <2>2, <2>3, <2>4 DEF Locks
  <2>6. Clock' BY <1>0, <1>2, <1>3 DEF Clock, Last
  <2>7. Counter'
    <3>1. \A d \in Client : client'[d].pc = "read" =>
             client'[d] = client[d] /\ ~(client[d].n > 1)
      BY <1>0, <1>2, <2>2 DEF Counter
    <3>2. attempts # << >> => Last.at \in Nat
      <4>1. attempts # << >> => Len(attempts) \in 1..Len(attempts) BY <1>0, Types
      <4>2. QED BY <1>1, <4>1 DEF Attempt, Last
    <3>3. item'["limit"].value = 0 /\ item'["limit"].expires = 0 BY <2>1
    <3>4. attempts # << >> =>
            /\ item'["limit"].expires <= Last.at + Window
            /\ ~(item'["limit"].value > 0)
      BY <3>2, <3>3
    <3>5. item'["limit"].value \in 0..Len(attempts) /\ item'["limit"].expires <= now + Window
      BY <1>1, <3>3
    <3>6. Last' = Last BY <1>2 DEF Last
    <3>7. QED BY <1>0, <1>2, <3>1, <3>4, <3>5, <3>6 DEF Counter, Passed
  <2>8. Numbering'
    <3>1. driver # "postgres" => attempts = << >> /\ \A d \in Client : client'[d].pc # "read"
      BY <1>2, <2>3
    <3>2. attempts = << >> => Len(attempts) = 0 OBVIOUS
    <3>3. QED BY <1>2, <2>1, <2>4, <3>1, <3>2 DEF Numbering
  <2>9. QED BY <1>4, <1>5, <2>5, <2>6, <2>7, <2>8, Parts, PTL
<1>8. QED BY <1>6, <1>7

\* The locking read: the value it returns is the one the row still has when it is
\* written, except on Postgres for a row that has expired.
LEMMA ReadForUpdateStep ==
    ASSUME LimiterInv, NEW c \in Client, ReadForUpdate(c)
    PROVE  LimiterInv'
<1> DEFINE n == (IF Live("limit") THEN item["limit"].value ELSE 0) + 1
           e == IF Live("limit") THEN item["limit"].expires ELSE Never
<1>0. TypeOK /\ RedeemedOnce /\ Locks /\ Challenge /\ Clock /\ Counter /\ Numbering
  BY DEF LimiterInv
<1>1. /\ now \in Nat /\ item \in [Key -> [value : Int, expires : Nat]]
      /\ Len(attempts) \in Nat /\ client \in [Client -> ClientState]
      /\ exclusive \in [Key -> Client \cup {None}] /\ shared \in [Key -> SUBSET Client]
      /\ \A i \in 1..Len(attempts) : attempts[i] \in Attempt
  BY <1>0, Types
<1>2. Live("limit") => item["limit"] # Absent BY DEF Live
<1>3. n \in Nat /\ n >= 1 /\ n <= Len(attempts) + 1 /\ e \in Nat /\ e <= now + Window
  BY <1>0, <1>1, <1>2 DEF Counter
<1>4. n > 1 => Live("limit") /\ (Last.window = "applied" => now <= Last.at + Window)
  BY <1>1, LiveRecently
<1>5. client'[c] = [client[c] EXCEPT !.pc = "read", !.n = n, !.expires = e]
  BY <1>1 DEF ReadForUpdate
<1>6. /\ client[c].pc = "seeded" /\ client'[c].pc = "read"
      /\ client'[c].inserted = client[c].inserted
      /\ client'[c].n = n /\ client'[c].expires = e
      /\ \A d \in Client \ {c} : client'[d] = client[d]
      /\ UNCHANGED <<driver, now, item, shared, made, attempts, taken, faults>>
  <2>1. client[c] \in ClientState BY <1>1
  <2>2. /\ client[c].pc = "seeded" /\ \A d \in Client \ {c} : client'[d] = client[d]
        /\ UNCHANGED <<driver, now, item, shared, made, attempts, taken, faults>>
    BY <1>1 DEF ReadForUpdate
  <2>3. QED BY <1>5, <2>1, <2>2 DEF ClientState
<1>7. \/ Free("limit", c) /\ exclusive' = [exclusive EXCEPT !["limit"] = c]
      \/ driver = "postgres" /\ ~Live("limit") /\ UNCHANGED exclusive
  <2>1. driver = "postgres" \/ driver = "mysql" BY <1>0, <1>6 DEF Locks
  <2>2. QED BY <2>1 DEF ReadForUpdate
<1>8. TypeOK'
  <2>1. client' \in [Client -> ClientState]
    <3>1. client'[c] \in ClientState
      <4> HIDE DEF n, e
      <4>1. client[c] \in ClientState BY <1>1
      <4>2. QED BY <1>3, <1>5, <4>1 DEF ClientState
    <3>2. client' = [client EXCEPT ![c] = client'[c]] BY <1>1 DEF ReadForUpdate
    <3>3. QED BY <1>1, <3>1, <3>2
  <2>2. exclusive' \in [Key -> Client \cup {None}] BY <1>1, <1>7
  <2>3. QED BY <1>0, <1>6, <2>1, <2>2 DEF TypeOK, ClientState
<1>9. exclusive'["challenge"] = exclusive["challenge"] BY <1>1, <1>7
<1>10. Challenge' /\ RedeemedOnce' BY <1>0, <1>6, <1>9 DEF Challenge, RedeemedOnce
<1>11. \A d \in Client \ {c} : exclusive["limit"] = d => exclusive'["limit"] = d
  BY <1>7 DEF Free
<1>12. exclusive'["limit"] \in {c, exclusive["limit"]} BY <1>1, <1>7
<1>13. driver = "mysql" \/ n > 1 => exclusive'["limit"] = c BY <1>1, <1>4, <1>7
<1>14. exclusive'["limit"] = c => item["limit"] # Absent
  BY <1>0, <1>1, <1>2, <1>6, <1>7 DEF Locks, ReadForUpdate
<1>15. Locks'
  <2>1. client[c].inserted => exclusive["limit"] = c /\ exclusive'["limit"] = c
    BY <1>0, <1>1, <1>7 DEF Locks
  <2>2. QED BY <1>0, <1>6, <1>11, <1>12, <1>13, <1>14, <2>1 DEF Locks
<1>16. Clock'
  <2>1. ASSUME NEW i \in 1..Len(attempts), attempts[i].window = "due"
        PROVE  client'[attempts[i].by] = client[attempts[i].by]
    <3>1. attempts[i].by \in Client /\ client[attempts[i].by].pc = "expire"
      BY <1>0, <1>1, <2>1 DEF Clock, Attempt
    <3>2. QED BY <1>6, <3>1
  <2>2. Last' = Last BY <1>6 DEF Last
  <2>3. QED BY <1>0, <1>6, <2>1, <2>2 DEF Clock
<1>17. Counter'
  <2>1. ASSUME NEW d \in Client, client'[d].pc = "read"
        PROVE  /\ client'[d].n \in 1..Len(attempts)+1
               /\ client'[d].expires <= now + Window
               /\ client'[d].n > 1 =>
                     /\ exclusive'["limit"] = d
                     /\ Last.window = "applied" => now <= Last.at + Window
    <3>1. CASE d = c
      <4>1. n \in 1..Len(attempts)+1 BY <1>1, <1>3
      <4>2. QED BY <1>3, <1>4, <1>6, <1>13, <3>1, <4>1
    <3>2. CASE d # c BY <1>0, <1>6, <1>11, <2>1, <3>2 DEF Counter
    <3>3. QED BY <3>1, <3>2
  <2>2. Last' = Last BY <1>6 DEF Last
  <2>3. QED BY <1>0, <1>6, <2>1, <2>2 DEF Counter, Passed
<1>18. Numbering'
  <2>1. Live("limit")' = Live("limit") /\ Last' = Last BY <1>6 DEF Live, Last
  <2>2. QED BY <1>0, <1>6, <2>1 DEF Numbering
<1>19. QED BY <1>8, <1>10, <1>15, <1>16, <1>17, <1>18, Parts, PTL

\* The update and its commit: nobody else can be about to write another count,
\* except on Postgres the first one of a new window.
LEMMA CommitIncrementStep ==
    ASSUME LimiterInv, NEW c \in Client, CommitIncrement(c)
    PROVE  LimiterInv'
<1> DEFINE n == client[c].n
           e == client[c].expires
<1>0. TypeOK /\ RedeemedOnce /\ Locks /\ Challenge /\ Clock /\ Counter /\ Numbering
  BY DEF LimiterInv
<1>1. /\ now \in Nat /\ item \in [Key -> [value : Int, expires : Nat]]
      /\ Len(attempts) \in Nat /\ client \in [Client -> ClientState]
      /\ exclusive \in [Key -> Client \cup {None}] /\ shared \in [Key -> SUBSET Client]
      /\ attempts \in Seq(Attempt) /\ \A i \in 1..Len(attempts) : attempts[i] \in Attempt
  BY <1>0, Types
<1>2. client[c] \in ClientState BY <1>1
<1>3. /\ client[c].pc = "read" /\ Free("limit", c) /\ Release(c)
      /\ attempts' = Counted(c, n)
      /\ \A d \in Client \ {c} : client'[d] = client[d]
      /\ client'[c] = [client[c] EXCEPT !.pc = "expire", !.inserted = FALSE]
      /\ item'["limit"] = IF item["limit"] = Absent THEN Absent ELSE [value |-> n, expires |-> e]
      /\ item'["challenge"] = item["challenge"]
      /\ UNCHANGED <<driver, now, made, taken, faults>>
  BY <1>1 DEF CommitIncrement
<1>4. client'[c].pc = "expire" /\ client'[c].inserted = FALSE BY <1>2, <1>3 DEF ClientState
<1>5. n \in Nat /\ e \in Nat /\ n >= 1 /\ n <= Len(attempts) + 1 /\ e <= now + Window
  <2>1. n \in Nat /\ e \in Nat BY <1>2 DEF ClientState
  <2>2. n \in 1..Len(attempts)+1 /\ e <= now + Window BY <1>0, <1>3 DEF Counter
  <2>3. QED BY <1>1, <2>1, <2>2
<1>6. n > 1 => Last.window = "lost" \/ now <= Last.at + Window
  <2>1. SUFFICES ASSUME n > 1, Last.window # "lost" PROVE now <= Last.at + Window OBVIOUS
  <2>2. Len(attempts) \in 1..Len(attempts) BY <1>1, <1>5, <2>1
  <2>3. Last \in Attempt BY <1>1, <2>2 DEF Last
  <2>4. CASE Last.window = "due" BY <1>0, <1>1, <2>2, <2>3, <2>4 DEF Clock, Last, Attempt
  <2>5. CASE Last.window = "applied" BY <1>0, <1>3, <2>1, <2>5 DEF Counter
  <2>6. QED BY <2>1, <2>3, <2>4, <2>5 DEF Attempt
<1>7. \A d \in Client \ {c} : exclusive["limit"] # d BY <1>3 DEF Free
<1>8. \A d \in Client \ {c} : client[d].pc = "read" => driver = "postgres" /\ client[d].n = 1
  <2>1. SUFFICES ASSUME NEW d \in Client \ {c}, client[d].pc = "read"
                 PROVE  driver = "postgres" /\ client[d].n = 1
    OBVIOUS
  <2>2. driver = "postgres" BY <1>0, <1>7, <2>1 DEF Locks
  <2>3. ~(client[d].n > 1) /\ client[d].n \in 1..Len(attempts)+1 BY <1>0, <1>7, <2>1 DEF Counter
  <2>4. QED BY <1>1, <2>2, <2>3
<1>9. \/ item'["limit"] = Absent /\ driver = "postgres"
      \/ item'["limit"].value = n /\ item'["limit"].expires = e
  BY <1>0, <1>3 DEF Locks
<1>10. driver # "postgres" =>
          /\ n = (IF Live("limit") THEN item["limit"].value ELSE 0) + 1
          /\ e = (IF Live("limit") THEN item["limit"].expires ELSE Never)
  BY <1>0, <1>3 DEF Numbering
<1>11. Clock' /\ Counter' /\ Numbering'
  <2> HIDE DEF n, e
  <2>1. QED BY <1>3, <1>4, <1>5, <1>6, <1>8, <1>9, <1>10, CountStep
<1>12. Locks'
  <2>1. item["limit"] # Absent => item'["limit"] # Absent BY <1>3, <1>5 DEF Absent
  <2>2. QED BY <1>3, <1>4, <1>7, <2>1, ReleaseLocks
<1>13. \A d \in Client \ {c}, k \in Key : exclusive[k] = d => exclusive'[k] = d
  BY <1>3 DEF Release
<1>14. Challenge' /\ RedeemedOnce'
  <2>1. \A d \in Client : client'[d].pc = "take" =>
           d # c /\ client[d].pc = "take" /\ exclusive'["challenge"] = d
    <3>1. SUFFICES ASSUME NEW d \in Client, client'[d].pc = "take"
                   PROVE  d # c /\ client[d].pc = "take" /\ exclusive'["challenge"] = d
      OBVIOUS
    <3>2. d # c BY <1>4, <3>1
    <3>3. client[d].pc = "take" BY <1>3, <3>1, <3>2
    <3>4. exclusive["challenge"] = d BY <1>0, <3>3 DEF Challenge
    <3>5. QED BY <1>13, <3>2, <3>3, <3>4
  <2>2. QED BY <1>0, <1>3, <2>1 DEF Challenge, RedeemedOnce
<1>15. TypeOK'
  <2>1. attempts' \in Seq(Attempt) BY <1>0, <1>3, <1>5, CountedShape
  <2>2. client' \in [Client -> ClientState]
    <3>1. client'[c] \in ClientState BY <1>2, <1>3 DEF ClientState
    <3>2. client' = [client EXCEPT ![c] = client'[c]] BY <1>1 DEF CommitIncrement
    <3>3. QED BY <1>1, <3>1, <3>2
  <2>3. item' \in [Key -> [value : Int, expires : Nat]] BY <1>1, <1>5 DEF CommitIncrement, Absent
  <2>4. exclusive' \in [Key -> Client \cup {None}] /\ shared' \in [Key -> SUBSET Client]
    BY <1>1, <1>3 DEF Release
  <2>5. QED BY <1>0, <1>3, <2>1, <2>2, <2>3, <2>4 DEF TypeOK, ClientState
<1>16. QED BY <1>11, <1>12, <1>14, <1>15, Parts, PTL

\* The transaction that MySQL rolls back had only read.
LEMMA DeadlockStep ==
    ASSUME LimiterInv, NEW c \in Client, Deadlock(c)
    PROVE  LimiterInv'
<1>0. TypeOK /\ RedeemedOnce /\ Locks /\ Challenge /\ Clock BY DEF LimiterInv
<1>1. /\ client \in [Client -> ClientState]
      /\ exclusive \in [Key -> Client \cup {None}] /\ shared \in [Key -> SUBSET Client]
      /\ \A i \in 1..Len(attempts) : attempts[i] \in Attempt
  BY <1>0, Types
<1>2. /\ client[c].pc = "seeded" /\ client'[c] = Idle /\ Release(c)
      /\ \A d \in Client \ {c} : client'[d] = client[d]
      /\ UNCHANGED <<driver, now, item, made, attempts, taken, faults>>
  BY <1>1 DEF Deadlock
<1>3. client'[c].pc = "idle" /\ client'[c].inserted = FALSE BY <1>2 DEF Idle
<1>4. /\ Locks'
      /\ \A d \in Client \ {c}, k \in Key : exclusive[k] = d => exclusive'[k] = d
  BY <1>2, <1>3, ReleaseLocks
<1>5. \A i \in 1..Len(attempts) : attempts[i].window = "due" =>
         client'[attempts[i].by] = client[attempts[i].by]
  BY <1>0, <1>1, <1>2 DEF Clock, Attempt
<1>6. Clock' /\ Counter' /\ Numbering' BY <1>2, <1>3, <1>4, <1>5, CounterFrame
<1>7. Challenge' /\ RedeemedOnce' BY <1>0, <1>2, <1>3, <1>4 DEF Challenge, RedeemedOnce
<1>8. TypeOK'
  <2>1. client' \in [Client -> ClientState] BY <1>1, IdleState DEF Deadlock
  <2>2. exclusive' \in [Key -> Client \cup {None}] /\ shared' \in [Key -> SUBSET Client]
    BY <1>1, <1>2 DEF Release
  <2>3. QED BY <1>0, <1>2, <2>1, <2>2 DEF TypeOK, ClientState
<1>9. QED BY <1>4, <1>6, <1>7, <1>8, Parts, PTL

\* Whatever is left to do after the check, the request holds nothing.
LEMMA CheckDone ==
    ASSUME TypeOK, NEW c \in Client, AfterCheck(c)
    PROVE  /\ client' \in [Client -> ClientState]
           /\ client'[c].pc \in {"idle", "reset"} /\ client'[c].inserted = FALSE
           /\ \A d \in Client \ {c} : client'[d] = client[d]
<1>1. client \in [Client -> ClientState] BY Types
<1>2. CASE client' = [client EXCEPT ![c] = Idle] BY <1>1, <1>2, IdleState DEF Idle
<1>3. CASE client' = [client EXCEPT ![c] = [Idle EXCEPT !.pc = "reset"]]
  <2>1. [Idle EXCEPT !.pc = "reset"] \in ClientState BY DEF Idle, ClientState
  <2>2. [Idle EXCEPT !.pc = "reset"].pc = "reset" /\ [Idle EXCEPT !.pc = "reset"].inserted = FALSE
    BY DEF Idle
  <2>3. QED BY <1>1, <1>3, <2>1, <2>2
<1>4. QED BY <1>2, <1>3 DEF AfterCheck

LEMMA ApplyWindowStep ==
    ASSUME LimiterInv, NEW c \in Client, ApplyWindow(c)
    PROVE  LimiterInv'
<1>0. TypeOK /\ RedeemedOnce /\ Locks /\ Challenge BY DEF LimiterInv
<1>1. /\ now \in Nat /\ item \in [Key -> [value : Int, expires : Nat]] BY <1>0, Types
<1>2. /\ client' \in [Client -> ClientState]
      /\ client'[c].pc \in {"idle", "reset"} /\ client'[c].inserted = FALSE
      /\ \A d \in Client \ {c} : client'[d] = client[d]
  BY <1>0, CheckDone DEF ApplyWindow
<1>3. /\ client[c].pc = "expire" /\ Free("limit", c) /\ attempts' = Applied(c, "applied")
      /\ item'["challenge"] = item["challenge"]
      /\ UNCHANGED <<driver, now, exclusive, shared, made, taken, faults>>
  BY <1>1 DEF ApplyWindow
<1>4. \/ /\ item["limit"] # Absent
         /\ item'["limit"] = [item["limit"] EXCEPT !.expires = now + Window]
      \/ /\ item["limit"] # Absent => ~Live("limit") /\ driver = "redis"
         /\ item'["limit"] = item["limit"]
  BY <1>1 DEF ApplyWindow
<1>5. item["limit"] # Absent => item'["limit"] # Absent BY <1>1, <1>4 DEF Absent
<1>6. attempts' \in Seq(Attempt) /\ (attempts = << >> => attempts' = << >>)
  <2>1. attempts' \in Seq(Attempt) /\ Len(attempts') = Len(attempts) BY <1>0, <1>3, AppliedShape
  <2>2. QED BY <2>1
<1>7. Clock' /\ Counter' /\ Numbering' BY <1>2, <1>3, <1>4, AppliedStep
<1>8. Locks' BY <1>0, <1>2, <1>3, <1>5, <1>6 DEF Locks
<1>9. Challenge' /\ RedeemedOnce' BY <1>0, <1>2, <1>3 DEF Challenge, RedeemedOnce
<1>10. TypeOK'
  <2>1. item' \in [Key -> [value : Int, expires : Nat]] BY <1>1 DEF ApplyWindow
  <2>2. QED BY <1>0, <1>2, <1>3, <1>6, <2>1 DEF TypeOK, ClientState
<1>11. QED BY <1>7, <1>8, <1>9, <1>10, Parts, PTL

LEMMA WindowLostStep ==
    ASSUME LimiterInv, NEW c \in Client, WindowLost(c)
    PROVE  LimiterInv'
<1>0. TypeOK /\ RedeemedOnce /\ Locks /\ Challenge BY DEF LimiterInv
<1>2. /\ client' \in [Client -> ClientState]
      /\ client'[c].pc \in {"idle", "reset"} /\ client'[c].inserted = FALSE
      /\ \A d \in Client \ {c} : client'[d] = client[d]
  BY <1>0, CheckDone DEF WindowLost
<1>3. /\ client[c].pc = "expire" /\ attempts' = Applied(c, "lost")
      /\ UNCHANGED <<driver, now, item, exclusive, shared, made, taken>>
  BY DEF WindowLost
<1>4. faults' \in Nat
  <2>1. faults \in Nat /\ faults' = faults + 1 BY <1>0, Types DEF WindowLost
  <2>2. QED BY <2>1
<1>6. attempts' \in Seq(Attempt) /\ (attempts = << >> => attempts' = << >>)
  <2>1. attempts' \in Seq(Attempt) /\ Len(attempts') = Len(attempts) BY <1>0, <1>3, AppliedShape
  <2>2. QED BY <2>1
<1>7. Clock' /\ Counter' /\ Numbering' BY <1>2, <1>3, LostStep
<1>8. Locks' BY <1>0, <1>2, <1>3, <1>6 DEF Locks
<1>9. Challenge' /\ RedeemedOnce' BY <1>0, <1>2, <1>3 DEF Challenge, RedeemedOnce
<1>10. TypeOK' BY <1>0, <1>2, <1>3, <1>4, <1>6 DEF TypeOK, ClientState
<1>11. QED BY <1>7, <1>8, <1>9, <1>10, Parts, PTL

\* Whoever reads under the row lock keeps the delete waiting.
LEMMA ResetStep ==
    ASSUME LimiterInv, NEW c \in Client, Reset(c)
    PROVE  LimiterInv'
<1>0. TypeOK /\ RedeemedOnce /\ Locks /\ Challenge /\ Clock /\ Counter /\ Numbering
  BY DEF LimiterInv
<1>1. /\ now \in Nat /\ item \in [Key -> [value : Int, expires : Nat]]
      /\ client \in [Client -> ClientState] /\ Len(attempts) \in Nat
  BY <1>0, Types
<1>2. /\ client[c].pc = "reset" /\ client'[c] = Idle /\ Free("limit", c)
      /\ \A d \in Client \ {c} : client'[d] = client[d]
      /\ item'["limit"] = Absent /\ item'["challenge"] = item["challenge"]
      /\ attempts' = << >>
      /\ UNCHANGED <<driver, now, exclusive, shared, made, taken, faults>>
  BY <1>1 DEF Reset
<1>3. client'[c].pc = "idle" /\ client'[c].inserted = FALSE BY <1>2 DEF Idle
<1>4. \A d \in Client : exclusive["limit"] # d /\ d \notin shared["limit"]
  BY <1>0, <1>2 DEF Free, Locks
<1>5. \A d \in Client : driver = "mysql" => client[d].pc \notin {"seeded", "read"}
  BY <1>0, <1>4 DEF Locks
<1>6. Locks' BY <1>0, <1>2, <1>3, <1>4, <1>5 DEF Locks
<1>7. Clock' BY <1>2 DEF Clock
<1>8. \A d \in Client : client'[d].pc = "read" =>
         /\ client'[d] = client[d] /\ driver = "postgres"
         /\ client[d].n = 1 /\ client[d].expires <= now + Window
  <2>1. SUFFICES ASSUME NEW d \in Client, client'[d].pc = "read"
                 PROVE  /\ client'[d] = client[d] /\ driver = "postgres"
                        /\ client[d].n = 1 /\ client[d].expires <= now + Window
    OBVIOUS
  <2>2. d # c /\ client'[d] = client[d] BY <1>2, <1>3, <2>1
  <2>3. driver = "postgres" BY <1>0, <1>5, <2>1, <2>2 DEF Locks
  <2>4. /\ client[d].n \in 1..Len(attempts)+1 /\ ~(client[d].n > 1)
        /\ client[d].expires <= now + Window
    BY <1>0, <1>4, <2>1, <2>2 DEF Counter
  <2>5. QED BY <1>1, <2>2, <2>3, <2>4
<1>9. Len(attempts') = 0 BY <1>2
<1>10. Counter'
  <2>1. \A d \in Client : client'[d].pc = "read" =>
           /\ client'[d].n \in 1..1 /\ client'[d].expires <= now + Window /\ ~(client'[d].n > 1)
    BY <1>8
  <2>2. QED BY <1>2, <1>9, <2>1 DEF Counter
<1>11. Numbering'
  <2>1. item'["limit"].expires = Never BY <1>2 DEF Absent
  <2>2. QED BY <1>2, <1>8, <1>9, <2>1 DEF Numbering
<1>12. Challenge' /\ RedeemedOnce' BY <1>0, <1>2, <1>3 DEF Challenge, RedeemedOnce
<1>13. TypeOK'
  <2>1. client' \in [Client -> ClientState] BY <1>1, IdleState DEF Reset
  <2>2. item' \in [Key -> [value : Int, expires : Nat]] BY <1>1 DEF Reset, Absent
  <2>3. attempts' \in Seq(Attempt) BY <1>2
  <2>4. QED BY <1>0, <1>2, <2>1, <2>2, <2>3 DEF TypeOK, ClientState
<1>14. QED BY <1>6, <1>7, <1>10, <1>11, <1>12, <1>13, Parts, PTL

LEMMA IssueChallengeStep ==
    ASSUME LimiterInv, NEW c \in Client, IssueChallenge(c)
    PROVE  LimiterInv'
<1>0. TypeOK /\ RedeemedOnce /\ Locks /\ Challenge /\ Clock BY DEF LimiterInv
<1>1. now \in Nat /\ item \in [Key -> [value : Int, expires : Nat]] BY <1>0, Types
<1>2. /\ item["challenge"] = Absent /\ taken = 0 /\ item'["limit"] = item["limit"]
      /\ UNCHANGED <<driver, now, exclusive, shared, client, made, attempts, taken, faults>>
  BY <1>1 DEF IssueChallenge
<1>3. Clock' /\ Counter' /\ Numbering' BY <1>2, CounterFrame
<1>4. Locks' BY <1>0, <1>2 DEF Locks
<1>5. Challenge' /\ RedeemedOnce' BY <1>0, <1>2 DEF Challenge, RedeemedOnce
<1>6. TypeOK'
  <2>1. item' \in [Key -> [value : Int, expires : Nat]] BY <1>1 DEF IssueChallenge
  <2>2. QED BY <1>0, <1>2, <2>1 DEF TypeOK
<1>7. QED BY <1>3, <1>4, <1>5, <1>6, Parts, PTL

LEMMA TakeInPlaceStep ==
    ASSUME LimiterInv, NEW c \in Client, TakeInPlace(c)
    PROVE  LimiterInv'
<1>0. TypeOK /\ RedeemedOnce /\ Locks /\ Challenge /\ Clock BY DEF LimiterInv
<1>1. item \in [Key -> [value : Int, expires : Nat]] BY <1>0, Types
<1>2. /\ ~SQL /\ item["challenge"] # Absent /\ item'["limit"] = item["limit"]
      /\ item'["challenge"] = Absent /\ taken' = taken + 1
      /\ UNCHANGED <<driver, now, exclusive, shared, client, made, attempts, faults>>
  BY <1>1 DEF TakeInPlace, Live
<1>3. Clock' /\ Counter' /\ Numbering' BY <1>2, CounterFrame
<1>4. Locks' BY <1>0, <1>2 DEF Locks
<1>5. taken' = 1 BY <1>0, <1>2 DEF Challenge
<1>6. Challenge' /\ RedeemedOnce' BY <1>0, <1>2, <1>5 DEF Challenge, RedeemedOnce
<1>7. TypeOK'
  <2>1. item' \in [Key -> [value : Int, expires : Nat]] BY <1>1 DEF TakeInPlace, Absent
  <2>2. QED BY <1>0, <1>2, <1>5, <2>1 DEF TypeOK
<1>8. QED BY <1>3, <1>4, <1>6, <1>7, Parts, PTL

LEMMA TakeReadStep ==
    ASSUME LimiterInv, NEW c \in Client, TakeRead(c)
    PROVE  LimiterInv'
<1>0. TypeOK /\ RedeemedOnce /\ Locks /\ Challenge /\ Clock BY DEF LimiterInv
<1>1. /\ client \in [Client -> ClientState] /\ exclusive \in [Key -> Client \cup {None}]
      /\ \A i \in 1..Len(attempts) : attempts[i] \in Attempt
  BY <1>0, Types
<1>2. /\ SQL /\ client[c].pc = "idle" /\ item["challenge"] # Absent
      /\ exclusive["challenge"] \in {None, c} /\ exclusive'["challenge"] = c
      /\ exclusive'["limit"] = exclusive["limit"]
      /\ client'[c] = [Idle EXCEPT !.pc = "take"]
      /\ \A d \in Client \ {c} : client'[d] = client[d]
      /\ UNCHANGED <<driver, now, item, shared, made, attempts, taken, faults>>
  BY <1>1 DEF TakeRead, Live, Free
<1>3. client'[c].pc = "take" /\ client'[c].inserted = FALSE BY <1>2 DEF Idle
<1>4. \A i \in 1..Len(attempts) : attempts[i].window = "due" =>
         client'[attempts[i].by] = client[attempts[i].by]
  BY <1>0, <1>1, <1>2 DEF Clock, Attempt
<1>5. Clock' /\ Counter' /\ Numbering' BY <1>2, <1>3, <1>4, CounterFrame
<1>6. Locks'
  <2>1. exclusive["limit"] # c /\ c \notin shared["limit"] BY <1>0, <1>2 DEF Locks
  <2>2. client'[c].pc \notin {"seeded", "read"} BY <1>3
  <2>3. /\ UNCHANGED <<driver, item, shared, attempts>> /\ exclusive'["limit"] = exclusive["limit"]
        /\ client'[c].inserted = FALSE
        /\ \A d \in Client \ {c} : client'[d] = client[d]
    BY <1>2, <1>3
  <2>4. QED BY <1>0, <2>1, <2>2, <2>3 DEF Locks
<1>7. Challenge' /\ RedeemedOnce' BY <1>0, <1>2, <1>3 DEF Challenge, RedeemedOnce
<1>8. TypeOK'
  <2>1. client' \in [Client -> ClientState] BY <1>1 DEF TakeRead, Idle, ClientState
  <2>2. exclusive' \in [Key -> Client \cup {None}] BY <1>1 DEF TakeRead
  <2>3. QED BY <1>0, <1>2, <2>1, <2>2 DEF TypeOK, ClientState
<1>9. QED BY <1>5, <1>6, <1>7, <1>8, Parts, PTL

LEMMA TakeDeleteStep ==
    ASSUME LimiterInv, NEW c \in Client, TakeDelete(c)
    PROVE  LimiterInv'
<1>0. TypeOK /\ RedeemedOnce /\ Locks /\ Challenge /\ Clock BY DEF LimiterInv
<1>1. /\ client \in [Client -> ClientState] /\ exclusive \in [Key -> Client \cup {None}]
      /\ shared \in [Key -> SUBSET Client] /\ item \in [Key -> [value : Int, expires : Nat]]
      /\ taken \in Nat /\ faults \in Nat
      /\ \A i \in 1..Len(attempts) : attempts[i] \in Attempt
  BY <1>0, Types
<1>2. /\ client[c].pc = "take" /\ client'[c] = Idle /\ Release(c)
      /\ \A d \in Client \ {c} : client'[d] = client[d]
      /\ item'["challenge"] = Absent /\ item'["limit"] = item["limit"]
      /\ UNCHANGED <<driver, now, made, attempts>>
  BY <1>1 DEF TakeDelete
<1>3. client'[c].pc = "idle" /\ client'[c].inserted = FALSE BY <1>2 DEF Idle
<1>4. /\ Locks'
      /\ \A d \in Client \ {c}, k \in Key : exclusive[k] = d => exclusive'[k] = d
  BY <1>2, <1>3, ReleaseLocks
<1>5. \A i \in 1..Len(attempts) : attempts[i].window = "due" =>
         client'[attempts[i].by] = client[attempts[i].by]
  BY <1>0, <1>1, <1>2 DEF Clock, Attempt
<1>6. Clock' /\ Counter' /\ Numbering' BY <1>2, <1>3, <1>4, <1>5, CounterFrame
<1>7. taken = 0 /\ \A d \in Client \ {c} : client[d].pc # "take"
  BY <1>0, <1>2 DEF Challenge
<1>8. taken' \in {0, 1} /\ faults' \in Nat BY <1>1, <1>7 DEF TakeDelete
<1>9. Challenge' /\ RedeemedOnce' BY <1>2, <1>3, <1>7, <1>8 DEF Challenge, RedeemedOnce
<1>10. TypeOK'
  <2>1. client' \in [Client -> ClientState] BY <1>1, IdleState DEF TakeDelete
  <2>2. exclusive' \in [Key -> Client \cup {None}] /\ shared' \in [Key -> SUBSET Client]
    BY <1>1, <1>2 DEF Release
  <2>3. item' \in [Key -> [value : Int, expires : Nat]] BY <1>1 DEF TakeDelete, Absent
  <2>4. taken' \in Nat BY <1>8
  <2>5. QED BY <1>0, <1>2, <1>8, <2>1, <2>2, <2>3, <2>4 DEF TypeOK, ClientState
<1>11. QED BY <1>4, <1>6, <1>9, <1>10, Parts, PTL

\* A handler that dies takes the row along that it inserted, and nobody has
\* counted on that row.
LEMMA FailStep ==
    ASSUME LimiterInv, NEW c \in Client, Fail(c)
    PROVE  LimiterInv'
<1>0. TypeOK /\ RedeemedOnce /\ Locks /\ Challenge /\ Clock BY DEF LimiterInv
<1>1. /\ client \in [Client -> ClientState] /\ exclusive \in [Key -> Client \cup {None}]
      /\ shared \in [Key -> SUBSET Client] /\ item \in [Key -> [value : Int, expires : Nat]]
      /\ faults \in Nat
  BY <1>0, Types
<1>2. /\ client'[c] = Idle /\ Release(c) /\ attempts' = Applied(c, "lost")
      /\ \A d \in Client \ {c} : client'[d] = client[d]
      /\ item'["limit"] = IF client[c].inserted THEN Absent ELSE item["limit"]
      /\ item'["challenge"] = item["challenge"]
      /\ faults' = faults + 1
      /\ UNCHANGED <<driver, now, made, taken>>
  BY <1>1 DEF Fail
<1>3. client'[c].pc = "idle" /\ client'[c].inserted = FALSE BY <1>2 DEF Idle
<1>4. attempts' \in Seq(Attempt) /\ (attempts = << >> => attempts' = << >>)
  <2>1. attempts' \in Seq(Attempt) /\ Len(attempts') = Len(attempts) BY <1>0, <1>2, AppliedShape
  <2>2. QED BY <2>1
<1>5. /\ Locks'
      /\ \A d \in Client \ {c}, k \in Key : exclusive[k] = d => exclusive'[k] = d
  BY <1>2, <1>3, <1>4, ReleaseLocks
<1>6. \/ item'["limit"] = item["limit"]
      \/ /\ item'["limit"] = Absent
         /\ driver # "postgres" =>
               attempts = << >> /\ \A d \in Client \ {c} : client[d].pc # "read"
  <2>1. SUFFICES ASSUME client[c].inserted, driver # "postgres"
                 PROVE  attempts = << >> /\ \A d \in Client \ {c} : client[d].pc # "read"
    BY <1>2
  <2>2. driver = "mysql" /\ exclusive["limit"] = c BY <1>0, <2>1 DEF Locks
  <2>3. QED BY <1>0, <2>1, <2>2 DEF Locks
<1>7. Clock' /\ Counter' /\ Numbering' BY <1>2, <1>3, <1>5, <1>6, LostStep
<1>8. Challenge' /\ RedeemedOnce' BY <1>0, <1>2, <1>3, <1>5 DEF Challenge, RedeemedOnce
<1>9. TypeOK'
  <2>1. client' \in [Client -> ClientState] BY <1>1, IdleState DEF Fail
  <2>2. exclusive' \in [Key -> Client \cup {None}] /\ shared' \in [Key -> SUBSET Client]
    BY <1>1, <1>2 DEF Release
  <2>3. item' \in [Key -> [value : Int, expires : Nat]] BY <1>1 DEF Fail, Absent
  <2>4. faults' \in Nat BY <1>1, <1>2
  <2>5. QED BY <1>0, <1>2, <1>4, <2>1, <2>2, <2>3, <2>4 DEF TypeOK, ClientState
<1>10. QED BY <1>5, <1>7, <1>8, <1>9, Parts, PTL

\* The clock finds no window due and nobody about to write a count.
LEMMA TickStep ==
    ASSUME LimiterInv, Tick
    PROVE  LimiterInv'
<1>0. TypeOK /\ RedeemedOnce /\ Locks /\ Challenge /\ Clock /\ Counter /\ Numbering
  BY DEF LimiterInv
<1>1. /\ now \in Nat /\ item \in [Key -> [value : Int, expires : Nat]]
      /\ attempts \in Seq(Attempt) /\ Len(attempts) \in Nat
      /\ \A i \in 1..Len(attempts) : attempts[i] \in Attempt
  BY <1>0, Types
<1>2. /\ now' = now + 1 /\ \A d \in Client : client[d].pc \in {"idle", "take", "reset"}
      /\ UNCHANGED <<driver, item, exclusive, shared, client, made, attempts, taken, faults>>
  BY DEF Tick
<1>3. \A i \in 1..Len(attempts) :
         attempts[i].at \in Nat /\ attempts[i].at <= now /\ attempts[i].window # "due"
  <2>1. \A i \in 1..Len(attempts) : attempts[i].at \in Nat /\ attempts[i].by \in Client
    BY <1>1 DEF Attempt
  <2>2. QED BY <1>0, <1>2, <2>1 DEF Clock
<1>4. Last' = Last /\ (attempts # << >> => Last.at # now')
  <2>1. attempts # << >> => Len(attempts) \in 1..Len(attempts) BY <1>1
  <2>2. QED BY <1>1, <1>2, <1>3, <2>1 DEF Last
<1>5. Clock'
  <2>1. \A i \in 1..Len(attempts) : attempts[i].at <= now' BY <1>1, <1>2, <1>3
  <2>2. QED BY <1>0, <1>2, <1>3, <2>1 DEF Clock
<1>6. Counter'
  <2>1. item["limit"] # Absent => item["limit"].expires <= now' + Window
    BY <1>0, <1>1, <1>2 DEF Counter
  <2>2. \A d \in Client : client[d].pc # "read" BY <1>2
  <2>3. QED BY <1>0, <1>2, <1>4, <2>1, <2>2 DEF Counter, Passed
<1>7. Numbering'
  <2>1. \A d \in Client : client[d].pc # "read" BY <1>2
  <2>2. QED BY <1>0, <1>2, <1>4, <2>1 DEF Numbering
<1>8. Locks' /\ Challenge' /\ RedeemedOnce' BY <1>0, <1>2 DEF Locks, Challenge, RedeemedOnce
<1>9. TypeOK'
  <2>1. now' \in Nat BY <1>1, <1>2
  <2>2. QED BY <1>0, <1>2, <2>1 DEF TypeOK
<1>10. QED BY <1>5, <1>6, <1>7, <1>8, <1>9, Parts, PTL

LEMMA StutterStep ==
    ASSUME LimiterInv, UNCHANGED vars
    PROVE  LimiterInv'
<1>1. TypeOK' BY DEF LimiterInv, TypeOK, vars
<1>2. Locks' /\ Challenge' /\ RedeemedOnce' /\ Clock' /\ Counter'
  BY DEF LimiterInv, vars, Locks, Challenge, RedeemedOnce, Clock, Counter, Last, Passed
<1>3. Numbering' BY DEF LimiterInv, vars, Numbering, Last, Live
<1>4. QED BY <1>1, <1>2, <1>3, Parts, PTL

-----------------------------------------------------------------------------
\* On all four drivers, however increments, expirations, resets and failures
\* overlap: no request is refused before MaxRequests others were counted, of which
\* the last was recent unless its Expire failed, and no MFA challenge is redeemed
\* twice; with what these rest on.
THEOREM LimiterInvariant == Spec => []LimiterInv
<1>1. LimiterInv /\ [Next]_vars => LimiterInv'
  <2>1. SUFFICES ASSUME LimiterInv, [Next]_vars PROVE LimiterInv' OBVIOUS
  <2>2. ASSUME NEW c \in Client, IncrementInPlace(c) PROVE LimiterInv'
    BY <2>1, <2>2, IncrementInPlaceStep
  <2>3. ASSUME NEW c \in Client, Seed(c) PROVE LimiterInv' BY <2>1, <2>3, SeedStep
  <2>4. ASSUME NEW c \in Client, ReadForUpdate(c) PROVE LimiterInv'
    BY <2>1, <2>4, ReadForUpdateStep
  <2>5. ASSUME NEW c \in Client, CommitIncrement(c) PROVE LimiterInv'
    BY <2>1, <2>5, CommitIncrementStep
  <2>6. ASSUME NEW c \in Client, Deadlock(c) PROVE LimiterInv' BY <2>1, <2>6, DeadlockStep
  <2>7. ASSUME NEW c \in Client, ApplyWindow(c) PROVE LimiterInv'
    BY <2>1, <2>7, ApplyWindowStep
  <2>8. ASSUME NEW c \in Client, WindowLost(c) PROVE LimiterInv' BY <2>1, <2>8, WindowLostStep
  <2>9. ASSUME NEW c \in Client, Reset(c) PROVE LimiterInv' BY <2>1, <2>9, ResetStep
  <2>10. ASSUME NEW c \in Client, IssueChallenge(c) PROVE LimiterInv'
    BY <2>1, <2>10, IssueChallengeStep
  <2>11. ASSUME NEW c \in Client, TakeInPlace(c) PROVE LimiterInv'
    BY <2>1, <2>11, TakeInPlaceStep
  <2>12. ASSUME NEW c \in Client, TakeRead(c) PROVE LimiterInv' BY <2>1, <2>12, TakeReadStep
  <2>13. ASSUME NEW c \in Client, TakeDelete(c) PROVE LimiterInv'
    BY <2>1, <2>13, TakeDeleteStep
  <2>14. ASSUME NEW c \in Client, Fail(c) PROVE LimiterInv' BY <2>1, <2>14, FailStep
  <2>15. CASE Tick BY <2>1, <2>15, TickStep
  <2>16. CASE UNCHANGED vars BY <2>1, <2>16, StutterStep
  <2>17. QED
    BY <2>1, <2>2, <2>3, <2>4, <2>5, <2>6, <2>7, <2>8, <2>9, <2>10, <2>11, <2>12, <2>13,
       <2>14, <2>15, <2>16 DEF Next
<1>2. QED BY InitInvariant, <1>1, PTL DEF Spec

-----------------------------------------------------------------------------
(* The limit. *)

\* A count is given to one attempt of a window only.
LEMMA OneOfEachNumber ==
    ASSUME LimiterInv, driver # "postgres", NEW start \in Nat,
           NEW i \in 1..Len(attempts), NEW j \in 1..Len(attempts), i < j,
           attempts[i].window = "applied",
           attempts[i].at \in start..start+Window-1, attempts[j].at \in start..start+Window-1
    PROVE  attempts[i].n # attempts[j].n
<1>1. \/ attempts[j].n = attempts[i].n + (j - i)
      \/ \A k \in 1..i : attempts[k].window # "lost" =>
            attempts[k].at + Window <= attempts[j].at
  BY DEF LimiterInv, Numbering
<1>2. attempts[i].n \in Nat /\ attempts[i].at \in Nat /\ i \in Nat /\ j \in Nat
  <2>1. attempts[i] \in Attempt BY Types DEF LimiterInv
  <2>2. QED BY <2>1 DEF Attempt
<1>3. CASE attempts[j].n = attempts[i].n + (j - i) BY <1>2, <1>3
<1>4. CASE \A k \in 1..i : attempts[k].window # "lost" =>
               attempts[k].at + Window <= attempts[j].at
  <2>1. i \in 1..i BY <1>2
  <2>2. attempts[i].at + Window <= attempts[j].at BY <1>4, <2>1
  <2>3. QED BY <2>2
<1>5. QED BY <1>1, <1>3, <1>4

LEMMA AtMostMax ==
    ASSUME LimiterInv, driver # "postgres"
    PROVE  AtMostMaxPerWindow
<1> SUFFICES ASSUME NEW start \in 1..now
             PROVE  Cardinality({i \in 1..Len(attempts) :
                      /\ Passed(attempts[i]) /\ attempts[i].window = "applied"
                      /\ attempts[i].at \in start..start+Window-1}) <= MaxRequests
  BY DEF AtMostMaxPerWindow
<1> DEFINE S == {i \in 1..Len(attempts) :
                   /\ Passed(attempts[i]) /\ attempts[i].window = "applied"
                   /\ attempts[i].at \in start..start+Window-1}
           T == 1..MaxRequests
           f == [i \in S |-> attempts[i].n]
<1>1. start \in Nat /\ Len(attempts) \in Nat BY Types DEF LimiterInv
<1>2. IsFiniteSet(T) /\ Cardinality(T) = MaxRequests BY FS_Interval
<1>3. \A i \in S : attempts[i].n \in T
  <2>1. SUFFICES ASSUME NEW i \in S PROVE attempts[i].n \in T OBVIOUS
  <2>2. attempts[i].n \in 1..i /\ i \in 1..Len(attempts) BY DEF LimiterInv, Counter
  <2>3. QED BY <1>1, <2>2 DEF Passed
<1>4. \A i, j \in S : attempts[i].n = attempts[j].n => i = j
  <2>1. SUFFICES ASSUME NEW i \in S, NEW j \in S, attempts[i].n = attempts[j].n, i # j
                 PROVE  FALSE
    OBVIOUS
  <2>2. i < j \/ j < i BY <1>1, <2>1
  <2>3. QED BY <1>1, <2>1, <2>2, OneOfEachNumber
<1>5. f \in Injection(S, T) BY <1>3, <1>4 DEF Injection, IsInjective
<1>6. Cardinality(S) <= Cardinality(T) BY <1>2, <1>5, FS_Injection
<1>7. QED BY <1>2, <1>6

\* "The limit holds across multiple API replicas": on the memory, redis and MySQL
\* drivers, at most MaxRequests requests pass within any window, not counting those
\* whose Expire failed.
THEOREM TheLimitHolds == Spec => []LimitHolds
<1>1. LimiterInv => LimitHolds BY AtMostMax DEF LimitHolds
<1>2. QED BY <1>1, LimiterInvariant, PTL

-----------------------------------------------------------------------------
(* The drivers keep the contract of the cache. *)

\* What the transaction of Increment has read is still so when it writes, unless
\* it is on Postgres and found nothing to lock; a row it inserted counts nothing.
Reads ==
    \A c \in Client :
       /\ client[c].inserted => item["limit"] = [value |-> 0, expires |-> Never]
       /\ client[c].pc \in {"read", "expire"} => client[c].n > 0
       /\ client[c].pc = "read" =>
             \/ /\ exclusive["limit"] = c
                /\ client[c].n = (IF Live("limit") THEN item["limit"].value ELSE 0) + 1
                /\ client[c].expires = (IF Live("limit") THEN item["limit"].expires ELSE Never)
             \/ driver = "postgres" /\ client[c].n = 1 /\ client[c].expires = Never

CacheInv == LimiterInv /\ Reads

LEMMA InitReads == Init => Reads
BY DEF Init, Idle, Reads

\* What a handler has read or inserted stays so while the others leave the counter
\* that it holds alone.
LEMMA ReadsFrame ==
    ASSUME CacheInv, NEW d \in Client, UNCHANGED <<driver, now>>, client'[d] = client[d],
           exclusive["limit"] = d =>
              exclusive'["limit"] = d /\ item'["limit"] = item["limit"]
    PROVE  /\ client'[d].inserted => item'["limit"] = [value |-> 0, expires |-> Never]
           /\ client'[d].pc \in {"read", "expire"} => client'[d].n > 0
           /\ client'[d].pc = "read" =>
                 \/ /\ exclusive'["limit"] = d
                    /\ client'[d].n = (IF Live("limit")' THEN item'["limit"].value ELSE 0) + 1
                    /\ client'[d].expires = (IF Live("limit")' THEN item'["limit"].expires
                                                               ELSE Never)
                 \/ driver' = "postgres" /\ client'[d].n = 1 /\ client'[d].expires = Never
<1>1. client[d].inserted => exclusive["limit"] = d BY DEF CacheInv, LimiterInv, Locks
<1>2. exclusive["limit"] = d => Live("limit")' = Live("limit") BY DEF Live
<1>3. QED BY <1>1, <1>2 DEF CacheInv, Reads

\* Who may write the counter shares it with nobody, so no row of another
\* transaction is hidden.
LEMMA WriterSees ==
    ASSUME LimiterInv, NEW c \in Client, Free("limit", c), ~client[c].inserted
    PROVE  CommittedCounter = item["limit"]
BY DEF LimiterInv, Locks, Free, CommittedCounter

\* One handler steps: the others read what they read.
LEMMA ReadsStep ==
    ASSUME CacheInv, NEW c \in Client, UNCHANGED <<driver, now>>,
           \A d \in Client \ {c} :
              /\ client'[d] = client[d]
              /\ exclusive["limit"] = d =>
                    exclusive'["limit"] = d /\ item'["limit"] = item["limit"],
           client'[c].inserted => item'["limit"] = [value |-> 0, expires |-> Never],
           client'[c].pc \in {"read", "expire"} => client'[c].n > 0,
           client'[c].pc = "read" =>
              \/ /\ exclusive'["limit"] = c
                 /\ client'[c].n = (IF Live("limit")' THEN item'["limit"].value ELSE 0) + 1
                 /\ client'[c].expires = (IF Live("limit")' THEN item'["limit"].expires
                                                            ELSE Never)
              \/ driver' = "postgres" /\ client'[c].n = 1 /\ client'[c].expires = Never
    PROVE  Reads'
<1> SUFFICES ASSUME NEW d \in Client
             PROVE
               /\ client'[d].inserted => item'["limit"] = [value |-> 0, expires |-> Never]
               /\ client'[d].pc \in {"read", "expire"} => client'[d].n > 0
               /\ client'[d].pc = "read" =>
                     \/ /\ exclusive'["limit"] = d
                        /\ client'[d].n = (IF Live("limit")' THEN item'["limit"].value ELSE 0) + 1
                        /\ client'[d].expires = (IF Live("limit")' THEN item'["limit"].expires
                                                                   ELSE Never)
                     \/ driver' = "postgres" /\ client'[d].n = 1 /\ client'[d].expires = Never
  BY DEF Reads
<1>1. CASE d = c BY <1>1
<1>2. CASE d # c BY <1>2, ReadsFrame
<1>3. QED BY <1>1, <1>2

\* One handler steps: what the contract sees of the others does not change.
LEMMA Seen ==
    ASSUME LimiterInv, LimiterInv', NEW c \in Client,
           \A d \in Client \ {c} : client'[d] = client[d]
    PROVE  /\ Answers' = [Answers EXCEPT ![c] =
                            IF client'[c].pc = "expire" THEN client'[c].n ELSE 0]
           /\ Answers[c] = IF client[c].pc = "expire" THEN client[c].n ELSE 0
           /\ Takers' = IF client'[c].pc = "take" THEN Takers \cup {c} ELSE Takers \ {c}
           /\ c \in Takers <=> client[c].pc = "take"
BY DEF Answers, Takers

\* Who has found the challenge holds its row alone.
LEMMA TheTaker ==
    ASSUME LimiterInv, NEW c \in Client
    PROVE  /\ exclusive["challenge"] = c \/ client[c].pc = "take" => Takers \subseteq {c}
           /\ exclusive["challenge"] = None => Takers = {}
           /\ Takers # {} => SQL /\ item["challenge"] # Absent
BY DEF LimiterInv, Challenge, Takers

\* What the contract calls alive and gone.
LEMMA Alive ==
    ASSUME LimiterInv, NEW k \in Key
    PROVE  /\ Live(k) => item[k] # Absent /\ (item[k].expires = 0 \/ now <= item[k].expires)
           /\ ~Live(k) => \/ item[k] = Absent
                          \/ item[k].expires # 0 /\ item[k].expires <= now
           /\ item[k] = Absent => ~Live(k)
<1>1. now \in Nat /\ item[k].expires \in Nat BY Types DEF LimiterInv
<1>2. QED BY <1>1 DEF Live

\* IncrementInPlace is an Increment of a counter that counts, or starts it.
LEMMA IncrementInPlaceCache ==
    ASSUME CacheInv, LimiterInv', NEW c \in Client, IncrementInPlace(c)
    PROVE  Reads' /\ (Cache!Increment(c) \/ Cache!Start(c))
<1> DEFINE n == (IF Live("limit") THEN item["limit"].value ELSE 0) + 1
           e == IF Live("limit") THEN item["limit"].expires ELSE Never
<1>0. TypeOK /\ Locks /\ Counter /\ LimiterInv BY DEF CacheInv, LimiterInv
<1>1. /\ item \in [Key -> [value : Int, expires : Nat]] /\ client \in [Client -> ClientState]
      /\ Len(attempts) \in Nat
  BY <1>0, Types
<1>2. /\ client'[c].pc = "expire" /\ client'[c].inserted = FALSE /\ client'[c].n = n
      /\ client[c].pc = "idle"
      /\ item'["limit"] = [value |-> n, expires |-> e]
      /\ item'["challenge"] = item["challenge"]
      /\ UNCHANGED <<driver, now, exclusive, shared, taken, faults>>
      /\ \A d \in Client \ {c} : client'[d] = client[d]
  BY <1>1 DEF IncrementInPlace, Idle
<1>3. ~SQL BY DEF IncrementInPlace
<1>4. \A d \in Client : ~client[d].inserted /\ exclusive["limit"] # d BY <1>0, <1>3 DEF Locks
<1>5. n > 0 BY <1>0, <1>1, Alive DEF Counter
<1>6. Reads'
  <2> HIDE DEF n, e
  <2>1. QED BY <1>2, <1>4, <1>5, ReadsStep
<1>7. CommittedCounter = item["limit"] /\ CommittedCounter' = item'["limit"]
  BY <1>2, <1>4 DEF CommittedCounter
<1>8. /\ Answers[c] = 0 /\ Answers' = [Answers EXCEPT ![c] = n] /\ Takers' = Takers
  <2>1. /\ Answers' = [Answers EXCEPT ![c] =
                            IF client'[c].pc = "expire" THEN client'[c].n ELSE 0]
        /\ Answers[c] = IF client[c].pc = "expire" THEN client[c].n ELSE 0
        /\ Takers' = IF client'[c].pc = "take" THEN Takers \cup {c} ELSE Takers \ {c}
        /\ c \in Takers <=> client[c].pc = "take"
    BY <1>0, <1>2, Seen
  <2>2. QED BY <1>2, <2>1
<1>9. CASE Live("limit")
  <2>1. Cache!Counts(CommittedCounter)
    BY <1>0, <1>7, <1>9, Alive DEF Cache!Counts, Cache!Missing, Absent
  <2>2. CommittedCounter' = [CommittedCounter EXCEPT !.value = @ + 1]
    BY <1>1, <1>2, <1>7, <1>9
  <2>3. Cache!Tell(c, CommittedCounter.value + 1) BY <1>7, <1>8, <1>9 DEF Cache!Tell
  <2>4. Cache!Increment(c) BY <1>2, <1>8, <2>1, <2>2, <2>3 DEF Cache!Increment
  <2>5. QED BY <1>6, <2>4
<1>10. CASE ~Live("limit")
  <2>1. Cache!Gone(CommittedCounter)
    BY <1>0, <1>7, <1>10, Alive DEF Cache!Gone, Cache!Missing, Absent
  <2>2. CommittedCounter' = [value |-> 1, expires |-> 0] BY <1>2, <1>7, <1>10
  <2>3. Cache!Tell(c, 1) BY <1>8, <1>10 DEF Cache!Tell
  <2>4. Cache!Start(c) BY <1>2, <1>8, <2>1, <2>2, <2>3 DEF Cache!Start
  <2>5. QED BY <1>6, <2>4
<1>11. QED BY <1>9, <1>10

\* Nothing the contract speaks of changes.
LEMMA Unseen ==
    ASSUME LimiterInv, LimiterInv', NEW c \in Client, UNCHANGED <<driver, now, taken>>,
           \A d \in Client \ {c} : client'[d] = client[d],
           client[c].pc \notin {"expire", "take"}, client'[c].pc \notin {"expire", "take"},
           CommittedCounter' = CommittedCounter, item'["challenge"] = item["challenge"]
    PROVE  UNCHANGED Cache!cacheVars
<1>1. Answers' = Answers /\ Takers' = Takers BY DEF Answers, Takers
<1>2. QED BY <1>1 DEF Cache!cacheVars

\* The row that Seed inserts is not there yet.
LEMMA SeedCache ==
    ASSUME CacheInv, LimiterInv', NEW c \in Client, Seed(c)
    PROVE  Reads' /\ UNCHANGED Cache!cacheVars
<1>0. TypeOK /\ Locks /\ LimiterInv BY DEF CacheInv, LimiterInv
<1>1. /\ item \in [Key -> [value : Int, expires : Nat]] /\ client \in [Client -> ClientState]
      /\ exclusive \in [Key -> Client \cup {None}]
  BY <1>0, Types
<1>2. /\ client[c].pc = "idle" /\ client'[c].pc = "seeded"
      /\ client'[c].inserted <=> item["limit"] = Absent
      /\ item'["challenge"] = item["challenge"]
      /\ item["limit"] # Absent => item' = item /\ exclusive' = exclusive
      /\ item["limit"] = Absent => item'["limit"] = [value |-> 0, expires |-> Never]
      /\ UNCHANGED <<driver, now, taken>>
      /\ \A d \in Client \ {c} : client'[d] = client[d]
  BY <1>1 DEF Seed, Idle
<1>3. ~client[c].inserted BY <1>0, <1>2 DEF Locks
<1>4. \A d \in Client : exclusive["limit"] = d => item["limit"] # Absent BY <1>0 DEF Locks
<1>5. Reads' BY <1>2, <1>4, ReadsStep
<1>6. CommittedCounter' = CommittedCounter
  <2>1. CASE item["limit"] = Absent
    <3>1. client'[c].inserted BY <1>2, <2>1
    <3>2. QED BY <2>1, <3>1 DEF CommittedCounter
  <2>2. CASE item["limit"] # Absent
    <3>1. \A d \in Client : client'[d].inserted <=> client[d].inserted BY <1>2, <1>3, <2>2
    <3>2. QED BY <1>2, <2>2, <3>1 DEF CommittedCounter
  <2>3. QED BY <2>1, <2>2
<1>7. UNCHANGED Cache!cacheVars BY <1>0, <1>2, <1>6, Unseen
<1>8. QED BY <1>5, <1>7

\* The locking read writes nothing; on Postgres it locks nothing when there is
\* nothing to read.
LEMMA ReadForUpdateCache ==
    ASSUME CacheInv, LimiterInv', NEW c \in Client, ReadForUpdate(c)
    PROVE  Reads' /\ UNCHANGED Cache!cacheVars
<1>0. TypeOK /\ Locks /\ Counter /\ LimiterInv BY DEF CacheInv, LimiterInv
<1>1. /\ item \in [Key -> [value : Int, expires : Nat]] /\ client \in [Client -> ClientState]
      /\ exclusive \in [Key -> Client \cup {None}] /\ Len(attempts) \in Nat
      /\ driver \in {"memory", "redis", "mysql", "postgres"}
  BY <1>0, Types
<1>2. /\ client[c].pc = "seeded" /\ client'[c].pc = "read"
      /\ client'[c].inserted = client[c].inserted
      /\ client'[c].n = (IF Live("limit") THEN item["limit"].value ELSE 0) + 1
      /\ client'[c].expires = (IF Live("limit") THEN item["limit"].expires ELSE Never)
      /\ UNCHANGED <<driver, now, item, taken>>
      /\ \A d \in Client \ {c} : client'[d] = client[d]
  BY <1>1 DEF ReadForUpdate
<1>3. Live("limit")' = Live("limit") BY <1>2 DEF Live
<1>4. ASSUME driver = "mysql" \/ Live("limit") PROVE Reads'
  <2>1. Free("limit", c) /\ exclusive'["limit"] = c BY <1>1, <1>4 DEF ReadForUpdate
  <2>2. \A d \in Client \ {c} : exclusive["limit"] # d BY <2>1 DEF Free
  <2>3. client'[c].n > 0 BY <1>0, <1>1, <1>2, Alive DEF Counter
  <2>4. client'[c].inserted => item'["limit"] = [value |-> 0, expires |-> Never]
    BY <1>2 DEF CacheInv, Reads
  <2>5. /\ client'[c].n = (IF Live("limit")' THEN item'["limit"].value ELSE 0) + 1
        /\ client'[c].expires = (IF Live("limit")' THEN item'["limit"].expires ELSE Never)
    BY <1>2, <1>3
  <2>6. QED BY <1>2, <2>1, <2>2, <2>3, <2>4, <2>5, ReadsStep
<1>5. ASSUME ~(driver = "mysql" \/ Live("limit")) PROVE Reads'
  <2>1. UNCHANGED exclusive BY <1>5 DEF ReadForUpdate
  <2>2. driver = "postgres" BY <1>0, <1>2, <1>5 DEF Locks
  <2>3. client'[c].n = 1 /\ client'[c].expires = Never BY <1>2, <1>5
  <2>4. client'[c].inserted => item'["limit"] = [value |-> 0, expires |-> Never]
    BY <1>2 DEF CacheInv, Reads
  <2>5. QED BY <1>2, <2>1, <2>2, <2>3, <2>4, ReadsStep
<1>6. \A d \in Client : client'[d].inserted = client[d].inserted BY <1>2
<1>7. CommittedCounter' = CommittedCounter BY <1>2, <1>6 DEF CommittedCounter
<1>8. UNCHANGED Cache!cacheVars BY <1>0, <1>2, <1>7, Unseen
<1>9. QED BY <1>4, <1>5, <1>8

\* Who gives up to break a deadlock has written nothing.
LEMMA DeadlockCache ==
    ASSUME CacheInv, LimiterInv', NEW c \in Client, Deadlock(c)
    PROVE  Reads' /\ UNCHANGED Cache!cacheVars
<1>0. TypeOK /\ Locks /\ LimiterInv BY DEF CacheInv, LimiterInv
<1>1. client \in [Client -> ClientState] /\ exclusive \in [Key -> Client \cup {None}]
  BY <1>0, Types
<1>2. /\ client[c].pc = "seeded" /\ client'[c].pc = "idle" /\ client'[c].inserted = FALSE
      /\ UNCHANGED <<driver, now, item, taken>>
      /\ \A d \in Client \ {c} : client'[d] = client[d]
      /\ c \in shared["limit"]
  BY <1>1 DEF Deadlock, Idle
<1>3. ~client[c].inserted BY <1>0, <1>2 DEF Locks
<1>4. \A d \in Client \ {c} : exclusive["limit"] = d => exclusive'["limit"] = d
  BY <1>1 DEF Deadlock, Release
<1>5. Reads' BY <1>2, <1>4, ReadsStep
<1>6. \A d \in Client : client'[d].inserted <=> client[d].inserted BY <1>2, <1>3
<1>7. CommittedCounter' = CommittedCounter BY <1>2, <1>6 DEF CommittedCounter
<1>8. UNCHANGED Cache!cacheVars BY <1>0, <1>2, <1>7, Unseen
<1>9. QED BY <1>5, <1>8

\* CommitIncrement is an Increment of the counter it has locked, or starts it; on
\* Postgres it may start one again that another request has started meanwhile.
LEMMA CommitIncrementCache ==
    ASSUME CacheInv, LimiterInv', NEW c \in Client, CommitIncrement(c)
    PROVE  Reads' /\ (Cache!Increment(c) \/ Cache!Start(c) \/ Cache!StartAgain(c))
<1>0. TypeOK /\ Locks /\ Counter /\ LimiterInv BY DEF CacheInv, LimiterInv
<1>1. /\ item \in [Key -> [value : Int, expires : Nat]] /\ client \in [Client -> ClientState]
      /\ exclusive \in [Key -> Client \cup {None}]
      /\ driver \in {"memory", "redis", "mysql", "postgres"}
  BY <1>0, Types
<1>2. /\ client[c].pc = "read" /\ client'[c].pc = "expire" /\ client'[c].inserted = FALSE
      /\ client'[c].n = client[c].n /\ client[c].n > 0 /\ Free("limit", c)
      /\ item'["limit"] = IF item["limit"] = Absent THEN Absent
                          ELSE [value |-> client[c].n, expires |-> client[c].expires]
      /\ item'["challenge"] = item["challenge"]
      /\ UNCHANGED <<driver, now, taken>>
      /\ \A d \in Client \ {c} : client'[d] = client[d]
  BY <1>1 DEF CommitIncrement, CacheInv, Reads
<1>3. \A d \in Client \ {c} : exclusive["limit"] # d BY <1>2 DEF Free
<1>4. \A d \in Client \ {c} : ~client[d].inserted BY <1>0, <1>3 DEF Locks
<1>5. Reads' BY <1>2, <1>3, ReadsStep
<1>6. CommittedCounter' = item'["limit"] BY <1>2, <1>4 DEF CommittedCounter
<1>7. /\ Answers[c] = 0 /\ Answers' = [Answers EXCEPT ![c] = client[c].n] /\ Takers' = Takers
  <2>1. /\ Answers' = [Answers EXCEPT ![c] =
                            IF client'[c].pc = "expire" THEN client'[c].n ELSE 0]
        /\ Answers[c] = IF client[c].pc = "expire" THEN client[c].n ELSE 0
        /\ Takers' = IF client'[c].pc = "take" THEN Takers \cup {c} ELSE Takers \ {c}
        /\ c \in Takers <=> client[c].pc = "take"
    BY <1>0, <1>2, Seen
  <2>2. QED BY <1>2, <2>1
<1>8. CASE exclusive["limit"] = c /\ ~client[c].inserted /\ Live("limit")
           /\ client[c].n = item["limit"].value + 1 /\ client[c].expires = item["limit"].expires
  <2>1. CommittedCounter = item["limit"] BY <1>0, <1>2, <1>8, WriterSees
  <2>2. Cache!Counts(CommittedCounter)
    BY <1>0, <1>8, <2>1, Alive DEF Cache!Counts, Cache!Missing, Absent
  <2>3. CommittedCounter' = [CommittedCounter EXCEPT !.value = @ + 1]
    <3>1. item["limit"] # Absent BY <1>0, <1>8 DEF Locks
    <3>2. item["limit"] \in [value : Int, expires : Nat] BY <1>1
    <3>3. QED BY <1>2, <1>6, <1>8, <2>1, <3>1, <3>2
  <2>4. Cache!Tell(c, CommittedCounter.value + 1) BY <1>7, <1>8, <2>1 DEF Cache!Tell
  <2>5. Cache!Increment(c) BY <1>2, <1>7, <2>2, <2>3, <2>4 DEF Cache!Increment
  <2>6. QED BY <1>5, <2>5
<1>9. CASE exclusive["limit"] = c /\ ~client[c].inserted /\ ~Live("limit")
           /\ client[c].n = 1 /\ client[c].expires = Never
  <2>1. CommittedCounter = item["limit"] BY <1>0, <1>2, <1>9, WriterSees
  <2>2. Cache!Gone(CommittedCounter)
    BY <1>0, <1>9, <2>1, Alive DEF Cache!Gone, Cache!Missing, Absent
  <2>3. item["limit"] # Absent BY <1>0, <1>9 DEF Locks
  <2>4. CommittedCounter' = [value |-> 1, expires |-> 0] BY <1>2, <1>6, <1>9, <2>3
  <2>5. Cache!Tell(c, 1) BY <1>7, <1>9 DEF Cache!Tell
  <2>6. Cache!Start(c) BY <1>2, <1>7, <2>2, <2>4, <2>5 DEF Cache!Start
  <2>7. QED BY <1>5, <2>6
<1>10. CASE client[c].inserted /\ client[c].n = 1 /\ client[c].expires = Never
  <2>1. CommittedCounter = Absent BY <1>10 DEF CommittedCounter
  <2>2. Cache!Gone(CommittedCounter) BY <2>1 DEF Cache!Gone, Cache!Missing, Absent
  <2>3. item["limit"] # Absent BY <1>0, <1>10 DEF Locks
  <2>4. CommittedCounter' = [value |-> 1, expires |-> 0] BY <1>2, <1>6, <1>10, <2>3
  <2>5. Cache!Tell(c, 1) BY <1>7, <1>10 DEF Cache!Tell
  <2>6. Cache!Start(c) BY <1>2, <1>7, <2>2, <2>4, <2>5 DEF Cache!Start
  <2>7. QED BY <1>5, <2>6
<1>11. CASE ~client[c].inserted /\ driver = "postgres"
            /\ client[c].n = 1 /\ client[c].expires = Never
  <2>1. CommittedCounter = item["limit"] BY <1>0, <1>2, <1>11, WriterSees
  <2>2. CommittedCounter' = IF CommittedCounter = Cache!Missing THEN CommittedCounter
                            ELSE [value |-> 1, expires |-> 0]
    BY <1>2, <1>6, <1>11, <2>1 DEF Cache!Missing, Absent
  <2>3. Cache!Tell(c, 1) BY <1>7, <1>11 DEF Cache!Tell
  <2>4. Cache!StartAgain(c) BY <1>2, <1>7, <1>11, <2>2, <2>3 DEF Cache!StartAgain
  <2>5. QED BY <1>5, <2>4
<1>12. \/ /\ exclusive["limit"] = c
          /\ client[c].n = (IF Live("limit") THEN item["limit"].value ELSE 0) + 1
          /\ client[c].expires = (IF Live("limit") THEN item["limit"].expires ELSE Never)
       \/ driver = "postgres" /\ client[c].n = 1 /\ client[c].expires = Never
  BY <1>2 DEF CacheInv, Reads
<1>13. CASE client[c].inserted
  <2>1. item["limit"] = [value |-> 0, expires |-> Never] BY <1>13 DEF CacheInv, Reads
  <2>2. client[c].n = 1 /\ client[c].expires = Never BY <1>12, <2>1
  <2>3. QED BY <1>10, <1>13, <2>2
<1>14. CASE ~client[c].inserted BY <1>8, <1>9, <1>11, <1>12, <1>14
<1>15. QED BY <1>13, <1>14

\* ApplyWindow is the Expire of the counter that the request has incremented.
LEMMA ApplyWindowCache ==
    ASSUME CacheInv, LimiterInv', NEW c \in Client, ApplyWindow(c)
    PROVE  Reads' /\ Cache!Expire(c)
<1>0. TypeOK /\ Locks /\ LimiterInv BY DEF CacheInv, LimiterInv
<1>1. item \in [Key -> [value : Int, expires : Nat]] /\ client \in [Client -> ClientState]
  BY <1>0, Types
<1>2. /\ client'[c].pc \in {"idle", "reset"} /\ client'[c].inserted = FALSE
      /\ \A d \in Client \ {c} : client'[d] = client[d]
  BY <1>0, CheckDone DEF ApplyWindow
<1>3. /\ client[c].pc = "expire" /\ Free("limit", c)
      /\ item'["challenge"] = item["challenge"]
      /\ UNCHANGED <<driver, now, exclusive, taken>>
  BY <1>1 DEF ApplyWindow
<1>4. \/ /\ item["limit"] # Absent
         /\ item'["limit"] = [item["limit"] EXCEPT !.expires = now + Window]
      \/ ~Live("limit") /\ item'["limit"] = item["limit"]
  <2>1. item["limit"] = Absent => ~Live("limit") BY <1>0, Alive
  <2>2. QED BY <1>1, <2>1 DEF ApplyWindow
<1>5. ~client[c].inserted /\ client[c].n > 0 BY <1>0, <1>3 DEF Locks, CacheInv, Reads
<1>6. \A d \in Client \ {c} : exclusive["limit"] # d BY <1>3 DEF Free
<1>7. Reads' BY <1>2, <1>3, <1>6, ReadsStep
<1>8. CommittedCounter = item["limit"] BY <1>0, <1>3, <1>5, WriterSees
<1>9. CommittedCounter' = item'["limit"]
  <2>1. \A d \in Client : ~client'[d].inserted BY <1>0, <1>2, <1>6 DEF Locks
  <2>2. QED BY <2>1 DEF CommittedCounter
<1>10. /\ Answers[c] # 0 /\ Answers' = [Answers EXCEPT ![c] = 0] /\ Takers' = Takers
  <2>1. /\ Answers' = [Answers EXCEPT ![c] =
                            IF client'[c].pc = "expire" THEN client'[c].n ELSE 0]
        /\ Answers[c] = IF client[c].pc = "expire" THEN client[c].n ELSE 0
        /\ Takers' = IF client'[c].pc = "take" THEN Takers \cup {c} ELSE Takers \ {c}
        /\ c \in Takers <=> client[c].pc = "take"
    BY <1>0, <1>2, Seen
  <2>2. client'[c].pc \notin {"expire", "take"} BY <1>2
  <2>3. client[c].n # 0
    <3>1. client[c].n \in Nat BY <1>1 DEF ClientState
    <3>2. QED BY <1>5, <3>1
  <2>4. QED BY <1>3, <2>1, <2>2, <2>3
<1>11. \/ /\ CommittedCounter # Cache!Missing
          /\ CommittedCounter' = [CommittedCounter EXCEPT !.expires = now + Window]
       \/ Cache!Gone(CommittedCounter) /\ UNCHANGED CommittedCounter
  <2>1. CASE ~Live("limit") /\ item'["limit"] = item["limit"]
    <3>1. Cache!Gone(CommittedCounter)
      BY <1>0, <1>8, <2>1, Alive DEF Cache!Gone, Cache!Missing, Absent
    <3>2. QED BY <1>8, <1>9, <2>1, <3>1
  <2>2. CASE item["limit"] # Absent
             /\ item'["limit"] = [item["limit"] EXCEPT !.expires = now + Window]
    BY <1>8, <1>9, <2>2 DEF Cache!Missing, Absent
  <2>3. QED BY <1>4, <2>1, <2>2
<1>12. Cache!Expire(c) BY <1>3, <1>10, <1>11 DEF Cache!Expire
<1>13. QED BY <1>7, <1>12

\* A lost window is an Expire that failed.
LEMMA WindowLostCache ==
    ASSUME CacheInv, LimiterInv', NEW c \in Client, WindowLost(c)
    PROVE  Reads' /\ Cache!Forget(c)
<1>0. TypeOK /\ Locks /\ LimiterInv BY DEF CacheInv, LimiterInv
<1>1. /\ client'[c].pc \in {"idle", "reset"} /\ client'[c].inserted = FALSE
      /\ \A d \in Client \ {c} : client'[d] = client[d]
  BY <1>0, CheckDone DEF WindowLost
<1>2. client[c].pc = "expire" /\ UNCHANGED <<driver, now, item, exclusive, taken>>
  BY DEF WindowLost
<1>3. ~client[c].inserted /\ client[c].n > 0 BY <1>0, <1>2 DEF Locks, CacheInv, Reads
<1>4. Reads' BY <1>1, <1>2, ReadsStep
<1>5. CommittedCounter' = CommittedCounter
  <2>1. \A d \in Client : client'[d].inserted <=> client[d].inserted BY <1>1, <1>3
  <2>2. QED BY <1>2, <2>1 DEF CommittedCounter
<1>6. /\ Answers[c] # 0 /\ Answers' = [Answers EXCEPT ![c] = 0] /\ Takers' = Takers
  <2>1. /\ Answers' = [Answers EXCEPT ![c] =
                            IF client'[c].pc = "expire" THEN client'[c].n ELSE 0]
        /\ Answers[c] = IF client[c].pc = "expire" THEN client[c].n ELSE 0
        /\ Takers' = IF client'[c].pc = "take" THEN Takers \cup {c} ELSE Takers \ {c}
        /\ c \in Takers <=> client[c].pc = "take"
    BY <1>0, <1>1, Seen
  <2>2. client'[c].pc \notin {"expire", "take"} BY <1>1
  <2>3. client[c].n # 0
    <3>1. client[c].n \in Nat BY <1>0, Types DEF ClientState
    <3>2. QED BY <1>3, <3>1
  <2>4. QED BY <1>2, <2>1, <2>2, <2>3
<1>7. Cache!Forget(c) BY <1>2, <1>5, <1>6 DEF Cache!Forget
<1>8. QED BY <1>4, <1>7

\* Reset is the Delete of the counter.
LEMMA ResetCache ==
    ASSUME CacheInv, LimiterInv', NEW c \in Client, Reset(c)
    PROVE  Reads' /\ Cache!Delete
<1>0. TypeOK /\ Locks /\ LimiterInv BY DEF CacheInv, LimiterInv
<1>1. item \in [Key -> [value : Int, expires : Nat]] /\ client \in [Client -> ClientState]
  BY <1>0, Types
<1>2. /\ client[c].pc = "reset" /\ client'[c].pc = "idle" /\ client'[c].inserted = FALSE
      /\ Free("limit", c)
      /\ item'["limit"] = Absent /\ item'["challenge"] = item["challenge"]
      /\ UNCHANGED <<driver, now, exclusive, taken>>
      /\ \A d \in Client \ {c} : client'[d] = client[d]
  BY <1>1 DEF Reset, Idle
<1>3. \A d \in Client \ {c} : exclusive["limit"] # d BY <1>2 DEF Free
<1>4. Reads' BY <1>2, <1>3, ReadsStep
<1>5. CommittedCounter' = Absent BY <1>2 DEF CommittedCounter
<1>6. Answers' = Answers /\ Takers' = Takers BY <1>2 DEF Answers, Takers
<1>7. Cache!Delete BY <1>2, <1>5, <1>6 DEF Cache!Delete, Cache!Missing, Absent
<1>8. QED BY <1>4, <1>7

\* IssueChallenge is a Set.
LEMMA IssueChallengeCache ==
    ASSUME CacheInv, LimiterInv', NEW c \in Client, IssueChallenge(c)
    PROVE  Reads' /\ Cache!Set
<1>0. TypeOK /\ LimiterInv BY DEF CacheInv, LimiterInv
<1>1. item \in [Key -> [value : Int, expires : Nat]] BY <1>0, Types
<1>2. /\ item["challenge"] = Absent /\ taken = 0
      /\ item'["challenge"] = [value |-> 1, expires |-> now + ChallengeTTL]
      /\ item'["limit"] = item["limit"]
      /\ UNCHANGED <<driver, now, exclusive, client, taken>>
  BY <1>1 DEF IssueChallenge
<1>3. Reads' BY <1>2, ReadsFrame DEF Reads
<1>4. Takers = {} BY <1>0, <1>2, TheTaker
<1>5. /\ CommittedCounter' = CommittedCounter /\ Answers' = Answers /\ Takers' = Takers
  BY <1>2 DEF CommittedCounter, Answers, Takers
<1>6. Cache!Set BY <1>2, <1>4, <1>5 DEF Cache!Set
<1>7. QED BY <1>3, <1>6

\* TakeInPlace finds and deletes at once.
LEMMA TakeInPlaceCache ==
    ASSUME CacheInv, LimiterInv', NEW c \in Client, TakeInPlace(c)
    PROVE  Reads' /\ Cache!GetDelete(c)
<1>0. TypeOK /\ LimiterInv BY DEF CacheInv, LimiterInv
<1>1. item \in [Key -> [value : Int, expires : Nat]] BY <1>0, Types
<1>2. /\ ~SQL /\ Live("challenge")
      /\ item'["challenge"] = Absent /\ item'["limit"] = item["limit"]
      /\ taken' = taken + 1
      /\ UNCHANGED <<driver, now, exclusive, client>>
  BY <1>1 DEF TakeInPlace
<1>3. Reads' BY <1>2, ReadsFrame DEF Reads
<1>4. Takers = {} BY <1>0, <1>2, TheTaker
<1>5. Cache!Counts(item["challenge"]) /\ item["challenge"] # Absent
  BY <1>0, <1>2, Alive DEF Cache!Counts, Cache!Missing, Absent
<1>6. /\ CommittedCounter' = CommittedCounter /\ Answers' = Answers /\ Takers' = Takers
  BY <1>2 DEF CommittedCounter, Answers, Takers
<1>7. Cache!GetDelete(c)
  BY <1>2, <1>4, <1>5, <1>6 DEF Cache!GetDelete, Cache!Missing, Absent
<1>8. QED BY <1>3, <1>7

\* TakeRead finds the challenge for its transaction alone.
LEMMA TakeReadCache ==
    ASSUME CacheInv, LimiterInv', NEW c \in Client, TakeRead(c)
    PROVE  Reads' /\ Cache!Find(c)
<1>0. TypeOK /\ Locks /\ LimiterInv BY DEF CacheInv, LimiterInv
<1>1. client \in [Client -> ClientState] /\ exclusive \in [Key -> Client \cup {None}]
  BY <1>0, Types
<1>2. /\ Live("challenge") /\ Free("challenge", c)
      /\ client[c].pc = "idle" /\ client'[c].pc = "take" /\ client'[c].inserted = FALSE
      /\ exclusive'["limit"] = exclusive["limit"]
      /\ UNCHANGED <<driver, now, item, taken>>
      /\ \A d \in Client \ {c} : client'[d] = client[d]
  BY <1>1 DEF TakeRead, Idle
<1>3. Reads' BY <1>2, ReadsStep
<1>4. Takers = {}
  <2>1. Takers \subseteq {c}
    <3>1. exclusive["challenge"] = c \/ exclusive["challenge"] = None BY <1>2 DEF Free
    <3>2. QED BY <1>0, <3>1, TheTaker
  <2>2. c \notin Takers BY <1>2 DEF Takers
  <2>3. QED BY <2>1, <2>2
<1>5. Cache!Counts(item["challenge"])
  BY <1>0, <1>2, Alive DEF Cache!Counts, Cache!Missing, Absent
<1>6. Takers' = {c} /\ Answers' = Answers
  <2>1. Takers' = Takers \cup {c} BY <1>2 DEF Takers
  <2>2. Answers' = Answers BY <1>2 DEF Answers
  <2>3. QED BY <1>4, <2>1, <2>2
<1>7. CommittedCounter' = CommittedCounter
  <2>1. ~client[c].inserted BY <1>0, <1>2 DEF Locks
  <2>2. \A d \in Client : client'[d].inserted <=> client[d].inserted BY <1>2, <2>1
  <2>3. QED BY <1>2, <2>2 DEF CommittedCounter
<1>8. Cache!Find(c) BY <1>2, <1>4, <1>5, <1>6, <1>7 DEF Cache!Find
<1>9. QED BY <1>3, <1>8

\* TakeDelete gives the challenge away, or its answer is lost.
LEMMA TakeDeleteCache ==
    ASSUME CacheInv, LimiterInv', NEW c \in Client, TakeDelete(c)
    PROVE  Reads' /\ Cache!GetDelete(c)
<1>0. TypeOK /\ Locks /\ LimiterInv BY DEF CacheInv, LimiterInv
<1>1. /\ client \in [Client -> ClientState] /\ item \in [Key -> [value : Int, expires : Nat]]
      /\ exclusive \in [Key -> Client \cup {None}]
  BY <1>0, Types
<1>2. /\ client[c].pc = "take" /\ client'[c].pc = "idle" /\ client'[c].inserted = FALSE
      /\ item'["challenge"] = Absent /\ item'["limit"] = item["limit"]
      /\ taken' \in {taken, taken + 1}
      /\ UNCHANGED <<driver, now>>
      /\ \A d \in Client \ {c} : client'[d] = client[d]
  BY <1>1 DEF TakeDelete, Idle
<1>3. \A d \in Client \ {c} : exclusive["limit"] = d => exclusive'["limit"] = d
  BY <1>1 DEF TakeDelete, Release
<1>4. Reads' BY <1>2, <1>3, ReadsStep
<1>5. Takers = {c}
  <2>1. Takers \subseteq {c} BY <1>0, <1>2, TheTaker
  <2>2. c \in Takers BY <1>2 DEF Takers
  <2>3. QED BY <2>1, <2>2
<1>6. item["challenge"] # Absent BY <1>0, <1>5, TheTaker
<1>7. Takers' = {} /\ Answers' = Answers
  <2>1. Takers' = Takers \ {c} BY <1>2 DEF Takers
  <2>2. Answers' = Answers BY <1>2 DEF Answers
  <2>3. QED BY <1>5, <2>1, <2>2
<1>8. CommittedCounter' = CommittedCounter
  <2>1. ~client[c].inserted BY <1>0, <1>2 DEF Locks
  <2>2. \A d \in Client : client'[d].inserted <=> client[d].inserted BY <1>2, <2>1
  <2>3. QED BY <1>2, <2>2 DEF CommittedCounter
<1>9. Cache!GetDelete(c)
  BY <1>2, <1>5, <1>6, <1>7, <1>8 DEF Cache!GetDelete, Cache!Missing, Absent
<1>10. QED BY <1>4, <1>9

\* A rollback leaves nothing that the contract speaks of, or the caller gives up.
LEMMA FailCache ==
    ASSUME CacheInv, LimiterInv', NEW c \in Client, Fail(c)
    PROVE  Reads' /\ (Cache!Forget(c) \/ Cache!Withdraw(c) \/ UNCHANGED Cache!cacheVars)
<1>0. TypeOK /\ Locks /\ LimiterInv BY DEF CacheInv, LimiterInv
<1>1. /\ client \in [Client -> ClientState] /\ item \in [Key -> [value : Int, expires : Nat]]
      /\ exclusive \in [Key -> Client \cup {None}]
  BY <1>0, Types
<1>2. /\ client'[c].pc = "idle" /\ client'[c].inserted = FALSE
      /\ item'["limit"] = IF client[c].inserted THEN Absent ELSE item["limit"]
      /\ item'["challenge"] = item["challenge"]
      /\ UNCHANGED <<driver, now, taken>>
      /\ \A d \in Client \ {c} : client'[d] = client[d]
  BY <1>1 DEF Fail, Idle
<1>3. \A d \in Client \ {c} : exclusive["limit"] = d => exclusive'["limit"] = d
  BY <1>1 DEF Fail, Release
<1>4. client[c].inserted => exclusive["limit"] = c BY <1>0 DEF Locks
<1>5. Reads'
  <2>1. \A d \in Client \ {c} : exclusive["limit"] = d =>
           exclusive'["limit"] = d /\ item'["limit"] = item["limit"]
    BY <1>2, <1>3, <1>4
  <2>2. QED BY <1>2, <2>1, ReadsStep
<1>6. CommittedCounter' = CommittedCounter
  <2>1. CASE client[c].inserted
    <3>1. CommittedCounter = Absent /\ item'["limit"] = Absent
      BY <1>2, <2>1 DEF CommittedCounter
    <3>2. QED BY <3>1 DEF CommittedCounter
  <2>2. CASE ~client[c].inserted
    <3>1. \A d \in Client : client'[d].inserted <=> client[d].inserted BY <1>2, <2>2
    <3>2. QED BY <1>2, <2>2, <3>1 DEF CommittedCounter
  <2>3. QED BY <2>1, <2>2
<1>7. /\ Answers' = [Answers EXCEPT ![c] = 0] /\ Takers' = Takers \ {c}
      /\ Answers[c] = IF client[c].pc = "expire" THEN client[c].n ELSE 0
      /\ c \in Takers <=> client[c].pc = "take"
  <2>1. /\ Answers' = [Answers EXCEPT ![c] =
                            IF client'[c].pc = "expire" THEN client'[c].n ELSE 0]
        /\ Answers[c] = IF client[c].pc = "expire" THEN client[c].n ELSE 0
        /\ Takers' = IF client'[c].pc = "take" THEN Takers \cup {c} ELSE Takers \ {c}
        /\ c \in Takers <=> client[c].pc = "take"
    BY <1>0, <1>2, Seen
  <2>2. client'[c].pc \notin {"expire", "take"} BY <1>2
  <2>3. QED BY <2>1, <2>2
<1>8. CASE client[c].pc = "expire"
  <2>1. Answers[c] # 0
    <3>1. client[c].n > 0 /\ client[c].n \in Nat BY <1>1, <1>8 DEF ClientState, CacheInv, Reads
    <3>2. QED BY <1>7, <1>8, <3>1
  <2>2. Takers' = Takers BY <1>7, <1>8
  <2>3. Cache!Forget(c) BY <1>2, <1>6, <1>7, <2>1, <2>2 DEF Cache!Forget
  <2>4. QED BY <1>5, <2>3
<1>9. CASE client[c].pc = "take"
  <2>1. Takers = {c}
    <3>1. Takers \subseteq {c} BY <1>0, <1>9, TheTaker
    <3>2. QED BY <1>7, <1>9, <3>1
  <2>2. Answers' = Answers BY <1>2, <1>9 DEF Answers
  <2>3. Takers' = {} /\ c \in Takers BY <1>7, <2>1
  <2>4. Cache!Withdraw(c) BY <1>2, <1>6, <2>2, <2>3 DEF Cache!Withdraw
  <2>5. QED BY <1>5, <2>4
<1>10. CASE client[c].pc \notin {"expire", "take"}
  <2>1. client'[c].pc \notin {"expire", "take"} BY <1>2
  <2>2. UNCHANGED Cache!cacheVars BY <1>0, <1>2, <1>6, <1>10, <2>1, Unseen
  <2>3. QED BY <1>5, <2>2
<1>11. QED BY <1>8, <1>9, <1>10

\* The clock stands still while a counter is being read and written.
LEMMA TickCache ==
    ASSUME CacheInv, LimiterInv', Tick
    PROVE  Reads' /\ Cache!TimePasses
<1>0. TypeOK /\ Locks /\ LimiterInv BY DEF CacheInv, LimiterInv
<1>1. /\ now' = now + 1 /\ UNCHANGED <<driver, item, exclusive, client, taken>>
      /\ \A c \in Client : client[c].pc \in {"idle", "take", "reset"}
  BY DEF Tick
<1>2. \A c \in Client : client'[c] = client[c] /\ client[c].pc \notin {"read", "expire"}
  BY <1>1
<1>3. Reads' BY <1>1, <1>2 DEF CacheInv, Reads
<1>4. /\ CommittedCounter' = CommittedCounter /\ Answers' = Answers /\ Takers' = Takers
  BY <1>1 DEF CommittedCounter, Answers, Takers
<1>5. Cache!TimePasses BY <1>1, <1>4 DEF Cache!TimePasses
<1>6. QED BY <1>3, <1>5

LEMMA StutterCache ==
    ASSUME CacheInv, UNCHANGED vars
    PROVE  Reads' /\ UNCHANGED Cache!cacheVars
<1>1. Reads' BY DEF vars, CacheInv, Reads, Live
<1>2. /\ CommittedCounter' = CommittedCounter /\ Answers' = Answers /\ Takers' = Takers
  BY DEF vars, CommittedCounter, Answers, Takers
<1>3. UNCHANGED Cache!cacheVars BY <1>2 DEF vars, Cache!cacheVars
<1>4. QED BY <1>1, <1>3

LEMMA InitCache == Init => Cache!CacheInit
<1> SUFFICES ASSUME Init PROVE Cache!CacheInit OBVIOUS
<1>1. \A c \in Client : client[c].pc = "idle" /\ ~client[c].inserted BY DEF Init, Idle
<1>2. CommittedCounter = Cache!Missing /\ item["challenge"] = Cache!Missing
  BY DEF Init, CommittedCounter, Absent, Cache!Missing
<1>3. Answers = [c \in Client |-> 0] /\ Takers = {} BY <1>1 DEF Answers, Takers
<1>4. now = 1 /\ taken = 0 /\ (driver # "postgres") \in BOOLEAN BY DEF Init
<1>5. QED BY <1>2, <1>3, <1>4 DEF Cache!CacheInit

\* Every step of a driver is one of the contract, or none of it.
LEMMA NextCache ==
    ASSUME CacheInv, LimiterInv', [Next]_vars
    PROVE  Reads' /\ [Cache!CacheNext]_(Cache!cacheVars)
<1> USE DEF Cache!CacheNext
<1>1. ASSUME NEW c \in Client, IncrementInPlace(c)
      PROVE  Reads' /\ [Cache!CacheNext]_(Cache!cacheVars)
  BY <1>1, IncrementInPlaceCache
<1>2. ASSUME NEW c \in Client, Seed(c)
      PROVE  Reads' /\ [Cache!CacheNext]_(Cache!cacheVars)
  BY <1>2, SeedCache
<1>3. ASSUME NEW c \in Client, ReadForUpdate(c)
      PROVE  Reads' /\ [Cache!CacheNext]_(Cache!cacheVars)
  BY <1>3, ReadForUpdateCache
<1>4. ASSUME NEW c \in Client, CommitIncrement(c)
      PROVE  Reads' /\ [Cache!CacheNext]_(Cache!cacheVars)
  BY <1>4, CommitIncrementCache
<1>5. ASSUME NEW c \in Client, Deadlock(c)
      PROVE  Reads' /\ [Cache!CacheNext]_(Cache!cacheVars)
  BY <1>5, DeadlockCache
<1>6. ASSUME NEW c \in Client, ApplyWindow(c)
      PROVE  Reads' /\ [Cache!CacheNext]_(Cache!cacheVars)
  BY <1>6, ApplyWindowCache
<1>7. ASSUME NEW c \in Client, WindowLost(c)
      PROVE  Reads' /\ [Cache!CacheNext]_(Cache!cacheVars)
  BY <1>7, WindowLostCache
<1>8. ASSUME NEW c \in Client, Reset(c)
      PROVE  Reads' /\ [Cache!CacheNext]_(Cache!cacheVars)
  BY <1>8, ResetCache
<1>9. ASSUME NEW c \in Client, IssueChallenge(c)
      PROVE  Reads' /\ [Cache!CacheNext]_(Cache!cacheVars)
  BY <1>9, IssueChallengeCache
<1>10. ASSUME NEW c \in Client, TakeInPlace(c)
      PROVE  Reads' /\ [Cache!CacheNext]_(Cache!cacheVars)
  BY <1>10, TakeInPlaceCache
<1>11. ASSUME NEW c \in Client, TakeRead(c)
      PROVE  Reads' /\ [Cache!CacheNext]_(Cache!cacheVars)
  BY <1>11, TakeReadCache
<1>12. ASSUME NEW c \in Client, TakeDelete(c)
      PROVE  Reads' /\ [Cache!CacheNext]_(Cache!cacheVars)
  BY <1>12, TakeDeleteCache
<1>13. ASSUME NEW c \in Client, Fail(c)
      PROVE  Reads' /\ [Cache!CacheNext]_(Cache!cacheVars)
  BY <1>13, FailCache
<1>14. CASE Tick BY <1>14, TickCache
<1>15. CASE UNCHANGED vars BY <1>15, StutterCache
<1>16. QED
  BY <1>1, <1>2, <1>3, <1>4, <1>5, <1>6, <1>7, <1>8, <1>9, <1>10, <1>11, <1>12, <1>13,
     <1>14, <1>15 DEF Next

\* Every behaviour of the drivers is one of CacheContract: whatever locks and
\* statements an Increment, an Expire or a GetDelete is made of, and however those
\* of several replicas overlap and fail, each takes effect at one instant, except
\* that a counter may start again on Postgres.
THEOREM DriversKeepCache == Spec => KeepsCache
<1>1. LimiterInv /\ Reads /\ LimiterInv' /\ [Next]_vars =>
         Reads' /\ [Cache!CacheNext]_(Cache!cacheVars)
  BY NextCache DEF CacheInv
<1>2. Init => Reads /\ Cache!CacheInit BY InitReads, InitCache
<1>3. QED
  BY <1>1, <1>2, LimiterInvariant, PTL DEF Spec, KeepsCache, Cache!CacheSpec
=============================================================================
