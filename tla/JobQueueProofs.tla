---------------------------- MODULE JobQueueProofs ----------------------------
(* The safety properties of JobQueue for every value of its constants, and that
   it implements TaskContract. *)
EXTENDS JobQueue, FiniteSetTheorems, TLAPS

-----------------------------------------------------------------------------
(* Counting. *)

\* Sets of goroutines are finite, and a part is no larger than the whole.
LEMMA PartCard ==
    ASSUME NEW S \in SUBSET Worker, NEW T \in SUBSET S
    PROVE  /\ Cardinality(S) \in Nat /\ Cardinality(T) \in Nat
           /\ Cardinality(T) <= Cardinality(S)
<1>1. IsFiniteSet(S) BY FS_Subset, ConstantsAssumption
<1>2. IsFiniteSet(T) BY <1>1, FS_Subset
<1>3. QED BY <1>1, <1>2, FS_Subset, FS_CardinalityType

\* One goroutine more.
LEMMA AddCard ==
    ASSUME NEW S \in SUBSET Worker, NEW w \in Worker
    PROVE  /\ Cardinality(S) \in Nat /\ Cardinality(S \cup {w}) \in Nat
           /\ Cardinality(S \cup {w}) <= Cardinality(S) + 1
           /\ w \notin S => Cardinality(S \cup {w}) = Cardinality(S) + 1
<1>1. IsFiniteSet(S) BY FS_Subset, ConstantsAssumption
<1>2. Cardinality(S) \in Nat BY <1>1, FS_CardinalityType
<1>3. Cardinality(S \cup {w}) = IF w \in S THEN Cardinality(S) ELSE Cardinality(S) + 1
  BY <1>1, FS_AddElement
<1>4. QED BY <1>2, <1>3

\* One goroutine less.
LEMMA RemoveCard ==
    ASSUME NEW S \in SUBSET Worker, NEW w \in Worker
    PROVE  /\ Cardinality(S) \in Nat /\ Cardinality(S \ {w}) \in Nat
           /\ w \in S => Cardinality(S \ {w}) = Cardinality(S) - 1
           /\ w \notin S => Cardinality(S \ {w}) = Cardinality(S)
<1>1. IsFiniteSet(S) BY FS_Subset, ConstantsAssumption
<1>2. Cardinality(S) \in Nat /\ Cardinality(S \ {w}) \in Nat
  BY <1>1, FS_CardinalityType, FS_RemoveElement
<1>3. Cardinality(S \ {w}) = IF w \in S THEN Cardinality(S) - 1 ELSE Cardinality(S)
  BY <1>1, FS_RemoveElement
<1>4. QED BY <1>2, <1>3

\* Two groups of goroutines that have nobody in common.
LEMMA SplitCard ==
    ASSUME NEW S \in SUBSET Worker, NEW T \in SUBSET Worker, S \cap T = {}
    PROVE  /\ Cardinality(S) \in Nat /\ Cardinality(T) \in Nat
           /\ Cardinality(S \cup T) = Cardinality(S) + Cardinality(T)
<1>1. IsFiniteSet(S) /\ IsFiniteSet(T) BY FS_Subset, ConstantsAssumption
<1>2. Cardinality(S) \in Nat /\ Cardinality(T) \in Nat BY <1>1, FS_CardinalityType
<1>3. Cardinality(S \cup T) = Cardinality(S) + Cardinality(T) - Cardinality(S \cap T)
  BY <1>1, FS_Union
<1>4. Cardinality(S \cap T) = 0 BY FS_EmptySet
<1>5. QED BY <1>2, <1>3, <1>4

\* Numbers below a bound are fewer than the bound.
LEMMA NumbersCard ==
    ASSUME NEW m \in Nat \ {0}, NEW S \in SUBSET (1..(m - 1))
    PROVE  IsFiniteSet(S) /\ Cardinality(S) \in Nat /\ Cardinality(S) <= m - 1
<1>1. IsFiniteSet(1..(m - 1)) /\ Cardinality(1..(m - 1)) = m - 1
  <2>1. 1 \in Int /\ m - 1 \in Int OBVIOUS
  <2>2. /\ IsFiniteSet(1..(m - 1))
        /\ Cardinality(1..(m - 1)) = IF 1 > m - 1 THEN 0 ELSE m - 1 - 1 + 1
    BY <2>1, FS_Interval
  <2>3. QED BY <2>2
<1>2. IsFiniteSet(S) /\ Cardinality(S) <= m - 1 BY <1>1, FS_Subset
<1>3. QED BY <1>2, FS_CardinalityType

-----------------------------------------------------------------------------
(* The invariant. *)

\* All of IInv but ClaimIntact, which follows from the rest.
Base ==
    /\ TypeOK
    /\ OffOutsideRun
    /\ HolderShape
    /\ WithinLease
    /\ Attempts
    /\ StraysPaid
    /\ Accounts

\* Truncation to whole seconds preserves order, so a stored reservation is
\* never older than the lease while the reservation itself is not.
LEMMA UnixMonotone ==
    ASSUME NEW a \in Int, NEW b \in Int, a <= b PROVE Unix(a) <= Unix(b)
BY ConstantsAssumption DEF Unix

\* A stored instant is a natural number.
LEMMA UnixType == ASSUME NEW a \in Nat PROVE Unix(a) \in Nat
BY ConstantsAssumption DEF Unix

\* A goroutine belongs to a process.
LEMMA WorkerServer == ASSUME NEW w \in Worker PROVE w[1] \in Server
BY DEF Worker

\* What a holder knows of its row.
LEMMA HolderFacts ==
    ASSUME Base, NEW w \in Worker, Holding(w)
    PROVE  /\ job[w] \in Job
           /\ w \in Holders(job[w])
           /\ status[job[w]] # "absent"
           /\ tries[w] \in Nat /\ attempts[job[w]] \in Nat
           /\ tries[w] + 1 <= attempts[job[w]]
           /\ tries[w] + 1 \notin released[job[w]]
<1>1. job[w] \in Job BY DEF Base, HolderShape
<1>2. tries[w] \in Nat /\ attempts[job[w]] \in Nat BY <1>1 DEF Base, TypeOK
<1>3. QED BY <1>1, <1>2 DEF Base, Attempts, Holders

\* The groups of goroutines that the accounts count are parts of one another.
LEMMA Groups ==
    ASSUME NEW k
    PROVE  /\ Holders(k) \in SUBSET Worker
           /\ Strays(k) \in SUBSET Holders(k) /\ Strays(k) \in SUBSET Worker
           /\ Hopeful(k) \in SUBSET Holders(k) /\ Hopeful(k) \in SUBSET Worker
           /\ Succeeded(k) \in SUBSET Holders(k) /\ Succeeded(k) \in SUBSET Worker
           /\ Hopeful(k) \cap Succeeded(k) = {}
BY DEF Holders, Strays, Hopeful, Succeeded

\* Their sizes are numbers.
LEMMA GroupSizes ==
    ASSUME NEW k
    PROVE  /\ Cardinality(Holders(k)) \in Nat
           /\ Cardinality(Strays(k)) \in Nat
           /\ Cardinality(Hopeful(k)) \in Nat
           /\ Cardinality(Succeeded(k)) \in Nat
           /\ Cardinality(Hopeful(k)) + Cardinality(Succeeded(k))
                 <= Cardinality(Holders(k))
<1>1. /\ Cardinality(Holders(k)) \in Nat /\ Cardinality(Strays(k)) \in Nat
      /\ Cardinality(Hopeful(k)) \in Nat /\ Cardinality(Succeeded(k)) \in Nat
  BY Groups, PartCard
<1>2. Cardinality(Hopeful(k) \cup Succeeded(k))
         = Cardinality(Hopeful(k)) + Cardinality(Succeeded(k))
  BY Groups, SplitCard
<1>3. Hopeful(k) \cup Succeeded(k) \in SUBSET Holders(k) BY Groups
<1>4. Cardinality(Hopeful(k) \cup Succeeded(k)) <= Cardinality(Holders(k))
  BY <1>3, Groups, PartCard
<1>5. QED BY <1>1, <1>2, <1>4

\* The numbers the accounts relate.
LEMMA Numbers ==
    ASSUME Base, NEW k \in Job
    PROVE  /\ attempts[k] \in Nat /\ maxAttempts[k] \in Nat
           /\ executions[k] \in Nat /\ oks[k] \in Nat
           /\ lapses[k] \in Nat /\ overruns[k] \in Nat
           /\ released[k] \in SUBSET Nat
           /\ AttemptAccount(k) /\ SuccessAccount(k)
           /\ Cardinality(Strays(k)) <= overruns[k]
BY DEF Base, TypeOK, Accounts, StraysPaid

\* Fewer attempts were released than the row allows.
LEMMA ReleasedCard ==
    ASSUME Base, NEW k \in Job, status[k] # "absent"
    PROVE  /\ IsFiniteSet(released[k])
           /\ Cardinality(released[k]) \in Nat
           /\ Cardinality(released[k]) <= maxAttempts[k] - 1
<1>1. maxAttempts[k] \in Nat \ {0}
  BY Numbers, ConstantsAssumption DEF AttemptAccount
<1>2. \A n \in released[k] : n \in 1..(maxAttempts[k] - 1)
  <2>1. \A n \in released[k] :
           n \in Nat /\ n \in 1..attempts[k] /\ n < maxAttempts[k]
    BY Numbers DEF AttemptAccount
  <2>2. QED BY <1>1, <2>1, Numbers
<1>3. QED BY <1>1, <1>2, NumbersCard

\* Only the latest claim can guard a row, so its holders are the strays and at
\* most one more.
LEMMA GuardIsUnique ==
    ASSUME Attempts, HolderShape, TypeOK, NEW k \in Job
    PROVE  \A v, w \in Holders(k) : Guarding(v) /\ Guarding(w) => v = w
<1> SUFFICES ASSUME NEW v \in Holders(k), NEW w \in Holders(k), Guarding(v), Guarding(w)
             PROVE v = w
  OBVIOUS
<1>1. /\ v \in Worker /\ Holding(v) /\ job[v] = k
      /\ w \in Worker /\ Holding(w) /\ job[w] = k
  BY DEF Holders
<1>2. tries[v] + 1 = tries[w] + 1 BY <1>1 DEF Guarding
<1>3. tries[v] = tries[w]
  <2>1. tries[v] \in Nat /\ tries[w] \in Nat BY <1>1 DEF TypeOK
  <2>2. QED BY <1>2, <2>1
<1>4. QED BY <1>1, <1>3 DEF Attempts

\* The holders of a row are one more than its overruns, at most.
LEMMA Exclusive == Base => ExclusiveExecution
<1> SUFFICES ASSUME Base, NEW k \in Job
             PROVE  Cardinality(Holders(k)) <= 1 + overruns[k]
  BY DEF ExclusiveExecution
<1>1. Cardinality(Strays(k)) <= overruns[k] /\ overruns[k] \in Nat BY Numbers
<1>2. CASE \E g \in Holders(k) : Guarding(g)
  <2>1. PICK g \in Holders(k) : Guarding(g) BY <1>2
  <2>2. g \in Worker BY Groups
  <2>3. \A v \in Holders(k) : v # g => v \in Strays(k)
    BY <2>1, GuardIsUnique DEF Base, Strays
  <2>4. Holders(k) \in SUBSET (Strays(k) \cup {g}) BY <2>3
  <2>5. Strays(k) \cup {g} \in SUBSET Worker BY <2>2, Groups
  <2>6. Cardinality(Holders(k)) <= Cardinality(Strays(k) \cup {g})
    BY <2>4, <2>5, PartCard
  <2>7. Cardinality(Strays(k) \cup {g}) <= Cardinality(Strays(k)) + 1
        /\ Cardinality(Strays(k) \cup {g}) \in Nat
    BY <2>2, Groups, AddCard
  <2>8. QED BY <1>1, <2>6, <2>7, GroupSizes
<1>3. CASE ~\E g \in Holders(k) : Guarding(g)
  <2>1. Holders(k) = Strays(k) BY <1>3 DEF Strays
  <2>2. QED BY <1>1, <2>1, GroupSizes
<1>4. QED BY <1>2, <1>3

\* Without an overrun every holder guards its row.
LEMMA Intact == Base => ClaimIntact
<1> SUFFICES ASSUME Base, NEW w \in Worker, Holding(w), overruns[job[w]] = 0
             PROVE  /\ status[job[w]] = "queued"
                    /\ reservedAt[job[w]] = Unix(readAt[w])
                    /\ attempts[job[w]] = tries[w] + 1
  BY DEF ClaimIntact
<1>1. job[w] \in Job /\ w \in Holders(job[w]) BY HolderFacts
<1>2. Cardinality(Strays(job[w])) <= 0 BY <1>1, Numbers
<1>3. Cardinality(Strays(job[w])) = 0 BY <1>2, GroupSizes
<1>4. IsFiniteSet(Strays(job[w])) BY Groups, FS_Subset, ConstantsAssumption
<1>5. Strays(job[w]) = {} BY <1>3, <1>4, FS_EmptySet
<1>6. Guarding(w) BY <1>1, <1>5 DEF Strays
<1>7. QED BY <1>6 DEF Guarding, Base, Attempts

\* An empty table and processes that have not started.
LEMMA InitInvariant == Init => Base
<1> SUFFICES ASSUME Init PROVE Base OBVIOUS
<1> USE DEF Init
<1>1. TypeOK BY DEF TypeOK, NULL
<1>2. OffOutsideRun /\ HolderShape /\ WithinLease /\ Attempts
  BY DEF OffOutsideRun, HolderShape, WithinLease, TimerFits, Attempts, Holding
<1>3. \A k \in Job : /\ Holders(k) = {} /\ Strays(k) = {}
                     /\ Hopeful(k) = {} /\ Succeeded(k) = {}
  BY DEF Holders, Strays, Hopeful, Succeeded, Holding
<1>4. \A k \in Job : /\ Cardinality(Holders(k)) = 0 /\ Cardinality(Strays(k)) = 0
                     /\ Cardinality(Hopeful(k)) = 0 /\ Cardinality(Succeeded(k)) = 0
  BY <1>3, FS_EmptySet
<1>5. StraysPaid BY <1>4 DEF StraysPaid
<1>6. Accounts
  <2> SUFFICES ASSUME NEW k \in Job PROVE AttemptAccount(k) /\ SuccessAccount(k)
    BY DEF Accounts
  <2>1. /\ status[k] = "absent" /\ reservedAt[k] = NULL
        /\ attempts[k] = 0 /\ maxAttempts[k] = 0
        /\ executions[k] = 0 /\ oks[k] = 0 /\ lapses[k] = 0
        /\ overruns[k] = 0 /\ released[k] = {}
    OBVIOUS
  <2>2. QED BY <1>4, <2>1 DEF AttemptAccount, SuccessAccount
<1>7. QED BY <1>1, <1>2, <1>5, <1>6 DEF Base

-----------------------------------------------------------------------------
(* Steps that no account notices. *)

\* w is in the next state where it was.
Same(w) ==
    /\ pc'[w] = pc[w] /\ job'[w] = job[w] /\ tries'[w] = tries[w]
    /\ readAt'[w] = readAt[w] /\ timer'[w] = timer[w] /\ cause'[w] = cause[w]
    /\ w \in late' <=> w \in late

\* The row and the history of k stay as they are.
SameRow(k) ==
    /\ status'[k] = status[k] /\ attempts'[k] = attempts[k]
    /\ maxAttempts'[k] = maxAttempts[k] /\ reservedAt'[k] = reservedAt[k]
    /\ executions'[k] = executions[k] /\ oks'[k] = oks[k] /\ lapses'[k] = lapses[k]
    /\ overruns'[k] = overruns[k] /\ released'[k] = released[k]

\* The groups of k stay as they are when its holders and its row do.
LEMMA SameGroups ==
    ASSUME Base, NEW k \in Job, SameRow(k),
           \A w \in Worker : (Holding(w)' /\ job'[w] = k) <=> (Holding(w) /\ job[w] = k),
           \A w \in Worker : Holding(w) /\ job[w] = k => Same(w)
    PROVE  /\ Holders(k)' = Holders(k) /\ Strays(k)' = Strays(k)
           /\ Hopeful(k)' = Hopeful(k) /\ Succeeded(k)' = Succeeded(k)
<1>1. Holders(k)' = Holders(k) BY DEF Holders
<1>2. \A w \in Holders(k) : Same(w) /\ job[w] = k BY DEF Holders
<1>3. \A w \in Holders(k) : Guarding(w)' <=> Guarding(w)
  BY <1>2 DEF Guarding, SameRow, Same, NULL
<1>4. Strays(k)' = Strays(k) BY <1>1, <1>3 DEF Strays
<1>5. Hopeful(k)' = Hopeful(k) /\ Succeeded(k)' = Succeeded(k)
  BY <1>1, <1>2 DEF Hopeful, Succeeded, Same
<1>6. QED BY <1>1, <1>4, <1>5

\* So do the accounts of k.
LEMMA SameAccounts ==
    ASSUME Base, NEW k \in Job, SameRow(k),
           \A w \in Worker : (Holding(w)' /\ job'[w] = k) <=> (Holding(w) /\ job[w] = k),
           \A w \in Worker : Holding(w) /\ job[w] = k => Same(w)
    PROVE  /\ AttemptAccount(k)' /\ SuccessAccount(k)'
           /\ Cardinality(Strays(k)') <= overruns'[k]
<1>1. /\ Holders(k)' = Holders(k) /\ Strays(k)' = Strays(k)
      /\ Hopeful(k)' = Hopeful(k) /\ Succeeded(k)' = Succeeded(k)
  BY SameGroups
<1>2. AttemptAccount(k) /\ SuccessAccount(k) /\ Cardinality(Strays(k)) <= overruns[k]
  BY Numbers
<1>3. QED BY <1>1, <1>2 DEF AttemptAccount, SuccessAccount, SameRow, NULL

\* When every hold and every row stays, so does all that is said of them.
LEMMA Frame ==
    ASSUME Base, \A k \in Job : SameRow(k),
           \A w \in Worker : Holding(w)' <=> Holding(w),
           \A w \in Worker : Holding(w) => Same(w)
    PROVE  Attempts' /\ StraysPaid' /\ Accounts' /\ HolderShape'
<1>1. ASSUME NEW k \in Job
      PROVE  /\ AttemptAccount(k)' /\ SuccessAccount(k)'
             /\ Cardinality(Strays(k)') <= overruns'[k]
  <2>1. \A w \in Worker : (Holding(w)' /\ job'[w] = k) <=> (Holding(w) /\ job[w] = k)
    BY DEF Same
  <2>2. QED BY <2>1, SameAccounts
<1>2. HolderShape' BY DEF Base, HolderShape, Same, Holding
<1>3. Attempts'
  <2> SUFFICES ASSUME NEW w \in Worker, Holding(w)'
      PROVE  /\ status'[job'[w]] # "absent"
             /\ tries'[w] + 1 <= attempts'[job'[w]]
             /\ tries'[w] + 1 \notin released'[job'[w]]
             /\ tries'[w] + 1 = attempts'[job'[w]] =>
                   reservedAt'[job'[w]] \in {NULL, Unix(readAt'[w])}
             /\ \A v \in Worker \ {w} :
                   Holding(v)' /\ job'[v] = job'[w] => tries'[v] # tries'[w]
    BY DEF Attempts, Unix, NULL
  <2>1. Holding(w) /\ Same(w) /\ job[w] \in Job BY DEF Base, HolderShape
  <2>2. SameRow(job[w]) BY <2>1
  <2>3. \A v \in Worker : Holding(v)' => Holding(v) /\ Same(v) OBVIOUS
  <2>4. QED BY <2>1, <2>2, <2>3 DEF Base, Attempts, SameRow, Same
<1>4. QED BY <1>1, <1>2, <1>3 DEF StraysPaid, Accounts

\* A goroutine that lets go of whatever it held leaves the others' claims alone.
LEMMA LetGo ==
    ASSUME Base, NEW w \in Worker, NEW p \in {"off", "poll"}, NEW t \in Nat,
           Idle(w, p, t), UNCHANGED <<now, srv>>, p = "off" \/ pc[w] # "off"
    PROVE  /\ pc' \in [Worker -> {"off", "poll", "claim", "run", "final"}]
           /\ job' \in [Worker -> Job \cup {None}]
           /\ tries' \in [Worker -> Nat]
           /\ readAt' \in [Worker -> Nat]
           /\ timer' \in [Worker -> Nat]
           /\ cause' \in [Worker -> Outcome \cup {"none"}]
           /\ late' \in SUBSET Worker
           /\ OffOutsideRun' /\ HolderShape' /\ WithinLease'
           /\ ~Holding(w)'
           /\ \A v \in Worker : v # w => Same(v)
<1> USE DEF Base, Idle
<1>1. /\ pc' \in [Worker -> {"off", "poll", "claim", "run", "final"}]
      /\ job' \in [Worker -> Job \cup {None}]
      /\ tries' \in [Worker -> Nat]
      /\ readAt' \in [Worker -> Nat]
      /\ timer' \in [Worker -> Nat]
      /\ cause' \in [Worker -> Outcome \cup {"none"}]
      /\ late' \in SUBSET Worker
  BY DEF TypeOK
<1>2. pc'[w] = p BY DEF TypeOK
<1>3. \A v \in Worker : v # w => Same(v) BY DEF TypeOK, Same
<1> HIDE DEF Idle
<1>4. OffOutsideRun' BY <1>2, <1>3 DEF OffOutsideRun, Same
<1>5. HolderShape' BY <1>2, <1>3 DEF HolderShape, Holding, Same
<1>6. WithinLease' BY <1>2, <1>3 DEF WithinLease, TimerFits, Same
<1>7. QED BY <1>1, <1>2, <1>3, <1>4, <1>5, <1>6 DEF Holding

\* A new row is free, and nobody holds a row that was absent.
LEMMA EnqueueStep ==
    ASSUME Base, NEW j \in Job, NEW r \in 0..MaxRetry, Enqueue(j, r) PROVE Base'
<1> USE DEF Base, Enqueue, process, worker, history, budget
<1>1. TypeOK'
  <2>1. Unix(now) \in Nat BY UnixType DEF TypeOK
  <2>2. (IF r > 0 THEN r + 1 ELSE 1) \in Nat BY ConstantsAssumption
  <2>3. maxAttempts' \in [Job -> Nat] BY <2>2 DEF TypeOK
  <2>4. status' \in [Job -> {"absent", "queued"} \cup Outcome] BY DEF TypeOK
  <2>5. availableAt' \in [Job -> Nat] /\ createdAt' \in [Job -> Nat] BY <2>1 DEF TypeOK
  <2>6. QED BY <2>3, <2>4, <2>5 DEF TypeOK
<1>2. OffOutsideRun' /\ HolderShape' /\ WithinLease'
  BY DEF OffOutsideRun, HolderShape, WithinLease, TimerFits, Holding
<1>3. \A w \in Worker : (Holding(w)' <=> Holding(w)) /\ Same(w)
  BY DEF Holding, Same
<1>4. \A w \in Worker : Holding(w) => job[w] \in Job /\ job[w] # j
  BY HolderFacts
<1>5. \A k \in Job : k # j => SameRow(k) BY DEF TypeOK, SameRow
<1>6. Attempts'
  <2>1. \A w \in Worker : Holding(w) => status'[job[w]] = status[job[w]]
    BY <1>4 DEF TypeOK
  <2>2. QED BY <1>3, <2>1 DEF Attempts, Same, Unix, NULL, Holding
<1>7. ASSUME NEW k \in Job
      PROVE  /\ AttemptAccount(k)' /\ SuccessAccount(k)'
             /\ Cardinality(Strays(k)') <= overruns'[k]
  <2>1. CASE k = j
    <3>1. /\ status[k] = "absent" /\ status'[k] = "queued"
          /\ maxAttempts'[k] \in 1..(MaxRetry + 1)
      BY <2>1, ConstantsAssumption DEF TypeOK
    <3>2. /\ attempts'[k] = 0 /\ executions'[k] = 0 /\ oks'[k] = 0
          /\ lapses'[k] = 0 /\ overruns'[k] = 0 /\ released'[k] = {}
      BY <3>1, Numbers DEF AttemptAccount
    <3>3. Holders(k)' = {} BY <1>3, <1>4, <2>1 DEF Holders, Same
    <3>4. Strays(k)' = {} /\ Hopeful(k)' = {} /\ Succeeded(k)' = {}
      BY <3>3 DEF Strays, Hopeful, Succeeded
    <3>5. /\ Cardinality(Holders(k)') = 0 /\ Cardinality(Strays(k)') = 0
          /\ Cardinality(Hopeful(k)') = 0 /\ Cardinality(Succeeded(k)') = 0
          /\ Cardinality(released'[k]) = 0
      BY <3>2, <3>3, <3>4, FS_EmptySet
    <3>6. AttemptAccount(k)'
      BY <3>1, <3>2, <3>5, ConstantsAssumption DEF AttemptAccount
    <3>7. QED BY <3>2, <3>5, <3>6 DEF SuccessAccount
  <2>2. CASE k # j
    BY <1>3, <1>5, <2>2, SameAccounts DEF Same
  <2>3. QED BY <2>1, <2>2
<1>8. QED BY <1>1, <1>2, <1>6, <1>7 DEF StraysPaid, Accounts

\* A goroutine without a job goes to sleep or exits.
LEMMA IdleStep ==
    ASSUME Base, NEW w \in Worker, NEW p \in {"off", "poll"}, NEW t \in Nat,
           pc[w] \in {"poll", "claim"}, Idle(w, p, t),
           UNCHANGED <<now, table, process, history, stops>>, faults' \in Nat
    PROVE  Base'
<1> USE DEF table, process, history
<1>1. /\ pc' \in [Worker -> {"off", "poll", "claim", "run", "final"}]
      /\ job' \in [Worker -> Job \cup {None}]
      /\ tries' \in [Worker -> Nat]
      /\ readAt' \in [Worker -> Nat]
      /\ timer' \in [Worker -> Nat]
      /\ cause' \in [Worker -> Outcome \cup {"none"}]
      /\ late' \in SUBSET Worker
      /\ OffOutsideRun' /\ HolderShape' /\ WithinLease'
      /\ ~Holding(w)'
      /\ \A v \in Worker : v # w => Same(v)
  BY LetGo
<1>2. TypeOK' BY <1>1 DEF Base, TypeOK
<1>3. \A k \in Job : SameRow(k) BY DEF SameRow
<1>4. \A v \in Worker : Holding(v)' <=> Holding(v) BY <1>1 DEF Holding, Same
<1>5. \A v \in Worker : Holding(v) => Same(v) BY <1>1 DEF Holding
<1>6. QED BY <1>1, <1>2, <1>3, <1>4, <1>5, Frame DEF Base

\* Boot, Stop and RunReturns move the process, and no goroutine.
LEMMA ProcessStep ==
    ASSUME Base, NEW s \in Server, Boot(s) \/ Stop(s) \/ RunReturns(s) PROVE Base'
<1> USE DEF table, worker, history, budget
<1>1. UNCHANGED <<now, table, worker, history, faults>>
  BY DEF Boot, Stop, RunReturns
<1>2. TypeOK'
  <2>1. srv' \in [Server -> {"down", "created", "running", "stopping", "exited"}]
    BY DEF Base, TypeOK, Boot, Stop, RunReturns
  <2>2. asked' \in [Server -> BOOLEAN] BY DEF Base, TypeOK, Boot, Stop, RunReturns
  <2>3. stops' \in Nat BY DEF Base, TypeOK, Boot, Stop, RunReturns
  <2>4. QED BY <1>1, <2>1, <2>2, <2>3 DEF Base, TypeOK
<1>3. OffOutsideRun'
  BY <1>1, WorkerServer DEF Base, OffOutsideRun, TypeOK, Boot, Stop, RunReturns
<1>4. WithinLease' BY <1>1 DEF Base, WithinLease, TimerFits
<1>5. \A w \in Worker : (Holding(w)' <=> Holding(w)) /\ Same(w)
  BY <1>1 DEF Holding, Same
<1>6. \A k \in Job : SameRow(k) BY <1>1 DEF SameRow
<1>7. QED BY <1>2, <1>3, <1>4, <1>5, <1>6, Frame DEF Base

\* Run starts every goroutine of the process with empty hands.
LEMMA RunStep == ASSUME Base, NEW s \in Server, Run(s) PROVE Base'
<1> USE DEF Run, table, history, budget
<1>1. \A w \in Worker : w[1] = s => pc[w] = "off" /\ pc'[w] = "poll"
  BY DEF Base, OffOutsideRun
<1>2. \A w \in Worker : w[1] # s => Same(w)
  BY DEF Same
<1>3. \A w \in Worker : Holding(w)' <=> Holding(w)
  BY <1>1, <1>2 DEF Holding, Same
<1>4. TypeOK' BY WorkerServer DEF Base, TypeOK
<1>5. OffOutsideRun'
  BY <1>1, <1>2, WorkerServer DEF Base, OffOutsideRun, TypeOK, Same
<1>6. WithinLease' BY <1>1, <1>2 DEF Base, WithinLease, TimerFits, Same
<1>7. \A w \in Worker : Holding(w) => Same(w) BY <1>1, <1>2 DEF Holding
<1>8. \A k \in Job : SameRow(k) BY DEF SameRow
<1>9. QED BY <1>3, <1>4, <1>5, <1>6, <1>7, <1>8, Frame DEF Base

\* The transaction begins: the goroutine still holds nothing.
LEMMA BeginClaimStep == ASSUME Base, NEW w \in Worker, BeginClaim(w) PROVE Base'
<1> USE DEF BeginClaim, table, process, history, budget
<1>1. Skew[w[1]] \in 0..MaxSkew BY ConstantsAssumption, WorkerServer
<1>2. \A v \in Worker : v # w => Same(v) BY DEF Base, TypeOK, Same
<1>3. pc'[w] = "claim" /\ readAt'[w] = now + Skew[w[1]] /\ timer'[w] = now + ClaimDelay
  BY DEF Base, TypeOK
<1>4. \A v \in Worker : Holding(v)' <=> Holding(v)
  BY <1>2, <1>3 DEF Holding, Same
<1>5. TypeOK'
  <2>1. now + Skew[w[1]] \in Nat /\ now + ClaimDelay \in Nat
    BY <1>1, ConstantsAssumption DEF Base, TypeOK
  <2>2. QED BY <2>1 DEF Base, TypeOK
<1>6. OffOutsideRun' BY <1>2 DEF Base, OffOutsideRun, Same
<1>7. WithinLease'
  <2>1. /\ now <= now + ClaimDelay
        /\ now + Skew[w[1]] <= now + MaxSkew
        /\ now + ClaimDelay <= now + Skew[w[1]] + ClaimDelay
    BY <1>1, ConstantsAssumption DEF Base, TypeOK
  <2>2. QED BY <1>2, <1>3, <2>1 DEF Base, WithinLease, TimerFits, Same
<1>8. \A v \in Worker : Holding(v) => Same(v) BY <1>2 DEF Holding
<1>9. \A k \in Job : SameRow(k) BY DEF SameRow
<1>10. QED BY <1>4, <1>5, <1>6, <1>7, <1>8, <1>9, Frame DEF Base

\* Time stops at the deadline of every execution that has not overrun it.
LEMMA TickStep == ASSUME Base, Tick PROVE Base'
<1> USE DEF table, process, worker, history, budget
<1>1. /\ now' = now + 1
      /\ UNCHANGED <<table, process, worker, history, budget>>
  BY DEF Tick
<1>2. TypeOK' BY <1>1 DEF Base, TypeOK
<1>3. WithinLease'
  <2> SUFFICES ASSUME NEW w \in Worker
      PROVE  /\ pc[w] \in {"claim", "run", "final"} =>
                   /\ readAt[w] <= now + 1 + MaxSkew
                   /\ w \notin late => now + 1 <= timer[w]
             /\ w \notin late => TimerFits(w)
    BY <1>1 DEF WithinLease, TimerFits
  <2>1. now \in Nat /\ timer[w] \in Nat /\ readAt[w] \in Nat /\ MaxSkew \in Nat
    BY ConstantsAssumption DEF Base, TypeOK
  <2>2. pc[w] \in {"claim", "run", "final"} /\ w \notin late => now < timer[w]
    BY DEF Tick, Overdue
  <2>3. /\ pc[w] \in {"claim", "run", "final"} => readAt[w] <= now + MaxSkew
        /\ w \notin late => TimerFits(w)
    BY DEF Base, WithinLease
  <2>4. QED BY <2>1, <2>2, <2>3
<1>4. OffOutsideRun' BY <1>1 DEF Base, OffOutsideRun
<1>5. \A w \in Worker : (Holding(w)' <=> Holding(w)) /\ Same(w)
  BY <1>1 DEF Holding, Same
<1>6. \A k \in Job : SameRow(k) BY <1>1 DEF SameRow
<1>7. QED BY <1>2, <1>3, <1>4, <1>5, <1>6, Frame DEF Base

\* Nothing happens.
LEMMA StutterStep == ASSUME Base, UNCHANGED vars PROVE Base'
<1> USE DEF vars, table, process, worker, history, budget
<1>1. TypeOK' BY DEF Base, TypeOK
<1>2. OffOutsideRun' /\ WithinLease'
  BY DEF Base, OffOutsideRun, WithinLease, TimerFits
<1>3. \A w \in Worker : (Holding(w)' <=> Holding(w)) /\ Same(w) BY DEF Holding, Same
<1>4. \A k \in Job : SameRow(k) BY DEF SameRow
<1>5. QED BY <1>1, <1>2, <1>3, <1>4, Frame DEF Base

\* The three ways in which a goroutine without a job goes on.
LEMMA IdleSteps ==
    ASSUME Base, NEW w \in Worker, WorkerExit(w) \/ ClaimNothing(w) \/ ClaimFails(w)
    PROVE  Base'
<1>1. now + PollInterval \in Nat /\ faults \in Nat /\ faults + 1 \in Nat /\ 0 \in Nat
  BY ConstantsAssumption DEF Base, TypeOK
<1>2. CASE WorkerExit(w) BY <1>1, <1>2, IdleStep DEF WorkerExit, budget
<1>3. CASE ClaimNothing(w) BY <1>1, <1>3, IdleStep DEF ClaimNothing, budget
<1>4. CASE ClaimFails(w) BY <1>1, <1>4, IdleStep DEF ClaimFails
<1>5. QED BY <1>2, <1>3, <1>4

-----------------------------------------------------------------------------
(* Steps that end holds, or let them overrun. *)

\* The row's columns that a claim writes, and what releases say of it, stay.
SameClaims(k) ==
    /\ attempts'[k] = attempts[k] /\ reservedAt'[k] = reservedAt[k]
    /\ released'[k] = released[k]

\* The attempts that are still held keep their numbers.
LEMMA AttemptsKept ==
    ASSUME Base,
           \A w \in Worker : Holding(w)' =>
              /\ Holding(w)
              /\ job'[w] = job[w] /\ tries'[w] = tries[w] /\ readAt'[w] = readAt[w],
           \A k \in Job : SameClaims(k),
           \A k \in Job : status[k] # "absent" => status'[k] # "absent"
    PROVE  Attempts'
<1> SUFFICES ASSUME NEW w \in Worker, Holding(w)'
    PROVE  /\ status'[job'[w]] # "absent"
           /\ tries'[w] + 1 <= attempts'[job'[w]]
           /\ tries'[w] + 1 \notin released'[job'[w]]
           /\ tries'[w] + 1 = attempts'[job'[w]] =>
                 reservedAt'[job'[w]] \in {NULL, Unix(readAt'[w])}
           /\ \A v \in Worker \ {w} :
                 Holding(v)' /\ job'[v] = job'[w] => tries'[v] # tries'[w]
  BY DEF Attempts, Unix, NULL
<1>1. Holding(w) /\ job[w] \in Job BY DEF Base, HolderShape
<1>2. SameClaims(job[w]) /\ status'[job[w]] # "absent" BY <1>1, HolderFacts
<1>3. QED BY <1>1, <1>2 DEF Base, Attempts, SameClaims

\* A crash empties the hands of all goroutines of a process; their rows stay
\* reserved and the lapses they pay for are counted.
LEMMA CrashStep == ASSUME Base, NEW s \in Server, Crash(s) PROVE Base'
<1> USE DEF Crash, table
<1>1. \A w \in Worker : w[1] = s => pc'[w] = "off"
  OBVIOUS
<1>2. \A w \in Worker : w[1] # s => Same(w)
  BY DEF Same
<1>3. \A w \in Worker : Holding(w)' <=> Holding(w) /\ w[1] # s
  BY <1>1, <1>2 DEF Holding, Same
<1> DEFINE Lost(k) == {w \in Holders(k) : w[1] = s}
<1>4. \A k \in Job : lapses'[k] = lapses[k] + Cardinality(Lost(k)) OBVIOUS
<1>5. \A k \in Job : Cardinality(Lost(k)) \in Nat
  BY Groups, PartCard
<1>6. TypeOK'
  <2>1. lapses' \in [Job -> Nat]
    <3>1. ASSUME NEW k \in Job PROVE lapses[k] + Cardinality(Lost(k)) \in Nat
      <4>1. lapses[k] \in Nat /\ Cardinality(Lost(k)) \in Nat BY <1>5, Numbers
      <4> HIDE DEF Lost
      <4>2. QED BY <4>1
    <3>2. lapses' = [k \in Job |-> lapses[k] + Cardinality(Lost(k))] OBVIOUS
    <3>3. QED BY <3>1, <3>2
  <2>2. srv' \in [Server -> {"down", "created", "running", "stopping", "exited"}]
    BY DEF Base, TypeOK
  <2>3. /\ pc' \in [Worker -> {"off", "poll", "claim", "run", "final"}]
        /\ job' \in [Worker -> Job \cup {None}]
        /\ tries' \in [Worker -> Nat]
        /\ readAt' \in [Worker -> Nat]
        /\ timer' \in [Worker -> Nat]
        /\ cause' \in [Worker -> Outcome \cup {"none"}]
        /\ late' \in SUBSET Worker
    BY DEF Base, TypeOK
  <2>4. faults' \in Nat BY DEF Base, TypeOK
  <2>5. QED BY <2>1, <2>2, <2>3, <2>4 DEF Base, TypeOK
<1>7. OffOutsideRun' BY <1>1, <1>2, WorkerServer DEF Base, OffOutsideRun, TypeOK, Same
<1>8. HolderShape' BY <1>2, <1>3 DEF Base, HolderShape, Holding, Same
<1>9. WithinLease' BY <1>1, <1>2 DEF Base, WithinLease, TimerFits, Same
<1>10. Attempts' BY <1>2, <1>3, AttemptsKept DEF Same, SameClaims
<1>11. ASSUME NEW k \in Job
       PROVE  /\ AttemptAccount(k)' /\ SuccessAccount(k)'
              /\ Cardinality(Strays(k)') <= overruns'[k]
  <2>1. Holders(k)' = Holders(k) \ Lost(k)
    BY <1>2, <1>3 DEF Holders, Same
  <2>2. Lost(k) \in SUBSET Holders(k) OBVIOUS
  <2>3. Cardinality(Holders(k)) = Cardinality(Holders(k)') + Cardinality(Lost(k))
        /\ Cardinality(Holders(k)') \in Nat
    <3>1. Holders(k) = (Holders(k) \ Lost(k)) \cup Lost(k) BY <2>2
    <3>2. /\ Holders(k) \ Lost(k) \in SUBSET Worker
          /\ Lost(k) \in SUBSET Worker
          /\ (Holders(k) \ Lost(k)) \cap Lost(k) = {}
      BY <2>2, Groups
    <3>3. /\ Cardinality(Holders(k) \ Lost(k)) \in Nat
          /\ Cardinality((Holders(k) \ Lost(k)) \cup Lost(k))
                = Cardinality(Holders(k) \ Lost(k)) + Cardinality(Lost(k))
      BY <3>2, SplitCard
    <3>4. QED BY <2>1, <3>1, <3>3
  <2>4. Strays(k)' \in SUBSET Strays(k)
    BY <1>2, <2>1 DEF Strays, Guarding, Same, Holders, NULL
  <2>5. Hopeful(k)' \in SUBSET Hopeful(k)
    BY <1>2, <2>1 DEF Hopeful, Same, Holders
  <2>6. Succeeded(k) \in SUBSET (Succeeded(k)' \cup Lost(k))
    BY <1>2, <2>1 DEF Succeeded, Same, Holders
  <2>7. Cardinality(Strays(k)') <= Cardinality(Strays(k))
        /\ Cardinality(Strays(k)') \in Nat
    BY <2>4, Groups, PartCard
  <2>8. Cardinality(Hopeful(k)') <= Cardinality(Hopeful(k))
        /\ Cardinality(Hopeful(k)') \in Nat
    BY <2>5, Groups, PartCard
  <2>9. Cardinality(Succeeded(k)) <= Cardinality(Succeeded(k)') + Cardinality(Lost(k))
        /\ Cardinality(Succeeded(k)') \in Nat
    <3>1. Succeeded(k)' \in SUBSET Holders(k)' BY DEF Succeeded
    <3>2. /\ Succeeded(k)' \in SUBSET Worker /\ Lost(k) \in SUBSET Worker
          /\ Succeeded(k)' \cap Lost(k) = {}
      BY <2>1, <3>1, Groups
    <3>3. /\ Cardinality(Succeeded(k)') \in Nat
          /\ Cardinality(Succeeded(k)' \cup Lost(k))
                = Cardinality(Succeeded(k)') + Cardinality(Lost(k))
      BY <3>2, SplitCard
    <3>4. Succeeded(k)' \cup Lost(k) \in SUBSET Worker BY <3>2
    <3>5. Cardinality(Succeeded(k)) <= Cardinality(Succeeded(k)' \cup Lost(k))
      BY <2>6, <3>4, PartCard
    <3>6. QED BY <3>3, <3>5
  <2>10. lapses'[k] = lapses[k] + Cardinality(Lost(k)) /\ Cardinality(Lost(k)) \in Nat
    BY <1>4, <1>5
  <2> HIDE DEF Lost
  <2>11. UNCHANGED <<status, attempts, maxAttempts, reservedAt, executions, oks,
                     overruns, released>>
    BY DEF Crash, table
  <2>12. /\ AttemptAccount(k) /\ SuccessAccount(k)
         /\ Cardinality(Strays(k)) <= overruns[k]
         /\ attempts[k] \in Nat /\ maxAttempts[k] \in Nat /\ executions[k] \in Nat
         /\ oks[k] \in Nat /\ lapses[k] \in Nat /\ overruns[k] \in Nat
    BY Numbers
  <2>13. status[k] = "absent" => Cardinality(Lost(k)) = 0
    <3>1. status[k] = "absent" => Holders(k) = {}
      BY HolderFacts DEF Holders
    <3>2. status[k] = "absent" => Lost(k) = {} BY <3>1 DEF Lost
    <3>3. QED BY <3>2, FS_EmptySet
  <2>14. status[k] = "queued" => Cardinality(released[k]) \in Nat BY ReleasedCard
  <2>15. AttemptAccount(k)'
    BY <2>3, <2>10, <2>11, <2>12, <2>13, <2>14 DEF AttemptAccount, NULL
  <2>16. SuccessAccount(k)'
    BY <2>8, <2>9, <2>10, <2>11, <2>12, GroupSizes DEF SuccessAccount
  <2>17. QED BY <2>7, <2>11, <2>12, <2>15, <2>16, GroupSizes
<1>12. QED
  BY <1>6, <1>7, <1>8, <1>9, <1>10, <1>11 DEF Base, StraysPaid, Accounts

\* A hold that overruns its time is one stray more, and is counted.
LEMMA OverrunStep == ASSUME Base, NEW w \in Worker, Overrun(w) PROVE Base'
<1> USE DEF Overrun, table, process
<1>1. /\ UNCHANGED <<now, table, process, pc, job, tries, readAt, timer, cause,
                     executions, oks, lapses, released, stops>>
      /\ late' = late \cup {w}
      /\ faults' = faults + 1
      /\ \A k \in Job : overruns'[k] =
            IF w \in Holders(k) THEN overruns[k] + 1 ELSE overruns[k]
  OBVIOUS
<1>2. TypeOK'
  <2>1. overruns' \in [Job -> Nat]
    <3>1. \A k \in Job :
             (IF w \in Holders(k) THEN overruns[k] + 1 ELSE overruns[k]) \in Nat
      BY Numbers
    <3>2. QED BY <3>1
  <2>2. faults' \in Nat /\ late' \in SUBSET Worker BY DEF Base, TypeOK
  <2>3. QED BY <1>1, <2>1, <2>2 DEF Base, TypeOK
<1>3. OffOutsideRun' /\ HolderShape' BY <1>1 DEF Base, OffOutsideRun, HolderShape, Holding
<1>4. WithinLease' BY <1>1 DEF Base, WithinLease, TimerFits
<1>5. Attempts' BY <1>1, AttemptsKept DEF SameClaims, Holding
<1>6. ASSUME NEW k \in Job
      PROVE  /\ AttemptAccount(k)' /\ SuccessAccount(k)'
             /\ Cardinality(Strays(k)') <= overruns'[k]
  <2>1. /\ Holders(k)' = Holders(k) /\ Hopeful(k)' = Hopeful(k)
        /\ Succeeded(k)' = Succeeded(k)
    BY <1>1 DEF Holders, Hopeful, Succeeded, Holding
  <2>2. overruns'[k] = IF w \in Holders(k) THEN overruns[k] + 1 ELSE overruns[k]
    BY <1>1
  <2>3. /\ AttemptAccount(k) /\ SuccessAccount(k)
        /\ Cardinality(Strays(k)) <= overruns[k] /\ overruns[k] \in Nat
        /\ attempts[k] \in Nat /\ maxAttempts[k] \in Nat /\ lapses[k] \in Nat
        /\ oks[k] \in Nat
    BY Numbers
  <2>4. status[k] = "absent" => w \notin Holders(k) BY HolderFacts DEF Holders
  <2>5. AttemptAccount(k)'
    <3>1. /\ status'[k] = status[k] /\ attempts'[k] = attempts[k]
          /\ maxAttempts'[k] = maxAttempts[k] /\ reservedAt'[k] = reservedAt[k]
          /\ executions'[k] = executions[k] /\ oks'[k] = oks[k]
          /\ lapses'[k] = lapses[k] /\ released'[k] = released[k]
      BY <1>1
    <3>2. /\ overruns'[k] \in Nat /\ overruns[k] <= overruns'[k]
          /\ status[k] = "absent" => overruns'[k] = overruns[k]
      BY <2>2, <2>3, <2>4
    <3> HIDE DEF Overrun, table, process
    <3>3. QED BY <2>1, <2>3, <3>1, <3>2 DEF AttemptAccount, NULL
  <2>6. SuccessAccount(k)'
    BY <1>1, <2>1, <2>2, <2>3, GroupSizes DEF SuccessAccount
  <2>7. CASE w \in Holders(k)
    <3>1. Strays(k)' \in SUBSET (Strays(k) \cup {w})
      BY <1>1, <2>1 DEF Strays, Guarding, NULL
    <3>2. Strays(k) \cup {w} \in SUBSET Worker BY Groups
    <3>3. Cardinality(Strays(k)') <= Cardinality(Strays(k) \cup {w})
          /\ Cardinality(Strays(k)') \in Nat
      BY <3>1, <3>2, PartCard
    <3>4. Cardinality(Strays(k) \cup {w}) <= Cardinality(Strays(k)) + 1
          /\ Cardinality(Strays(k) \cup {w}) \in Nat
      BY Groups, AddCard
    <3>5. Cardinality(Strays(k)') <= overruns'[k]
      BY <2>2, <2>3, <2>7, <3>3, <3>4, GroupSizes
    <3>6. QED BY <2>5, <2>6, <3>5
  <2>8. CASE w \notin Holders(k)
    <3>1. Strays(k)' = Strays(k)
      BY <1>1, <2>1, <2>8 DEF Strays, Guarding, NULL
    <3>2. QED BY <2>2, <2>3, <2>5, <2>6, <2>8, <3>1
  <2>9. QED BY <2>7, <2>8
<1>7. QED BY <1>2, <1>3, <1>4, <1>5, <1>6 DEF Base, StraysPaid, Accounts

-----------------------------------------------------------------------------
(* Claims. *)

\* The lease protects a hold that is in time: a row that qualifies for a claim is
\* guarded by nobody, however the clocks and the scheduling delays fall.
LEMMA ClaimableIsUnguarded ==
    ASSUME LeaseCoversJob, Base, NEW w \in Worker, pc[w] = "claim",
           NEW j \in Job, Claimable(j, readAt[w])
    PROVE  Strays(j) = Holders(j)
<1> SUFFICES ASSUME NEW v \in Worker, Holding(v), job[v] = j, Guarding(v) PROVE FALSE
  BY DEF Strays, Holders
<1>1. reservedAt[j] = Unix(readAt[v]) /\ reservedAt[j] # NULL
  BY DEF Base, Attempts, Guarding
<1>2. reservedAt[j] < Unix(readAt[w] - Lease) BY <1>1 DEF Claimable
<1>3. /\ now \in Nat /\ readAt[v] \in Nat /\ readAt[w] \in Nat /\ timer[v] \in Nat
      /\ Lease \in Nat /\ ClaimDelay \in Nat /\ JobTimeout \in Nat
      /\ FinalizeTimeout \in Nat /\ MaxSkew \in Nat
  BY ConstantsAssumption DEF Base, TypeOK
<1>4. v \notin late /\ pc[v] \in {"run", "final"} BY DEF Guarding, Holding
<1>5. timer[v] <= readAt[v] + ClaimDelay + JobTimeout + FinalizeTimeout
  BY <1>3, <1>4 DEF Base, WithinLease, TimerFits
<1>6. now <= timer[v] /\ readAt[w] <= now + MaxSkew
  BY <1>4 DEF Base, WithinLease
<1>7. readAt[w] - Lease <= readAt[v]
  BY <1>3, <1>5, <1>6 DEF LeaseCoversJob
<1>8. Unix(readAt[w] - Lease) <= Unix(readAt[v])
  BY <1>3, <1>7, UnixMonotone
<1>9. Unix(readAt[v]) \in Int /\ Unix(readAt[w] - Lease) \in Int
  BY <1>3, ConstantsAssumption DEF Unix
<1>10. QED BY <1>1, <1>2, <1>8, <1>9

\* Reserving a row spends an attempt that its budget still has.
LEMMA ReserveFacts ==
    ASSUME LeaseCoversJob, Base, NEW w \in Worker, pc[w] = "claim",
           NEW j \in Job, Selected(j, readAt[w]), Reserve(w, j)
    PROVE  /\ w \notin Holders(j)
           /\ status[j] = "queued"
           /\ Cardinality(Holders(j)) <= overruns[j]
           /\ attempts[j] < maxAttempts[j] + lapses[j] + overruns[j]
           /\ oks[j] + Cardinality(Hopeful(j)) <= lapses[j] + overruns[j]
           /\ reservedAt' \in [Job -> Nat \cup {NULL}]
           /\ attempts' \in [Job -> Nat]
           /\ reservedAt'[j] = Unix(readAt[w]) /\ reservedAt'[j] # NULL
           /\ attempts'[j] = attempts[j] + 1
           /\ \A k \in Job : k # j =>
                 attempts'[k] = attempts[k] /\ reservedAt'[k] = reservedAt[k]
<1>1. Claimable(j, readAt[w]) BY DEF Selected
<1>2. w \notin Holders(j) BY DEF Holders, Holding
<1>3. status[j] = "queued" BY <1>1 DEF Claimable
<1>4. Cardinality(Holders(j)) <= overruns[j]
  BY <1>1, ClaimableIsUnguarded, Numbers
<1>5. /\ attempts[j] \in Nat /\ maxAttempts[j] \in Nat /\ lapses[j] \in Nat
      /\ overruns[j] \in Nat /\ oks[j] \in Nat
      /\ AttemptAccount(j) /\ SuccessAccount(j)
  BY Numbers
<1>6. attempts[j] < maxAttempts[j] + lapses[j] + overruns[j]
  <2>1. attempts[j] <= Cardinality(released[j]) + lapses[j] + Cardinality(Holders(j))
    BY <1>3, <1>5 DEF AttemptAccount
  <2>2. /\ Cardinality(released[j]) <= maxAttempts[j] - 1
        /\ Cardinality(released[j]) \in Nat
    BY <1>3, ReleasedCard
  <2>3. QED BY <1>4, <1>5, <2>1, <2>2, GroupSizes
<1>7. oks[j] + Cardinality(Hopeful(j)) <= lapses[j] + overruns[j]
  <2>1. oks[j] <= lapses[j] + Cardinality(Succeeded(j))
    BY <1>3, <1>5 DEF SuccessAccount
  <2>2. QED BY <1>4, <1>5, <2>1, GroupSizes
<1>8. Unix(readAt[w]) \in Nat BY UnixType DEF Base, TypeOK
<1>9. /\ reservedAt' \in [Job -> Nat \cup {NULL}]
      /\ attempts' \in [Job -> Nat]
      /\ reservedAt'[j] = Unix(readAt[w]) /\ reservedAt'[j] # NULL
      /\ attempts'[j] = attempts[j] + 1
      /\ \A k \in Job : k # j =>
            attempts'[k] = attempts[k] /\ reservedAt'[k] = reservedAt[k]
  BY <1>8 DEF Reserve, Base, TypeOK, NULL
<1>10. QED BY <1>2, <1>3, <1>4, <1>6, <1>7, <1>9

\* The new holder guards the row, unless its claim was late.
LEMMA ClaimStep ==
    ASSUME LeaseCoversJob, Base, NEW w \in Worker, NEW j \in Job, Claim(w, j)
    PROVE  Base'
<1> DEFINE ran == j \notin Unhandled
<1>1. pc[w] = "claim" /\ Selected(j, readAt[w]) /\ Reserve(w, j)
  BY DEF Claim
<1>2. /\ w \notin Holders(j)
      /\ status[j] = "queued"
      /\ Cardinality(Holders(j)) <= overruns[j]
      /\ attempts[j] < maxAttempts[j] + lapses[j] + overruns[j]
      /\ oks[j] + Cardinality(Hopeful(j)) <= lapses[j] + overruns[j]
      /\ reservedAt' \in [Job -> Nat \cup {NULL}]
      /\ attempts' \in [Job -> Nat]
      /\ reservedAt'[j] = Unix(readAt[w]) /\ reservedAt'[j] # NULL
      /\ attempts'[j] = attempts[j] + 1
      /\ \A k \in Job : k # j =>
            attempts'[k] = attempts[k] /\ reservedAt'[k] = reservedAt[k]
  BY <1>1, ReserveFacts
<1>3. /\ pc'[w] = (IF ran THEN "run" ELSE "final")
      /\ job'[w] = j /\ tries'[w] = attempts[j] /\ readAt'[w] = readAt[w]
      /\ timer'[w] = IF ran THEN now + JobTimeout ELSE now + JobTimeout + FinalizeTimeout
      /\ ~ran => cause'[w] = "unhandled"
  BY DEF Claim, Base, TypeOK
<1>4. \A v \in Worker : v # w => Same(v)
  BY DEF Claim, Base, TypeOK, Same
<1>5. /\ \A k \in Job : k # j =>
            executions'[k] = executions[k] /\ overruns'[k] = overruns[k]
      /\ executions'[j] = IF ran THEN executions[j] + 1 ELSE executions[j]
      /\ overruns'[j] = IF w \in late THEN overruns[j] + 1 ELSE overruns[j]
  BY DEF Claim, Base, TypeOK
<1>6. UNCHANGED <<now, status, maxAttempts, availableAt, createdAt, srv, asked, late,
                  oks, lapses, released, faults, stops>>
  BY DEF Claim, Reserve, process, budget
<1>7. TypeOK'
  <2>1. /\ pc' \in [Worker -> {"off", "poll", "claim", "run", "final"}]
        /\ job' \in [Worker -> Job \cup {None}]
        /\ tries' \in [Worker -> Nat] /\ readAt' \in [Worker -> Nat]
    BY DEF Claim, Base, TypeOK
  <2>2. timer' \in [Worker -> Nat]
    <3>1. now + JobTimeout \in Nat /\ now + JobTimeout + FinalizeTimeout \in Nat
      BY ConstantsAssumption DEF Base, TypeOK
    <3>2. \/ timer' = [timer EXCEPT ![w] = now + JobTimeout]
          \/ timer' = [timer EXCEPT ![w] = now + JobTimeout + FinalizeTimeout]
      BY DEF Claim
    <3>3. QED BY <3>1, <3>2 DEF Base, TypeOK
  <2>3. cause' \in [Worker -> Outcome \cup {"none"}]
    <3>1. "unhandled" \in Outcome BY DEF Outcome, Result
    <3>2. cause' = cause \/ cause' = [cause EXCEPT ![w] = "unhandled"] BY DEF Claim
    <3>3. QED BY <3>1, <3>2 DEF Base, TypeOK
  <2>4. executions' \in [Job -> Nat] BY DEF Claim, Base, TypeOK
  <2>5. overruns' \in [Job -> Nat] BY DEF Claim, Base, TypeOK
  <2>6. QED BY <1>2, <1>6, <2>1, <2>2, <2>3, <2>4, <2>5 DEF Base, TypeOK
<1>8. OffOutsideRun' BY <1>1, <1>4, <1>6 DEF Base, OffOutsideRun, Same
<1>9. HolderShape' BY <1>3, <1>4 DEF Base, HolderShape, Holding, Same
<1>10. WithinLease'
  <2>1. /\ now \in Nat /\ readAt[w] \in Nat /\ timer[w] \in Nat
        /\ readAt[w] <= now + MaxSkew
        /\ w \notin late => now <= timer[w] /\ timer[w] <= readAt[w] + ClaimDelay
    BY <1>1 DEF Base, TypeOK, WithinLease, TimerFits
  <2>2. /\ timer'[w] >= now
        /\ pc'[w] = "run" /\ w \notin late =>
              timer'[w] <= readAt[w] + ClaimDelay + JobTimeout
        /\ w \notin late =>
              timer'[w] <= readAt[w] + ClaimDelay + JobTimeout + FinalizeTimeout
    BY <1>3, <2>1, ConstantsAssumption
  <2>3. QED BY <1>3, <1>4, <1>6, <2>1, <2>2 DEF Base, WithinLease, TimerFits, Same
<1>11. attempts[j] \in Nat BY Numbers
<1>12. \A v \in Worker : v # w => (Holding(v)' <=> Holding(v)) BY <1>4 DEF Holding, Same
<1>13. Attempts'
  <2> SUFFICES ASSUME NEW v \in Worker, Holding(v)'
      PROVE  /\ status'[job'[v]] # "absent"
             /\ tries'[v] + 1 <= attempts'[job'[v]]
             /\ tries'[v] + 1 \notin released'[job'[v]]
             /\ tries'[v] + 1 = attempts'[job'[v]] =>
                   reservedAt'[job'[v]] \in {NULL, Unix(readAt'[v])}
             /\ \A u \in Worker \ {v} :
                   Holding(u)' /\ job'[u] = job'[v] => tries'[u] # tries'[v]
    BY DEF Attempts, Unix, NULL
  <2>1. \A u \in Worker : u # w /\ Holding(u) /\ job[u] = j =>
           tries[u] \in Nat /\ tries[u] + 1 <= attempts[j]
    BY HolderFacts
  <2>2. attempts[j] + 1 \notin released[j]
    <3>1. \A n \in released[j] : n \in 1..attempts[j] BY Numbers DEF AttemptAccount
    <3>2. QED BY <1>11, <3>1
  <2>3. CASE v = w
    <3>1. \A u \in Worker \ {v} : Holding(u)' /\ job'[u] = j => tries'[u] # attempts[j]
      BY <1>4, <1>11, <1>12, <2>1, <2>3 DEF Same
    <3>2. QED BY <1>2, <1>3, <1>6, <1>11, <2>2, <2>3, <3>1
  <2>4. CASE v # w
    <3>1. Holding(v) /\ Same(v) /\ job[v] \in Job
      BY <1>4, <1>12, <2>4 DEF Base, HolderShape
    <3>2. /\ status[job[v]] # "absent"
          /\ tries[v] + 1 <= attempts[job[v]]
          /\ tries[v] + 1 \notin released[job[v]]
          /\ tries[v] \in Nat /\ attempts[job[v]] \in Nat
      BY <3>1, HolderFacts
    <3>3. \A u \in Worker \ {v} :
             Holding(u)' /\ job'[u] = job'[v] => tries'[u] # tries'[v]
      <4> SUFFICES ASSUME NEW u \in Worker \ {v}, Holding(u)', job'[u] = job'[v]
                   PROVE  tries'[u] # tries'[v]
        OBVIOUS
      <4>1. CASE u = w
        BY <1>3, <1>11, <2>1, <2>4, <3>1, <4>1 DEF Same
      <4>2. CASE u # w
        BY <1>4, <1>12, <3>1, <4>2 DEF Same, Base, Attempts
      <4>3. QED BY <4>1, <4>2
    <3>4. CASE job[v] = j
      BY <1>2, <1>6, <3>1, <3>2, <3>3, <3>4 DEF Same
    <3>5. CASE job[v] # j
      BY <1>2, <1>6, <3>1, <3>2, <3>3, <3>5 DEF Same, Base, Attempts
    <3>6. QED BY <3>4, <3>5
  <2>5. QED BY <2>3, <2>4
<1>14. ASSUME NEW k \in Job
       PROVE  /\ AttemptAccount(k)' /\ SuccessAccount(k)'
              /\ Cardinality(Strays(k)') <= overruns'[k]
  <2>1. CASE k # j
    <3>1. SameRow(k) BY <1>2, <1>5, <1>6, <2>1 DEF SameRow
    <3>2. \A v \in Worker : (Holding(v)' /\ job'[v] = k) <=> (Holding(v) /\ job[v] = k)
      BY <1>1, <1>3, <1>4, <1>12, <2>1 DEF Same, Holding
    <3>3. \A v \in Worker : Holding(v) /\ job[v] = k => Same(v)
      BY <1>1, <1>4 DEF Holding
    <3>4. QED BY <3>1, <3>2, <3>3, SameAccounts
  <2>2. CASE k = j
    <3>1. Holders(j)' = Holders(j) \cup {w}
      BY <1>3, <1>4, <1>12 DEF Holders, Same, Holding
    <3>2. Succeeded(j)' = Succeeded(j)
      BY <1>2, <1>3, <1>4, <3>1 DEF Succeeded, Same, Holders
    <3>3. Hopeful(j)' \in SUBSET (Hopeful(j) \cup {w})
      BY <1>4, <3>1 DEF Hopeful, Same, Holders
    <3>4. Strays(j)' \in SUBSET (IF w \in late THEN Holders(j) \cup {w} ELSE Holders(j))
      <4>1. w \notin late => Guarding(w)'
        BY <1>2, <1>3, <1>6 DEF Guarding, NULL
      <4>2. Strays(j)' \in SUBSET (Holders(j) \cup {w}) BY <3>1 DEF Strays
      <4>3. w \notin late => w \notin Strays(j)' BY <4>1 DEF Strays
      <4>4. QED BY <4>2, <4>3
    <3>5. /\ Cardinality(Holders(j)') = Cardinality(Holders(j)) + 1
          /\ Cardinality(Holders(j)') \in Nat
      BY <1>2, <3>1, Groups, AddCard
    <3>6. Cardinality(Hopeful(j)') <= Cardinality(Hopeful(j)) + 1
          /\ Cardinality(Hopeful(j)') \in Nat
      <4>1. Hopeful(j) \cup {w} \in SUBSET Worker BY Groups
      <4>2. Cardinality(Hopeful(j)') <= Cardinality(Hopeful(j) \cup {w})
            /\ Cardinality(Hopeful(j)') \in Nat
        BY <3>3, <4>1, PartCard
      <4>3. Cardinality(Hopeful(j) \cup {w}) <= Cardinality(Hopeful(j)) + 1
            /\ Cardinality(Hopeful(j) \cup {w}) \in Nat
        BY Groups, AddCard
      <4>4. QED BY <4>2, <4>3, GroupSizes
    <3>7. /\ attempts[j] \in Nat /\ maxAttempts[j] \in Nat /\ lapses[j] \in Nat
          /\ overruns[j] \in Nat /\ oks[j] \in Nat /\ executions[j] \in Nat
          /\ AttemptAccount(j) /\ SuccessAccount(j)
      BY Numbers
    <3>8. overruns'[j] \in Nat /\ overruns[j] <= overruns'[j]
      BY <1>5, <3>7
    <3>9. Cardinality(Strays(j)') <= overruns'[j]
      <4>1. Holders(j) \in SUBSET Worker /\ Holders(j) \cup {w} \in SUBSET Worker
        BY Groups
      <4>2. CASE w \in late
        <5>1. Cardinality(Strays(j)') <= Cardinality(Holders(j)')
          BY <3>1, <3>4, <4>1, <4>2, PartCard
        <5>2. Cardinality(Strays(j)') \in Nat BY <3>1, <3>4, <4>1, <4>2, PartCard
        <5>3. QED BY <1>2, <1>5, <3>5, <3>7, <4>2, <5>1, <5>2, GroupSizes
      <4>3. CASE w \notin late
        <5>1. Cardinality(Strays(j)') <= Cardinality(Holders(j))
              /\ Cardinality(Strays(j)') \in Nat
          BY <3>4, <4>1, <4>3, PartCard
        <5>2. QED BY <1>2, <1>5, <3>7, <4>3, <5>1, GroupSizes
      <4>4. QED BY <4>2, <4>3
    <3>10. AttemptAccount(j)'
      <4>1. /\ status'[j] = "queued" /\ maxAttempts'[j] = maxAttempts[j]
            /\ lapses'[j] = lapses[j] /\ released'[j] = released[j]
            /\ attempts'[j] = attempts[j] + 1
        BY <1>2, <1>6
      <4>2. Cardinality(released[j]) \in Nat BY <1>2, ReleasedCard
      <4>3. /\ executions'[j] <= attempts'[j]
            /\ j \notin Unhandled => attempts'[j] <= executions'[j] + lapses'[j]
        BY <1>5, <3>7, <4>1 DEF AttemptAccount
      <4>4. attempts'[j] <= Cardinality(released'[j]) + lapses'[j]
                               + Cardinality(Holders(j)')
        BY <1>2, <3>5, <3>7, <4>1, <4>2, GroupSizes DEF AttemptAccount
      <4>5. attempts'[j] <= maxAttempts'[j] + lapses'[j] + overruns'[j]
        BY <1>2, <3>7, <3>8, <4>1
      <4>6. \A n \in released'[j] : n \in 1..attempts'[j] /\ n < maxAttempts'[j]
        BY <3>7, <4>1 DEF AttemptAccount
      <4>7. maxAttempts'[j] \in 1..(MaxRetry + 1)
        BY <1>2, <3>7, <4>1 DEF AttemptAccount
      <4>8. QED BY <4>1, <4>3, <4>4, <4>5, <4>6, <4>7 DEF AttemptAccount
    <3>11. SuccessAccount(j)'
      BY <1>2, <1>6, <3>2, <3>6, <3>7, <3>8, GroupSizes DEF SuccessAccount
    <3>12. QED BY <2>2, <3>9, <3>10, <3>11
  <2>3. QED BY <2>1, <2>2
<1>15. QED
  BY <1>7, <1>8, <1>9, <1>10, <1>13, <1>14 DEF Base, StraysPaid, Accounts

\* The row is reserved for nobody, and that lapse is counted.
LEMMA ClaimAnswerLostStep ==
    ASSUME LeaseCoversJob, Base, NEW w \in Worker, NEW j \in Job, ClaimAnswerLost(w, j)
    PROVE  Base'
<1>1. pc[w] = "claim" /\ Selected(j, readAt[w]) /\ Reserve(w, j)
      /\ Idle(w, "poll", now + PollInterval)
  BY DEF ClaimAnswerLost
<1>2. /\ status[j] = "queued"
      /\ Cardinality(Holders(j)) <= overruns[j]
      /\ attempts[j] < maxAttempts[j] + lapses[j] + overruns[j]
      /\ reservedAt' \in [Job -> Nat \cup {NULL}]
      /\ attempts' \in [Job -> Nat]
      /\ attempts'[j] = attempts[j] + 1
      /\ \A k \in Job : k # j =>
            attempts'[k] = attempts[k] /\ reservedAt'[k] = reservedAt[k]
  BY <1>1, ReserveFacts
<1>3. now + PollInterval \in Nat BY ConstantsAssumption DEF Base, TypeOK
<1>4. UNCHANGED <<now, status, maxAttempts, availableAt, createdAt, srv, asked,
                  executions, oks, overruns, released, stops>>
  BY DEF ClaimAnswerLost, Reserve, process
<1>5. /\ lapses' \in [Job -> Nat] /\ faults' \in Nat
      /\ lapses'[j] = lapses[j] + 1
      /\ \A k \in Job : k # j => lapses'[k] = lapses[k]
  BY DEF ClaimAnswerLost, Base, TypeOK
<1>6. /\ pc' \in [Worker -> {"off", "poll", "claim", "run", "final"}]
      /\ job' \in [Worker -> Job \cup {None}]
      /\ tries' \in [Worker -> Nat]
      /\ readAt' \in [Worker -> Nat]
      /\ timer' \in [Worker -> Nat]
      /\ cause' \in [Worker -> Outcome \cup {"none"}]
      /\ late' \in SUBSET Worker
      /\ OffOutsideRun' /\ HolderShape' /\ WithinLease'
      /\ ~Holding(w)'
      /\ \A v \in Worker : v # w => Same(v)
  BY <1>1, <1>3, <1>4, LetGo
<1>7. TypeOK' BY <1>2, <1>4, <1>5, <1>6 DEF Base, TypeOK
<1>8. ~Holding(w) BY <1>1 DEF Holding
<1>9. \A v \in Worker : Holding(v)' <=> Holding(v) BY <1>6, <1>8 DEF Holding, Same
<1>10. \A v \in Worker : Holding(v) => Same(v) BY <1>6, <1>8
<1>11. Attempts'
  <2> SUFFICES ASSUME NEW v \in Worker, Holding(v)'
      PROVE  /\ status'[job'[v]] # "absent"
             /\ tries'[v] + 1 <= attempts'[job'[v]]
             /\ tries'[v] + 1 \notin released'[job'[v]]
             /\ tries'[v] + 1 = attempts'[job'[v]] =>
                   reservedAt'[job'[v]] \in {NULL, Unix(readAt'[v])}
             /\ \A u \in Worker \ {v} :
                   Holding(u)' /\ job'[u] = job'[v] => tries'[u] # tries'[v]
    BY DEF Attempts, Unix, NULL
  <2>1. Holding(v) /\ Same(v) /\ job[v] \in Job
    BY <1>9, <1>10 DEF Base, HolderShape
  <2>2. /\ status[job[v]] # "absent"
        /\ tries[v] + 1 <= attempts[job[v]]
        /\ tries[v] + 1 \notin released[job[v]]
        /\ tries[v] \in Nat /\ attempts[job[v]] \in Nat
    BY <2>1, HolderFacts
  <2>3. \A u \in Worker \ {v} :
           Holding(u)' /\ job'[u] = job'[v] => tries'[u] # tries'[v]
    BY <1>9, <1>10, <2>1 DEF Same, Base, Attempts
  <2>4. CASE job[v] = j
    BY <1>2, <1>4, <2>1, <2>2, <2>3, <2>4 DEF Same
  <2>5. CASE job[v] # j
    BY <1>2, <1>4, <2>1, <2>2, <2>3, <2>5 DEF Same, Base, Attempts
  <2>6. QED BY <2>4, <2>5
<1>12. ASSUME NEW k \in Job
       PROVE  /\ AttemptAccount(k)' /\ SuccessAccount(k)'
              /\ Cardinality(Strays(k)') <= overruns'[k]
  <2>1. CASE k # j
    <3>1. SameRow(k) BY <1>2, <1>4, <1>5, <2>1 DEF SameRow
    <3>2. \A v \in Worker : (Holding(v)' /\ job'[v] = k) <=> (Holding(v) /\ job[v] = k)
      BY <1>9, <1>10 DEF Same
    <3>3. QED BY <1>10, <3>1, <3>2, SameAccounts
  <2>2. CASE k = j
    <3>1. Holders(j)' = Holders(j) BY <1>9, <1>10 DEF Holders, Same
    <3>2. Succeeded(j)' = Succeeded(j) /\ Hopeful(j)' = Hopeful(j)
      BY <1>10, <3>1 DEF Succeeded, Hopeful, Same, Holders
    <3>3. Strays(j)' \in SUBSET Holders(j) BY <3>1 DEF Strays
    <3>4. /\ attempts[j] \in Nat /\ maxAttempts[j] \in Nat /\ lapses[j] \in Nat
          /\ overruns[j] \in Nat /\ oks[j] \in Nat /\ executions[j] \in Nat
          /\ AttemptAccount(j) /\ SuccessAccount(j)
      BY Numbers
    <3>5. Cardinality(Strays(j)') <= overruns'[j]
      <4>1. Cardinality(Strays(j)') <= Cardinality(Holders(j))
            /\ Cardinality(Strays(j)') \in Nat
        BY <3>3, Groups, PartCard
      <4>2. QED BY <1>2, <1>4, <3>4, <4>1, GroupSizes
    <3>6. AttemptAccount(j)'
      <4>1. /\ status'[j] = "queued" /\ maxAttempts'[j] = maxAttempts[j]
            /\ lapses'[j] = lapses[j] + 1 /\ released'[j] = released[j]
            /\ attempts'[j] = attempts[j] + 1 /\ executions'[j] = executions[j]
            /\ overruns'[j] = overruns[j]
        BY <1>2, <1>4, <1>5
      <4>2. Cardinality(released[j]) \in Nat BY <1>2, ReleasedCard
      <4>3. \A n \in released'[j] : n \in 1..attempts'[j] /\ n < maxAttempts'[j]
        BY <3>4, <4>1 DEF AttemptAccount
      <4>4. QED
        BY <1>2, <3>1, <3>4, <4>1, <4>2, <4>3, GroupSizes DEF AttemptAccount
    <3>7. SuccessAccount(j)'
      BY <1>4, <1>5, <3>2, <3>4, GroupSizes DEF SuccessAccount
    <3>8. QED BY <2>2, <3>5, <3>6, <3>7
  <2>3. QED BY <2>1, <2>2
<1>13. QED
  BY <1>6, <1>7, <1>11, <1>12 DEF Base, StraysPaid, Accounts

-----------------------------------------------------------------------------
(* The end of a hold. *)

\* A handler that returns leaves the row as it is; its result is remembered.
LEMMA HandlerReturnsStep ==
    ASSUME Base, NEW w \in Worker, NEW r \in Result, HandlerReturns(w, r)
    PROVE  Base'
<1>1. PICK j \in Job : job[w] = j /\ j \notin Unhandled
  BY DEF HandlerReturns, Base, HolderShape, Holding
<1>2. /\ pc[w] = "run" /\ pc'[w] = "final" /\ cause'[w] = r
      /\ timer'[w] = now + FinalizeTimeout
      /\ \A v \in Worker : v # w => Same(v)
  BY DEF HandlerReturns, Base, TypeOK, Same
<1>3. UNCHANGED <<now, status, attempts, maxAttempts, reservedAt, availableAt,
                  createdAt, srv, asked, job, tries, readAt, late, executions,
                  lapses, overruns, released, faults, stops>>
  BY DEF HandlerReturns, table, process, budget
<1>4. oks' = [oks EXCEPT ![j] = IF r = "ok" THEN @ + 1 ELSE @]
  BY <1>1 DEF HandlerReturns
<1>5. /\ oks' \in [Job -> Nat]
      /\ oks'[j] = IF r = "ok" THEN oks[j] + 1 ELSE oks[j]
      /\ \A k \in Job : k # j => oks'[k] = oks[k]
  BY <1>4 DEF Base, TypeOK
<1>6. TypeOK'
  <2>1. now + FinalizeTimeout \in Nat BY ConstantsAssumption DEF Base, TypeOK
  <2>2. pc' \in [Worker -> {"off", "poll", "claim", "run", "final"}]
    BY DEF HandlerReturns, Base, TypeOK
  <2>3. timer' \in [Worker -> Nat] BY <2>1 DEF HandlerReturns, Base, TypeOK
  <2>4. cause' \in [Worker -> Outcome \cup {"none"}]
    BY DEF HandlerReturns, Base, TypeOK, Outcome
  <2>5. QED BY <1>3, <1>5, <2>2, <2>3, <2>4 DEF Base, TypeOK
<1>7. OffOutsideRun' BY <1>2, <1>3 DEF Base, OffOutsideRun, Same
<1>8. HolderShape'
  <2>1. r # "none" /\ r # "unhandled" BY DEF Result
  <2>2. QED BY <1>1, <1>2, <1>3, <2>1 DEF Base, HolderShape, Holding, Same
<1>9. WithinLease'
  <2>1. /\ now \in Nat /\ timer[w] \in Nat /\ readAt[w] \in Nat
        /\ readAt[w] <= now + MaxSkew
        /\ w \notin late =>
              now <= timer[w] /\ timer[w] <= readAt[w] + ClaimDelay + JobTimeout
    BY <1>2 DEF Base, TypeOK, WithinLease, TimerFits
  <2>2. /\ now <= now + FinalizeTimeout
        /\ w \notin late => now + FinalizeTimeout
              <= readAt[w] + ClaimDelay + JobTimeout + FinalizeTimeout
    <3>1. ClaimDelay \in Nat /\ JobTimeout \in Nat /\ FinalizeTimeout \in Nat
      BY ConstantsAssumption
    <3>2. now <= now + FinalizeTimeout BY <2>1, <3>1
    <3>3. ASSUME w \notin late
          PROVE  now + FinalizeTimeout
                    <= readAt[w] + ClaimDelay + JobTimeout + FinalizeTimeout
      <4>1. now <= readAt[w] + ClaimDelay + JobTimeout
        <5>1. now <= timer[w] /\ timer[w] <= readAt[w] + ClaimDelay + JobTimeout
          BY <2>1, <3>3
        <5>2. QED BY <2>1, <3>1, <5>1
      <4>2. QED BY <2>1, <3>1, <4>1
    <3>4. QED BY <3>2, <3>3
  <2>3. QED BY <1>2, <1>3, <2>1, <2>2 DEF Base, WithinLease, TimerFits, Same
<1>10. \A v \in Worker : Holding(v)' <=> Holding(v) BY <1>2 DEF Holding, Same
<1>11. Attempts' BY <1>3, <1>10, AttemptsKept DEF SameClaims
<1>12. ASSUME NEW k \in Job
       PROVE  /\ AttemptAccount(k)' /\ SuccessAccount(k)'
              /\ Cardinality(Strays(k)') <= overruns'[k]
  <2>1. Holders(k)' = Holders(k) BY <1>3, <1>10 DEF Holders
  <2>2. Strays(k)' = Strays(k) BY <1>3, <2>1 DEF Strays, Guarding, NULL
  <2>3. /\ AttemptAccount(k) /\ SuccessAccount(k)
        /\ Cardinality(Strays(k)) <= overruns[k]
        /\ oks[k] \in Nat /\ lapses[k] \in Nat /\ overruns[k] \in Nat
    BY Numbers
  <2>4. status[j] # "absent" BY <1>1, <1>2, HolderFacts DEF Holding
  <2>5. AttemptAccount(k)'
    BY <1>3, <1>5, <2>1, <2>3, <2>4 DEF AttemptAccount, NULL
  <2>6. CASE k # j
    <3>1. \A v \in Holders(k) : v # w BY <1>1, <2>6 DEF Holders
    <3>2. Hopeful(k)' = Hopeful(k) /\ Succeeded(k)' = Succeeded(k)
      BY <1>2, <2>1, <3>1 DEF Hopeful, Succeeded, Same, Holders
    <3>3. QED BY <1>3, <1>5, <2>2, <2>3, <2>5, <2>6, <3>2 DEF SuccessAccount
  <2>7. CASE k = j
    <3>1. w \in Holders(k) /\ w \in Hopeful(k) /\ w \notin Succeeded(k)
      BY <1>1, <1>2, <2>7 DEF Holders, Holding, Hopeful, Succeeded
    <3>2. Hopeful(k)' = Hopeful(k) \ {w}
      BY <1>2, <2>1 DEF Hopeful, Same, Holders
    <3>3. Succeeded(k)' = IF r = "ok" THEN Succeeded(k) \cup {w} ELSE Succeeded(k)
      BY <1>2, <2>1, <3>1 DEF Succeeded, Same, Holders
    <3>4. Cardinality(Hopeful(k)') = Cardinality(Hopeful(k)) - 1
      BY <3>1, <3>2, Groups, RemoveCard
    <3>5. r = "ok" => Cardinality(Succeeded(k)') = Cardinality(Succeeded(k)) + 1
      BY <3>1, <3>3, Groups, AddCard
    <3>6. r # "ok" => Cardinality(Succeeded(k)') = Cardinality(Succeeded(k)) BY <3>3
    <3>7. SuccessAccount(k)'
      <4>1. CASE r = "ok"
        BY <1>3, <1>5, <2>3, <2>7, <3>4, <3>5, <4>1, GroupSizes DEF SuccessAccount
      <4>2. CASE r # "ok"
        BY <1>3, <1>5, <2>3, <2>7, <3>4, <3>6, <4>2, GroupSizes DEF SuccessAccount
      <4>3. QED BY <4>1, <4>2
    <3>8. QED BY <1>3, <2>2, <2>3, <2>5, <3>7
  <2>8. QED BY <2>6, <2>7
<1>13. QED
  BY <1>6, <1>7, <1>8, <1>9, <1>11, <1>12 DEF Base, StraysPaid, Accounts

\* What a goroutine that lets go of j after finish or release leaves behind.
LEMMA Leaving ==
    ASSUME Base, NEW w \in Worker, pc[w] = "final", NEW j \in Job, job[w] = j,
           Idle(w, "poll", now), UNCHANGED <<now, srv>>
    PROVE  /\ pc' \in [Worker -> {"off", "poll", "claim", "run", "final"}]
           /\ job' \in [Worker -> Job \cup {None}]
           /\ tries' \in [Worker -> Nat]
           /\ readAt' \in [Worker -> Nat]
           /\ timer' \in [Worker -> Nat]
           /\ cause' \in [Worker -> Outcome \cup {"none"}]
           /\ late' \in SUBSET Worker
           /\ OffOutsideRun' /\ HolderShape' /\ WithinLease'
           /\ \A v \in Worker : v # w => Same(v)
           /\ \A v \in Worker : Holding(v)' <=> Holding(v) /\ v # w
           /\ w \in Holders(j)
           /\ Holders(j)' = Holders(j) \ {w}
           /\ Cardinality(Holders(j)) = Cardinality(Holders(j)') + 1
           /\ Cardinality(Holders(j)') \in Nat
           /\ Cardinality(Holders(j)') <= overruns[j]
           /\ Cardinality(Strays(j)') <= overruns[j]
           /\ Cardinality(Hopeful(j)') = Cardinality(Hopeful(j))
           /\ Cardinality(Succeeded(j)') \in Nat
           /\ Cardinality(Succeeded(j)) <= Cardinality(Succeeded(j)') + 1
           /\ cause[w] # "ok" => Cardinality(Succeeded(j)') = Cardinality(Succeeded(j))
<1>1. now \in Nat BY DEF Base, TypeOK
<1>2. /\ pc' \in [Worker -> {"off", "poll", "claim", "run", "final"}]
      /\ job' \in [Worker -> Job \cup {None}]
      /\ tries' \in [Worker -> Nat]
      /\ readAt' \in [Worker -> Nat]
      /\ timer' \in [Worker -> Nat]
      /\ cause' \in [Worker -> Outcome \cup {"none"}]
      /\ late' \in SUBSET Worker
      /\ OffOutsideRun' /\ HolderShape' /\ WithinLease'
      /\ ~Holding(w)'
      /\ \A v \in Worker : v # w => Same(v)
  BY <1>1, LetGo
<1>3. \A v \in Worker : Holding(v)' <=> Holding(v) /\ v # w
  BY <1>2 DEF Holding, Same
<1>4. w \in Holders(j) /\ w \notin Hopeful(j)
  BY DEF Holders, Holding, Hopeful
<1>5. Holders(j)' = Holders(j) \ {w} BY <1>2, <1>3 DEF Holders, Same
<1>6. Hopeful(j)' = Hopeful(j) BY <1>2, <1>4, <1>5 DEF Hopeful, Same, Holders
<1>7. Succeeded(j)' = Succeeded(j) \ {w} BY <1>2, <1>5 DEF Succeeded, Same, Holders
<1>8. /\ Cardinality(Holders(j)) = Cardinality(Holders(j)') + 1
      /\ Cardinality(Holders(j)') \in Nat
  BY <1>4, <1>5, Groups, RemoveCard, GroupSizes
<1>9. Cardinality(Holders(j)') <= overruns[j]
  <2>1. Cardinality(Holders(j)) <= 1 + overruns[j] BY Exclusive DEF ExclusiveExecution
  <2>2. QED BY <1>8, <2>1, Numbers
<1>10. Cardinality(Strays(j)') <= overruns[j]
  <2>1. Strays(j)' \in SUBSET (Holders(j) \ {w}) BY <1>5 DEF Strays
  <2>2. Holders(j) \ {w} \in SUBSET Worker BY Groups
  <2>3. Cardinality(Strays(j)') <= Cardinality(Holders(j)')
        /\ Cardinality(Strays(j)') \in Nat
    BY <1>5, <2>1, <2>2, PartCard
  <2>4. QED BY <1>8, <1>9, <2>3, Numbers
<1>11. /\ Cardinality(Succeeded(j)') \in Nat
       /\ Cardinality(Succeeded(j)) <= Cardinality(Succeeded(j)') + 1
  BY <1>7, Groups, RemoveCard, GroupSizes
<1>12. cause[w] # "ok" => Cardinality(Succeeded(j)') = Cardinality(Succeeded(j))
  <2>1. cause[w] # "ok" => w \notin Succeeded(j) BY DEF Succeeded
  <2>2. QED BY <1>7, <2>1, Groups, RemoveCard
<1>13. QED
  BY <1>2, <1>3, <1>4, <1>5, <1>6, <1>8, <1>9, <1>10, <1>11, <1>12

\* The accounts of the other rows.
LEMMA OthersStay ==
    ASSUME Base, NEW w \in Worker, NEW j \in Job, job[w] = j,
           \A v \in Worker : v # w => Same(v),
           \A v \in Worker : Holding(v)' <=> Holding(v) /\ v # w,
           NEW k \in Job, k # j, SameRow(k)
    PROVE  /\ AttemptAccount(k)' /\ SuccessAccount(k)'
           /\ Cardinality(Strays(k)') <= overruns'[k]
<1>1. \A v \in Worker : (Holding(v)' /\ job'[v] = k) <=> (Holding(v) /\ job[v] = k)
  BY DEF Same
<1>2. \A v \in Worker : Holding(v) /\ job[v] = k => Same(v) OBVIOUS
<1>3. QED BY <1>1, <1>2, SameAccounts

\* finish deletes the row for good, whoever else holds it; a failure is given up
\* when no attempt is left.
LEMMA FinishStep == ASSUME Base, NEW w \in Worker, Finish(w) PROVE Base'
<1>1. PICK j \in Job : job[w] = j BY DEF Finish, Base, HolderShape, Holding
<1>2. pc[w] = "final" /\ Idle(w, "poll", now) /\ Finishes(w) BY DEF Finish
<1>3. UNCHANGED <<now, attempts, maxAttempts, reservedAt, availableAt, createdAt,
                  srv, asked, executions, oks, lapses, overruns, released, faults, stops>>
  BY DEF Finish, process, history, budget
<1>4. status' = [status EXCEPT ![j] = IF @ = "queued" THEN cause[w] ELSE @]
  BY <1>1 DEF Finish
<1>5. /\ pc' \in [Worker -> {"off", "poll", "claim", "run", "final"}]
      /\ job' \in [Worker -> Job \cup {None}]
      /\ tries' \in [Worker -> Nat]
      /\ readAt' \in [Worker -> Nat]
      /\ timer' \in [Worker -> Nat]
      /\ cause' \in [Worker -> Outcome \cup {"none"}]
      /\ late' \in SUBSET Worker
      /\ OffOutsideRun' /\ HolderShape' /\ WithinLease'
      /\ \A v \in Worker : v # w => Same(v)
      /\ \A v \in Worker : Holding(v)' <=> Holding(v) /\ v # w
      /\ w \in Holders(j)
      /\ Holders(j)' = Holders(j) \ {w}
      /\ Cardinality(Holders(j)) = Cardinality(Holders(j)') + 1
      /\ Cardinality(Holders(j)') \in Nat
      /\ Cardinality(Holders(j)') <= overruns[j]
      /\ Cardinality(Strays(j)') <= overruns[j]
      /\ Cardinality(Hopeful(j)') = Cardinality(Hopeful(j))
      /\ Cardinality(Succeeded(j)') \in Nat
      /\ Cardinality(Succeeded(j)) <= Cardinality(Succeeded(j)') + 1
      /\ cause[w] # "ok" => Cardinality(Succeeded(j)') = Cardinality(Succeeded(j))
  BY <1>1, <1>2, <1>3, Leaving
<1>6. /\ cause[w] \in Outcome /\ (cause[w] = "unhandled" <=> j \in Unhandled)
      /\ status[j] # "absent" /\ tries[w] \in Nat /\ tries[w] + 1 <= attempts[j]
  <2>1. cause[w] \in Outcome /\ (cause[w] = "unhandled" <=> j \in Unhandled)
    BY <1>1, <1>2 DEF Base, TypeOK, HolderShape, Holding
  <2>2. QED BY <1>1, <1>2, <2>1, HolderFacts DEF Holding
<1>7. /\ status' \in [Job -> {"absent", "queued"} \cup Outcome]
      /\ status'[j] = IF status[j] = "queued" THEN cause[w] ELSE status[j]
      /\ \A k \in Job : k # j => status'[k] = status[k]
  BY <1>4, <1>6 DEF Base, TypeOK
<1>8. status'[j] # "absent" /\ status'[j] # "queued"
  BY <1>6, <1>7 DEF Outcome, Result
<1>9. TypeOK' BY <1>3, <1>5, <1>7 DEF Base, TypeOK
<1>10. Attempts'
  <2>1. \A k \in Job : status[k] # "absent" => status'[k] # "absent" BY <1>7, <1>8
  <2>2. \A v \in Worker : Holding(v)' =>
           /\ Holding(v)
           /\ job'[v] = job[v] /\ tries'[v] = tries[v] /\ readAt'[v] = readAt[v]
    BY <1>5 DEF Same
  <2>3. QED BY <1>3, <2>1, <2>2, AttemptsKept DEF SameClaims
<1>11. ASSUME NEW k \in Job
       PROVE  /\ AttemptAccount(k)' /\ SuccessAccount(k)'
              /\ Cardinality(Strays(k)') <= overruns'[k]
  <2>1. CASE k # j
    <3>1. SameRow(k) BY <1>3, <1>7, <2>1 DEF SameRow
    <3>2. QED BY <1>1, <1>5, <2>1, <3>1, OthersStay
  <2>2. CASE k = j
    <3>1. /\ AttemptAccount(j) /\ SuccessAccount(j)
          /\ attempts[j] \in Nat /\ maxAttempts[j] \in Nat
          /\ released[j] \in SUBSET Nat
      BY Numbers
    <3>2. status'[j] \in {"error", "expired", "cancelled"} =>
             j \notin Unhandled /\ maxAttempts[j] <= attempts[j]
      <4>1. CASE status[j] = "queued"
        <5>1. status'[j] = cause[w] BY <1>7, <4>1
        <5>2. cause[w] \in {"error", "expired", "cancelled"} =>
                 tries[w] + 1 >= maxAttempts[j]
          BY <1>1, <1>2 DEF Finishes
        <5>3. cause[w] \in {"error", "expired", "cancelled"} => j \notin Unhandled
          BY <1>6
        <5>4. QED BY <1>6, <3>1, <5>1, <5>2, <5>3
      <4>2. CASE status[j] # "queued"
        BY <1>7, <3>1, <4>2 DEF AttemptAccount
      <4>3. QED BY <4>1, <4>2
    <3>3. AttemptAccount(j)'
      BY <1>3, <1>6, <1>8, <3>1, <3>2 DEF AttemptAccount
    <3>4. SuccessAccount(j)' BY <1>3, <1>5, <1>8, <3>1 DEF SuccessAccount
    <3>5. QED BY <1>3, <1>5, <2>2, <3>3, <3>4
  <2>3. QED BY <2>1, <2>2
<1>12. QED BY <1>5, <1>9, <1>10, <1>11 DEF Base, StraysPaid, Accounts

\* A finalize statement that fails leaves the row reserved until the lease lapses.
LEMMA FinalizeFailsStep == ASSUME Base, NEW w \in Worker, FinalizeFails(w) PROVE Base'
<1>1. PICK j \in Job : job[w] = j BY DEF FinalizeFails, Base, HolderShape, Holding
<1>2. pc[w] = "final" /\ Idle(w, "poll", now) BY DEF FinalizeFails
<1>3. UNCHANGED <<now, status, attempts, maxAttempts, reservedAt, availableAt,
                  createdAt, srv, asked, executions, oks, overruns, released, stops>>
  BY DEF FinalizeFails, table, process
<1>4. lapses' = [lapses EXCEPT ![j] = @ + 1] BY <1>1 DEF FinalizeFails
<1>5. /\ pc' \in [Worker -> {"off", "poll", "claim", "run", "final"}]
      /\ job' \in [Worker -> Job \cup {None}]
      /\ tries' \in [Worker -> Nat]
      /\ readAt' \in [Worker -> Nat]
      /\ timer' \in [Worker -> Nat]
      /\ cause' \in [Worker -> Outcome \cup {"none"}]
      /\ late' \in SUBSET Worker
      /\ OffOutsideRun' /\ HolderShape' /\ WithinLease'
      /\ \A v \in Worker : v # w => Same(v)
      /\ \A v \in Worker : Holding(v)' <=> Holding(v) /\ v # w
      /\ w \in Holders(j)
      /\ Holders(j)' = Holders(j) \ {w}
      /\ Cardinality(Holders(j)) = Cardinality(Holders(j)') + 1
      /\ Cardinality(Holders(j)') \in Nat
      /\ Cardinality(Holders(j)') <= overruns[j]
      /\ Cardinality(Strays(j)') <= overruns[j]
      /\ Cardinality(Hopeful(j)') = Cardinality(Hopeful(j))
      /\ Cardinality(Succeeded(j)') \in Nat
      /\ Cardinality(Succeeded(j)) <= Cardinality(Succeeded(j)') + 1
      /\ cause[w] # "ok" => Cardinality(Succeeded(j)') = Cardinality(Succeeded(j))
  BY <1>1, <1>2, <1>3, Leaving
<1>6. /\ lapses' \in [Job -> Nat] /\ lapses'[j] = lapses[j] + 1
      /\ \A k \in Job : k # j => lapses'[k] = lapses[k]
  BY <1>4 DEF Base, TypeOK
<1>7. faults' \in Nat BY DEF FinalizeFails, Base, TypeOK
<1>8. TypeOK' BY <1>3, <1>5, <1>6, <1>7 DEF Base, TypeOK
<1>9. Attempts'
  <2>1. \A v \in Worker : Holding(v)' =>
           /\ Holding(v)
           /\ job'[v] = job[v] /\ tries'[v] = tries[v] /\ readAt'[v] = readAt[v]
    BY <1>5 DEF Same
  <2>2. QED BY <1>3, <2>1, AttemptsKept DEF SameClaims
<1>10. ASSUME NEW k \in Job
       PROVE  /\ AttemptAccount(k)' /\ SuccessAccount(k)'
              /\ Cardinality(Strays(k)') <= overruns'[k]
  <2>1. CASE k # j
    <3>1. SameRow(k) BY <1>3, <1>6, <2>1 DEF SameRow
    <3>2. QED BY <1>1, <1>5, <2>1, <3>1, OthersStay
  <2>2. CASE k = j
    <3>1. /\ AttemptAccount(j) /\ SuccessAccount(j)
          /\ attempts[j] \in Nat /\ maxAttempts[j] \in Nat /\ executions[j] \in Nat
          /\ oks[j] \in Nat /\ lapses[j] \in Nat /\ overruns[j] \in Nat
      BY Numbers
    <3>2. status[j] # "absent" BY <1>1, <1>2, HolderFacts DEF Holding
    <3>3. Cardinality(released[j]) \in Nat BY <3>2, ReleasedCard
    <3>4. AttemptAccount(j)'
      BY <1>3, <1>5, <1>6, <3>1, <3>2, <3>3 DEF AttemptAccount
    <3>5. SuccessAccount(j)'
      BY <1>3, <1>5, <1>6, <3>1, GroupSizes DEF SuccessAccount
    <3>6. QED BY <1>3, <1>5, <2>2, <3>4, <3>5
  <2>3. QED BY <2>1, <2>2
<1>11. QED BY <1>5, <1>8, <1>9, <1>10 DEF Base, StraysPaid, Accounts

\* A released row is free: none of its holders guards it any more.  The attempt
\* that ends so is one of those the row allows.
LEMMA ReleaseStep == ASSUME Base, NEW w \in Worker, Release(w) PROVE Base'
<1>1. PICK j \in Job : job[w] = j BY DEF Release, Base, HolderShape, Holding
<1>2. pc[w] = "final" /\ Idle(w, "poll", now) /\ ~Finishes(w) BY DEF Release
<1>3. UNCHANGED <<now, status, attempts, maxAttempts, createdAt, srv, asked,
                  executions, oks, lapses, overruns, faults, stops>>
  BY DEF Release, process, budget
<1> DEFINE n == tries[w] + 1
<1>4. /\ tries[w] \in Nat /\ status[j] # "absent"
      /\ n <= attempts[j] /\ n \notin released[j]
  BY <1>1, <1>2, HolderFacts DEF Holding
<1>5. /\ attempts[j] \in Nat /\ maxAttempts[j] \in Nat /\ executions[j] \in Nat
      /\ oks[j] \in Nat /\ lapses[j] \in Nat /\ overruns[j] \in Nat
      /\ released[j] \in SUBSET Nat
      /\ AttemptAccount(j) /\ SuccessAccount(j)
  BY Numbers
<1>6. cause[w] # "ok" /\ n < maxAttempts[j]
  <2>1. cause[w] # "ok" /\ ~(tries[w] + 1 >= maxAttempts[j]) BY <1>1, <1>2 DEF Finishes
  <2>2. QED BY <1>4, <1>5, <2>1
<1>7. /\ pc' \in [Worker -> {"off", "poll", "claim", "run", "final"}]
      /\ job' \in [Worker -> Job \cup {None}]
      /\ tries' \in [Worker -> Nat]
      /\ readAt' \in [Worker -> Nat]
      /\ timer' \in [Worker -> Nat]
      /\ cause' \in [Worker -> Outcome \cup {"none"}]
      /\ late' \in SUBSET Worker
      /\ OffOutsideRun' /\ HolderShape' /\ WithinLease'
      /\ \A v \in Worker : v # w => Same(v)
      /\ \A v \in Worker : Holding(v)' <=> Holding(v) /\ v # w
      /\ w \in Holders(j)
      /\ Holders(j)' = Holders(j) \ {w}
      /\ Cardinality(Holders(j)) = Cardinality(Holders(j)') + 1
      /\ Cardinality(Holders(j)') \in Nat
      /\ Cardinality(Holders(j)') <= overruns[j]
      /\ Cardinality(Strays(j)') <= overruns[j]
      /\ Cardinality(Hopeful(j)') = Cardinality(Hopeful(j))
      /\ Cardinality(Succeeded(j)') \in Nat
      /\ Cardinality(Succeeded(j)) <= Cardinality(Succeeded(j)') + 1
      /\ cause[w] # "ok" => Cardinality(Succeeded(j)') = Cardinality(Succeeded(j))
  BY <1>1, <1>2, <1>3, Leaving
<1>8. /\ reservedAt' \in [Job -> Nat \cup {NULL}]
      /\ reservedAt'[j] = IF status[j] = "queued" THEN NULL ELSE reservedAt[j]
      /\ \A k \in Job : k # j => reservedAt'[k] = reservedAt[k]
  <2>1. reservedAt' = [reservedAt EXCEPT ![j] = IF status[j] = "queued" THEN NULL ELSE @]
    BY <1>1 DEF Release
  <2>2. QED BY <2>1 DEF Base, TypeOK
<1>9. /\ released' \in [Job -> SUBSET Nat]
      /\ released'[j] = released[j] \cup {n}
      /\ \A k \in Job : k # j => released'[k] = released[k]
  <2>1. released' = [released EXCEPT ![j] = @ \cup {n}] BY <1>1 DEF Release
  <2>2. n \in Nat BY <1>4
  <2> HIDE DEF n
  <2>3. QED BY <2>1, <2>2 DEF Base, TypeOK
<1>10. availableAt' \in [Job -> Nat]
  <2>1. Skew[w[1]] \in 0..MaxSkew BY WorkerServer, ConstantsAssumption
  <2>2. n \in 1..MaxRetry
    BY <1>4, <1>5, <1>6, ConstantsAssumption DEF AttemptAccount
  <2>3. RetryDelay[n] \in Nat BY <2>2, ConstantsAssumption
  <2>4. now + Skew[w[1]] + RetryDelay[n] \in Nat
    <3>1. now \in Nat /\ Skew[w[1]] \in Nat
      BY <2>1, ConstantsAssumption DEF Base, TypeOK
    <3> HIDE DEF n
    <3>2. QED BY <2>3, <3>1
  <2>5. Unix(now + Skew[w[1]] + RetryDelay[n]) \in Nat BY <2>4, UnixType
  <2>6. availableAt' = [availableAt EXCEPT ![j] =
            IF status[j] = "queued" THEN Unix(now + Skew[w[1]] + RetryDelay[n]) ELSE @]
    BY <1>1 DEF Release
  <2>7. QED BY <2>5, <2>6 DEF Base, TypeOK
<1>11. TypeOK' BY <1>3, <1>7, <1>8, <1>9, <1>10 DEF Base, TypeOK
<1> HIDE DEF n
<1>12. Attempts'
  <2> SUFFICES ASSUME NEW v \in Worker, Holding(v)'
      PROVE  /\ status'[job'[v]] # "absent"
             /\ tries'[v] + 1 <= attempts'[job'[v]]
             /\ tries'[v] + 1 \notin released'[job'[v]]
             /\ tries'[v] + 1 = attempts'[job'[v]] =>
                   reservedAt'[job'[v]] \in {NULL, Unix(readAt'[v])}
             /\ \A u \in Worker \ {v} :
                   Holding(u)' /\ job'[u] = job'[v] => tries'[u] # tries'[v]
    BY DEF Attempts, Unix, NULL
  <2>1. Holding(v) /\ v # w /\ Same(v) /\ job[v] \in Job
    BY <1>7 DEF Base, HolderShape
  <2>2. /\ status[job[v]] # "absent"
        /\ tries[v] + 1 <= attempts[job[v]]
        /\ tries[v] + 1 \notin released[job[v]]
        /\ tries[v] \in Nat
        /\ tries[v] + 1 = attempts[job[v]] =>
              reservedAt[job[v]] \in {NULL, Unix(readAt[v])}
    BY <2>1, HolderFacts DEF Base, Attempts
  <2>3. \A u \in Worker \ {v} :
           Holding(u)' /\ job'[u] = job'[v] => tries'[u] # tries'[v]
    BY <1>7, <2>1 DEF Same, Base, Attempts
  <2>4. tries[v] + 1 \notin released'[job[v]]
    <3>1. CASE job[v] = j
      <4>1. tries[v] # tries[w]
        BY <1>1, <1>2, <2>1, <3>1 DEF Base, Attempts, Holding
      <4>2. tries[v] + 1 # n BY <1>4, <2>2, <4>1 DEF n
      <4>3. QED BY <1>9, <2>2, <3>1, <4>2
    <3>2. CASE job[v] # j BY <1>9, <2>1, <2>2, <3>2
    <3>3. QED BY <3>1, <3>2
  <2>5. reservedAt'[job[v]] \in {NULL, reservedAt[job[v]]} BY <1>8, <2>1
  <2>6. QED BY <1>3, <2>1, <2>2, <2>3, <2>4, <2>5 DEF Same
<1>13. ASSUME NEW k \in Job
       PROVE  /\ AttemptAccount(k)' /\ SuccessAccount(k)'
              /\ Cardinality(Strays(k)') <= overruns'[k]
  <2>1. CASE k # j
    <3>1. SameRow(k) BY <1>3, <1>8, <1>9, <2>1 DEF SameRow
    <3>2. QED BY <1>1, <1>7, <2>1, <3>1, OthersStay
  <2>2. CASE k = j
    <3>1. Cardinality(released'[j]) = Cardinality(released[j]) + 1
      <4>1. IsFiniteSet(released[j]) BY <1>4, ReleasedCard
      <4>2. QED BY <1>4, <1>9, <4>1, FS_AddElement
    <3>2. Cardinality(released[j]) \in Nat BY <1>4, ReleasedCard
    <3>3. \A m \in released'[j] : m \in 1..attempts[j] /\ m < maxAttempts[j]
      <4>1. n \in 1..attempts[j] BY <1>4, <1>5 DEF n
      <4>2. \A m \in released[j] : m \in 1..attempts[j] /\ m < maxAttempts[j]
        BY <1>5 DEF AttemptAccount
      <4>3. QED BY <1>6, <1>9, <4>1, <4>2
    <3>4. status[j] = "queued" =>
             attempts[j] <= Cardinality(released'[j]) + lapses[j]
                               + Cardinality(Holders(j)')
      BY <1>5, <1>7, <3>1, <3>2 DEF AttemptAccount
    <3>5. AttemptAccount(j)'
      BY <1>3, <1>4, <1>5, <3>3, <3>4 DEF AttemptAccount
    <3>6. SuccessAccount(j)' BY <1>3, <1>5, <1>6, <1>7 DEF SuccessAccount
    <3>7. QED BY <1>3, <1>7, <2>2, <3>5, <3>6
  <2>3. QED BY <2>1, <2>2
<1>14. QED BY <1>7, <1>11, <1>12, <1>13 DEF Base, StraysPaid, Accounts

-----------------------------------------------------------------------------
(* The properties. *)

\* Every step of the queue keeps the invariant.
LEMMA NextStep == ASSUME LeaseCoversJob, Base, [Next]_vars PROVE Base'
<1>1. CASE \E j \in Job, r \in 0..MaxRetry : Enqueue(j, r)
  BY <1>1, EnqueueStep
<1>2. CASE \E s \in Server : ServerStep(s)
  <2>1. PICK s \in Server : ServerStep(s) BY <1>2
  <2>2. CASE Boot(s) \/ Stop(s) \/ RunReturns(s) BY <2>2, ProcessStep
  <2>3. CASE Run(s) BY <2>3, RunStep
  <2>4. CASE Crash(s) BY <2>4, CrashStep
  <2>5. QED BY <2>1, <2>2, <2>3, <2>4 DEF ServerStep
<1>3. ASSUME NEW w \in Worker, WorkerStep(w) PROVE Base'
  <2>1. CASE WorkerExit(w) \/ ClaimNothing(w) BY <2>1, IdleSteps
  <2>2. CASE BeginClaim(w) BY <2>2, BeginClaimStep
  <2>3. CASE \E j \in Job : Claim(w, j) BY <2>3, ClaimStep
  <2>4. CASE \E r \in Result : HandlerReturns(w, r) BY <2>4, HandlerReturnsStep
  <2>5. CASE Finish(w) BY <2>5, FinishStep
  <2>6. CASE Release(w) BY <2>6, ReleaseStep
  <2>7. QED BY <1>3, <2>1, <2>2, <2>3, <2>4, <2>5, <2>6 DEF WorkerStep
<1>4. ASSUME NEW w \in Worker, WorkerFault(w) PROVE Base'
  <2>1. CASE ClaimFails(w) BY <2>1, IdleSteps
  <2>2. CASE \E j \in Job : ClaimAnswerLost(w, j) BY <2>2, ClaimAnswerLostStep
  <2>3. CASE FinalizeFails(w) BY <2>3, FinalizeFailsStep
  <2>4. CASE Overrun(w) BY <2>4, OverrunStep
  <2>5. QED BY <1>4, <2>1, <2>2, <2>3, <2>4 DEF WorkerFault
<1>5. CASE Tick BY <1>5, TickStep
<1>6. CASE UNCHANGED vars BY <1>6, StutterStep
<1>7. QED BY <1>1, <1>2, <1>3, <1>4, <1>5, <1>6 DEF Next

\* The invariant without its consequence.
LEMMA BaseHolds == ASSUME LeaseCoversJob PROVE Spec => []Base
<1>1. Init => Base BY InitInvariant
<1>2. Base /\ [Next]_vars => Base' BY NextStep
<1>3. QED BY <1>1, <1>2, PTL DEF Spec

\* The table, the goroutines and the accounts of the jobs agree in every reachable
\* state, overruns included.
THEOREM InvariantHolds == ASSUME LeaseCoversJob PROVE Spec => []IInv
<1>1. Base => IInv BY Intact DEF Base, IInv
<1>2. QED BY <1>1, BaseHolds, PTL

\* Every column, timer and counter keeps its type; in particular release never
\* indexes the retry schedule outside 1..MaxRetry.
THEOREM TypeCorrect == ASSUME LeaseCoversJob PROVE Spec => []TypeOK
BY BaseHolds, PTL DEF Base

\* With a lease that covers claim, handler and finalize, a row is in the hands of
\* one goroutine plus one for every hold that outlived its time, whatever crashes,
\* stops or fails: that nothing bounds a handler is the only way to a second one.
THEOREM ExecutionIsExclusive == ASSUME LeaseCoversJob PROVE Spec => []ExclusiveExecution
BY BaseHolds, Exclusive, PTL

\* As long as no hold of the row has overrun, a holder's finish or release hits the
\* claim it was meant for.
THEOREM ClaimsStayIntact == ASSUME LeaseCoversJob PROVE Spec => []ClaimIntact
BY BaseHolds, Intact, PTL

\* Attempts beyond MaxRetry are all paid for by lapsed claims and overruns.
THEOREM RetriesAreBudgeted == ASSUME LeaseCoversJob PROVE Spec => []RetryBudget
<1>1. Base => RetryBudget
  <2> SUFFICES ASSUME Base, NEW j \in Job
               PROVE  executions[j] <= maxAttempts[j] + lapses[j] + overruns[j]
    BY DEF RetryBudget
  <2>1. QED BY Numbers DEF AttemptAccount
<1>2. QED BY <1>1, BaseHolds, PTL

\* A job given up has used its attempts.
THEOREM GiveUpIsNeverEarly == ASSUME LeaseCoversJob PROVE Spec => []NoEarlyGiveUp
<1>1. Base => NoEarlyGiveUp
  <2> SUFFICES ASSUME Base, NEW j \in Job, status[j] \in {"error", "expired", "cancelled"}
               PROVE  executions[j] + lapses[j] >= maxAttempts[j]
    BY DEF NoEarlyGiveUp
  <2>1. QED BY Numbers DEF AttemptAccount
<1>2. QED BY <1>1, BaseHolds, PTL

\* A second success takes a lapse or an overrun.
THEOREM SuccessIsNotRepeated == ASSUME LeaseCoversJob PROVE Spec => []OneSuccess
<1>1. Base => OneSuccess
  <2> SUFFICES ASSUME Base, NEW j \in Job PROVE oks[j] <= 1 + lapses[j] + overruns[j]
    BY DEF OneSuccess
  <2>1. QED BY Numbers, GroupSizes DEF SuccessAccount
<1>2. QED BY <1>1, BaseHolds, PTL

-----------------------------------------------------------------------------
(* The database queue implements TaskContract. *)

\* The contract counts as the queue does.
LEMMA SameCount == ASSUME NEW S PROVE Contract!Cardinality(S) = Cardinality(S)
BY DEF Contract!Cardinality, Cardinality

\* An empty table is an empty contract.
LEMMA InitContract == Init => Contract!ContractInit
<1> SUFFICES ASSUME Init PROVE Contract!ContractInit OBVIOUS
<1>1. \A k \in Job : PhaseOf(k) = "absent" BY DEF Init, PhaseOf
<1>2. \A k \in Job : Holders(k) = {} BY DEF Init, Holders, Holding
<1>3. QED BY <1>1, <1>2 DEF Init, Contract!ContractInit

\* Enqueue is Submit.
LEMMA EnqueueContract ==
    ASSUME Base, NEW j \in Job, NEW r \in 0..MaxRetry, Enqueue(j, r)
    PROVE  \E n \in 1..(MaxRetry + 1) : Contract!Submit(j, n)
<1> DEFINE n == IF r > 0 THEN r + 1 ELSE 1
<1>1. n \in 1..(MaxRetry + 1) BY ConstantsAssumption
<1>2. \A k \in Job : Holders(k)' = Holders(k)
  BY DEF Enqueue, worker, Holders, Holding
<1>3. \A k \in Job : PhaseOf(k)' = IF k = j THEN "queued" ELSE PhaseOf(k)
  BY DEF Enqueue, PhaseOf, Base, TypeOK
<1>4. PhaseOf(j) = "absent" BY DEF Enqueue, PhaseOf
<1>5. Contract!Submit(j, n)
  BY <1>2, <1>3, <1>4 DEF Contract!Submit, Enqueue, history
<1>6. QED BY <1>1, <1>5

\* A claim is a Grant to its goroutine, which overstays at once if it was late.
LEMMA ClaimContract ==
    ASSUME LeaseCoversJob, Base, NEW w \in Worker, NEW j \in Job, Claim(w, j)
    PROVE  \E n \in 0..1 : Contract!Grant(j, w, n)
<1> DEFINE n == IF w \in late THEN 1 ELSE 0
<1>1. pc[w] = "claim" /\ Selected(j, readAt[w]) /\ Reserve(w, j) BY DEF Claim
<1>2. /\ w \notin Holders(j) /\ status[j] = "queued"
      /\ Cardinality(Holders(j)) <= overruns[j]
      /\ attempts[j] < maxAttempts[j] + lapses[j] + overruns[j]
  BY <1>1, ReserveFacts
<1>3. UNCHANGED <<status, maxAttempts, lapses>> BY DEF Claim, Reserve
<1>4. pc'[w] \in {"run", "final"} /\ job'[w] = j
      /\ \A v \in Worker : v # w => pc'[v] = pc[v] /\ job'[v] = job[v]
  BY DEF Claim, Base, TypeOK
<1>5. Holders(j)' = Holders(j) \cup {w} BY <1>4 DEF Holders, Holding
<1>6. \A k \in Job : k # j => Holders(k)' = Holders(k)
  BY <1>1, <1>4 DEF Holders, Holding
<1>7. \A k \in Job : PhaseOf(k)' = PhaseOf(k) BY <1>3 DEF PhaseOf
<1>8. PhaseOf(j) = "queued" BY <1>2 DEF PhaseOf
<1>9. attempts' = [attempts EXCEPT ![j] = attempts[j] + 1] BY <1>1 DEF Reserve
<1>10. overruns' = [overruns EXCEPT ![j] = overruns[j] + n]
  <2>1. overruns[j] + n = IF w \in late THEN overruns[j] + 1 ELSE overruns[j]
    BY Numbers
  <2>2. QED BY <2>1 DEF Claim
<1>11. n \in 0..1 OBVIOUS
<1> HIDE DEF n
<1>12. Contract!Grant(j, w, n)
  BY <1>2, <1>3, <1>5, <1>6, <1>7, <1>8, <1>9, <1>10, SameCount
  DEF Contract!Grant, Contract!Available
<1>13. QED BY <1>11, <1>12

\* A claim whose answer is lost is a GrantLost.
LEMMA ClaimAnswerLostContract ==
    ASSUME LeaseCoversJob, Base, NEW w \in Worker, NEW j \in Job,
           ClaimAnswerLost(w, j)
    PROVE  Contract!GrantLost(j)
<1>1. pc[w] = "claim" /\ Selected(j, readAt[w]) /\ Reserve(w, j)
      /\ Idle(w, "poll", now + PollInterval)
  BY DEF ClaimAnswerLost
<1>2. /\ status[j] = "queued" /\ Cardinality(Holders(j)) <= overruns[j]
      /\ attempts[j] < maxAttempts[j] + lapses[j] + overruns[j]
  BY <1>1, ReserveFacts
<1>3. UNCHANGED <<status, maxAttempts, overruns>> BY DEF ClaimAnswerLost, Reserve
<1>4. pc'[w] = "poll" /\ \A v \in Worker : v # w => pc'[v] = pc[v] /\ job'[v] = job[v]
  BY <1>1 DEF Idle, Base, TypeOK
<1>5. \A k \in Job : Holders(k)' = Holders(k)
  BY <1>1, <1>4 DEF Holders, Holding
<1>6. \A k \in Job : PhaseOf(k)' = PhaseOf(k) BY <1>3 DEF PhaseOf
<1>7. PhaseOf(j) = "queued" BY <1>2 DEF PhaseOf
<1>8. /\ attempts' = [attempts EXCEPT ![j] = attempts[j] + 1]
      /\ lapses' = [lapses EXCEPT ![j] = lapses[j] + 1]
  BY <1>1 DEF Reserve, ClaimAnswerLost
<1>9. QED
  BY <1>2, <1>3, <1>5, <1>6, <1>7, <1>8, SameCount
  DEF Contract!GrantLost, Contract!Available

\* finish, release and a failed finalize statement all empty the holder's hands.
LEMMA FinalizeContract ==
    ASSUME Base, NEW w \in Worker, Finish(w) \/ Release(w) \/ FinalizeFails(w)
    PROVE  /\ job[w] \in Job /\ w \in Holders(job[w])
           /\ status[job[w]] # "absent"
           /\ \A k \in Job : Holders(k)' = Holders(k) \ {w}
           /\ \A k \in Job : k # job[w] => w \notin Holders(k)
<1>1. pc[w] = "final" /\ Idle(w, "poll", now) BY DEF Finish, Release, FinalizeFails
<1>2. Holding(w) BY <1>1 DEF Holding
<1>3. ~Holding(w)' /\ \A v \in Worker : v # w => pc'[v] = pc[v] /\ job'[v] = job[v]
  BY <1>1 DEF Idle, Base, TypeOK, Holding
<1>4. \A k \in Job : Holders(k)' = Holders(k) \ {w} BY <1>3 DEF Holders, Holding
<1>5. \A k \in Job : k # job[w] => w \notin Holders(k) BY DEF Holders
<1>6. QED BY <1>2, <1>4, <1>5, HolderFacts

\* The DELETE is a Resolve by the holder.
LEMMA FinishContract ==
    ASSUME Base, NEW w \in Worker, Finish(w) PROVE Contract!Resolve(job[w], w)
<1> DEFINE j == job[w]
<1>1. /\ j \in Job /\ w \in Holders(j) /\ status[j] # "absent"
      /\ \A k \in Job : Holders(k)' = Holders(k) \ {w}
      /\ \A k \in Job : k # j => w \notin Holders(k)
  BY FinalizeContract
<1>2. cause[w] \in Outcome /\ cause[w] \notin {"absent", "queued"}
  BY DEF Finish, Base, HolderShape, Holding, TypeOK, Outcome, Result
<1>3. /\ status'[j] = IF status[j] = "queued" THEN cause[w] ELSE status[j]
      /\ \A k \in Job : k # j => status'[k] = status[k]
  BY <1>1 DEF Finish, Base, TypeOK
<1>4. \A k \in Job : PhaseOf(k)' = IF k = j THEN "done" ELSE PhaseOf(k)
  BY <1>1, <1>2, <1>3 DEF PhaseOf
<1>5. \A k \in Job : k # j => Holders(k)' = Holders(k) BY <1>1
<1>6. UNCHANGED <<attempts, maxAttempts, lapses, overruns>> BY DEF Finish, history
<1> HIDE DEF j
<1>7. Contract!Resolve(j, w) BY <1>1, <1>4, <1>5, <1>6 DEF Contract!Resolve
<1>8. QED BY <1>7 DEF j

\* The release is a Retry by the holder: as long as the row is there it has an
\* attempt left, which no other holder can have used up unless it overran.
LEMMA ReleaseContract ==
    ASSUME Base, NEW w \in Worker, Release(w) PROVE Contract!Retry(job[w], w)
<1> DEFINE j == job[w]
<1>1. /\ j \in Job /\ w \in Holders(j) /\ status[j] # "absent"
      /\ \A k \in Job : Holders(k)' = Holders(k) \ {w}
      /\ \A k \in Job : k # j => w \notin Holders(k)
  BY FinalizeContract
<1>2. UNCHANGED <<status, attempts, maxAttempts, lapses, overruns>> BY DEF Release
<1>3. \A k \in Job : PhaseOf(k)' = PhaseOf(k) BY <1>2 DEF PhaseOf
<1>4. \A k \in Job : k # j => Holders(k)' = Holders(k) BY <1>1
<1>5. status[j] = "queued" => attempts[j] < maxAttempts[j] + lapses[j] + overruns[j]
  <2>1. /\ attempts[j] \in Nat /\ maxAttempts[j] \in Nat /\ lapses[j] \in Nat
        /\ overruns[j] \in Nat /\ released[j] \in SUBSET Nat /\ AttemptAccount(j)
    BY <1>1, Numbers
  <2>2. /\ tries[w] \in Nat /\ tries[w] + 1 <= attempts[j]
        /\ tries[w] + 1 \notin released[j]
    BY HolderFacts DEF Release, Holding
  <2>3. tries[w] + 1 < maxAttempts[j]
    <3>1. ~(tries[w] + 1 >= maxAttempts[j]) BY DEF Release, Finishes
    <3>2. QED BY <2>1, <2>2, <3>1
  <2>4. Cardinality(released[j]) + 1 <= maxAttempts[j] - 1
        /\ Cardinality(released[j]) \in Nat
    <3>1. \A m \in released[j] \cup {tries[w] + 1} : m \in 1..(maxAttempts[j] - 1)
      BY <2>1, <2>2, <2>3 DEF AttemptAccount
    <3>2. maxAttempts[j] \in Nat \ {0} BY <2>1, <2>2, <2>3
    <3>3. IsFiniteSet(released[j]) /\ Cardinality(released[j]) \in Nat
      BY <1>1, ReleasedCard
    <3>4. Cardinality(released[j] \cup {tries[w] + 1}) = Cardinality(released[j]) + 1
      BY <2>2, <3>3, FS_AddElement
    <3>5. Cardinality(released[j] \cup {tries[w] + 1}) <= maxAttempts[j] - 1
      BY <3>1, <3>2, NumbersCard
    <3>6. QED BY <3>3, <3>4, <3>5
  <2>5. Cardinality(Holders(j)) <= 1 + overruns[j] /\ Cardinality(Holders(j)) \in Nat
    BY <1>1, Exclusive, GroupSizes DEF ExclusiveExecution
  <2> HIDE DEF j
  <2>6. QED BY <2>1, <2>4, <2>5 DEF AttemptAccount
<1>6. PhaseOf(j) = "queued" => status[j] = "queued" BY DEF PhaseOf
<1> HIDE DEF j
<1>7. Contract!Retry(j, w)
  BY <1>1, <1>2, <1>3, <1>4, <1>5, <1>6 DEF Contract!Retry
<1>8. QED BY <1>7 DEF j

\* A finalize statement that fails is a Lose of the holder.
LEMMA FinalizeFailsContract ==
    ASSUME Base, NEW w \in Worker, FinalizeFails(w) PROVE Contract!Lose({w})
<1>1. PICK j \in Job : job[w] = j BY FinalizeContract
<1>2. /\ w \in Holders(j)
      /\ \A k \in Job : Holders(k)' = Holders(k) \ {w}
      /\ \A k \in Job : k # j => w \notin Holders(k)
  BY <1>1, FinalizeContract
<1>3. UNCHANGED <<status, attempts, maxAttempts, overruns>>
  BY DEF FinalizeFails, table
<1>4. \A k \in Job : PhaseOf(k)' = PhaseOf(k) BY <1>3 DEF PhaseOf
<1>5. lapses' = [lapses EXCEPT ![j] = @ + 1] BY <1>1 DEF FinalizeFails
<1>6. lapses' = [k \in Job |-> lapses[k] + Cardinality(Holders(k) \cap {w})]
  <2>1. ASSUME NEW k \in Job PROVE lapses'[k] = lapses[k] + Cardinality(Holders(k) \cap {w})
    <3>1. lapses[k] \in Nat BY Numbers
    <3>2. CASE k = j
      <4>1. Holders(k) \cap {w} = {w} BY <1>2, <3>2
      <4>2. Cardinality(Holders(k) \cap {w}) = 1 BY <4>1, FS_Singleton
      <4>3. QED BY <1>5, <3>2, <4>2 DEF Base, TypeOK
    <3>3. CASE k # j
      <4>1. Holders(k) \cap {w} = {} BY <1>2, <3>3
      <4>2. Cardinality(Holders(k) \cap {w}) = 0 BY <4>1, FS_EmptySet
      <4>3. lapses'[k] = lapses[k] BY <1>5, <3>3 DEF Base, TypeOK
      <4>4. QED BY <3>1, <4>2, <4>3
    <3>4. QED BY <3>2, <3>3
  <2>2. lapses' \in [Job -> Nat] BY <1>5 DEF Base, TypeOK
  <2>3. QED BY <2>1, <2>2
<1>7. QED BY <1>2, <1>3, <1>4, <1>6, SameCount DEF Contract!Lose

\* A crash is a Lose of all the goroutines of the process.
LEMMA CrashContract ==
    ASSUME Base, NEW s \in Server, Crash(s)
    PROVE  \E E \in SUBSET Worker : Contract!Lose(E)
<1> DEFINE E == {w \in Worker : w[1] = s}
<1>1. \A w \in Worker : Holding(w)' <=> Holding(w) /\ w[1] # s
  BY DEF Crash, Holding
<1>2. \A w \in Worker : w[1] # s => job'[w] = job[w] BY DEF Crash
<1>3. \A k \in Job : Holders(k)' = Holders(k) \ E BY <1>1, <1>2 DEF Holders
<1>4. \A k \in Job : {w \in Holders(k) : w[1] = s} = Holders(k) \cap E
  BY DEF Holders
<1>5. UNCHANGED <<status, attempts, maxAttempts, overruns>> BY DEF Crash, table
<1>6. \A k \in Job : PhaseOf(k)' = PhaseOf(k) BY <1>5 DEF PhaseOf
<1>7. lapses' = [k \in Job |-> lapses[k] + Cardinality(Holders(k) \cap E)]
  <2>1. lapses' = [k \in Job |->
                     lapses[k] + Cardinality({w \in Holders(k) : w[1] = s})]
    BY DEF Crash
  <2> HIDE DEF E
  <2>2. QED BY <1>4, <2>1
<1>8. E \in SUBSET Worker OBVIOUS
<1> HIDE DEF E
<1>9. Contract!Lose(E) BY <1>3, <1>5, <1>6, <1>7, SameCount DEF Contract!Lose
<1>10. QED BY <1>8, <1>9

\* A step is invisible to the contract if it leaves the rows and their holders alone.
LEMMA Invisible ==
    ASSUME UNCHANGED <<status, attempts, maxAttempts, lapses, overruns>>,
           \A k \in Job : Holders(k)' = Holders(k)
    PROVE  UNCHANGED Contract!cvars
<1>1. \A k \in Job : PhaseOf(k)' = PhaseOf(k) BY DEF PhaseOf
<1>2. QED BY <1>1 DEF Contract!cvars

\* A holder that overruns overstays; a claim without a row yet does so unnoticed.
LEMMA OverrunContract ==
    ASSUME Base, NEW w \in Worker, Overrun(w)
    PROVE  \/ \E j \in Job : Contract!Overstay(j, w)
           \/ UNCHANGED Contract!cvars
<1>1. UNCHANGED <<status, attempts, maxAttempts, lapses>> BY DEF Overrun, table
<1>2. \A k \in Job : Holders(k)' = Holders(k) BY DEF Overrun, Holders, Holding
<1>3. overruns' = [k \in Job |->
          IF w \in Holders(k) THEN overruns[k] + 1 ELSE overruns[k]]
  BY DEF Overrun
<1>4. CASE Holding(w)
  <2>1. PICK j \in Job : job[w] = j BY <1>4, HolderFacts
  <2>2. w \in Holders(j) /\ \A k \in Job : k # j => w \notin Holders(k)
    BY <1>4, <2>1 DEF Holders
  <2>3. overruns' = [overruns EXCEPT ![j] = @ + 1]
    BY <1>3, <2>2 DEF Base, TypeOK
  <2>4. \A k \in Job : PhaseOf(k)' = PhaseOf(k) BY <1>1 DEF PhaseOf
  <2>5. Contract!Overstay(j, w)
    BY <1>1, <1>2, <2>2, <2>3, <2>4 DEF Contract!Overstay
  <2>6. QED BY <2>5
<1>5. CASE ~Holding(w)
  <2>1. \A k \in Job : w \notin Holders(k) BY <1>5 DEF Holders
  <2>2. overruns' = overruns BY <1>3, <2>1 DEF Base, TypeOK
  <2>3. QED BY <1>1, <1>2, <2>2, Invisible
<1>6. QED BY <1>4, <1>5

\* Start, Stop and return of a process are invisible to the contract.
LEMMA InvisibleServerSteps ==
    ASSUME Base, NEW s \in Server, Boot(s) \/ Run(s) \/ Stop(s) \/ RunReturns(s)
    PROVE  UNCHANGED Contract!cvars
<1>1. UNCHANGED <<status, attempts, maxAttempts, lapses, overruns>>
  BY DEF Boot, Run, Stop, RunReturns, table, history
<1>2. ASSUME NEW k \in Job PROVE Holders(k)' = Holders(k)
  <2>1. CASE Boot(s) \/ Stop(s) \/ RunReturns(s)
    BY <2>1 DEF Boot, Stop, RunReturns, worker, Holders, Holding
  <2>2. CASE Run(s)
    BY <2>2 DEF Run, Base, OffOutsideRun, Holders, Holding
  <2>3. QED BY <2>1, <2>2
<1>3. QED BY <1>1, <1>2, Invisible

\* So are the steps of a goroutine that neither take nor give up a row.
LEMMA InvisibleWorkerSteps ==
    ASSUME Base, NEW w \in Worker,
           \/ WorkerExit(w) \/ BeginClaim(w) \/ ClaimNothing(w) \/ ClaimFails(w)
           \/ \E r \in Result : HandlerReturns(w, r)
    PROVE  UNCHANGED Contract!cvars
<1>1. UNCHANGED <<status, attempts, maxAttempts, lapses, overruns>>
  BY DEF WorkerExit, BeginClaim, ClaimNothing, ClaimFails, HandlerReturns, table, history
<1>2. ASSUME NEW k \in Job PROVE Holders(k)' = Holders(k)
  <2>1. CASE WorkerExit(w) \/ ClaimNothing(w) \/ ClaimFails(w)
    BY <2>1 DEF WorkerExit, ClaimNothing, ClaimFails, Idle, Base, TypeOK, Holders, Holding
  <2>2. CASE BeginClaim(w)
    BY <2>2 DEF BeginClaim, Base, TypeOK, Holders, Holding
  <2>3. CASE \E r \in Result : HandlerReturns(w, r)
    BY <2>3 DEF HandlerReturns, Base, TypeOK, Holders, Holding
  <2>4. QED BY <2>1, <2>2, <2>3
<1>3. QED BY <1>1, <1>2, Invisible

\* Every step of the queue is a step of the contract or invisible to it.
LEMMA NextContract ==
    ASSUME LeaseCoversJob, Base, [Next]_vars
    PROVE  [Contract!ContractNext]_(Contract!cvars)
<1> USE DEF Contract!ContractNext
<1>1. CASE \E j \in Job, retries \in 0..MaxRetry : Enqueue(j, retries)
  BY <1>1, EnqueueContract
<1>2. ASSUME NEW s \in Server, ServerStep(s)
      PROVE  [Contract!ContractNext]_(Contract!cvars)
  BY <1>2, CrashContract, InvisibleServerSteps DEF ServerStep
<1>3. ASSUME NEW w \in Worker, WorkerStep(w)
      PROVE  [Contract!ContractNext]_(Contract!cvars)
  <2>1. CASE \E j \in Job : Claim(w, j) BY <2>1, ClaimContract
  <2>2. CASE Finish(w) BY <2>2, FinishContract, FinalizeContract
  <2>3. CASE Release(w) BY <2>3, ReleaseContract, FinalizeContract
  <2>4. CASE WorkerExit(w) \/ BeginClaim(w) \/ ClaimNothing(w)
             \/ \E r \in Result : HandlerReturns(w, r)
    BY <2>4, InvisibleWorkerSteps
  <2>5. QED BY <1>3, <2>1, <2>2, <2>3, <2>4 DEF WorkerStep
<1>4. ASSUME NEW w \in Worker, WorkerFault(w)
      PROVE  [Contract!ContractNext]_(Contract!cvars)
  <2>1. CASE \E j \in Job : ClaimAnswerLost(w, j) BY <2>1, ClaimAnswerLostContract
  <2>2. CASE FinalizeFails(w)
    <3>1. Contract!Lose({w}) BY <2>2, FinalizeFailsContract
    <3>2. {w} \in SUBSET Worker OBVIOUS
    <3>3. QED BY <3>1, <3>2
  <2>3. CASE ClaimFails(w) BY <2>3, InvisibleWorkerSteps
  <2>4. CASE Overrun(w) BY <2>4, OverrunContract
  <2>5. QED BY <1>4, <2>1, <2>2, <2>3, <2>4 DEF WorkerFault
<1>5. CASE Tick \/ UNCHANGED vars
  <2>1. UNCHANGED <<table, worker, history>> BY <1>5 DEF Tick, vars
  <2>2. QED BY <2>1, Invisible DEF table, worker, history, Holders, Holding
<1>6. QED BY <1>1, <1>2, <1>3, <1>4, <1>5 DEF Next

\* Every behaviour of the table and its goroutines, overruns included, is one of
\* TaskContract.
THEOREM QueueKeepsContract == ASSUME LeaseCoversJob PROVE Spec => KeepsContract
<1>1. Init => Contract!ContractInit BY InitContract
<1>2. Base /\ [Next]_vars => [Contract!ContractNext]_(Contract!cvars)
  BY NextContract
<1>3. QED
  BY <1>1, <1>2, BaseHolds, PTL DEF Spec, KeepsContract, Contract!ContractSpec
=============================================================================
