------------------------------ MODULE PoolProofs ------------------------------
(***************************************************************************)
(* Theorems about ConnectionPool: with any number of requests, payments    *)
(* and connections nobody waits for a connection while it holds one, or a  *)
(* row lock that someone with a connection could be waiting for.           *)
(***************************************************************************)
EXTENDS ConnectionPool, LineLemmas, FiniteSetTheorems, TLAPS

-----------------------------------------------------------------------------
(* The connections *)

\* Who queues waits, and everyone who waited.
LEMMA QueuedWaits ==
    ASSUME queue \in Line(Actor), NEW a \in Actor, ~Wants(a), queue' = Append(queue, a)
    PROVE  queue' \in Line(Actor) /\ ToSet(queue') = ToSet(queue) \cup {a}
BY LineAppend DEF Wants

\* Who leaves the queue no longer waits, and everyone else does.
LEMMA LeavingLeaves ==
    ASSUME queue \in Line(Actor), NEW a \in Actor, Wants(a)
    PROVE  Leaving(a) \in Line(Actor) /\ ToSet(Leaving(a)) = ToSet(queue) \ {a}
<1> DEFINE k == CHOOSE i \in DOMAIN queue : queue[i] = a
<1>1. k \in DOMAIN queue /\ queue[k] = a
  BY DEF Wants, ToSet
<1>2. Leaving(a) = RemoveAt(queue, k)
  BY DEF Leaving
<1> HIDE DEF k
<1>3. RemoveAt(queue, k) \in Line(Actor) /\ ToSet(RemoveAt(queue, k)) = ToSet(queue) \ {queue[k]}
  BY <1>1, LineRemoveAt
<1>4. QED
  BY <1>1, <1>2, <1>3

\* How many connections are free depends on who holds them alone.
LEMMA HeldIsInUse ==
    ASSUME PoolInv, held' = held
    PROVE  IsFiniteSet(InUse)' /\ (Free >= 0)'
BY DEF PoolInv, PoolTypeOK, InUse, Free

\* A connection is handed out only when one is free.
LEMMA AcquireTakesAFreeOne ==
    ASSUME PoolInv, NEW a \in Actor, held[a] = 0, Free > 0,
           held' = [held EXCEPT ![a] = @ + 1]
    PROVE  IsFiniteSet(InUse)' /\ (Free >= 0)'
<1> USE PoolSizeAssumption
<1>1. held \in [Actor -> 0 .. PoolSize] /\ IsFiniteSet(InUse) /\ Cardinality(InUse) \in Nat
  BY FS_CardinalityType DEF PoolInv, PoolTypeOK
<1>2. held'[a] = 1 /\ \A b \in Actor \ {a} : held'[b] = held[b]
  BY <1>1
<1>3. InUse' = InUse \cup {<<a, 1>>}
  <2>1. ASSUME NEW b \in Actor, NEW n \in 1 .. PoolSize
        PROVE  n <= held'[b] <=> (n <= held[b] \/ <<b, n>> = <<a, 1>>)
    <3>1. CASE b = a
      BY <3>1, <1>1, <1>2
    <3>2. CASE b # a
      BY <3>2, <1>2
    <3>3. QED
      BY <3>1, <3>2
  <2>2. <<a, 1>> \in Actor \X (1 .. PoolSize)
    OBVIOUS
  <2>3. QED
    BY <2>1, <2>2 DEF InUse
<1>4. IsFiniteSet(InUse') /\ Cardinality(InUse') <= Cardinality(InUse) + 1
                          /\ Cardinality(InUse') \in Nat
  <2>1. /\ IsFiniteSet(InUse \cup {<<a, 1>>})
        /\ Cardinality(InUse \cup {<<a, 1>>}) =
               IF <<a, 1>> \in InUse THEN Cardinality(InUse) ELSE Cardinality(InUse) + 1
    BY <1>1, FS_AddElement
  <2>2. QED
    BY <2>1, <1>1, <1>3
<1>5. QED
  BY <1>1, <1>4 DEF Free

\* What is over gives back its connection and its row locks, and takes nothing
\* from the others.
LEMMA ReleasesFrees ==
    ASSUME PoolInv, NEW a \in Actor, Releases(a)
    PROVE  /\ IsFiniteSet(InUse)' /\ (Free >= 0)'
           /\ held' \in [Actor -> 0 .. PoolSize] /\ held'[a] = 0
           /\ \A b \in Actor \ {a} : held'[b] = held[b]
           /\ lock' \in [Payment -> CaptureRequest \cup {None}]
           /\ \A p \in Payment : lock'[p] # a
           /\ \A p \in Payment : lock'[p] # None => lock'[p] = lock[p]
<1> USE PoolSizeAssumption, ActorAssumption
<1>1. /\ held \in [Actor -> 0 .. PoolSize] /\ lock \in [Payment -> CaptureRequest \cup {None}]
      /\ IsFiniteSet(InUse) /\ Cardinality(InUse) \in Nat /\ Free >= 0
  BY FS_CardinalityType DEF PoolInv, PoolTypeOK
<1>2. /\ held' \in [Actor -> 0 .. PoolSize] /\ held'[a] = 0
      /\ \A b \in Actor \ {a} : held'[b] = held[b]
  BY <1>1 DEF Releases
<1>3. InUse' \in SUBSET InUse
  <2>1. \A b \in Actor, n \in 1 .. PoolSize : n <= held'[b] => n <= held[b]
    BY <1>1, <1>2
  <2>2. QED
    BY <2>1 DEF InUse
<1>4. IsFiniteSet(InUse') /\ Cardinality(InUse') <= Cardinality(InUse)
                          /\ Cardinality(InUse') \in Nat
  BY <1>1, <1>3, FS_Subset, FS_CardinalityType
<1>5. Free' >= 0
  BY <1>1, <1>4 DEF Free
<1>6. \A p \in Payment : lock'[p] = IF lock[p] = a THEN None ELSE lock[p]
  BY DEF Releases, Unlocked
<1>7. lock' \in [Payment -> CaptureRequest \cup {None}]
  BY <1>1 DEF Releases, Unlocked
<1>8. QED
  BY <1>2, <1>4, <1>5, <1>6, <1>7

\* A step of one actor keeps the invariant when it keeps it of that actor, and
\* gives the others nothing.
LEMMA OthersAreLeftAlone ==
    ASSUME PoolInv, NEW a \in Actor,
           PoolTypeOK', IsFiniteSet(InUse)',
           \A b \in Actor \ {a} : b \in ToSet(queue') => b \in ToSet(queue),
           \A b \in Actor \ {a} : pc'[b] = pc[b] /\ held'[b] = held[b],
           \A p \in Payment : lock'[p] \in {lock[p], None, a},
           a \in ToSet(queue') => /\ pc'[a] \in {"claim", "begin", "mark failed"}
                                  /\ held'[a] = 0 /\ \A p \in Payment : lock'[p] # a,
           pc'[a] \in {"idle", "authorize", "done"} => held'[a] = 0,
           \A p \in Payment : lock'[p] = a => pc'[a] \in {"capture", "complete"}
    PROVE  PoolInv'
<1> USE ActorAssumption
<1>1. NoHoldAndWait'
  <2>1. ASSUME NEW b \in Actor, b \in ToSet(queue')
        PROVE  held'[b] = 0 /\ \A p \in Payment : lock'[p] # b
    <3>1. CASE b = a
      BY <3>1, <2>1
    <3>2. CASE b # a
      BY <3>2, <2>1 DEF PoolInv, NoHoldAndWait, Wants
    <3>3. QED
      BY <3>1, <3>2
  <2>2. QED
    BY <2>1 DEF NoHoldAndWait, Wants
<1>2. StepsMatch'
  <2>1. ASSUME NEW b \in Actor, b \in ToSet(queue')
        PROVE  pc'[b] \in {"claim", "begin", "mark failed"}
    BY <2>1 DEF PoolInv, StepsMatch, Wants
  <2>2. ASSUME NEW b \in Actor, pc'[b] \in {"idle", "authorize", "done"}
        PROVE  held'[b] = 0
    BY <2>2 DEF PoolInv, StepsMatch
  <2>3. ASSUME NEW p \in Payment, lock'[p] # None
        PROVE  pc'[lock'[p]] \in {"capture", "complete"}
    <3>1. CASE lock'[p] = a
      BY <3>1
    <3>2. CASE lock'[p] # a
      <4>1. lock'[p] = lock[p] /\ lock[p] \in Actor \ {a}
        BY <3>2, <2>3 DEF PoolInv, PoolTypeOK, Actor, Request
      <4>2. QED
        BY <4>1, <2>3 DEF PoolInv, StepsMatch
    <3>3. QED
      BY <3>1, <3>2
  <2>4. QED
    BY <2>1, <2>2, <2>3 DEF StepsMatch, Wants
<1>3. QED
  BY <1>1, <1>2 DEF PoolInv

\* Initially everybody is idle and every connection is free.
LEMMA PoolInitInv == PoolInit => PoolInv
<1> SUFFICES ASSUME PoolInit PROVE PoolInv
  OBVIOUS
<1> USE PoolSizeAssumption, ActorAssumption DEF PoolInit
<1>1. InUse = {}
  <2>1. \A a \in Actor, n \in 1 .. PoolSize : ~(n <= held[a])
    OBVIOUS
  <2>2. QED
    BY <2>1 DEF InUse
<1>2. IsFiniteSet(InUse) /\ Free >= 0
  BY <1>1, FS_EmptySet DEF Free
<1>3. queue \in Seq(Actor) /\ IsInjective(queue) /\ ToSet(queue) = {}
  BY DEF IsInjective, ToSet
<1>4. held \in [Actor -> 0 .. PoolSize]
  OBVIOUS
<1>5. PoolTypeOK
  BY <1>2, <1>3, <1>4 DEF PoolTypeOK
<1>6. QED
  BY <1>2, <1>3, <1>5 DEF PoolInv, NoHoldAndWait, StepsMatch, Wants

\* Who is served had nothing, and waits no more.
LEMMA AcquireKeepsInv == ASSUME PoolInv, NEW a \in Actor, Acquire(a) PROVE PoolInv'
<1> USE DEF Acquire
<1>1. queue \in Line(Actor)
  BY DEF PoolInv, PoolTypeOK, Line
<1>2. queue' \in Line(Actor) /\ ToSet(queue') = ToSet(queue) \ {a} /\ Wants(a)
  BY <1>1, LineTail DEF Wants
<1>3. held[a] = 0 /\ (\A p \in Payment : lock[p] # a) /\ pc[a] \in {"claim", "begin", "mark failed"}
  BY <1>2 DEF PoolInv, NoHoldAndWait, StepsMatch
<1>4. IsFiniteSet(InUse)' /\ (Free >= 0)'
  BY <1>3, AcquireTakesAFreeOne
<1>5. held' \in [Actor -> 0 .. PoolSize] /\ \A b \in Actor \ {a} : held'[b] = held[b]
  <2>1. held \in [Actor -> 0 .. PoolSize]
    BY DEF PoolInv, PoolTypeOK
  <2>2. 1 \in 0 .. PoolSize
    BY PoolSizeAssumption
  <2>3. held[a] + 1 = 1
    <3>1. held[a] = 0
      BY <1>3
    <3>2. QED
      BY <3>1
  <2>4. held' = [held EXCEPT ![a] = 1]
    BY <2>3
  <2>5. QED
    BY <2>1, <2>2, <2>4
<1>6. PoolTypeOK'
  BY <1>2, <1>4, <1>5 DEF PoolInv, PoolTypeOK, Line
<1>7. QED
  BY <1>2, <1>3, <1>4, <1>5, <1>6, OthersAreLeftAlone

\* Who gives up waiting had nothing; markFailed waits in its turn.
LEMMA TimeoutKeepsInv == ASSUME PoolInv, NEW a \in Actor, AcquireTimesOut(a) PROVE PoolInv'
<1>1. queue \in Line(Actor) /\ Wants(a)
  BY DEF AcquireTimesOut, PoolInv, PoolTypeOK, Line
<1>2. Leaving(a) \in Line(Actor) /\ ToSet(Leaving(a)) = ToSet(queue) \ {a}
  BY <1>1, LeavingLeaves
<1>3. Releases(a)
  BY DEF AcquireTimesOut
<1>4. /\ IsFiniteSet(InUse)' /\ (Free >= 0)'
      /\ held' \in [Actor -> 0 .. PoolSize] /\ held'[a] = 0
      /\ \A b \in Actor \ {a} : held'[b] = held[b]
      /\ lock' \in [Payment -> CaptureRequest \cup {None}]
      /\ \A p \in Payment : lock'[p] # a /\ (lock'[p] # None => lock'[p] = lock[p])
  BY <1>3, ReleasesFrees
<1>5. queue' \in Line(Actor) /\ \A b \in Actor \ {a} : b \in ToSet(queue') => b \in ToSet(queue)
  <2>1. CASE queue' = Leaving(a)
    BY <2>1, <1>2
  <2>2. CASE queue' = Append(Leaving(a), a)
    BY <2>2, <1>2, LineAppend
  <2>3. QED
    BY <2>1, <2>2 DEF AcquireTimesOut
<1>6. a \in ToSet(queue') => pc'[a] = "mark failed"
  <2>1. CASE queue' = Leaving(a)
    BY <2>1, <1>2
  <2>2. CASE Goes(a, "mark failed")
    BY <2>2 DEF Goes, PoolInv, PoolTypeOK
  <2>3. QED
    BY <2>1, <2>2 DEF AcquireTimesOut
<1>7. /\ pc' \in [Actor -> {"idle", "claim", "authorize", "begin", "capture",
                            "complete", "mark failed", "done"}]
      /\ \A b \in Actor \ {a} : pc'[b] = pc[b]
  BY DEF AcquireTimesOut, Goes, PoolInv, PoolTypeOK
<1>8. PoolTypeOK'
  BY <1>4, <1>5, <1>7 DEF AcquireTimesOut, PoolInv, PoolTypeOK, Line
<1>9. QED
  BY <1>4, <1>5, <1>6, <1>7, <1>8, OthersAreLeftAlone

\* Beginning to wait, with nothing in hand.
LEMMA QueuesKeepsInv ==
    ASSUME PoolInv, NEW a \in Actor, NEW step \in {"claim", "begin", "mark failed"},
           ~Wants(a), Queues(a, step),
           Releases(a) \/ (pc[a] \in {"idle", "authorize", "done"} /\ UNCHANGED <<held, lock>>),
           target' \in [Request -> Payment \cup {None}]
    PROVE  PoolInv'
<1> USE ActorAssumption
<1>1. queue' \in Line(Actor) /\ ToSet(queue') = ToSet(queue) \cup {a}
  BY QueuedWaits DEF Queues, PoolInv, PoolTypeOK, Line
<1>2. /\ pc' \in [Actor -> {"idle", "claim", "authorize", "begin", "capture",
                            "complete", "mark failed", "done"}]
      /\ pc'[a] = step /\ \A b \in Actor \ {a} : pc'[b] = pc[b]
  BY DEF Queues, Goes, PoolInv, PoolTypeOK
<1>3. /\ IsFiniteSet(InUse)' /\ (Free >= 0)'
      /\ held' \in [Actor -> 0 .. PoolSize] /\ held'[a] = 0
      /\ \A b \in Actor \ {a} : held'[b] = held[b]
      /\ lock' \in [Payment -> CaptureRequest \cup {None}]
      /\ \A p \in Payment : lock'[p] # a /\ (lock'[p] # None => lock'[p] = lock[p])
  <2>1. CASE Releases(a)
    BY <2>1, ReleasesFrees
  <2>2. CASE pc[a] \in {"idle", "authorize", "done"} /\ UNCHANGED <<held, lock>>
    <3>1. held[a] = 0 /\ \A p \in Payment : lock[p] # a
      BY <2>2 DEF PoolInv, StepsMatch
    <3>2. QED
      BY <3>1, <2>2, HeldIsInUse DEF PoolInv, PoolTypeOK
  <2>3. QED
    BY <2>1, <2>2
<1>4. PoolTypeOK'
  BY <1>1, <1>2, <1>3 DEF PoolTypeOK, Line
<1>5. QED
  BY <1>1, <1>2, <1>3, <1>4, OthersAreLeftAlone

\* A statement or a transaction ends, and its actor waits for nothing.
LEMMA EndKeepsInv ==
    ASSUME PoolInv, NEW a \in Actor, NEW step \in {"idle", "authorize", "done"},
           ~Wants(a), Releases(a), Goes(a, step), UNCHANGED <<target, queue>>
    PROVE  PoolInv'
<1> USE ActorAssumption
<1>1. queue' = queue /\ a \notin ToSet(queue')
  BY DEF Wants
<1>2. /\ pc' \in [Actor -> {"idle", "claim", "authorize", "begin", "capture",
                            "complete", "mark failed", "done"}]
      /\ pc'[a] = step /\ \A b \in Actor \ {a} : pc'[b] = pc[b]
  BY DEF Goes, PoolInv, PoolTypeOK
<1>3. /\ IsFiniteSet(InUse)' /\ (Free >= 0)'
      /\ held' \in [Actor -> 0 .. PoolSize] /\ held'[a] = 0
      /\ \A b \in Actor \ {a} : held'[b] = held[b]
      /\ lock' \in [Payment -> CaptureRequest \cup {None}]
      /\ \A p \in Payment : lock'[p] # a /\ (lock'[p] # None => lock'[p] = lock[p])
  BY ReleasesFrees
<1>4. PoolTypeOK'
  BY <1>1, <1>2, <1>3 DEF PoolInv, PoolTypeOK
<1>5. QED
  BY <1>1, <1>2, <1>3, <1>4, OthersAreLeftAlone

\* The next step of a transaction, on the connection it has; a row lock it takes
\* was free.
LEMMA TransactionKeepsInv ==
    ASSUME PoolInv, NEW a \in Request, NEW step \in {"capture", "complete"},
           ~Wants(a), Goes(a, step), UNCHANGED <<target, queue, held>>,
           \/ lock' = lock
           \/ a \in CaptureRequest /\ \E p \in Payment \cup {None} : lock' = [lock EXCEPT ![p] = a]
    PROVE  PoolInv'
<1> USE ActorAssumption
<1>1. a \in Actor /\ queue' = queue /\ a \notin ToSet(queue')
  BY DEF Wants, Actor
<1>2. /\ pc' \in [Actor -> {"idle", "claim", "authorize", "begin", "capture",
                            "complete", "mark failed", "done"}]
      /\ pc'[a] = step /\ \A b \in Actor \ {a} : pc'[b] = pc[b]
  BY <1>1 DEF Goes, PoolInv, PoolTypeOK
<1>3. IsFiniteSet(InUse)' /\ (Free >= 0)'
  BY HeldIsInUse
<1>4. /\ lock' \in [Payment -> CaptureRequest \cup {None}]
      /\ \A p \in Payment : lock'[p] \in {lock[p], None, a}
  <2>1. CASE lock' = lock
    BY <2>1 DEF PoolInv, PoolTypeOK
  <2>2. ASSUME a \in CaptureRequest, NEW q, lock' = [lock EXCEPT ![q] = a]
        PROVE  <1>4
    BY <2>2 DEF PoolInv, PoolTypeOK
  <2>3. QED
    BY <2>1, <2>2
<1>5. PoolTypeOK'
  BY <1>1, <1>2, <1>3, <1>4 DEF PoolInv, PoolTypeOK
<1>6. QED
  BY <1>1, <1>2, <1>3, <1>4, <1>5, OthersAreLeftAlone

\* Every step of a request keeps the invariant.
LEMMA RequestKeepsInv ==
    ASSUME PoolInv, NEW r \in Request, Arrive(r) \/ Advance(r) \/ TransactionFails(r)
    PROVE  PoolInv'
<1> USE ActorAssumption
<1>1. /\ r \in Actor /\ target \in [Request -> Payment \cup {None}]
      /\ lock \in [Payment -> CaptureRequest \cup {None}]
  BY DEF Actor, PoolInv, PoolTypeOK
<1>2. pc[r] \in {"idle", "authorize", "capture", "complete", "done"} => ~Wants(r)
  BY <1>1 DEF PoolInv, StepsMatch
<1>3. CASE Arrive(r)
  <2>1. target' \in [Request -> Payment \cup {None}]
    BY <1>3, <1>1 DEF Arrive
  <2>2. QED
    BY <1>1, <1>2, <1>3, <2>1, QueuesKeepsInv DEF Arrive
<1>4. CASE Claimed(r)
  <2>1. Releases(r) /\ ~Wants(r) /\ UNCHANGED target
    BY <1>4 DEF Claimed
  <2>2. CASE Queues(r, "begin")
    BY <1>1, <2>1, <2>2, QueuesKeepsInv
  <2>3. CASE Goes(r, "done") /\ UNCHANGED queue
    BY <1>1, <2>1, <2>3, EndKeepsInv
  <2>4. CASE Goes(r, "authorize") /\ UNCHANGED queue
    BY <1>1, <2>1, <2>4, EndKeepsInv
  <2>5. QED
    BY <1>4, <2>2, <2>3, <2>4 DEF Claimed
<1>5. CASE Authorized(r)
  <2>1. ~Wants(r) /\ pc[r] = "authorize" /\ UNCHANGED <<target, held, lock>>
    BY <1>2, <1>5 DEF Authorized
  <2>2. CASE Queues(r, "begin")
    BY <1>1, <2>1, <2>2, QueuesKeepsInv
  <2>3. CASE Queues(r, "mark failed")
    BY <1>1, <2>1, <2>3, QueuesKeepsInv
  <2>4. QED
    BY <1>5, <2>2, <2>3 DEF Authorized
<1>6. CASE LockPayment(r)
  <2>1. /\ r \in CaptureRequest /\ ~Wants(r) /\ Goes(r, "capture")
        /\ UNCHANGED <<target, queue, held>>
        /\ lock' = [lock EXCEPT ![target[r]] = r]
    BY <1>6 DEF LockPayment
  <2>2. target[r] \in Payment \cup {None}
    BY <1>1
  <2>3. \E p \in Payment \cup {None} : lock' = [lock EXCEPT ![p] = r]
    BY <2>1, <2>2
  <2>4. QED
    BY <2>1, <2>3, TransactionKeepsInv
<1>7. CASE Inserted(r)
  BY <1>7, TransactionKeepsInv DEF Inserted
<1>8. CASE Captured(r)
  <2>1. ~Wants(r)
    BY <1>2, <1>8 DEF Captured
  <2>2. QED
    BY <1>8, <2>1, TransactionKeepsInv DEF Captured
<1>9. CASE Complete(r)
  <2>1. ~Wants(r)
    BY <1>2, <1>9 DEF Complete
  <2>2. QED
    BY <1>1, <1>9, <2>1, EndKeepsInv DEF Complete
<1>10. CASE MarkedFailed(r)
  BY <1>1, <1>10, EndKeepsInv DEF MarkedFailed
<1>11. CASE TransactionFails(r)
  BY <1>1, <1>11, QueuesKeepsInv DEF TransactionFails
<1>12. QED
  BY <1>3, <1>4, <1>5, <1>6, <1>7, <1>8, <1>9, <1>10, <1>11 DEF Advance

\* So does every step of the poller.
LEMMA PollKeepsInv == ASSUME PoolInv, PollBegins \/ PollEnds PROVE PoolInv'
<1>1. Poller \in Actor /\ target \in [Request -> Payment \cup {None}]
  BY DEF Actor, PoolInv, PoolTypeOK
<1>2. CASE PollBegins
  <2>1. ~Wants(Poller)
    BY <1>1, <1>2 DEF PollBegins, PoolInv, StepsMatch
  <2>2. QED
    BY <1>1, <1>2, <2>1, QueuesKeepsInv DEF PollBegins
<1>3. CASE PollEnds
  BY <1>1, <1>3, EndKeepsInv DEF PollEnds
<1>4. QED
  BY <1>2, <1>3

\* The invariant is inductive.
LEMMA PoolNextInv == PoolInv /\ [PoolNext]_poolVars => PoolInv'
<1> SUFFICES ASSUME PoolInv, [PoolNext]_poolVars PROVE PoolInv'
  OBVIOUS
<1>1. ASSUME NEW a \in Actor, Acquire(a) PROVE PoolInv'
  BY <1>1, AcquireKeepsInv
<1>2. ASSUME NEW a \in Actor, AcquireTimesOut(a) PROVE PoolInv'
  BY <1>2, TimeoutKeepsInv
<1>3. ASSUME NEW r \in Request, Arrive(r) \/ Advance(r) \/ TransactionFails(r) PROVE PoolInv'
  BY <1>3, RequestKeepsInv
<1>4. CASE PollBegins \/ PollEnds
  BY <1>4, PollKeepsInv
<1>5. CASE UNCHANGED poolVars
  BY <1>5 DEF poolVars, PoolInv, PoolTypeOK, NoHoldAndWait, StepsMatch, InUse, Free,
     Wants
<1>6. QED
  BY <1>1, <1>2, <1>3, <1>4, <1>5 DEF PoolNext

\* Knex's pool and the steps of PaymentsService and the outbox worker that use
\* it: the inductive invariant.
THEOREM PoolInvHolds == PoolSpec => []PoolInv
  BY PoolInitInv, PoolNextInv, PTL DEF PoolSpec

\* The pool hands out no more connections than it has, and nobody is in its queue
\* twice, with any number of requests.
THEOREM PoolTypeCorrect == PoolSpec => []PoolTypeOK
<1>1. PoolInv => PoolTypeOK
  BY DEF PoolInv
<1>2. QED
  BY PoolInvHolds, <1>1, PTL

\* Nobody waits for a connection with a connection or a row lock in hand: the
\* transactions of PaymentsService take all they need before they begin, whatever
\* throws or times out, so the pool cannot deadlock with the row locks.
THEOREM WaitersHoldNothing == PoolSpec => []NoHoldAndWait
<1>1. PoolInv => NoHoldAndWait
  BY DEF PoolInv
<1>2. QED
  BY PoolInvHolds, <1>1, PTL

===============================================================================
