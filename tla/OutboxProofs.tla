----------------------------- MODULE OutboxProofs -----------------------------
(***************************************************************************)
(* Theorems about Outbox and RetryDelay: for any number of events, workers *)
(* and attempts, what a poller may assume about the rows it holds, what    *)
(* the marks it leaves on them say about deliveries, and how delays grow.  *)
(***************************************************************************)
EXTENDS RetryDelay, FiniteSetTheorems, TLAPS

-----------------------------------------------------------------------------
(* Batches and rows *)

\* The events of a batch have an oldest one.
LEMMA OldestIsMember ==
    ASSUME NEW S \in SUBSET Event, S # {}
    PROVE  Oldest(S) \in S
<1> DEFINE UpTo(e) == {f \in S : f <= e}
           T == {UpTo(e) : e \in S}
<1>1. IsWellFoundedOn(StrictSubsetOrdering(Event), SUBSET Event)
  BY EventAssumption, FS_StrictSubsetOrderingWellFounded, FS_FiniteSubsetsOfFinite
<1>2. T \subseteq SUBSET Event /\ T # {}
  OBVIOUS
<1>3. PICK t \in T : \A u \in T : ~(<<u, t>> \in StrictSubsetOrdering(Event))
  <2> HIDE DEF T
  <2> QED
    BY <1>1, <1>2, WFMin
<1>4. PICK x \in S : t = UpTo(x)
  OBVIOUS
<1>5. ASSUME NEW y \in S, ~(x <= y) PROVE FALSE
  <2>1. x \in Nat /\ y \in Nat /\ S \subseteq Nat
    BY EventAssumption
  <2>2. UpTo(y) \subseteq UpTo(x) /\ UpTo(y) # UpTo(x)
    <3>1. x \in UpTo(x) /\ x \notin UpTo(y)
      BY <2>1, <1>5
    <3>2. \A f \in S : f <= y => f <= x
      BY <1>5, <2>1
    <3>3. QED
      BY <3>1, <3>2
  <2>3. UpTo(y) \in T /\ UpTo(y) \in SUBSET Event /\ UpTo(x) \in SUBSET Event
    OBVIOUS
  <2>4. <<UpTo(y), UpTo(x)>> \in StrictSubsetOrdering(Event)
    BY <2>2, <2>3 DEF StrictSubsetOrdering
  <2>5. QED
    BY <1>3, <1>4, <2>3, <2>4
<1>6. QED
  BY <1>5 DEF Oldest

\* A batch that is not empty has a current event.
LEMMA CurrentIsInBatch ==
    ASSUME OutboxTypeOK, NEW w \in Worker, batch[w] # {}
    PROVE  Current(w) \in batch[w] /\ Current(w) \in Event
BY OldestIsMember DEF OutboxTypeOK, Current

\* The rows that are written first.
LEMMA FirstRows ==
    /\ NoRow \in OutboxRow /\ NoRow.status = "ABSENT" /\ NoRow.attempts = 0
    /\ ~NoRow.waiting
    /\ InsertedRow \in OutboxRow /\ InsertedRow.status = "PENDING"
    /\ InsertedRow.attempts = 0 /\ ~InsertedRow.waiting
<1>1. NoRow \in OutboxRow
  BY AttemptsAssumption DEF NoRow, OutboxRow
<1>2. /\ InsertedRow \in OutboxRow /\ InsertedRow.status = "PENDING"
      /\ InsertedRow.attempts = NoRow.attempts /\ InsertedRow.waiting = NoRow.waiting
  BY <1>1 DEF InsertedRow, OutboxRow
<1>3. NoRow.status = "ABSENT" /\ NoRow.attempts = 0 /\ ~NoRow.waiting
  BY DEF NoRow
<1>4. QED
  BY <1>1, <1>2, <1>3

\* What markPublished makes of a row.
LEMMA PublishedRow ==
    ASSUME NEW row \in OutboxRow
    PROVE  /\ MarkedPublished(row) \in OutboxRow
           /\ MarkedPublished(row).status = "PUBLISHED"
           /\ MarkedPublished(row).attempts = row.attempts
BY DEF MarkedPublished, OutboxRow

\* What markPublishFailed makes of a row with attempts left.
LEMMA FailedRow ==
    ASSUME NEW row \in OutboxRow, row.attempts < MaxAttempts
    PROVE  /\ MarkedFailed(row) \in OutboxRow
           /\ MarkedFailed(row).status \in {"PENDING", "FAILED"}
           /\ MarkedFailed(row).attempts = row.attempts + 1
           /\ MarkedFailed(row).status = "FAILED" <=> row.attempts + 1 = MaxAttempts
<1>1. row.attempts \in Nat /\ row.attempts + 1 \in 0 .. MaxAttempts
  BY AttemptsAssumption DEF OutboxRow
<1>2. CASE row.attempts + 1 >= MaxAttempts
  BY <1>1, <1>2, AttemptsAssumption DEF MarkedFailed, OutboxRow
<1>3. CASE ~(row.attempts + 1 >= MaxAttempts)
  BY <1>1, <1>3, AttemptsAssumption DEF MarkedFailed, OutboxRow
<1>4. QED
  BY <1>2, <1>3

\* Counters stop at their bound.
LEMMA SaturatedFacts ==
    ASSUME NEW bound \in Nat, NEW n \in 0 .. bound
    PROVE  /\ Saturated(n, bound) \in 0 .. bound
           /\ n <= Saturated(n, bound)
           /\ n < bound => Saturated(n, bound) = n + 1
BY DEF Saturated

-----------------------------------------------------------------------------
(* The inductive invariant *)

\* Initially no event is locked, sent or routed.
LEMMA OutboxInitInv == OutboxInit => OInv
<1> SUFFICES ASSUME OutboxInit PROVE OInv
  OBVIOUS
<1>1. OutboxTypeOK
  BY FirstRows, AttemptsAssumption DEF OutboxInit, OutboxTypeOK
<1>2. IterationsAreOrdered /\ HeldEventsAreStable /\ LossesAreUnsure
  BY DEF OutboxInit, IterationsAreOrdered, HeldEventsAreStable, LossesAreUnsure,
         Handles, Holds
<1>3. AttemptsAreCounted
  BY FirstRows, AttemptsAssumption DEF OutboxInit, AttemptsAreCounted, CountsAttempts
<1>4. DeliveriesWereRouted /\ RoutedIsMarked
  BY FirstRows DEF OutboxInit, DeliveriesWereRouted, PublishedWasRouted, RoutedIsMarked,
                   Delivered, Confirms
<1>5. QED
  BY <1>1, <1>2, <1>3, <1>4 DEF OInv

\* A held event is held by one open transaction.
LEMMA HeldOnce ==
    ASSUME OInv, NEW v \in Worker, NEW w \in Worker, NEW e \in Event,
           Holds(v, e), Holds(w, e)
    PROVE  v = w
BY DEF OInv, HeldEventsAreStable

\* The event under way belongs to the batch, and an open transaction holds it.
LEMMA CurrentIsHeld ==
    ASSUME OInv, NEW w \in Worker, phase[w] = "confirming" \/ batch[w] # {}
    PROVE  /\ Current(w) \in batch[w] /\ Current(w) \in Event
           /\ draft[w][Current(w)] = NoRow
           /\ session[w] => Holds(w, Current(w))
BY CurrentIsInBatch DEF OInv, IterationsAreOrdered, Holds

\* What counts as delivered is in the hands of its worker.
LEMMA DeliveredIsHandled ==
    ASSUME OInv, NEW w \in Worker, NEW e \in Event, Delivered(w, e)
    PROVE  Handles(w, e)
<1>1. CASE draft[w][e].status = "PUBLISHED"
  BY <1>1, FirstRows DEF Handles
<1>2. CASE Confirms(w, e)
  BY <1>2, CurrentIsHeld DEF Confirms, Handles, OInv, IterationsAreOrdered
<1>3. QED
  BY <1>1, <1>2 DEF Delivered

\* An iteration ends without COMMIT: its events are as before, and what it had
\* delivered is in doubt.
LEMMA AbortKeepsInv ==
    ASSUME OInv, NEW w \in Worker, IterationEnds(w),
           UNCHANGED <<table, sends, routed>>,
           wire' = [wire EXCEPT ![w] = "none"],
           returned' = [returned EXCEPT ![w] = FALSE],
           stray \subseteq stray', stray' \subseteq unsure',
           unsure \subseteq unsure', unsure' \subseteq Event,
           \A e \in Event : session[w] /\ Delivered(w, e) => e \in unsure'
    PROVE  OInv'
<1> USE DEF OInv
<1>1. /\ locks' = [e \in Event |-> IF locks[e] = w THEN None ELSE locks[e]]
      /\ phase'[w] = "idle" /\ session'[w] = TRUE /\ batch'[w] = {}
      /\ \A e \in Event : draft'[w][e] = NoRow
      /\ wire'[w] = "none" /\ returned'[w] = FALSE
  BY DEF IterationEnds, Unlocked, OutboxTypeOK
<1>2. \A v \in Worker : v # w =>
         /\ phase'[v] = phase[v] /\ session'[v] = session[v] /\ batch'[v] = batch[v]
         /\ draft'[v] = draft[v] /\ wire'[v] = wire[v] /\ returned'[v] = returned[v]
  BY DEF IterationEnds, OutboxTypeOK
<1>3. OutboxTypeOK'
  BY <1>1, FirstRows DEF IterationEnds, OutboxTypeOK
<1>4. \A v \in Worker, e \in Event : v # w =>
         /\ Handles(v, e)' <=> Handles(v, e)
         /\ Delivered(v, e)' <=> Delivered(v, e)
  BY <1>2 DEF Handles, Delivered, Confirms, Current
<1>5. \A e \in Event : ~Handles(w, e)' /\ ~Delivered(w, e)'
  BY <1>1, FirstRows DEF Handles, Delivered, Confirms
<1>6. IterationsAreOrdered'
  <2>1. ASSUME NEW v \in Worker
        PROVE  /\ phase'[v] = "idle" => session'[v] /\ \A e \in Event : ~Handles(v, e)'
               /\ phase'[v] = "confirming" <=> wire'[v] # "none"
               /\ phase'[v] = "confirming" => batch'[v] # {}
               /\ returned'[v] => wire'[v] = "ack"
               /\ \A e \in batch'[v] : draft'[v][e] = NoRow
    BY <1>1, <1>2, <1>4, <1>5 DEF IterationsAreOrdered
  <2>2. QED
    BY <2>1 DEF IterationsAreOrdered
<1>7. HeldEventsAreStable'
  <2>1. ASSUME NEW v \in Worker, NEW e \in Event, Holds(v, e)'
        PROVE  locks'[e] = v /\ table[e].status = "PENDING" /\ ~table[e].waiting
    <3>1. v # w /\ Holds(v, e)
      BY <1>2, <1>4, <1>5, <2>1 DEF Holds, Handles
    <3>2. QED
      BY <1>1, <3>1 DEF HeldEventsAreStable
  <2>2. QED
    BY <2>1 DEF HeldEventsAreStable
<1>8. LossesAreUnsure'
  BY <1>1, <1>2, <1>4, <1>5 DEF LossesAreUnsure
<1>9. AttemptsAreCounted'
  <2>1. \A e \in Event : CountsAttempts(table[e], e)' /\ CountsAttempts(NoRow, e)'
    BY FirstRows, AttemptsAssumption DEF AttemptsAreCounted, CountsAttempts,
       OutboxTypeOK
  <2>2. \A v \in Worker, e \in Event : CountsAttempts(draft[v][e], e)'
    BY <1>1, <1>2, <2>1 DEF AttemptsAreCounted, CountsAttempts
  <2>3. \A v \in Worker : phase'[v] = "confirming" /\ session'[v] =>
           table[Current(v)'].attempts < sends[Current(v)']
    BY <1>1, <1>2 DEF AttemptsAreCounted, Current
  <2>4. QED
    BY <2>1, <2>2, <2>3 DEF AttemptsAreCounted
<1>10. DeliveriesWereRouted'
  BY <1>4, <1>5 DEF DeliveriesWereRouted, PublishedWasRouted
<1>11. RoutedIsMarked'
  BY <1>1, <1>2, <1>4, <1>5 DEF RoutedIsMarked
<1>12. QED
  BY <1>3, <1>6, <1>7, <1>8, <1>9, <1>10, <1>11

\* The outcome of a publish is written into the open transaction.
LEMMA SettleKeepsInv ==
    ASSUME OInv, NEW w \in Worker, phase[w] = "confirming", session[w],
           NEW row \in OutboxRow, row # NoRow,
           CountsAttempts(row, Current(w)),
           Confirms(w, Current(w)) => row.status = "PUBLISHED" \/ Current(w) \in unsure',
           row.status = "PUBLISHED" => Confirms(w, Current(w)),
           draft' = [draft EXCEPT ![w][Current(w)] = row],
           batch' = [batch EXCEPT ![w] = @ \ {Current(w)}],
           phase' = [phase EXCEPT ![w] = "publish"],
           UNCHANGED <<dbVars, session, routed, sends>>,
           wire' = [wire EXCEPT ![w] = "none"],
           returned' = [returned EXCEPT ![w] = FALSE],
           stray \subseteq stray', stray' \subseteq unsure',
           unsure \subseteq unsure', unsure' \subseteq Event
    PROVE  OInv'
<1> DEFINE c == Current(w)
<1> USE DEF OInv
<1>0. c \in batch[w] /\ c \in Event /\ Holds(w, c) /\ draft[w][c] = NoRow
  BY CurrentIsHeld
<1>1. /\ draft'[w][c] = row /\ \A e \in Event : e # c => draft'[w][e] = draft[w][e]
      /\ batch'[w] = batch[w] \ {c} /\ phase'[w] = "publish"
      /\ wire'[w] = "none" /\ returned'[w] = FALSE
  BY <1>0 DEF OutboxTypeOK
<1>2. \A v \in Worker : v # w =>
         /\ phase'[v] = phase[v] /\ batch'[v] = batch[v]
         /\ draft'[v] = draft[v] /\ wire'[v] = wire[v] /\ returned'[v] = returned[v]
  BY DEF OutboxTypeOK
<1>3. table' = table /\ locks' = locks /\ session' = session /\ sends' = sends /\ routed' = routed
  BY DEF dbVars
<1>4. OutboxTypeOK'
  <2>1. draft' \in [Worker -> [Event -> OutboxRow]]
    BY <1>0 DEF OutboxTypeOK
  <2>2. QED
    BY <1>3, <2>1 DEF OutboxTypeOK
<1>5. \A v \in Worker : v # w => Current(v)' = Current(v)
  BY <1>2 DEF Current
<1>6. \A v \in Worker, e \in Event : Handles(v, e)' <=> Handles(v, e)
  <2>1. \A v \in Worker, e \in Event : v # w => (Handles(v, e)' <=> Handles(v, e))
    BY <1>2 DEF Handles
  <2>2. \A e \in Event : Handles(w, e)' <=> Handles(w, e)
    BY <1>0, <1>1 DEF Handles
  <2>3. QED
    BY <2>1, <2>2
<1>7. \A v \in Worker, e \in Event : Holds(v, e)' <=> Holds(v, e)
  BY <1>3, <1>6 DEF Holds, Handles
<1>8. /\ \A v \in Worker, e \in Event : v # w => (Delivered(v, e)' <=> Delivered(v, e))
      /\ \A e \in Event : e # c => (Delivered(w, e)' <=> Delivered(w, e))
      /\ \A e \in Event : e = c => /\ Delivered(w, e)' <=> row.status = "PUBLISHED"
                                   /\ Delivered(w, e) <=> Confirms(w, e)
  <2>1. \A v \in Worker, e \in Event : v # w => (Delivered(v, e)' <=> Delivered(v, e))
    BY <1>2, <1>5 DEF Delivered, Confirms
  <2>2. \A e \in Event : Delivered(w, e)' <=> draft'[w][e].status = "PUBLISHED"
    BY <1>1 DEF Delivered, Confirms
  <2>3. \A e \in Event : e # c => (Delivered(w, e) <=> draft[w][e].status = "PUBLISHED")
    BY DEF Delivered, Confirms
  <2>4. \A e \in Event : e = c => (Delivered(w, e) <=> Confirms(w, e))
    BY <1>0, FirstRows DEF Delivered
  <2>5. QED
    BY <1>0, <1>1, <2>1, <2>2, <2>3, <2>4
<1>9. IterationsAreOrdered'
  <2>1. ASSUME NEW v \in Worker
        PROVE  /\ phase'[v] = "idle" => session'[v] /\ \A e \in Event : ~Handles(v, e)'
               /\ phase'[v] = "confirming" <=> wire'[v] # "none"
               /\ phase'[v] = "confirming" => batch'[v] # {}
               /\ returned'[v] => wire'[v] = "ack"
               /\ \A e \in batch'[v] : draft'[v][e] = NoRow
    <3>1. CASE v = w
      <4>1. \A e \in batch'[w] : e \in batch[w] /\ e \in Event /\ e # c
        BY <1>1 DEF OutboxTypeOK
      <4>2. QED
        BY <1>1, <3>1, <4>1 DEF IterationsAreOrdered
    <3>2. CASE v # w
      BY <1>2, <1>3, <1>6, <3>2 DEF IterationsAreOrdered
    <3>3. QED
      BY <3>1, <3>2
  <2>2. QED
    BY <2>1 DEF IterationsAreOrdered
<1>10. HeldEventsAreStable' /\ LossesAreUnsure'
  BY <1>3, <1>6, <1>7 DEF HeldEventsAreStable, LossesAreUnsure
<1>11. AttemptsAreCounted'
  <2>1. \A v \in Worker, e \in Event : CountsAttempts(draft[v][e], e)'
    <3>1. \A v \in Worker, e \in Event : v # w \/ e # c => draft'[v][e] = draft[v][e]
      BY <1>1, <1>2
    <3>2. QED
      BY <1>1, <1>3, <3>1 DEF AttemptsAreCounted, CountsAttempts
  <2>2. \A v \in Worker : phase'[v] = "confirming" /\ session'[v] =>
           table[Current(v)'].attempts < sends[Current(v)']
    BY <1>1, <1>2, <1>3, <1>5 DEF AttemptsAreCounted
  <2>3. QED
    BY <1>3, <2>1, <2>2 DEF AttemptsAreCounted, CountsAttempts
<1>12. DeliveriesWereRouted'
  BY <1>0, <1>3, <1>8 DEF DeliveriesWereRouted, PublishedWasRouted
<1>13. RoutedIsMarked'
  <2>1. ASSUME NEW e \in Event \ unsure', NEW v \in Worker, session[v], Delivered(v, e)
        PROVE  session'[v] /\ Delivered(v, e)'
    BY <1>3, <1>8, <2>1
  <2>2. QED
    BY <1>3, <2>1 DEF RoutedIsMarked
<1>14. QED
  BY <1>4, <1>9, <1>10, <1>11, <1>12, <1>13

\* What the confirm callback or the timeout writes is an outcome SettleKeepsInv
\* asks for.
LEMMA OutcomeRows ==
    ASSUME OInv, NEW w \in Worker, phase[w] = "confirming", session[w]
    PROVE  LET c == Current(w) IN
           /\ table[c] \in OutboxRow /\ table[c].status = "PENDING"
           /\ MarkedPublished(table[c]) \in OutboxRow
           /\ MarkedPublished(table[c]) # NoRow
           /\ MarkedPublished(table[c]).status = "PUBLISHED"
           /\ CountsAttempts(MarkedPublished(table[c]), c)
           /\ MarkedFailed(table[c]) \in OutboxRow
           /\ MarkedFailed(table[c]) # NoRow
           /\ MarkedFailed(table[c]).status # "PUBLISHED"
           /\ CountsAttempts(MarkedFailed(table[c]), c)
<1> DEFINE c == Current(w)
<1>1. c \in Event /\ table[c].status = "PENDING" /\ table[c] \in OutboxRow /\ sends[c] \in Nat
  BY CurrentIsHeld DEF OInv, HeldEventsAreStable, OutboxTypeOK
<1>2. /\ CountsAttempts(table[c], c) /\ table[c].attempts < sends[c]
      /\ table[c].attempts \in 0 .. MaxAttempts
  BY <1>1 DEF OInv, AttemptsAreCounted, OutboxRow
<1>3. table[c].attempts < MaxAttempts
  BY <1>1, <1>2, AttemptsAssumption DEF CountsAttempts
<1>4. /\ MarkedPublished(table[c]) \in OutboxRow
      /\ MarkedPublished(table[c]).status = "PUBLISHED"
      /\ CountsAttempts(MarkedPublished(table[c]), c)
  BY <1>1, <1>2, <1>3, PublishedRow, AttemptsAssumption DEF CountsAttempts
<1>5. /\ MarkedFailed(table[c]) \in OutboxRow
      /\ MarkedFailed(table[c]).status \in {"PENDING", "FAILED"}
      /\ CountsAttempts(MarkedFailed(table[c]), c)
  BY <1>1, <1>2, <1>3, FailedRow, AttemptsAssumption DEF CountsAttempts
<1>6. QED
  BY <1>1, <1>4, <1>5, FirstRows

\* The confirm callback.
LEMMA ConfirmKeepsInv ==
    ASSUME OInv, NEW w \in Worker, HandleConfirm(w)
    PROVE  OInv'
<1> DEFINE c == Current(w)
           row == IF wire[w] = "ack" /\ ~returned[w]
                  THEN MarkedPublished(table[c]) ELSE MarkedFailed(table[c])
<1>1. /\ phase[w] = "confirming" /\ wire[w] \in {"ack", "nack"}
      /\ wire' = [wire EXCEPT ![w] = "none"]
      /\ returned' = [returned EXCEPT ![w] = FALSE]
      /\ UNCHANGED <<stray, routed, sends, unsure>>
      /\ Settle(w, row)
  BY DEF HandleConfirm, OInv, IterationsAreOrdered
<1>2. stray' \subseteq unsure' /\ unsure' \subseteq Event
  BY <1>1 DEF OInv, LossesAreUnsure, OutboxTypeOK
<1>3. CASE ~session[w]
  <2>1. IterationEnds(w) /\ table' = table
    BY <1>1, <1>3 DEF Settle
  <2>2. QED
    BY <1>1, <1>2, <1>3, <2>1, AbortKeepsInv
<1>4. CASE session[w]
  <2>1. /\ row \in OutboxRow /\ row # NoRow /\ CountsAttempts(row, c)
        /\ row.status = "PUBLISHED" <=> Confirms(w, c)
        /\ table[c].status = "PENDING"
    BY <1>1, <1>4, OutcomeRows DEF Confirms
  <2>2. /\ draft' = [draft EXCEPT ![w][c] = row]
        /\ batch' = [batch EXCEPT ![w] = @ \ {c}]
        /\ phase' = [phase EXCEPT ![w] = "publish"]
        /\ UNCHANGED <<dbVars, session>>
    BY <1>1, <1>4, <2>1 DEF Settle
  <2>3. QED
    BY <1>1, <1>2, <1>4, <2>1, <2>2, SettleKeepsInv
<1>5. QED
  BY <1>3, <1>4

\* The confirm timeout.
LEMMA TimeoutKeepsInv ==
    ASSUME OInv, NEW w \in Worker, ConfirmTimeout(w)
    PROVE  OInv'
<1> DEFINE c == Current(w)
           row == MarkedFailed(table[c])
<1>1. /\ phase[w] = "confirming" /\ Settle(w, row)
      /\ wire' = [wire EXCEPT ![w] = "none"]
      /\ returned' = [returned EXCEPT ![w] = FALSE]
      /\ UNCHANGED <<routed, sends>>
      /\ stray' \subseteq stray \cup {c} /\ stray \subseteq stray'
      /\ unsure' = unsure \cup {c}
  BY DEF ConfirmTimeout, DropChannel
<1>2. stray' \subseteq unsure' /\ unsure' \subseteq Event /\ unsure \subseteq unsure'
  BY <1>1, CurrentIsHeld DEF OInv, LossesAreUnsure, OutboxTypeOK
<1>3. CASE ~session[w]
  <2>1. IterationEnds(w) /\ table' = table
    BY <1>1, <1>3 DEF Settle
  <2>2. QED
    BY <1>1, <1>2, <1>3, <2>1, AbortKeepsInv
<1>4. CASE session[w]
  <2>1. /\ row \in OutboxRow /\ row # NoRow /\ CountsAttempts(row, c)
        /\ row.status # "PUBLISHED" /\ table[c].status = "PENDING" /\ c \in unsure'
    BY <1>1, <1>4, OutcomeRows
  <2>2. /\ draft' = [draft EXCEPT ![w][c] = row]
        /\ batch' = [batch EXCEPT ![w] = @ \ {c}]
        /\ phase' = [phase EXCEPT ![w] = "publish"]
        /\ UNCHANGED <<dbVars, session>>
    BY <1>1, <1>4, <2>1 DEF Settle
  <2>3. QED
    BY <1>1, <1>2, <1>4, <2>1, <2>2, SettleKeepsInv
<1>5. QED
  BY <1>3, <1>4

\* The iteration aborts, the session is not there any more, or the instance dies.
LEMMA EndsKeepInv ==
    ASSUME OInv, NEW w \in Worker,
           NotAttempted(w) \/ CommitFails(w) \/ Crash(w)
    PROVE  OInv'
<1> USE DEF OInv
<1>1. CASE NotAttempted(w) \/ CommitFails(w)
  <2>1. /\ phase[w] = "publish" /\ IterationEnds(w)
        /\ unsure' = unsure \cup {e \in Event : draft[w][e].status = "PUBLISHED"}
        /\ UNCHANGED <<table, wire, returned, stray, routed, sends>>
    BY <1>1 DEF NotAttempted, CommitFails, Rollback, brokerVars
  <2>2. wire[w] = "none" /\ returned[w] = FALSE
    BY <2>1 DEF IterationsAreOrdered, OutboxTypeOK
  <2>3. /\ wire' = [wire EXCEPT ![w] = "none"]
        /\ returned' = [returned EXCEPT ![w] = FALSE]
    BY <2>1, <2>2 DEF OutboxTypeOK
  <2>4. \A e \in Event : Delivered(w, e) => e \in unsure'
    BY <2>1, <2>2 DEF Delivered, Confirms
  <2>5. stray' \subseteq unsure' /\ unsure' \subseteq Event
    BY <2>1 DEF LossesAreUnsure, OutboxTypeOK
  <2>6. QED
    BY <2>1, <2>3, <2>4, <2>5, AbortKeepsInv
<1>2. CASE Crash(w)
  <2>1. /\ IterationEnds(w)
        /\ unsure' = unsure \cup {e \in Event : draft[w][e].status = "PUBLISHED"}
                            \cup (IF phase[w] = "confirming" THEN {Current(w)} ELSE {})
        /\ stray' = stray \cup (IF wire[w] = "message" THEN {Current(w)} ELSE {})
        /\ wire' = [wire EXCEPT ![w] = "none"]
        /\ returned' = [returned EXCEPT ![w] = FALSE]
        /\ UNCHANGED <<table, routed, sends>>
    BY <1>2 DEF Crash, DropChannel
  <2>2. wire[w] # "none" => phase[w] = "confirming" /\ Current(w) \in Event
    BY CurrentIsHeld DEF IterationsAreOrdered
  <2>3. \A e \in Event : Delivered(w, e) => e \in unsure'
    BY <2>1, <2>2 DEF Delivered, Confirms
  <2>4. phase[w] = "confirming" => Current(w) \in Event
    BY CurrentIsHeld
  <2>5. stray' \subseteq unsure' /\ unsure' \subseteq Event
    BY <2>1, <2>2, <2>4 DEF LossesAreUnsure, OutboxTypeOK
  <2>6. QED
    BY <2>1, <2>3, <2>5, AbortKeepsInv
<1>3. QED
  BY <1>1, <1>2

\* The database ends a session: what its transaction held is in doubt.
LEMMA DetachKeepsInv ==
    ASSUME OInv, NEW w \in Worker, DetachSession(w)
    PROVE  OInv'
<1> USE DEF OInv
<1>1. /\ phase[w] # "idle" /\ session[w]
      /\ session' = [session EXCEPT ![w] = FALSE]
      /\ locks' = [e \in Event |-> IF locks[e] = w THEN None ELSE locks[e]]
      /\ unsure' = unsure \cup {e \in Event : locks[e] = w}
      /\ UNCHANGED <<table, phase, batch, draft, wire, returned, stray, routed, sends>>
  BY DEF DetachSession, Unlocked, brokerVars
<1>2. OutboxTypeOK'
  BY <1>1 DEF OutboxTypeOK
<1>3. /\ \A v \in Worker, e \in Event : /\ Handles(v, e)' <=> Handles(v, e)
                                        /\ Delivered(v, e)' <=> Delivered(v, e)
      /\ \A v \in Worker : Current(v)' = Current(v)
  BY <1>1 DEF Handles, Delivered, Confirms, Current
<1>4. session'[w] = FALSE /\ \A v \in Worker : v # w => session'[v] = session[v]
  BY <1>1 DEF OutboxTypeOK
<1>5. \A e \in Event : Handles(w, e) => e \in unsure'
  BY <1>1 DEF HeldEventsAreStable, Holds, Handles
<1>6. IterationsAreOrdered'
  BY <1>1, <1>3, <1>4 DEF IterationsAreOrdered
<1>7. HeldEventsAreStable'
  <2>1. ASSUME NEW v \in Worker, NEW e \in Event, Holds(v, e)'
        PROVE  v # w /\ Holds(v, e)
    BY <1>1, <1>4, <2>1 DEF Holds
  <2>2. QED
    BY <1>1, <2>1 DEF HeldEventsAreStable
<1>8. LossesAreUnsure'
  BY <1>1, <1>3, <1>4, <1>5 DEF LossesAreUnsure
<1>9. AttemptsAreCounted'
  BY <1>1, <1>3, <1>4 DEF AttemptsAreCounted, CountsAttempts
<1>10. DeliveriesWereRouted'
  BY <1>1, <1>3 DEF DeliveriesWereRouted, PublishedWasRouted
<1>11. RoutedIsMarked'
  BY <1>1, <1>3, <1>4, <1>5, DeliveredIsHandled DEF RoutedIsMarked
<1>12. QED
  BY <1>2, <1>6, <1>7, <1>8, <1>9, <1>10, <1>11

\* An event is inserted, or falls due again: nobody holds it.
LEMMA TableKeepsInv ==
    ASSUME OInv, NEW e \in Event, Record(e) \/ RetryDue(e)
    PROVE  OInv'
<1> USE DEF OInv
<1>1. PICK row \in OutboxRow :
         /\ table' = [table EXCEPT ![e] = row]
         /\ row.attempts = table[e].attempts \/ row.attempts = 0
         /\ row.status = "FAILED" <=> row.attempts = MaxAttempts
         /\ row.status = "PUBLISHED" <=> table[e].status = "PUBLISHED"
  <2>1. CASE Record(e)
    BY <2>1, FirstRows, AttemptsAssumption DEF Record
  <2>2. CASE RetryDue(e)
    <3>1. /\ table[e] \in OutboxRow /\ table' = [table EXCEPT ![e].waiting = FALSE]
          /\ table[e].status = "FAILED" <=> table[e].attempts = MaxAttempts
      BY <2>2 DEF RetryDue, OutboxTypeOK, AttemptsAreCounted, CountsAttempts
    <3>2. /\ [table[e] EXCEPT !.waiting = FALSE] \in OutboxRow
          /\ [table[e] EXCEPT !.waiting = FALSE].status = table[e].status
          /\ [table[e] EXCEPT !.waiting = FALSE].attempts = table[e].attempts
      BY <3>1 DEF OutboxRow
    <3>3. QED
      BY <3>1, <3>2
  <2>3. QED
    BY <2>1, <2>2
<1>2. UNCHANGED <<locks, phase, session, batch, draft, wire, returned, stray, routed, sends, unsure>>
  BY DEF Record, RetryDue, workerVars, brokerVars
<1>3. /\ table'[e] = row /\ \A f \in Event : f # e => table'[f] = table[f]
  BY <1>1 DEF OutboxTypeOK
<1>4. OutboxTypeOK'
  BY <1>1, <1>2 DEF OutboxTypeOK
<1>5. /\ \A v \in Worker, f \in Event : /\ Handles(v, f)' <=> Handles(v, f)
                                        /\ Holds(v, f)' <=> Holds(v, f)
                                        /\ Delivered(v, f)' <=> Delivered(v, f)
      /\ \A v \in Worker : Current(v)' = Current(v)
  BY <1>2 DEF Handles, Holds, Delivered, Confirms, Current
<1>6. \A v \in Worker : ~Holds(v, e)
  BY DEF HeldEventsAreStable, Record, RetryDue
<1>7. IterationsAreOrdered' /\ LossesAreUnsure'
  BY <1>2, <1>5 DEF IterationsAreOrdered, LossesAreUnsure
<1>8. HeldEventsAreStable'
  BY <1>2, <1>3, <1>5, <1>6 DEF HeldEventsAreStable
<1>9. AttemptsAreCounted'
  <2>1. \A f \in Event : CountsAttempts(table[f], f)'
    BY <1>1, <1>2, <1>3, AttemptsAssumption
       DEF AttemptsAreCounted, CountsAttempts, OutboxTypeOK
  <2>2. \A v \in Worker : phase[v] = "confirming" /\ session[v] => Current(v) # e
    BY <1>6, CurrentIsHeld
  <2>3. \A v \in Worker : phase[v] = "confirming" => Current(v) \in Event
    BY CurrentIsHeld
  <2>4. QED
    BY <1>2, <1>3, <1>5, <2>1, <2>2, <2>3 DEF AttemptsAreCounted, CountsAttempts
<1>10. DeliveriesWereRouted'
  BY <1>1, <1>2, <1>3, <1>5 DEF DeliveriesWereRouted, PublishedWasRouted
<1>11. RoutedIsMarked'
  BY <1>1, <1>2, <1>3, <1>5 DEF RoutedIsMarked
<1>12. QED
  BY <1>4, <1>7, <1>8, <1>9, <1>10, <1>11

\* A batch is locked: its rows were free, so nobody held them.
LEMMA FetchKeepsInv ==
    ASSUME OInv, NEW w \in Worker, Fetch(w)
    PROVE  OInv'
<1> USE DEF OInv
<1>1. /\ phase[w] = "idle"
      /\ batch' = [batch EXCEPT ![w] = PendingBatch]
      /\ locks' = [e \in Event |-> IF e \in PendingBatch THEN w ELSE locks[e]]
      /\ phase' = [phase EXCEPT ![w] = "publish"]
      /\ UNCHANGED <<table, session, draft, wire, returned, stray, routed, sends, unsure>>
  BY DEF Fetch, brokerVars
<1>2. PendingBatch \subseteq Event
      /\ \A e \in PendingBatch : /\ locks[e] = None /\ table[e].status = "PENDING"
                                 /\ ~table[e].waiting
  BY DEF PendingBatch, Eligible
<1>3. /\ batch'[w] = PendingBatch /\ phase'[w] = "publish" /\ session[w]
      /\ wire[w] = "none" /\ ~returned[w] /\ \A e \in Event : draft[w][e] = NoRow
  BY <1>1 DEF OutboxTypeOK, IterationsAreOrdered, Handles
<1>4. \A v \in Worker : v # w => batch'[v] = batch[v] /\ phase'[v] = phase[v]
  BY <1>1 DEF OutboxTypeOK
<1>5. OutboxTypeOK'
  BY <1>1, <1>2 DEF OutboxTypeOK
<1>6. /\ \A v \in Worker, e \in Event : v # w => /\ Handles(v, e)' <=> Handles(v, e)
                                                 /\ Holds(v, e)' <=> Holds(v, e)
      /\ \A e \in Event : Handles(w, e)' <=> e \in PendingBatch
      /\ \A v \in Worker : v # w => Current(v)' = Current(v)
  BY <1>1, <1>3, <1>4 DEF Handles, Holds, Current
<1>7. \A v \in Worker, e \in Event : Delivered(v, e)' <=> Delivered(v, e)
  BY <1>1, <1>3, <1>4 DEF Delivered, Confirms, Current
<1>8. IterationsAreOrdered'
  <2>1. ASSUME NEW v \in Worker
        PROVE  /\ phase'[v] = "idle" => session'[v] /\ \A e \in Event : ~Handles(v, e)'
               /\ phase'[v] = "confirming" <=> wire'[v] # "none"
               /\ phase'[v] = "confirming" => batch'[v] # {}
               /\ returned'[v] => wire'[v] = "ack"
               /\ \A e \in batch'[v] : draft'[v][e] = NoRow
    BY <1>1, <1>2, <1>3, <1>4, <1>6 DEF IterationsAreOrdered
  <2>2. QED
    BY <2>1 DEF IterationsAreOrdered
<1>9. HeldEventsAreStable'
  <2>1. ASSUME NEW v \in Worker, NEW e \in Event, Holds(v, e)'
        PROVE  locks'[e] = v /\ table[e].status = "PENDING" /\ ~table[e].waiting
    <3>1. CASE v = w
      BY <1>1, <1>2, <1>6, <2>1, <3>1 DEF Holds, Handles
    <3>2. CASE v # w
      BY <1>1, <1>2, <1>6, <2>1, <3>2, WorkerAssumption DEF HeldEventsAreStable
    <3>3. QED
      BY <3>1, <3>2
  <2>2. QED
    BY <1>1, <2>1 DEF HeldEventsAreStable
<1>10. LossesAreUnsure'
  BY <1>1, <1>3, <1>6 DEF LossesAreUnsure
<1>11. AttemptsAreCounted'
  BY <1>1, <1>3, <1>4, <1>6 DEF AttemptsAreCounted, CountsAttempts
<1>12. DeliveriesWereRouted' /\ RoutedIsMarked'
  BY <1>1, <1>7 DEF DeliveriesWereRouted, PublishedWasRouted, RoutedIsMarked
<1>13. QED
  BY <1>5, <1>8, <1>9, <1>10, <1>11, <1>12

\* The next event is sent: from now on an attempt may be counted.
LEMMA SendKeepsInv ==
    ASSUME OInv, NEW w \in Worker, Send(w)
    PROVE  OInv'
<1> DEFINE c == Current(w)
<1> USE DEF OInv
<1>1. /\ phase[w] = "publish" /\ batch[w] # {}
      /\ phase' = [phase EXCEPT ![w] = "confirming"]
      /\ wire' = [wire EXCEPT ![w] = "message"]
      /\ sends' = [sends EXCEPT ![c] = Saturated(@, MaxAttempts)]
      /\ UNCHANGED <<table, locks, session, batch, draft, returned, stray, routed, unsure>>
  BY DEF Send, dbVars
<1>2. /\ c \in Event /\ wire[w] = "none" /\ ~returned[w]
      /\ session[w] => Holds(w, c)
  BY <1>1, CurrentIsHeld DEF IterationsAreOrdered
<1>3. /\ sends[c] \in 0 .. MaxAttempts /\ MaxAttempts \in Nat
      /\ sends'[c] = Saturated(sends[c], MaxAttempts)
      /\ \A e \in Event : e # c => sends'[e] = sends[e]
  BY <1>1, <1>2, AttemptsAssumption DEF OutboxTypeOK
<1>4. /\ sends'[c] \in 0 .. MaxAttempts
      /\ \A e \in Event : sends[e] <= sends'[e]
  <2>1. sends'[c] \in 0 .. MaxAttempts /\ sends[c] <= sends'[c]
    BY <1>3, SaturatedFacts
  <2>2. \A e \in Event : sends[e] \in 0 .. MaxAttempts
    BY DEF OutboxTypeOK
  <2>3. QED
    BY <1>3, <2>1, <2>2
<1>5. OutboxTypeOK'
  BY <1>1, <1>2, <1>3, <1>4 DEF OutboxTypeOK
<1>6. /\ phase'[w] = "confirming" /\ wire'[w] = "message"
      /\ \A v \in Worker : v # w => phase'[v] = phase[v] /\ wire'[v] = wire[v]
      /\ \A v \in Worker : Current(v)' = Current(v)
  BY <1>1 DEF OutboxTypeOK, Current
<1>7. \A v \in Worker, e \in Event : /\ Handles(v, e)' <=> Handles(v, e)
                                     /\ Holds(v, e)' <=> Holds(v, e)
                                     /\ Delivered(v, e)' <=> Delivered(v, e)
  BY <1>1, <1>2, <1>6 DEF Handles, Holds, Delivered, Confirms
<1>8. IterationsAreOrdered'
  BY <1>1, <1>2, <1>6, <1>7 DEF IterationsAreOrdered
<1>9. HeldEventsAreStable' /\ LossesAreUnsure'
  BY <1>1, <1>7 DEF HeldEventsAreStable, LossesAreUnsure
<1>10. AttemptsAreCounted'
  <2>1. ASSUME NEW row \in OutboxRow, NEW e \in Event, CountsAttempts(row, e)
        PROVE  row.attempts <= sends'[e] /\ (row.status = "FAILED" <=> row.attempts = MaxAttempts)
    BY <1>4, <1>5, <2>1 DEF OutboxTypeOK, OutboxRow, CountsAttempts
  <2>2. ASSUME session[w] PROVE table[c].attempts < sends'[c]
    <3>1. /\ table[c].status = "PENDING" /\ CountsAttempts(table[c], c)
          /\ table[c].attempts \in 0 .. MaxAttempts
      BY <1>2, <2>2 DEF HeldEventsAreStable, AttemptsAreCounted, OutboxTypeOK, OutboxRow
    <3>2. table[c].attempts <= sends[c] /\ table[c].attempts < MaxAttempts
      BY <1>3, <3>1 DEF CountsAttempts
    <3>3. QED
      BY <1>3, <3>1, <3>2, SaturatedFacts
  <2>3. \A v \in Worker : v # w /\ phase[v] = "confirming" /\ session[v] =>
           table[Current(v)].attempts < sends'[Current(v)]
    <3>1. ASSUME NEW v \in Worker, v # w, phase[v] = "confirming", session[v]
          PROVE  /\ Current(v) \in Event /\ table[Current(v)].attempts < sends[Current(v)]
                 /\ table[Current(v)].attempts \in Int
      BY <3>1, CurrentIsHeld DEF AttemptsAreCounted, OutboxTypeOK, OutboxRow
    <3>2. QED
      BY <1>4, <1>5, <3>1 DEF OutboxTypeOK
  <2>4. /\ \A e \in Event : CountsAttempts(table[e], e)'
        /\ \A v \in Worker, e \in Event : CountsAttempts(draft[v][e], e)'
    BY <1>1, <2>1 DEF AttemptsAreCounted, CountsAttempts, OutboxTypeOK
  <2>5. QED
    BY <1>1, <1>6, <2>2, <2>3, <2>4 DEF AttemptsAreCounted
<1>11. DeliveriesWereRouted' /\ RoutedIsMarked'
  BY <1>1, <1>7 DEF DeliveriesWereRouted, PublishedWasRouted, RoutedIsMarked
<1>12. QED
  BY <1>5, <1>8, <1>9, <1>10, <1>11

\* What the broker and the channel do between a send and its confirm, apart from
\* routing the message: no delivery begins or is forgotten.
LEMMA WireKeepsInv ==
    ASSUME OInv, NEW w \in Worker,
           HandleReturn(w) \/ BrokerReturns(w) \/ BrokerRejects(w)
    PROVE  OInv'
<1> USE DEF OInv
<1>1. PICK m \in {"return", "ack", "nack"}, b \in BOOLEAN :
         /\ wire[w] \in {"message", "return"} /\ (b => m = "ack") /\ (m = "ack" => b)
         /\ wire' = [wire EXCEPT ![w] = m] /\ returned' = [returned EXCEPT ![w] = b]
         /\ UNCHANGED <<table, locks, phase, session, batch, draft, stray, routed, sends, unsure>>
  <2>1. CASE HandleReturn(w)
    BY <2>1 DEF HandleReturn, dbVars, workerVars
  <2>2. CASE BrokerReturns(w) \/ BrokerRejects(w)
    <3>1. /\ wire[w] = "message" /\ returned[w] = FALSE
          /\ wire' = [wire EXCEPT ![w] = "return"] \/ wire' = [wire EXCEPT ![w] = "nack"]
          /\ returned' = returned
          /\ UNCHANGED <<table, locks, phase, session, batch, draft, stray, routed, sends, unsure>>
      BY <2>2 DEF BrokerReturns, BrokerRejects, dbVars, workerVars,
         IterationsAreOrdered,
                  OutboxTypeOK
    <3>2. returned' = [returned EXCEPT ![w] = FALSE]
      BY <3>1 DEF OutboxTypeOK
    <3>3. QED
      BY <3>1, <3>2
  <2>3. QED
    BY <2>1, <2>2
<1>2. OutboxTypeOK'
  BY <1>1 DEF OutboxTypeOK
<1>3. /\ wire'[w] = m /\ returned'[w] = b
      /\ \A v \in Worker : v # w => wire'[v] = wire[v] /\ returned'[v] = returned[v]
      /\ \A v \in Worker : Current(v)' = Current(v)
  BY <1>1 DEF OutboxTypeOK, Current
<1>4. \A v \in Worker, e \in Event : /\ Handles(v, e)' <=> Handles(v, e)
                                     /\ Holds(v, e)' <=> Holds(v, e)
                                     /\ Delivered(v, e)' <=> Delivered(v, e)
  BY <1>1, <1>3 DEF Handles, Holds, Delivered, Confirms
<1>5. IterationsAreOrdered'
  BY <1>1, <1>3, <1>4 DEF IterationsAreOrdered
<1>6. HeldEventsAreStable' /\ LossesAreUnsure'
  BY <1>1, <1>4 DEF HeldEventsAreStable, LossesAreUnsure
<1>7. AttemptsAreCounted'
  BY <1>1, <1>3 DEF AttemptsAreCounted, CountsAttempts
<1>8. DeliveriesWereRouted' /\ RoutedIsMarked'
  BY <1>1, <1>4 DEF DeliveriesWereRouted, PublishedWasRouted, RoutedIsMarked
<1>9. QED
  BY <1>2, <1>5, <1>6, <1>7, <1>8

\* The broker puts an event into a queue: for the first time, or it is in doubt.
LEMMA RoutesKeepsInv ==
    ASSUME OInv, NEW w \in Worker, BrokerRoutes(w)
    PROVE  OInv'
<1> DEFINE c == Current(w)
<1> USE DEF OInv
<1>1. /\ wire[w] = "message"
      /\ routed' = [routed EXCEPT ![c] = Saturated(@, 2)]
      /\ wire' = [wire EXCEPT ![w] = "ack"]
      /\ UNCHANGED <<table, locks, phase, session, batch, draft, returned, stray, sends, unsure>>
  BY DEF BrokerRoutes, dbVars, workerVars
<1>2. /\ phase[w] = "confirming" /\ ~returned[w]
      /\ c \in batch[w] /\ c \in Event /\ draft[w][c] = NoRow
      /\ session[w] => Holds(w, c)
  BY <1>1, CurrentIsHeld DEF IterationsAreOrdered
<1>3. /\ routed[c] \in 0 .. 2 /\ routed'[c] = Saturated(routed[c], 2)
      /\ \A e \in Event : e # c => routed'[e] = routed[e]
  BY <1>1, <1>2 DEF OutboxTypeOK
<1>4. /\ routed'[c] \in 0 .. 2 /\ routed'[c] > 0
      /\ routed[c] = 0 => routed'[c] = 1
  BY <1>3 DEF Saturated
<1>5. OutboxTypeOK'
  BY <1>1, <1>2, <1>4 DEF OutboxTypeOK
<1>6. /\ wire'[w] = "ack" /\ \A v \in Worker : v # w => wire'[v] = wire[v]
      /\ \A v \in Worker : Current(v)' = Current(v)
  BY <1>1 DEF OutboxTypeOK, Current
<1>7. \A v \in Worker, e \in Event : /\ Handles(v, e)' <=> Handles(v, e)
                                     /\ Holds(v, e)' <=> Holds(v, e)
  BY <1>1 DEF Handles, Holds
<1>8. /\ \A v \in Worker, e \in Event : Delivered(v, e) => Delivered(v, e)'
      /\ \A v \in Worker, e \in Event : Delivered(v, e)' => Delivered(v, e) \/ (v = w /\ e = c)
      /\ \A e \in Event : e = c => Delivered(w, e)'
  BY <1>1, <1>2, <1>6 DEF Delivered, Confirms
<1>9. IterationsAreOrdered'
  BY <1>1, <1>2, <1>6, <1>7 DEF IterationsAreOrdered
<1>10. HeldEventsAreStable' /\ LossesAreUnsure'
  BY <1>1, <1>7 DEF HeldEventsAreStable, LossesAreUnsure
<1>11. AttemptsAreCounted'
  BY <1>1, <1>6 DEF AttemptsAreCounted, CountsAttempts
<1>12. DeliveriesWereRouted'
  BY <1>1, <1>3, <1>4, <1>8 DEF DeliveriesWereRouted, PublishedWasRouted
<1>13. c \notin unsure => session[w] /\ routed[c] = 0
  <2>1. ASSUME c \notin unsure PROVE session[w]
    BY <1>2, <2>1 DEF LossesAreUnsure, Handles
  <2>2. ASSUME c \notin unsure, routed[c] > 0 PROVE FALSE
    <3>1. Holds(w, c) /\ table[c].status = "PENDING"
      BY <1>2, <2>1, <2>2 DEF HeldEventsAreStable
    <3>2. PICK v \in Worker : session[v] /\ Delivered(v, c)
      BY <1>2, <2>2, <3>1 DEF RoutedIsMarked
    <3>3. v = w
      BY <1>2, <3>1, <3>2, DeliveredIsHandled, HeldOnce DEF Holds, Handles
    <3>4. ~Delivered(w, c)
      BY <1>1, <1>2, FirstRows DEF Delivered, Confirms
    <3>5. QED
      BY <3>2, <3>3, <3>4
  <2>3. QED
    BY <1>3, <2>1, <2>2
<1>14. RoutedIsMarked'
  <2>1. ASSUME NEW e \in Event \ unsure
        PROVE  /\ routed'[e] < 2
               /\ routed'[e] > 0 => \/ table[e].status = "PUBLISHED"
                                    \/ \E v \in Worker : session[v] /\ Delivered(v, e)'
    <3>1. CASE e = c
      BY <1>4, <1>8, <1>13, <3>1
    <3>2. CASE e # c
      BY <1>3, <1>8, <3>2 DEF RoutedIsMarked
    <3>3. QED
      BY <3>1, <3>2
  <2>2. QED
    BY <1>1, <2>1 DEF RoutedIsMarked
<1>15. QED
  BY <1>5, <1>9, <1>10, <1>11, <1>12, <1>14

\* A message of an invalidated channel arrives or is lost: it is in doubt.
LEMMA StrayKeepsInv ==
    ASSUME OInv, NEW c \in Event, StrayEnds(c)
    PROVE  OInv'
<1> USE DEF OInv
<1>1. /\ c \in stray /\ stray' = stray \ {c}
      /\ routed' = [routed EXCEPT ![c] = Saturated(@, 2)] \/ routed' = routed
      /\ UNCHANGED <<table, locks, phase, session, batch, draft, wire, returned, sends, unsure>>
  BY DEF StrayEnds, dbVars, workerVars
<1>2. /\ routed' \in [Event -> 0 .. 2]
      /\ \A e \in Event : e # c => routed'[e] = routed[e]
      /\ \A e \in Event : routed[e] > 0 => routed'[e] > 0
  <2>1. routed[c] \in 0 .. 2 /\ Saturated(routed[c], 2) \in 0 .. 2
        /\ (routed[c] > 0 => Saturated(routed[c], 2) > 0)
    BY DEF OutboxTypeOK, Saturated
  <2>2. QED
    BY <1>1, <2>1 DEF OutboxTypeOK
<1>3. OutboxTypeOK'
  BY <1>1, <1>2 DEF OutboxTypeOK
<1>4. /\ \A v \in Worker, e \in Event : /\ Handles(v, e)' <=> Handles(v, e)
                                        /\ Holds(v, e)' <=> Holds(v, e)
                                        /\ Delivered(v, e)' <=> Delivered(v, e)
      /\ \A v \in Worker : Current(v)' = Current(v)
  BY <1>1 DEF Handles, Holds, Delivered, Confirms, Current
<1>5. IterationsAreOrdered' /\ HeldEventsAreStable' /\ LossesAreUnsure'
  BY <1>1, <1>4 DEF IterationsAreOrdered, HeldEventsAreStable, LossesAreUnsure
<1>6. AttemptsAreCounted'
  BY <1>1, <1>4 DEF AttemptsAreCounted, CountsAttempts
<1>7. DeliveriesWereRouted'
  BY <1>1, <1>2, <1>4 DEF DeliveriesWereRouted, PublishedWasRouted
<1>8. RoutedIsMarked'
  <2>1. c \in unsure
    BY <1>1 DEF LossesAreUnsure
  <2>2. QED
    BY <1>1, <1>2, <1>4, <2>1 DEF RoutedIsMarked
<1>9. QED
  BY <1>3, <1>5, <1>6, <1>7, <1>8

\* COMMIT: what the transaction has written replaces what it had read.
LEMMA CommitKeepsInv ==
    ASSUME OInv, NEW w \in Worker, Commit(w)
    PROVE  OInv'
<1> USE DEF OInv
<1>1. /\ phase[w] = "publish" /\ batch[w] = {} /\ session[w]
      /\ table' = [e \in Event |-> IF draft[w][e] = NoRow THEN table[e] ELSE draft[w][e]]
      /\ IterationEnds(w)
      /\ UNCHANGED <<wire, returned, stray, routed, sends, unsure>>
  BY DEF Commit, brokerVars
<1>2. /\ locks' = [e \in Event |-> IF locks[e] = w THEN None ELSE locks[e]]
      /\ phase'[w] = "idle" /\ session'[w] = TRUE /\ batch'[w] = {}
      /\ \A e \in Event : draft'[w][e] = NoRow
      /\ wire[w] = "none" /\ ~returned[w]
  BY <1>1 DEF IterationEnds, Unlocked, OutboxTypeOK, IterationsAreOrdered
<1>3. \A v \in Worker : v # w =>
         /\ phase'[v] = phase[v] /\ session'[v] = session[v] /\ batch'[v] = batch[v]
         /\ draft'[v] = draft[v]
  BY <1>1 DEF IterationEnds, OutboxTypeOK
<1>4. OutboxTypeOK'
  BY <1>1, <1>2, FirstRows DEF IterationEnds, OutboxTypeOK
<1>5. \A v \in Worker, e \in Event : v # w =>
         /\ Handles(v, e)' <=> Handles(v, e)
         /\ Holds(v, e)' <=> Holds(v, e)
         /\ Delivered(v, e)' <=> Delivered(v, e)
  BY <1>1, <1>3 DEF Handles, Holds, Delivered, Confirms, Current
<1>6. \A e \in Event : ~Handles(w, e)' /\ ~Holds(w, e)' /\ ~Delivered(w, e)'
  BY <1>1, <1>2, FirstRows DEF Handles, Holds, Delivered, Confirms
<1>7. \A v \in Worker : v # w => Current(v)' = Current(v)
  BY <1>3 DEF Current
<1>8. \A v \in Worker, e \in Event : Holds(v, e) /\ v # w => draft[w][e] = NoRow
  BY <1>1, HeldOnce DEF Holds
<1>9. \A e \in Event : draft[w][e] = NoRow => table'[e] = table[e]
  BY <1>1
<1>10. \A e \in Event : draft[w][e] # NoRow => table'[e] = draft[w][e] /\ Holds(w, e)
  BY <1>1 DEF Holds
<1>11. IterationsAreOrdered'
  <2>1. ASSUME NEW v \in Worker
        PROVE  /\ phase'[v] = "idle" => session'[v] /\ \A e \in Event : ~Handles(v, e)'
               /\ phase'[v] = "confirming" <=> wire'[v] # "none"
               /\ phase'[v] = "confirming" => batch'[v] # {}
               /\ returned'[v] => wire'[v] = "ack"
               /\ \A e \in batch'[v] : draft'[v][e] = NoRow
    BY <1>1, <1>2, <1>3, <1>5, <1>6 DEF IterationsAreOrdered
  <2>2. QED
    BY <2>1 DEF IterationsAreOrdered
<1>12. HeldEventsAreStable'
  <2>1. ASSUME NEW v \in Worker, NEW e \in Event, Holds(v, e)'
        PROVE  locks'[e] = v /\ table'[e].status = "PENDING" /\ ~table'[e].waiting
    <3>1. v # w /\ Holds(v, e)
      BY <1>5, <1>6, <2>1
    <3>2. table'[e] = table[e] /\ locks[e] = v
      BY <1>8, <1>9, <3>1 DEF HeldEventsAreStable
    <3>3. QED
      BY <1>2, <3>1, <3>2 DEF HeldEventsAreStable
  <2>2. QED
    BY <2>1 DEF HeldEventsAreStable
<1>13. LossesAreUnsure'
  BY <1>1, <1>2, <1>3, <1>5, <1>6 DEF LossesAreUnsure
<1>14. AttemptsAreCounted'
  <2>1. \A e \in Event : CountsAttempts(table[e], e)'
    BY <1>1, <1>9, <1>10 DEF AttemptsAreCounted, CountsAttempts
  <2>2. \A e \in Event : CountsAttempts(draft[w][e], e)'
    BY <1>1, <1>2, FirstRows, AttemptsAssumption DEF CountsAttempts, OutboxTypeOK
  <2>3. \A v \in Worker, e \in Event : CountsAttempts(draft[v][e], e)'
    BY <1>1, <1>3, <2>2 DEF AttemptsAreCounted, CountsAttempts
  <2>4. ASSUME NEW v \in Worker, phase'[v] = "confirming", session'[v]
        PROVE  table'[Current(v)].attempts < sends[Current(v)] /\ v # w
    <3>1. v # w /\ phase[v] = "confirming" /\ session[v]
      BY <1>2, <1>3, <2>4
    <3>2. Holds(v, Current(v)) /\ Current(v) \in Event
      BY <3>1, CurrentIsHeld
    <3>3. table'[Current(v)] = table[Current(v)]
      BY <1>8, <1>9, <3>1, <3>2
    <3>4. QED
      BY <3>1, <3>3 DEF AttemptsAreCounted
  <2>5. QED
    BY <1>1, <1>7, <2>1, <2>3, <2>4 DEF AttemptsAreCounted
<1>15. \A e \in Event : draft[w][e].status = "PUBLISHED" =>
          Delivered(w, e) /\ draft[w][e] # NoRow
  BY FirstRows DEF Delivered
<1>16. \A e \in Event : Delivered(w, e) => draft[w][e].status = "PUBLISHED"
  BY <1>2 DEF Delivered, Confirms
<1>17. DeliveriesWereRouted'
  <2>1. ASSUME NEW e \in Event, table'[e].status = "PUBLISHED" PROVE routed[e] > 0
    BY <1>9, <1>10, <1>15, <2>1 DEF DeliveriesWereRouted, PublishedWasRouted
  <2>2. QED
    BY <1>1, <1>5, <1>6, <2>1 DEF DeliveriesWereRouted, PublishedWasRouted
<1>18. RoutedIsMarked'
  <2>1. ASSUME NEW e \in Event \ unsure, routed[e] > 0
        PROVE  \/ table'[e].status = "PUBLISHED"
               \/ \E v \in Worker : session'[v] /\ Delivered(v, e)'
    <3>1. CASE table[e].status = "PUBLISHED"
      BY <1>9, <1>10, <3>1 DEF HeldEventsAreStable
    <3>2. CASE Delivered(w, e)
      BY <1>10, <1>15, <1>16, <3>2
    <3>3. CASE \E v \in Worker : v # w /\ session[v] /\ Delivered(v, e)
      BY <1>3, <1>5, <3>3
    <3>4. QED
      BY <2>1, <3>1, <3>2, <3>3 DEF RoutedIsMarked
  <2>2. QED
    BY <1>1, <2>1 DEF RoutedIsMarked
<1>19. QED
  BY <1>4, <1>11, <1>12, <1>13, <1>14, <1>17, <1>18

\* Every step of the workers, the broker and the requests keeps the invariant.
LEMMA OutboxNextInv == OInv /\ [OutboxNext]_outboxVars => OInv'
<1> SUFFICES ASSUME OInv, [OutboxNext]_outboxVars PROVE OInv'
  OBVIOUS
<1>1. ASSUME NEW e \in Event, Record(e) \/ RetryDue(e) \/ StrayEnds(e) PROVE OInv'
  BY <1>1, TableKeepsInv, StrayKeepsInv
<1>2. ASSUME NEW w \in Worker, Iteration(w) PROVE OInv'
  BY <1>2, FetchKeepsInv, SendKeepsInv, WireKeepsInv, ConfirmKeepsInv, TimeoutKeepsInv,
     CommitKeepsInv, EndsKeepInv DEF Iteration
<1>3. ASSUME NEW w \in Worker, Broker(w) PROVE OInv'
  BY <1>3, RoutesKeepsInv, WireKeepsInv DEF Broker
<1>4. ASSUME NEW w \in Worker, OutboxFault(w) PROVE OInv'
  BY <1>4, EndsKeepInv, DetachKeepsInv DEF OutboxFault
<1>5. CASE UNCHANGED outboxVars
  BY <1>5 DEF outboxVars, dbVars, workerVars, brokerVars, OInv, OutboxTypeOK,
              IterationsAreOrdered, HeldEventsAreStable, LossesAreUnsure,
              AttemptsAreCounted, DeliveriesWereRouted, RoutedIsMarked, Handles, Holds,
              CountsAttempts, Delivered, Confirms, Current, PublishedWasRouted
<1>6. QED
  BY <1>1, <1>2, <1>3, <1>4, <1>5 DEF OutboxNext

\* The invariant holds in every behaviour of the pollers.
LEMMA OutboxInv == OutboxSpec => []OInv
<1>1. QED
  BY OutboxInitInv, OutboxNextInv, PTL DEF OutboxSpec

-----------------------------------------------------------------------------
(* What follows *)

\* The rows, locks, drafts and counters of the outbox keep their types: neither
\* attempts nor the modelled counters pass their bound.
THEOREM OutboxTypeCorrect == OutboxSpec => []OutboxTypeOK
<1>1. OInv => OutboxTypeOK
  BY DEF OInv
<1>2. QED
  BY <1>1, OutboxInv, PTL

\* FOR UPDATE SKIP LOCKED gives an event to one open transaction, and its row is as
\* that transaction read it when the outcome is written.
THEOREM HeldEventsStayStable == OutboxSpec => []HeldEventsAreStable
<1>1. OInv => HeldEventsAreStable
  BY DEF OInv
<1>2. QED
  BY <1>1, OutboxInv, PTL

\* PUBLISHED means delivered, FAILED means MaxAttempts messages were sent, and a
\* second delivery means that a confirm or an iteration was lost before.
THEOREM AtLeastOnce == OutboxSpec => []DeliveryIsAtLeastOnce
<1>1. ASSUME OInv PROVE DuplicatesAreExplained
  <2>1. ASSUME NEW e \in Event \ unsure, table[e].status = "FAILED", routed[e] > 0
        PROVE  FALSE
    <3>1. PICK w \in Worker : session[w] /\ Delivered(w, e)
      BY <1>1, <2>1 DEF OInv, RoutedIsMarked
    <3>2. Holds(w, e)
      BY <1>1, <3>1, DeliveredIsHandled DEF Holds, Handles
    <3>3. QED
      BY <1>1, <2>1, <3>2 DEF OInv, HeldEventsAreStable
  <2>2. \A e \in Event : routed[e] \in 0 .. 2
    BY <1>1 DEF OInv, OutboxTypeOK
  <2>3. QED
    BY <1>1, <2>1, <2>2 DEF OInv, RoutedIsMarked, DuplicatesAreExplained
<1>2. OInv => PublishedWasRouted /\ AttemptsWereMade
  BY DEF OInv, DeliveriesWereRouted, AttemptsAreCounted, CountsAttempts,
     AttemptsWereMade
<1>3. QED
  BY <1>1, <1>2, OutboxInv, PTL DEF DeliveryIsAtLeastOnce

-----------------------------------------------------------------------------
(* Retry delays *)

\* A power of two is as many as the subsets of a set of that size, and one more
\* element doubles them.
LEMMA PowersOfTwo ==
    ASSUME NEW n \in Nat
    PROVE  2 ^ n \in Nat /\ 2 ^ (n + 1) = 2 * 2 ^ n
<1> DEFINE x == n + 1
           Without == SUBSET (1 .. n)
           With == {T \cup {x} : T \in Without}
           AddX == [T \in Without |-> T \cup {x}]
<1>1. IsFiniteSet(1 .. n) /\ Cardinality(1 .. n) = n /\ x \notin 1 .. n
  BY FS_Interval
<1>2. IsFiniteSet(1 .. x) /\ Cardinality(1 .. x) = x /\ 1 .. x = (1 .. n) \cup {x}
  <2>1. x \in Nat
    OBVIOUS
  <2>2. 1 .. x = (1 .. n) \cup {x}
    OBVIOUS
  <2> HIDE DEF x
  <2>3. IsFiniteSet(1 .. x) /\ Cardinality(1 .. x) = x
    BY <2>1, FS_Interval
  <2>4. QED
    BY <2>2, <2>3
<1>3. IsFiniteSet(Without) /\ Cardinality(Without) = 2 ^ n
  BY <1>1, FS_SUBSET
<1>4. Cardinality(SUBSET (1 .. x)) = 2 ^ x
  BY <1>2, FS_SUBSET
<1>5. \A T \in Without : x \notin T
  BY <1>1
<1> HIDE DEF x
<1>6. AddX \in Bijection(Without, With)
  <2>1. ASSUME NEW T \in Without, NEW U \in Without, T \cup {x} = U \cup {x} PROVE T = U
    BY <1>5, <2>1
  <2>2. AddX \in Injection(Without, With)
    BY <2>1 DEF Injection, IsInjective
  <2>3. AddX \in Surjection(Without, With)
    BY DEF Surjection
  <2>4. QED
    BY <2>2, <2>3 DEF Bijection
<1>7. IsFiniteSet(With) /\ Cardinality(With) = Cardinality(Without)
  BY <1>3, <1>6, FS_Bijection DEF ExistsBijection
<1>8. Without \cap With = {}
  BY <1>5
<1>9. SUBSET (1 .. x) = Without \cup With
  <2>1. ASSUME NEW T \in SUBSET (1 .. x) PROVE T \in Without \cup With
    <3>1. CASE x \in T
      <4>1. T \ {x} \in Without /\ T = (T \ {x}) \cup {x}
        BY <1>2, <3>1
      <4>2. QED
        BY <4>1
    <3>2. CASE x \notin T
      BY <1>2, <3>2
    <3>3. QED
      BY <3>1, <3>2
  <2>2. ASSUME NEW T \in Without PROVE T \in SUBSET (1 .. x) /\ T \cup {x} \in SUBSET (1 .. x)
    BY <1>2
  <2>3. QED
    BY <2>1, <2>2
<1> HIDE DEF Without, With
<1>10. Cardinality(Without \cup With) = Cardinality(Without) + Cardinality(With) - 0
  <2>1. Cardinality({}) = 0
    BY FS_EmptySet
  <2>2. QED
    BY <1>3, <1>7, <1>8, <2>1, FS_Union
<1>11. 2 ^ n \in Nat
  BY <1>3, FS_CardinalityType
<1>12. 2 ^ x = 2 ^ n + 2 ^ n
  <2>1. Cardinality(Without) = 2 ^ n /\ Cardinality(With) = 2 ^ n
    BY <1>3, <1>7, Zenon
  <2>2. Cardinality(Without \cup With) = 2 ^ n + 2 ^ n
    BY <1>10, <1>11, <2>1
  <2>3. QED
    BY <1>4, <1>9, <2>2, Zenon
<1>13. QED
  BY <1>11, <1>12 DEF x

\* retryDelayFor doubles from one attempt to the next, up to the maximum: where the
\* exponent is capped, the maximum has been reached.
THEOREM DelayDoubles ==
    ASSUME NEW last \in Nat
    PROVE  RetryDelayFor(last) =
               IF last = 0 THEN Least(RetryBaseDelay, RetryMaxDelay)
               ELSE Least(2 * RetryDelayFor(last - 1), RetryMaxDelay)
<1> DEFINE base == RetryBaseDelay
           max == RetryMaxDelay
<1>1. /\ base \in Nat /\ base >= 1 /\ max \in Nat /\ max >= 1
      /\ max <= 2 ^ MaxExponent /\ 2 ^ MaxExponent \in Nat
  BY DelayAssumption, MaxExponentAssumption, PowersOfTwo
<1>2. CASE last = 0
  <2>1. Least(last, MaxExponent) = 0 /\ 2 ^ 0 = 1
    BY <1>2, MaxExponentAssumption DEF Least
  <2>2. RetryDelayFor(last) = Least(max, base * 1)
    BY <2>1 DEF RetryDelayFor
  <2>3. QED
    BY <1>1, <1>2, <2>2 DEF Least
<1>3. CASE last # 0 /\ last <= MaxExponent
  <2> DEFINE before == base * 2 ^ (last - 1)
  <2>1. /\ Least(last, MaxExponent) = last
        /\ Least(last - 1, MaxExponent) = last - 1
    BY <1>3, MaxExponentAssumption DEF Least
  <2>2. 2 ^ (last - 1) \in Nat /\ 2 ^ last = 2 * 2 ^ (last - 1)
    <3>1. last - 1 \in Nat /\ (last - 1) + 1 = last
      BY <1>3
    <3>2. QED
      BY <3>1, PowersOfTwo
  <2>3. before \in Nat /\ base * 2 ^ last = 2 * before
    BY <1>1, <2>2
  <2>4. /\ RetryDelayFor(last) = Least(max, 2 * before)
        /\ RetryDelayFor(last - 1) = Least(max, before)
    BY <2>1, <2>3 DEF RetryDelayFor
  <2> HIDE DEF before
  <2>5. QED
    BY <1>1, <1>3, <2>3, <2>4 DEF Least
<1>4. CASE last > MaxExponent
  <2> DEFINE highest == base * 2 ^ MaxExponent
  <2>1. /\ Least(last, MaxExponent) = MaxExponent
        /\ Least(last - 1, MaxExponent) = MaxExponent
        /\ last # 0
    BY <1>4, MaxExponentAssumption DEF Least
  <2>2. highest \in Nat /\ max <= highest
    BY <1>1
  <2>3. /\ RetryDelayFor(last) = Least(max, highest)
        /\ RetryDelayFor(last - 1) = Least(max, highest)
    BY <2>1 DEF RetryDelayFor
  <2> HIDE DEF highest
  <2>4. QED
    BY <1>1, <2>1, <2>2, <2>3 DEF Least
<1>5. QED
  BY <1>2, <1>3, <1>4, MaxExponentAssumption

\* A step that writes no draft, and no row of an event that is held.
LEMMA DraftsUndisturbed ==
    ASSUME OInv, DraftsFollowRows,
           \A w \in Worker, e \in Event :
               session'[w] /\ draft'[w][e] # NoRow =>
                   /\ session[w] /\ draft'[w][e] = draft[w][e]
                   /\ Holds(w, e) => table'[e] = table[e]
    PROVE  DraftsFollowRows'
BY DEF DraftsFollowRows, Holds, MarkedPublished, MarkedFailed

\* The outcome of a publish is written to the draft as one of the two marks.
LEMMA DraftsWritten ==
    ASSUME OInv, DraftsFollowRows, NEW w \in Worker, phase[w] = "confirming",
           NEW row \in {MarkedPublished(table[Current(w)]), MarkedFailed(table[Current(w)])},
           Settle(w, row)
    PROVE  DraftsFollowRows'
<1> DEFINE c == Current(w)
<1>1. c \in Event /\ draft \in [Worker -> [Event -> OutboxRow]]
  BY CurrentIsHeld DEF OInv, OutboxTypeOK
<1>2. CASE IterationEnds(w) /\ table' = table
  <2>1. ASSUME NEW v \in Worker, NEW e \in Event, session'[v], draft'[v][e] # NoRow
        PROVE  session[v] /\ draft'[v][e] = draft[v][e]
    BY <1>1, <1>2, <2>1 DEF IterationEnds, OInv, OutboxTypeOK
  <2>2. QED
    BY <1>2, <2>1, DraftsUndisturbed
<1>3. CASE /\ session' = session /\ table' = table
           /\ draft' = draft \/ draft' = [draft EXCEPT ![w][c] = row]
  <2>1. ASSUME NEW v \in Worker, NEW e \in Event, session'[v], draft'[v][e] # NoRow
        PROVE  draft'[v][e] \in {MarkedPublished(table[e]), MarkedFailed(table[e])}
    <3>1. CASE draft'[v][e] = draft[v][e]
      BY <1>3, <2>1, <3>1 DEF DraftsFollowRows
    <3>2. CASE v = w /\ e = c /\ draft'[v][e] = row
      BY <3>2
    <3>3. QED
      BY <1>1, <1>3, <3>1, <3>2
  <2>2. QED
    BY <1>3, <2>1 DEF DraftsFollowRows, MarkedPublished, MarkedFailed
<1>4. QED
  BY <1>2, <1>3 DEF Settle, dbVars

\* Record and RetryDue write rows that nobody holds, and so does a COMMIT but for
\* those of its own transaction, which ends with it.
LEMMA DraftsWithTable ==
    ASSUME OInv, DraftsFollowRows,
           \/ \E e \in Event : Record(e) \/ RetryDue(e)
           \/ \E w \in Worker : Commit(w)
    PROVE  DraftsFollowRows'
<1> USE DEF OInv
<1>1. ASSUME NEW e \in Event, Record(e) \/ RetryDue(e)
      PROVE  DraftsFollowRows'
  <2>1. /\ session' = session /\ draft' = draft
        /\ \A f \in Event : f # e => table'[f] = table[f]
        /\ table[e].status = "ABSENT" \/ table[e].waiting
    BY <1>1 DEF Record, RetryDue, workerVars, OutboxTypeOK
  <2>2. \A w \in Worker, f \in Event : Holds(w, f) => table'[f] = table[f]
    BY <2>1 DEF HeldEventsAreStable
  <2>3. QED
    BY <2>1, <2>2, DraftsUndisturbed
<1>2. ASSUME NEW w \in Worker, Commit(w)
      PROVE  DraftsFollowRows'
  <2>1. /\ session[w] /\ \A e \in Event : draft'[w][e] = NoRow
        /\ \A v \in Worker : v # w => session'[v] = session[v] /\ draft'[v] = draft[v]
        /\ \A e \in Event : draft[w][e] = NoRow => table'[e] = table[e]
    BY <1>2 DEF Commit, IterationEnds, OutboxTypeOK
  <2>2. ASSUME NEW v \in Worker, NEW e \in Event, v # w, Holds(v, e)
        PROVE  table'[e] = table[e]
    BY <2>1, <2>2, HeldOnce DEF Holds
  <2>3. QED
    BY <2>1, <2>2, DraftsUndisturbed
<1>3. QED
  BY <1>1, <1>2

\* Every step keeps the drafts in agreement with the rows.
LEMMA DraftsFollowNext == OInv /\ DraftsFollowRows /\ [OutboxNext]_outboxVars => DraftsFollowRows'
<1> SUFFICES ASSUME OInv, DraftsFollowRows, [OutboxNext]_outboxVars PROVE DraftsFollowRows'
  OBVIOUS
<1>1. ASSUME NEW w \in Worker, HandleConfirm(w) \/ ConfirmTimeout(w)
      PROVE  DraftsFollowRows'
  <2>1. phase[w] = "confirming"
    BY <1>1 DEF HandleConfirm, ConfirmTimeout, OInv, IterationsAreOrdered
  <2>2. \/ Settle(w, MarkedPublished(table[Current(w)]))
        \/ Settle(w, MarkedFailed(table[Current(w)]))
    BY <1>1 DEF HandleConfirm, ConfirmTimeout
  <2>3. QED
    BY <2>1, <2>2, DraftsWritten
<1>2. ASSUME NEW w \in Worker, IterationEnds(w), table' = table
      PROVE  DraftsFollowRows'
  <2>1. ASSUME NEW v \in Worker, NEW e \in Event, session'[v], draft'[v][e] # NoRow
        PROVE  session[v] /\ draft'[v][e] = draft[v][e]
    BY <1>2, <2>1 DEF IterationEnds, OInv, OutboxTypeOK
  <2>2. QED
    BY <1>2, <2>1, DraftsUndisturbed
<1>3. ASSUME NEW w \in Worker, DetachSession(w)
      PROVE  DraftsFollowRows'
  <2>1. /\ table' = table /\ draft' = draft
        /\ \A v \in Worker : session'[v] => session[v]
    BY <1>3 DEF DetachSession, OInv, OutboxTypeOK
  <2>2. QED
    BY <2>1, DraftsUndisturbed
<1>4. CASE UNCHANGED <<table, session, draft>>
  BY <1>4, DraftsUndisturbed
<1>5. ASSUME NEW e \in Event, Record(e) \/ RetryDue(e) \/ StrayEnds(e)
      PROVE  DraftsFollowRows'
  BY <1>4, <1>5, DraftsWithTable DEF StrayEnds, dbVars, workerVars
<1>6. ASSUME NEW w \in Worker, Iteration(w)
      PROVE  DraftsFollowRows'
  <2>1. CASE Fetch(w) \/ Send(w) \/ HandleReturn(w)
    BY <1>4, <2>1 DEF Fetch, Send, HandleReturn, dbVars, workerVars
  <2>2. CASE HandleConfirm(w) \/ ConfirmTimeout(w)
    BY <1>1, <2>2
  <2>3. CASE Commit(w)
    BY <2>3, DraftsWithTable
  <2>4. CASE CommitFails(w)
    BY <1>2, <2>4 DEF CommitFails, Rollback
  <2>5. QED
    BY <1>6, <2>1, <2>2, <2>3, <2>4 DEF Iteration
<1>7. ASSUME NEW w \in Worker, Broker(w)
      PROVE  DraftsFollowRows'
  BY <1>4, <1>7 DEF Broker, BrokerRoutes, BrokerReturns, BrokerRejects, dbVars, workerVars
<1>8. ASSUME NEW w \in Worker, OutboxFault(w)
      PROVE  DraftsFollowRows'
  BY <1>2, <1>3, <1>8 DEF OutboxFault, NotAttempted, CommitFails, Rollback, Crash
<1>9. CASE UNCHANGED outboxVars
  BY <1>4, <1>9 DEF outboxVars, dbVars, workerVars
<1>10. QED
  BY <1>5, <1>6, <1>7, <1>8, <1>9 DEF OutboxNext

-----------------------------------------------------------------------------
(* The delays of RetryDelay *)

\* Each step of RetryDelay is one of Outbox.
LEMMA RetryStepsAreOutboxSteps == [RetryNext]_retryVars => [OutboxNext]_outboxVars
BY DEF RetryNext, FetchRows, CommitDelays, OtherStep, OutboxNext, Iteration, Broker,
       OutboxFault, retryVars

\* What an open transaction has in hand after a step that fetches nothing it had in
\* hand before, with the same count of attempts.
LEMMA HoldsLessAttempts ==
    ASSUME OInv,
           \/ \E e \in Event : Record(e) \/ RetryDue(e) \/ StrayEnds(e)
           \/ \E w \in Worker : Commit(w) \/ OtherStep(w)
           \/ UNCHANGED outboxVars
    PROVE  \A w \in Worker, e \in Event :
               Holds(w, e)' => Holds(w, e) /\ table'[e].attempts = table[e].attempts
<1> USE DEF OInv
<1> DEFINE Goal == \A w \in Worker, e \in Event :
               Holds(w, e)' => Holds(w, e) /\ table'[e].attempts = table[e].attempts
<1>1. CASE UNCHANGED <<table, session, batch, draft>>
  BY <1>1 DEF Holds
<1>2. ASSUME NEW f \in Event, Record(f) \/ RetryDue(f)
      PROVE  Goal
  <2>1. /\ session' = session /\ batch' = batch /\ draft' = draft
        /\ \A e \in Event : e # f => table'[e] = table[e]
        /\ table[f].status = "ABSENT" \/ table[f].waiting
    BY <1>2 DEF Record, RetryDue, workerVars, OutboxTypeOK
  <2>2. \A w \in Worker, e \in Event : Holds(w, e) => e # f
    BY <2>1 DEF HeldEventsAreStable
  <2>3. QED
    BY <2>1, <2>2 DEF Holds
<1>3. ASSUME NEW w \in Worker, IterationEnds(w),
             \A v \in Worker, e \in Event :
                 v # w /\ Holds(v, e) => table'[e] = table[e]
      PROVE  Goal
  <2>1. \A e \in Event : ~Holds(w, e)'
    BY <1>3 DEF IterationEnds, Holds, OutboxTypeOK
  <2>2. \A v \in Worker : v # w =>
           session'[v] = session[v] /\ batch'[v] = batch[v] /\ draft'[v] = draft[v]
    BY <1>3 DEF IterationEnds, OutboxTypeOK
  <2>3. QED
    BY <1>3, <2>1, <2>2 DEF Holds
<1>4. ASSUME NEW w \in Worker, Commit(w)
      PROVE  Goal
  <2>1. ASSUME NEW v \in Worker, NEW e \in Event, v # w, Holds(v, e)
        PROVE  table'[e] = table[e]
    BY <1>4, <2>1, HeldOnce DEF Commit, Holds
  <2>2. QED
    BY <1>3, <1>4, <2>1 DEF Commit
<1>5. ASSUME NEW w \in Worker, IterationEnds(w), table' = table
      PROVE  Goal
  BY <1>3, <1>5
<1>6. ASSUME NEW w \in Worker, HandleConfirm(w) \/ ConfirmTimeout(w)
      PROVE  Goal
  <2>1. PICK row : Settle(w, row)
    BY <1>6 DEF HandleConfirm, ConfirmTimeout
  <2>2. CASE IterationEnds(w) /\ table' = table
    BY <1>5, <2>2
  <2>3. CASE /\ session' = session /\ table' = table
             /\ draft' = draft \/ draft' = [draft EXCEPT ![w][Current(w)] = row]
             /\ batch' = [batch EXCEPT ![w] = @ \ {Current(w)}]
    <3>1. Current(w) \in batch[w] /\ Current(w) \in Event
      BY <1>6, CurrentIsHeld DEF HandleConfirm, ConfirmTimeout, IterationsAreOrdered
    <3>2. ASSUME NEW v \in Worker, NEW e \in Event, Holds(v, e)'
          PROVE  Holds(v, e)
      <4>1. CASE v = w /\ e = Current(w)
        BY <2>3, <3>1, <3>2, <4>1 DEF Holds
      <4>2. CASE v # w \/ e # Current(w)
        <5>1. batch'[v] \subseteq batch[v] /\ draft'[v][e] = draft[v][e]
          BY <2>3, <3>1, <4>2 DEF OutboxTypeOK
        <5>2. QED
          BY <2>3, <3>2, <5>1 DEF Holds
      <4>3. QED
        BY <4>1, <4>2
    <3>3. QED
      BY <2>3, <3>2
  <2>4. QED
    BY <2>1, <2>2, <2>3 DEF Settle, dbVars
<1>7. ASSUME NEW w \in Worker, DetachSession(w)
      PROVE  Goal
  <2>1. /\ table' = table /\ batch' = batch /\ draft' = draft
        /\ \A v \in Worker : session'[v] => session[v]
    BY <1>7 DEF DetachSession, OutboxTypeOK
  <2>2. QED
    BY <2>1 DEF Holds
<1>8. ASSUME NEW w \in Worker, OtherStep(w)
      PROVE  Goal
  <2>1. CASE Send(w) \/ HandleReturn(w) \/ Broker(w)
    BY <1>1, <2>1 DEF Send, HandleReturn, Broker, BrokerRoutes, BrokerReturns,
                      BrokerRejects, dbVars, workerVars
  <2>2. CASE HandleConfirm(w) \/ ConfirmTimeout(w)
    BY <1>6, <2>2
  <2>3. CASE CommitFails(w) \/ NotAttempted(w) \/ Crash(w)
    BY <1>5, <2>3 DEF CommitFails, NotAttempted, Crash, Rollback
  <2>4. CASE DetachSession(w)
    BY <1>7, <2>4
  <2>5. QED
    BY <1>8, <2>1, <2>2, <2>3, <2>4 DEF OtherStep, OutboxFault
<1>9. CASE \E e \in Event : StrayEnds(e)
  BY <1>1, <1>9 DEF StrayEnds, dbVars, workerVars
<1>10. CASE UNCHANGED outboxVars
  BY <1>1, <1>10 DEF outboxVars, dbVars, workerVars
<1>11. QED
  BY <1>2, <1>4, <1>8, <1>9, <1>10

\* Nobody counts an attempt at an event while a transaction has it in hand.
LEMMA ReadsFollowNext ==
    ASSUME RetryInv, [RetryNext]_retryVars
    PROVE  ReadsFollowRows' /\ (read \in [Worker -> [Event -> Nat]])'
<1> USE DEF RetryInv
<1>1. OInv'
  BY OutboxNextInv, RetryStepsAreOutboxSteps
<1>2. ASSUME NEW w \in Worker, FetchRows(w)
      PROVE  ReadsFollowRows' /\ (read \in [Worker -> [Event -> Nat]])'
  <2>1. /\ table' = table /\ session' = session /\ draft' = draft
        /\ batch'[w] = PendingBatch
        /\ \A v \in Worker : v # w => batch'[v] = batch[v]
    BY <1>2 DEF FetchRows, Fetch, OInv, OutboxTypeOK
  <2>2. \A e \in Event : draft[w][e] = NoRow
    BY <1>2 DEF FetchRows, Fetch, OInv, IterationsAreOrdered, Handles
  <2>3. /\ \A v \in Worker : v # w => read'[v] = read[v]
        /\ \A e \in Event : e \in PendingBatch => read'[w][e] = table[e].attempts
    BY <1>2 DEF FetchRows
  <2>4. \A e \in Event : table[e].attempts \in Nat
    BY AttemptsAssumption DEF OInv, OutboxTypeOK, OutboxRow
  <2>5. read' \in [Worker -> [Event -> Nat]]
    BY <1>2, <2>4 DEF FetchRows
  <2>6. ASSUME NEW v \in Worker, NEW e \in Event, Holds(v, e)'
        PROVE  read'[v][e] = table'[e].attempts
    <3>1. CASE v = w
      BY <2>1, <2>2, <2>3, <2>6, <3>1 DEF Holds
    <3>2. CASE v # w
      <4>1. Holds(v, e)
        BY <2>1, <2>6, <3>2 DEF Holds
      <4>2. QED
        BY <2>1, <2>3, <3>2, <4>1 DEF ReadsFollowRows
    <3>3. QED
      BY <3>1, <3>2
  <2>7. QED
    BY <2>5, <2>6 DEF ReadsFollowRows
<1>3. CASE /\ \/ \E e \in Event : Record(e) \/ RetryDue(e) \/ StrayEnds(e)
              \/ \E w \in Worker : Commit(w) \/ OtherStep(w)
           /\ Forgets
  <2>1. ASSUME NEW v \in Worker, NEW e \in Event, Holds(v, e)'
        PROVE  read'[v][e] = table'[e].attempts
    <3>1. Holds(v, e) /\ table'[e].attempts = table[e].attempts
      BY <1>3, <2>1, HoldsLessAttempts
    <3>2. phase'[v] # "idle"
      BY <1>1, <2>1 DEF OInv, IterationsAreOrdered, Handles, Holds
    <3>3. read'[v] = read[v]
      BY <1>3, <3>2 DEF Forgets
    <3>4. QED
      BY <3>1, <3>3 DEF ReadsFollowRows
  <2>2. NothingRead \in [Event -> Nat]
    BY DEF NothingRead
  <2>3. read' \in [Worker -> [Event -> Nat]]
    BY <1>3, <2>2 DEF Forgets
  <2>4. QED
    BY <2>1, <2>3 DEF ReadsFollowRows
<1>4. CASE UNCHANGED retryVars
  BY <1>4 DEF ReadsFollowRows, Holds, retryVars, outboxVars, dbVars, workerVars
<1>5. QED
  BY <1>2, <1>3, <1>4 DEF RetryNext, CommitDelays

\* What a COMMIT makes of a row and of its next_retry_at.
LEMMA CommittedDelay ==
    ASSUME RetryInv, NEW w \in Worker, CommitDelays(w), NEW e \in Event
    PROVE  \/ table'[e] = table[e] /\ scheduled'[e] = scheduled[e]
           \/ /\ table'[e].status # "PENDING" /\ ~table'[e].waiting
           \/ /\ table[e].status = "PENDING" /\ table[e].attempts \in Nat
              /\ table'[e].attempts = table[e].attempts + 1
              /\ scheduled'[e] = RetryDelayFor(table[e].attempts)
<1> USE DEF RetryInv, OInv
<1>1. /\ Commit(w)
      /\ scheduled'[e] = CASE draft[w][e].waiting            -> RetryDelayFor(read[w][e])
                           [] draft[w][e].status = "FAILED" -> 0
                           [] OTHER                         -> scheduled[e]
      /\ table'[e] = IF draft[w][e] = NoRow THEN table[e] ELSE draft[w][e]
  BY DEF CommitDelays, Commit
<1>2. CASE draft[w][e] = NoRow
  BY <1>1, <1>2, FirstRows
<1>3. CASE draft[w][e] # NoRow
  <2>1. Holds(w, e)
    BY <1>1, <1>3 DEF Commit, Holds
  <2>2. table[e].status = "PENDING" /\ ~table[e].waiting /\ table[e] \in OutboxRow
    BY <2>1 DEF HeldEventsAreStable, OutboxTypeOK
  <2>3. table[e].attempts \in Nat
    BY <2>2, AttemptsAssumption DEF OutboxRow
  <2>4. read[w][e] = table[e].attempts
    BY <2>1 DEF ReadsFollowRows
  <2>5. CASE draft[w][e] = MarkedPublished(table[e])
    <3>1. draft[w][e].status = "PUBLISHED" /\ ~draft[w][e].waiting
      BY <2>2, <2>5 DEF MarkedPublished, OutboxRow
    <3>2. QED
      BY <1>1, <1>3, <3>1
  <2>6. CASE draft[w][e] = MarkedFailed(table[e])
    <3>1. CASE table[e].attempts + 1 >= MaxAttempts
      <4>1. draft[w][e].status = "FAILED" /\ ~draft[w][e].waiting
        BY <2>6, <3>1 DEF MarkedFailed
      <4>2. QED
        BY <1>1, <1>3, <4>1
    <3>2. CASE ~(table[e].attempts + 1 >= MaxAttempts)
      <4>1. /\ draft[w][e].waiting /\ draft[w][e].status = "PENDING"
            /\ draft[w][e].attempts = table[e].attempts + 1
        BY <2>6, <3>2 DEF MarkedFailed
      <4>2. scheduled'[e] = RetryDelayFor(read[w][e])
        BY <1>1, <4>1
      <4>3. QED
        BY <1>1, <1>3, <2>2, <2>3, <2>4, <4>1, <4>2
    <3>3. QED
      BY <3>1, <3>2
  <2>7. QED
    BY <1>1, <1>3, <2>5, <2>6 DEF Commit, DraftsFollowRows
<1>4. QED
  BY <1>2, <1>3

\* A row that may be tried again has, in next_retry_at, the delay of its last attempt.
LEMMA DelaysFollowNext ==
    ASSUME RetryInv, [RetryNext]_retryVars
    PROVE  DelaysFollowRows'
<1> USE DEF RetryInv
<1> SUFFICES ASSUME NEW e \in Event, table'[e].status = "PENDING", table'[e].attempts > 0
             PROVE  scheduled'[e] = RetryDelayFor(table'[e].attempts - 1)
  BY DEF DelaysFollowRows, RetryDelayFor, Least
<1>1. ASSUME NEW w \in Worker, CommitDelays(w)
      PROVE  scheduled'[e] = RetryDelayFor(table'[e].attempts - 1)
  <2>1. CASE table'[e] = table[e] /\ scheduled'[e] = scheduled[e]
    BY <2>1 DEF DelaysFollowRows
  <2>2. CASE /\ table[e].attempts \in Nat
             /\ table'[e].attempts = table[e].attempts + 1
             /\ scheduled'[e] = RetryDelayFor(table[e].attempts)
    <3>1. table'[e].attempts - 1 = table[e].attempts
      BY <2>2
    <3>2. QED
      BY <2>2, <3>1
  <2>3. QED
    BY <1>1, <2>1, <2>2, CommittedDelay
<1>2. CASE table' = table /\ scheduled' = scheduled
  BY <1>2 DEF DelaysFollowRows
<1>3. ASSUME NEW f \in Event, Record(f) \/ RetryDue(f), scheduled' = scheduled
      PROVE  scheduled'[e] = RetryDelayFor(table'[e].attempts - 1)
  <2>1. CASE e # f
    <3>1. table'[e] = table[e]
      BY <1>3, <2>1 DEF Record, RetryDue, OInv, OutboxTypeOK
    <3>2. QED
      BY <1>3, <3>1 DEF DelaysFollowRows
  <2>2. CASE e = f /\ Record(f)
    BY <2>2, FirstRows DEF Record, OInv, OutboxTypeOK
  <2>3. CASE e = f /\ RetryDue(f)
    <3>1. table'[e].status = table[e].status /\ table'[e].attempts = table[e].attempts
      BY <2>3 DEF RetryDue, OInv, OutboxTypeOK, OutboxRow
    <3>2. QED
      BY <1>3, <3>1 DEF DelaysFollowRows
  <2>4. QED
    BY <1>3, <2>1, <2>2, <2>3
<1>4. ASSUME NEW w \in Worker, OtherStep(w)
      PROVE  table' = table
  BY <1>4 DEF OtherStep, Broker, OutboxFault, Send, HandleReturn, HandleConfirm,
     ConfirmTimeout, CommitFails, NotAttempted, DetachSession, Crash, Settle, Rollback,
     BrokerRoutes, BrokerReturns, BrokerRejects, dbVars
<1>5. QED
  BY <1>1, <1>2, <1>3, <1>4 DEF RetryNext, FetchRows, Fetch, StrayEnds, retryVars,
     outboxVars, dbVars

\* The invariant of Outbox, with what the workers have read and what they schedule.
LEMMA RetryInvHolds == RetrySpec => []RetryInv
<1>1. RetryInit => RetryInv
  <2> SUFFICES ASSUME RetryInit PROVE RetryInv
    OBVIOUS
  <2>1. OInv
    BY OutboxInitInv DEF RetryInit
  <2>2. \A e \in Event : table[e].attempts = 0
    BY FirstRows DEF RetryInit, OutboxInit
  <2>3. DraftsFollowRows /\ ReadsFollowRows
    BY DEF RetryInit, OutboxInit, DraftsFollowRows, ReadsFollowRows, Holds
  <2>4. DelaysFollowRows
    BY <2>2 DEF DelaysFollowRows
  <2>5. read \in [Worker -> [Event -> Nat]]
    BY DEF RetryInit, NothingRead
  <2>6. QED
    BY <2>1, <2>3, <2>4, <2>5 DEF RetryInv
<1>2. RetryInv /\ [RetryNext]_retryVars => RetryInv'
  <2> SUFFICES ASSUME RetryInv, [RetryNext]_retryVars PROVE RetryInv'
    OBVIOUS
  <2>1. OInv' /\ DraftsFollowRows'
    BY OutboxNextInv, DraftsFollowNext, RetryStepsAreOutboxSteps DEF RetryInv
  <2>2. QED
    BY <2>1, ReadsFollowNext, DelaysFollowNext DEF RetryInv
<1>3. QED
  BY <1>1, <1>2, PTL DEF RetrySpec

\* An event that failed waits for the base delay at first and for twice as long
\* after every further failure, up to the maximum: retryDelayFor is called with the
\* attempts before this one, no attempt is counted out of turn, and where the exponent
\* is capped the maximum has been reached.
THEOREM DelaysDouble == RetrySpec => DelaysBackOff
<1> DEFINE BacksOff ==
       \A e \in Event :
          table'[e].waiting /\ table'[e].attempts # table[e].attempts =>
              scheduled'[e] = IF table[e].attempts = 0
                              THEN Least(RetryBaseDelay, RetryMaxDelay)
                              ELSE Least(2 * scheduled[e], RetryMaxDelay)
<1>1. ASSUME RetryInv, [RetryNext]_retryVars, NEW e \in Event,
             table'[e].waiting, table'[e].attempts # table[e].attempts
      PROVE  scheduled'[e] = IF table[e].attempts = 0
                             THEN Least(RetryBaseDelay, RetryMaxDelay)
                             ELSE Least(2 * scheduled[e], RetryMaxDelay)
  <2> USE <1>1 DEF RetryInv
  <2>1. PICK w \in Worker : CommitDelays(w)
    <3>1. ASSUME NEW f \in Event, Record(f) PROVE FALSE
      <4>1. table'[e] = table[e] \/ table'[e] = InsertedRow
        BY <3>1 DEF Record, OInv, OutboxTypeOK
      <4>2. QED
        BY <4>1, FirstRows
    <3>2. ASSUME NEW f \in Event, RetryDue(f) PROVE FALSE
      BY <3>2 DEF RetryDue, OInv, OutboxTypeOK, OutboxRow
    <3>3. ASSUME NEW w \in Worker, OtherStep(w) PROVE table' = table
      BY <3>3 DEF OtherStep, Broker, OutboxFault, Send, HandleReturn, HandleConfirm,
         ConfirmTimeout, CommitFails, NotAttempted, DetachSession, Crash, Settle,
         Rollback, BrokerRoutes, BrokerReturns, BrokerRejects, dbVars
    <3>4. QED
      BY <3>1, <3>2, <3>3 DEF RetryNext, FetchRows, Fetch, StrayEnds, retryVars,
         outboxVars, dbVars
  <2>2. /\ table[e].status = "PENDING" /\ table[e].attempts \in Nat
        /\ scheduled'[e] = RetryDelayFor(table[e].attempts)
    BY <2>1, CommittedDelay
  <2>3. table[e].attempts # 0 => scheduled[e] = RetryDelayFor(table[e].attempts - 1)
    BY <2>2 DEF DelaysFollowRows
  <2>4. QED
    BY <2>2, <2>3, DelayDoubles
<1>2. RetryInv /\ [RetryNext]_retryVars => BacksOff
  BY <1>1
<1> HIDE DEF BacksOff
<1>3. RetrySpec => [][BacksOff]_retryVars
  BY <1>2, RetryInvHolds, PTL DEF RetrySpec
<1>4. QED
  BY <1>3 DEF BacksOff, DelaysBackOff

=============================================================================
