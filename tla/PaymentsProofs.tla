---------------------------- MODULE PaymentsProofs ----------------------------
(***************************************************************************)
(* Theorems about Payments.  What IdempotencyProofs shows of the protocol  *)
(* carries over to create and capture because they follow it: every step   *)
(* of theirs is a step of the protocol or leaves its variables alone.      *)
(***************************************************************************)
EXTENDS Payments, IdempotencyProofs

\* The work of a request touches the protocol only where the work begins, ends
\* or fails.
LEMMA WorkFollowsProtocol ==
    ASSUME NEW r \in Request, WorkStep(r) \/ PaymentsFault(r)
    PROVE  Finish(r) \/ Fault(r) \/ UNCHANGED idemVars
<1>1. CASE Authorize(r)
  BY <1>1 DEF Authorize
<1>2. CASE InsertPayment(r)
  BY <1>2 DEF InsertPayment, Throws, Fault
<1>3. CASE FindForUpdate(r)
  BY <1>3 DEF FindForUpdate, Throws, Fault
<1>4. CASE CaptureReturns(r)
  BY <1>4 DEF CaptureReturns
<1>5. CASE UpdateStatusIfAuthorized(r)
  BY <1>5 DEF UpdateStatusIfAuthorized, Throws, Fault
<1>6. CASE RecordEvent(r)
  BY <1>6 DEF RecordEvent, Throws, Fault
<1>7. CASE Complete(r) \/ CompleteRefused(r)
  BY <1>7 DEF Complete, CompleteRefused, Finish, Fault
<1>8. CASE PaymentsFault(r)
  BY <1>8 DEF PaymentsFault, DetachSession, CaptureThrows, WorkThrows, CrashAtWork,
              Throws, Fault
<1>9. QED
  BY <1>1, <1>2, <1>3, <1>4, <1>5, <1>6, <1>7, <1>8 DEF WorkStep

\* A step of the payment service is a step of the protocol or none of it.
LEMMA NextFollowsProtocol == [PaymentsNext]_vars => [Next]_idemVars
<1> SUFFICES ASSUME [PaymentsNext]_vars PROVE [Next]_idemVars
  OBVIOUS
<1>1. ASSUME NEW r \in Request, ProtocolStep(r) PROVE Next
  BY <1>1 DEF ProtocolStep, Next, Finish, Fault
<1>2. ASSUME NEW r \in Request, WorkStep(r) \/ PaymentsFault(r) PROVE [Next]_idemVars
  BY <1>2, WorkFollowsProtocol DEF Next
<1>3. CASE Tick
  BY <1>3 DEF Next
<1>4. CASE UNCHANGED vars
  BY <1>4 DEF vars
<1>5. QED
  BY <1>1, <1>2, <1>3, <1>4 DEF PaymentsNext

\* PaymentsService.create and .capture implement the idempotency protocol.
THEOREM WorkFollowsTheProtocol == PaymentsSpec => FollowsProtocol
<1>1. PaymentsInit => Init
  BY DEF PaymentsInit
<1>2. QED
  BY <1>1, NextFollowsProtocol, PTL DEF PaymentsSpec, FollowsProtocol, Spec

-----------------------------------------------------------------------------
(* The inductive invariant *)

\* The payments, locks and drafts have their types initially, and the invariant
\* holds.
LEMMA PaymentsInitInv == PaymentsInit => PInv
<1> SUFFICES ASSUME PaymentsInit PROVE PInv
  OBVIOUS
<1>1. IInv /\ TypeOK
  BY InitInv DEF PaymentsInit, IInv
<1>2. NoPayment \in Payment
  BY DEF NoPayment, Payment, Status
<1>3. PaymentsTypeOK
  BY <1>1, <1>2 DEF PaymentsInit, PaymentsTypeOK, Phase
<1>4. RequestsAreFormed /\ RowsHaveResources /\ WorkIsLocated /\ TransactionsHoldLocks
  BY DEF PaymentsInit, Init, RequestsAreFormed, RowsHaveResources, WorkIsLocated,
         TransactionsHoldLocks, InTransaction, NoRow, CreatePhase, CapturePhase
<1>5. PaymentLocksHold /\ DraftsAreConfirmed /\ EventsHaveAuthors
  BY RequestAssumption
     DEF PaymentsInit, Init, PaymentLocksHold, LockedPaymentIsStable, LocksHaveOwners,
         InTransaction, DraftsAreConfirmed, EventsHaveAuthors, CaptureRequest
<1>6. CompletionsAreRecorded /\ AuthorizationsHaveOwners /\ SuccessIsConfirmed
  BY DEF PaymentsInit, Init, CompletionsAreRecorded, AuthorizationsHaveOwners,
         SuccessIsConfirmed, NoRow, NoPayment
<1>7. QED
  BY <1>1, <1>3, <1>4, <1>5, <1>6 DEF PInv

\* The payment of a request that was told STARTED is that of its row.
LEMMA OwnersPayment ==
    ASSUME PInv, NEW r \in Request, owned[r].token # None
    PROVE  /\ PaymentOf(r) \in Resource
           /\ RowOf(r).status # "ABSENT"
           /\ RowOf(r).resource = PaymentOf(r)
<1>1. RowOf(r).status # "ABSENT" /\ RowOf(r).resource = PaymentOf(r)
  BY DEF PInv, IInv, OwnersMatchRows, PaymentOf
<1>2. req[r].key \in Key /\ \A q \in Request : req[q].resource \in Resource
  BY RowOfType DEF PInv, IInv
<1>3. QED
  BY <1>1, <1>2 DEF PInv, RowsHaveResources, RowOf

\* An owner at work knows its token and its payment.
LEMMA WorkersPayment ==
    ASSUME PInv, NEW r \in Request, pc[r] = "owner"
    PROVE  /\ owned[r].token = r /\ r # None
           /\ PaymentOf(r) \in Resource
           /\ RowOf(r).status # "ABSENT"
           /\ RowOf(r).resource = PaymentOf(r)
<1>1. owned[r].token = r /\ r # None
  BY NoneAssumption DEF PInv, IInv, TokensAreFresh, Owns
<1>2. QED
  BY <1>1, OwnersPayment

\* What the protocol's own steps leave alone: the work of owners, the decisions
\* that were made and the rows that are completed.
ProtocolFrame ==
    /\ req' = req
    /\ \A q \in Request :
          /\ Starting(q)' => Starting(q)
          /\ pc[q] = "owner" => pc'[q] = "owner"
          /\ pc'[q] = "owner" => pc[q] = "owner" \/ Starting(q)
          /\ owned[q].token # None => owned'[q] = owned[q]
    /\ \A k \in Key :
          /\ rows'[k].status = "COMPLETED" <=> rows[k].status = "COMPLETED"
          /\ rows[k].status = "COMPLETED" => /\ rows'[k].response = rows[k].response
                                             /\ rows'[k].resource = rows[k].resource
          /\ rows'[k].status # "ABSENT" =>
                \/ rows[k].status # "ABSENT" /\ rows'[k].resource = rows[k].resource
                \/ \E r \in Request : req[r].key = k /\ req[r].resource = rows'[k].resource

\* A step that writes no row and makes no decision, of a request that is not at
\* work, keeps to that frame.
LEMMA QuietFrame ==
    ASSUME IInv, NEW r \in Request, NEW l, NEW m,
           UNCHANGED <<rows, req, owned>>,
           pc[r] # "owner", l # "owner",
           pc' = [pc EXCEPT ![r] = l],
           answer' = [answer EXCEPT ![r] = m],
           \/ Starting(r)
           \/ /\ l \notin {"idle", "find", "insert", "findAgain", "reactivate", "takeover"}
              /\ m.kind # "inProgress"
    PROVE  ProtocolFrame
<1>1. \A q \in Request : q # r => pc'[q] = pc[q] /\ answer'[q] = answer[q]
  BY DEF IInv, TypeOK
<1>2. pc'[r] = l /\ answer'[r] = m
  BY DEF IInv, TypeOK
<1>3. \A q \in Request : Starting(q)' => Starting(q)
  BY <1>1, <1>2 DEF Starting
<1>4. \A q \in Request : pc[q] = "owner" <=> pc'[q] = "owner"
  BY <1>1, <1>2
<1>5. \A k \in Key : rows[k].status # "ABSENT" \/ rows'[k].status = "ABSENT"
  OBVIOUS
<1>6. QED
  BY <1>3, <1>4 DEF ProtocolFrame

\* An acquisition reaches a row without an owner, or with the same resource.
LEMMA AcquireFrame ==
    ASSUME IInv, NEW r \in Request, Acquire(r) \/ AcquireUnacknowledged(r)
    PROVE  ProtocolFrame
<1>1. /\ Matches(r) /\ req' = req
      /\ rows' = [rows EXCEPT ![req[r].key] = AcquiredRow(r)]
      /\ owned' = owned \/ \E d : owned' = [owned EXCEPT ![r] = d]
      /\ \E l \in {"owner", "done"} : pc' = [pc EXCEPT ![r] = l]
      /\ answer' = answer \/ answer' = [answer EXCEPT ![r] = Says("error")]
  BY DEF Acquire, AcquireUnacknowledged, Reply, GoTo
<1>2. Starting(r) /\ pc[r] # "owner" /\ owned[r].token = None
  BY <1>1 DEF Matches, Starting, IInv, TokensAreFresh
<1>3. /\ AcquiredRow(r).status = "PROCESSING"
      /\ RowOf(r).status # "COMPLETED"
      /\ RowOf(r).status # "ABSENT" => AcquiredRow(r).resource = RowOf(r).resource
  BY <1>1, AcquiredRowFields DEF Matches, CanReactivate, CanTakeOver
<1>4. RowOf(r).status = "ABSENT" => AcquiredRow(r).resource = req[r].resource
  BY <1>1 DEF Matches, CanReactivate, CanTakeOver, AcquiredRow, Acquired, NoRow
<1>5. ASSUME NEW q \in Request
      PROVE  /\ Starting(q)' => Starting(q)
             /\ pc[q] = "owner" => pc'[q] = "owner"
             /\ pc'[q] = "owner" => pc[q] = "owner" \/ Starting(q)
             /\ owned[q].token # None => owned'[q] = owned[q]
  <2>1. CASE q = r
    BY <1>2, <2>1
  <2>2. CASE q # r
    BY <1>1, <2>2 DEF Starting, IInv, TypeOK
  <2>3. QED
    BY <2>1, <2>2
<1>6. ASSUME NEW k \in Key
      PROVE  /\ rows'[k].status = "COMPLETED" <=> rows[k].status = "COMPLETED"
             /\ rows[k].status = "COMPLETED" => /\ rows'[k].response = rows[k].response
                                                /\ rows'[k].resource = rows[k].resource
             /\ rows'[k].status # "ABSENT" =>
                   \/ rows[k].status # "ABSENT" /\ rows'[k].resource = rows[k].resource
                   \/ \E q \in Request : req[q].key = k /\ req[q].resource = rows'[k].resource
  <2>1. CASE k = req[r].key
    BY <1>1, <1>3, <1>4, <2>1 DEF RowOf, IInv, TypeOK
  <2>2. CASE k # req[r].key
    BY <1>1, <2>2 DEF IInv, TypeOK
  <2>3. QED
    BY <2>1, <2>2
<1>7. QED
  BY <1>1, <1>5, <1>6 DEF ProtocolFrame

\* markFailed fails a row that is still its owner's.
LEMMA MarkFailedFrame ==
    ASSUME IInv, NEW r \in Request, MarkFailed(r)
    PROVE  ProtocolFrame
<1>1. CASE UNCHANGED rows
  BY <1>1, QuietFrame DEF MarkFailed, Reply, GoTo, Says
<1>2. CASE /\ OwnedBy(RowOf(r), owned[r].token)
           /\ rows' = [rows EXCEPT ![req[r].key].status = "FAILED"]
           /\ Reply(r, Says("error"))
  <2>1. /\ pc[r] = "failing" /\ UNCHANGED <<req, owned>>
        /\ pc' = [pc EXCEPT ![r] = "done"]
        /\ answer' = [answer EXCEPT ![r] = Says("error")]
        /\ Says("error").kind = "error"
    BY <1>2 DEF MarkFailed, Reply, GoTo, Says
  <2>2. ASSUME NEW q \in Request
        PROVE  /\ Starting(q)' => Starting(q)
               /\ pc[q] = "owner" <=> pc'[q] = "owner"
    <3>1. CASE q = r
      BY <2>1, <3>1 DEF Starting, IInv, TypeOK
    <3>2. CASE q # r
      BY <2>1, <3>2 DEF Starting, IInv, TypeOK
    <3>3. QED
      BY <3>1, <3>2
  <2>3. RowOf(r).status = "PROCESSING" /\ RowOf(r) \in Row
    BY <1>2, RowOfType DEF OwnedBy, IInv
  <2>4. ASSUME NEW k \in Key
        PROVE  /\ rows'[k].status = "COMPLETED" <=> rows[k].status = "COMPLETED"
               /\ rows[k].status = "COMPLETED" => rows'[k] = rows[k]
               /\ rows'[k].status # "ABSENT" =>
                     rows[k].status # "ABSENT" /\ rows'[k].resource = rows[k].resource
    <3>1. CASE k = req[r].key
      BY <1>2, <2>3, <3>1 DEF RowOf, IInv, TypeOK, Row
    <3>2. CASE k # req[r].key
      BY <1>2, <3>2 DEF IInv, TypeOK
    <3>3. QED
      BY <3>1, <3>2
  <2>5. QED
    BY <2>1, <2>2, <2>4 DEF ProtocolFrame
<1>3. QED
  BY <1>1, <1>2 DEF MarkFailed

\* A tick changes expiries only.
LEMMA TickFrame ==
    ASSUME IInv, Tick
    PROVE  ProtocolFrame
<1>1. ASSUME NEW k \in Key
      PROVE  /\ rows'[k].status = rows[k].status
             /\ rows'[k].response = rows[k].response
             /\ rows'[k].resource = rows[k].resource
  BY <1>1 DEF Tick, IInv, TypeOK, Row
<1>2. \A q \in Request : Starting(q)' <=> Starting(q)
  BY DEF Tick, Starting
<1>3. QED
  BY <1>1, <1>2 DEF Tick, ProtocolFrame

\* The answer of decideFromExisting, or the next statement it leads to.
LEMMA DecideFrame ==
    ASSUME IInv, NEW r \in Request, NEW row, Starting(r), pc[r] # "owner",
           UNCHANGED <<rows, req, owned>>,
           DecideFromExisting(r, row)
    PROVE  ProtocolFrame
<1>1. CASE \E m : Reply(r, m)
  BY <1>1, QuietFrame DEF Reply, GoTo
<1>2. CASE \E l \in {"reactivate", "takeover"} : GoTo(r, l) /\ UNCHANGED answer
  <2>1. answer' = [answer EXCEPT ![r] = answer[r]]
    BY <1>2 DEF IInv, TypeOK
  <2>2. QED
    BY <1>2, <2>1, QuietFrame DEF GoTo
<1>3. QED
  BY <1>1, <1>2 DEF DecideFromExisting

\* Every step of the protocol but those of the work keeps to the frame.
LEMMA ProtocolStepFrame ==
    ASSUME IInv, NEW r \in Request, ProtocolStep(r)
    PROVE  ProtocolFrame
<1>1. answer = [answer EXCEPT ![r] = answer[r]]
  BY DEF IInv, TypeOK
<1>2. CASE Receive(r)
  BY <1>1, <1>2, QuietFrame DEF Receive, GoTo, Starting
<1>3. CASE Find(r)
  <2>1. Starting(r) /\ pc[r] # "owner"
    BY <1>3 DEF Find, Starting
  <2>2. QED
    BY <1>1, <1>3, <2>1, DecideFrame, QuietFrame DEF Find, GoTo
<1>4. CASE FindAgain(r)
  <2>1. Starting(r) /\ pc[r] # "owner"
    BY <1>4 DEF FindAgain, Starting
  <2>2. QED
    BY <1>4, <2>1, DecideFrame, QuietFrame DEF FindAgain, GoTo, Reply
<1>5. CASE Acquire(r) \/ AcquireUnacknowledged(r)
  BY <1>5, AcquireFrame
<1>6. CASE Miss(r)
  <2>1. Starting(r) /\ pc[r] # "owner"
    BY <1>6 DEF Miss, Starting
  <2>2. QED
    BY <1>1, <1>6, <2>1, QuietFrame DEF Miss, GoTo, Reply
<1>7. CASE StartFails(r)
  BY <1>7, QuietFrame DEF StartFails, Starting, GoTo, Reply
<1>8. CASE MarkFailed(r)
  BY <1>8, MarkFailedFrame
<1>9. CASE MarkFailedThrows(r)
  BY <1>9, QuietFrame DEF MarkFailedThrows, GoTo, Reply, Says
<1>10. CASE Retry(r)
  BY <1>10, QuietFrame DEF Retry, Starting, GoTo
<1>11. QED
  BY <1>2, <1>3, <1>4, <1>5, <1>6, <1>7, <1>8, <1>9, <1>10 DEF ProtocolStep, Start

\* A step within the frame that leaves the payment side alone keeps the
\* invariant.
LEMMA FrameKeepsInv ==
    ASSUME PInv, IInv', ProtocolFrame, UNCHANGED payVars
    PROVE  PInv'
<1> USE DEF PInv
<1>1. PaymentsTypeOK'
  BY DEF IInv, payVars, PaymentsTypeOK
<1>2. /\ payments' = payments /\ outbox' = outbox /\ locks' = locks
      /\ work' = work /\ draft' = draft
      /\ authorizations' = authorizations /\ captures' = captures /\ req' = req
  BY DEF payVars, ProtocolFrame
<1>3. ASSUME NEW q \in Request, pc[q] = "owner" \/ owned[q].token # None
      PROVE  PaymentOf(q)' = PaymentOf(q) /\ owned'[q] = owned[q]
  BY <1>3, WorkersPayment DEF ProtocolFrame, PaymentOf
<1>4. \A q \in Request : work[q] \notin {"start", "over"} => pc[q] = "owner" /\ pc'[q] = "owner"
  BY DEF WorkIsLocated, ProtocolFrame
<1>5. \A q \in Request : InTransaction(q)' <=> InTransaction(q)
  BY <1>2, <1>4 DEF InTransaction
<1>6. \A q \in Request : InTransaction(q) => PaymentOf(q)' = PaymentOf(q)
  BY <1>3 DEF InTransaction
<1>7. RequestsAreFormed' /\ RowsHaveResources'
  BY <1>2 DEF RequestsAreFormed, RowsHaveResources, ProtocolFrame
<1>8. WorkIsLocated'
  BY <1>2, <1>4 DEF WorkIsLocated, ProtocolFrame
<1>9. TransactionsHoldLocks'
  BY <1>2, <1>5, <1>6 DEF TransactionsHoldLocks
<1>10. PaymentLocksHold'
  <2>1. LockedPaymentIsStable'
    BY <1>2, <1>5, <1>6 DEF PaymentLocksHold, LockedPaymentIsStable, Exists
  <2>2. \A p \in Resource : locks[p] \in Request \cup {None}
    BY DEF PaymentsTypeOK
  <2>3. LocksHaveOwners'
    BY <1>2, <1>5, <1>6, <2>2 DEF PaymentLocksHold, LocksHaveOwners
  <2>4. QED
    BY <2>1, <2>3 DEF PaymentLocksHold
<1>11. DraftsAreConfirmed'
  <2>1. \A q \in Request : work[q] \in {"insert", "update", "record", "complete"} =>
           PaymentOf(q)' = PaymentOf(q)
    BY <1>3, <1>4
  <2>2. QED
    BY <1>2, <2>1, RequestAssumption DEF DraftsAreConfirmed, CaptureRequest
<1>12. EventsHaveAuthors'
  <2>1. \A e \in outbox : e.id \in Request
    BY DEF PaymentsTypeOK, Event
  <2>2. QED
    BY <1>2, <1>3, <2>1 DEF EventsHaveAuthors
<1>13. CompletionsAreRecorded'
  BY <1>2 DEF CompletionsAreRecorded, ProtocolFrame
<1>14. AuthorizationsHaveOwners'
  <2>1. \A p \in Resource : authorizations[p] \subseteq Request
    BY DEF PaymentsTypeOK
  <2>2. QED
    BY <1>2, <1>3, <2>1 DEF AuthorizationsHaveOwners
<1>15. SuccessIsConfirmed'
  BY <1>2 DEF SuccessIsConfirmed
<1>16. QED
  BY <1>1, <1>7, <1>8, <1>9, <1>10, <1>11, <1>12, <1>13, <1>14, <1>15

\* A request whose work ends without effect keeps the invariant: it has let its
\* lock go, and nothing of it is stored.  Its capture may have gone through.
LEMMA RollbackKeepsInv ==
    ASSUME PInv, IInv', NEW r \in Request, NEW l \in {"failing", "crashed"},
           Rollback(r),
           ~Ended(r), pc' = [pc EXCEPT ![r] = l],
           UNCHANGED <<rows, req, owned, answer>>,
           \/ UNCHANGED captures
           \/ pc[r] = "owner" /\ captures' = [captures EXCEPT ![PaymentOf(r)] = @ \cup {r}]
    PROVE  PInv'
<1> USE DEF PInv
<1>1. /\ payments' = payments /\ outbox' = outbox /\ draft' = draft
      /\ authorizations' = authorizations /\ req' = req /\ rows' = rows
      /\ locks' = Released(r)
      /\ \A q \in Request : PaymentOf(q)' = PaymentOf(q) /\ owned'[q] = owned[q]
  BY DEF Rollback, PaymentOf
<1>2. /\ work'[r] = "over" /\ pc'[r] = l
      /\ \A q \in Request : q # r => work'[q] = work[q] /\ pc'[q] = pc[q]
      /\ work' \in [Request -> Phase]
  BY DEF Rollback, Phased, PaymentsTypeOK, IInv, TypeOK, Phase
<1>3. /\ captures' \in [Resource -> SUBSET Request]
      /\ \A p \in Resource : captures[p] \subseteq captures'[p]
  BY WorkersPayment DEF PaymentsTypeOK
<1>4. locks' \in [Resource -> Request \cup {None}]
  BY <1>1 DEF Released, PaymentsTypeOK
<1>5. PaymentsTypeOK'
  BY <1>1, <1>2, <1>3, <1>4 DEF PaymentsTypeOK, IInv
<1>6. /\ ~InTransaction(r)'
      /\ \A q \in Request : q # r => (InTransaction(q)' <=> InTransaction(q))
  BY <1>2 DEF InTransaction
<1>7. RequestsAreFormed' /\ RowsHaveResources' /\ CompletionsAreRecorded'
  BY <1>1 DEF RequestsAreFormed, RowsHaveResources, CompletionsAreRecorded
<1>8. WorkIsLocated'
  <2>1. ~Starting(r)'
    BY <1>2 DEF Starting, IInv, AnswersMatchRows, Ended
  <2>2. \A q \in Request : q # r => (Starting(q)' <=> Starting(q))
    BY <1>2 DEF Starting
  <2>3. QED
    BY <1>2, <2>1, <2>2 DEF WorkIsLocated, CreatePhase, CapturePhase
<1>9. TransactionsHoldLocks'
  <2>1. ASSUME NEW q \in Request, InTransaction(q)' PROVE locks'[PaymentOf(q)] = q
    <3>1. q # r /\ InTransaction(q) /\ locks[PaymentOf(q)] = q
      BY <1>6, <2>1 DEF TransactionsHoldLocks
    <3>2. PaymentOf(q) \in Resource
      BY <3>1, WorkersPayment DEF InTransaction
    <3>3. QED
      BY <1>1, <3>1, <3>2 DEF Released
  <2>2. QED
    BY <1>1, <2>1 DEF TransactionsHoldLocks
<1>10. PaymentLocksHold'
  <2>1. LockedPaymentIsStable'
    BY <1>1, <1>6 DEF PaymentLocksHold, LockedPaymentIsStable, Exists
  <2>2. ASSUME NEW p \in Resource, locks'[p] # None
        PROVE  InTransaction(locks[p])' /\ PaymentOf(locks[p])' = p /\ locks'[p] = locks[p]
    <3>1. locks'[p] = locks[p] /\ locks[p] # r /\ locks[p] \in Request
      BY <1>1, <2>2 DEF Released, PaymentsTypeOK
    <3>2. QED
      BY <1>1, <1>6, <2>2, <3>1 DEF PaymentLocksHold, LocksHaveOwners
  <2>3. LocksHaveOwners'
    BY <2>2 DEF LocksHaveOwners
  <2>4. QED
    BY <2>1, <2>3 DEF PaymentLocksHold
<1>11. DraftsAreConfirmed'
  <2>1. \A q \in Request : work'[q] \in {"insert", "update", "record", "complete"} =>
           q # r /\ work'[q] = work[q] /\ PaymentOf(q) \in Resource
    BY <1>2, WorkersPayment DEF WorkIsLocated
  <2>2. QED
    BY <1>1, <1>3, <2>1, RequestAssumption DEF DraftsAreConfirmed, CaptureRequest
<1>12. EventsHaveAuthors'
  <2>1. \A e \in outbox : e.id \in Request
    BY DEF PaymentsTypeOK, Event
  <2>2. QED
    BY <1>1, <1>2, <2>1 DEF EventsHaveAuthors
<1>13. AuthorizationsHaveOwners'
  BY <1>1 DEF AuthorizationsHaveOwners
<1>14. SuccessIsConfirmed'
  BY <1>1, <1>3 DEF SuccessIsConfirmed
<1>15. QED
  BY <1>5, <1>7, <1>8, <1>9, <1>10, <1>11, <1>12, <1>13, <1>14

\* The phases in which a transaction is open on the payment.
OpenPhase == {"capturing", "update", "record", "complete"}

\* A statement of the work that stores nothing keeps the invariant if it has the
\* lock from where it must, and its draft is confirmed.
LEMMA WorkKeepsInv ==
    ASSUME PInv, NEW r \in Request, pc[r] = "owner",
           UNCHANGED <<idemVars, payments, outbox>>,
           NEW w \in IF r \in CreateRequest THEN CreatePhase \ {"over"}
                                            ELSE CapturePhase \ {"over"},
           work' = [work EXCEPT ![r] = w],
           NEW d \in Payment,
           draft' = [draft EXCEPT ![r] = d],
           \/ UNCHANGED authorizations
           \/ authorizations' = [authorizations EXCEPT ![PaymentOf(r)] = @ \cup {r}],
           \/ UNCHANGED captures
           \/ captures' = [captures EXCEPT ![PaymentOf(r)] = @ \cup {r}],
           \/ locks' = locks /\ (w \in OpenPhase <=> work[r] \in OpenPhase)
           \/ /\ locks[PaymentOf(r)] = None /\ w \in OpenPhase
              /\ locks' = [locks EXCEPT ![PaymentOf(r)] = r]
           \/ locks' = Released(r) /\ w \notin OpenPhase,
           w \in OpenPhase =>
              IF r \in CreateRequest
              THEN ~Exists(PaymentOf(r))
              ELSE payments[PaymentOf(r)] = [status |-> "AUTHORIZED", reference |-> TRUE],
           r \in CreateRequest /\ w \in {"insert", "record", "complete"} =>
              /\ d.status \in {"AUTHORIZED", "FAILED"}
              /\ d.status = "AUTHORIZED" => r \in authorizations'[PaymentOf(r)]
              /\ w = "complete" /\ d.status = "AUTHORIZED" => d.reference,
           r \in CaptureRequest /\ w \in {"update", "record", "complete"} =>
              /\ d.status \in {"CAPTURED", "CAPTURE_FAILED"}
              /\ d.status = "CAPTURED" => r \in captures'[PaymentOf(r)]
              /\ d.reference
    PROVE  PInv'
<1> USE DEF PInv
<1>0. PaymentOf(r) \in Resource /\ owned[r].token # None
  BY WorkersPayment
<1>1. /\ rows' = rows /\ req' = req /\ pc' = pc /\ owned' = owned /\ answer' = answer
      /\ payments' = payments /\ outbox' = outbox
      /\ \A q \in Request : PaymentOf(q)' = PaymentOf(q) /\ (Starting(q)' <=> Starting(q))
  BY DEF idemVars, PaymentOf, Starting
<1>2. /\ work'[r] = w /\ draft'[r] = d
      /\ \A q \in Request : q # r => work'[q] = work[q] /\ draft'[q] = draft[q]
      /\ w \in Phase /\ w # "over"
      /\ work' \in [Request -> Phase] /\ draft' \in [Request -> Payment]
  <2>1. w \in Phase /\ w # "over"
    BY DEF CreatePhase, CapturePhase, Phase
  <2>2. work \in [Request -> Phase] /\ draft \in [Request -> Payment]
    BY DEF PaymentsTypeOK
  <2>3. QED
    BY <2>1, <2>2
<1>3. /\ captures' \in [Resource -> SUBSET Request]
      /\ \A p \in Resource : captures[p] \subseteq captures'[p]
  BY <1>0 DEF PaymentsTypeOK
<1>4. /\ authorizations' \in [Resource -> SUBSET Request]
      /\ \A p \in Resource :
            /\ authorizations[p] \subseteq authorizations'[p]
            /\ \A q \in authorizations'[p] :
                  q \in authorizations[p] \/ (q = r /\ p = PaymentOf(r))
  BY <1>0 DEF PaymentsTypeOK
<1>5. locks' \in [Resource -> Request \cup {None}]
  BY <1>0 DEF Released, PaymentsTypeOK
<1>6. TypeOK' /\ IInv'
  BY DEF idemVars, IInv, TypeOK, TokensAreFresh, RowsMatchOwners, OwnersMatchRows,
         AnswersMatchRows, LeaseHonoured, OwnershipLostIsTrue, Owns, Starting, RowOf
<1>7. PaymentsTypeOK'
  BY <1>1, <1>2, <1>3, <1>4, <1>5, <1>6 DEF PaymentsTypeOK
<1>8. /\ InTransaction(r)' <=> w \in OpenPhase
      /\ InTransaction(r) <=> work[r] \in OpenPhase
      /\ \A q \in Request : q # r => (InTransaction(q)' <=> InTransaction(q))
  BY <1>1, <1>2 DEF InTransaction, OpenPhase
<1>9. RequestsAreFormed' /\ RowsHaveResources' /\ CompletionsAreRecorded'
  BY <1>1 DEF RequestsAreFormed, RowsHaveResources, CompletionsAreRecorded
<1>10. WorkIsLocated'
  BY <1>1, <1>2 DEF WorkIsLocated, CreatePhase, CapturePhase
<1>11. \A q \in Request : InTransaction(q) =>
          PaymentOf(q) \in Resource /\ locks[PaymentOf(q)] = q
  BY WorkersPayment DEF InTransaction, TransactionsHoldLocks
<1>12. TransactionsHoldLocks'
  <2>1. ASSUME NEW q \in Request, InTransaction(q)' PROVE locks'[PaymentOf(q)] = q
    <3>1. CASE q = r
      BY <1>0, <1>5, <1>8, <1>11, <2>1, <3>1 DEF PaymentsTypeOK
    <3>2. CASE q # r
      <4>1. PaymentOf(q) \in Resource /\ locks[PaymentOf(q)] = q /\ q # None
        BY <1>8, <1>11, <2>1, <3>2, WorkersPayment DEF InTransaction
      <4>2. QED
        BY <1>0, <3>2, <4>1 DEF Released, PaymentsTypeOK
    <3>3. QED
      BY <3>1, <3>2
  <2>2. QED
    BY <1>1, <2>1 DEF TransactionsHoldLocks
<1>13. PaymentLocksHold'
  <2>1. LockedPaymentIsStable'
    BY <1>1, <1>8 DEF PaymentLocksHold, LockedPaymentIsStable, Exists
  <2>2. ASSUME NEW p \in Resource, locks'[p] # None
        PROVE  InTransaction(locks[p])' /\ PaymentOf(locks[p])' = p
    <3>1. CASE locks'[p] = locks[p] /\ locks[p] # r
      BY <1>1, <1>8, <2>2, <3>1 DEF PaymentLocksHold, LocksHaveOwners, PaymentsTypeOK
    <3>2. CASE locks[p] = r /\ locks'[p] = r
      \* r held the lock, and holds it still: so it was at work on p.
      <4>1. InTransaction(r) /\ PaymentOf(r) = p
        BY <2>2, <3>2 DEF PaymentLocksHold, LocksHaveOwners
      <4>2. r # None
        BY WorkersPayment
      <4>3. w \in OpenPhase
        BY <1>0, <1>8, <3>2, <4>1, <4>2 DEF Released
      <4>4. QED
        BY <1>1, <1>8, <3>2, <4>1, <4>3
    <3>3. CASE locks[p] = None /\ locks'[p] = r
      BY <1>0, <1>1, <1>5, <1>8, <2>2, <3>3 DEF PaymentsTypeOK, Released
    <3>4. QED
      BY <1>0, <2>2, <3>1, <3>2, <3>3 DEF PaymentsTypeOK, Released
  <2>3. QED
    BY <2>1, <2>2 DEF PaymentLocksHold, LocksHaveOwners
<1>14. DraftsAreConfirmed'
  <2>1. \A q \in Request : work[q] \in {"insert", "update", "record", "complete"} =>
           PaymentOf(q) \in Resource
    BY WorkersPayment DEF WorkIsLocated
  <2>2. QED
    BY <1>1, <1>2, <1>3, <1>4, <2>1, RequestAssumption DEF DraftsAreConfirmed, CaptureRequest
<1>15. EventsHaveAuthors'
  <2>1. work[r] # "over"
    BY DEF WorkIsLocated
  <2>2. \A e \in outbox : e.id \in Request
    BY DEF PaymentsTypeOK, Event
  <2>3. QED
    BY <1>1, <1>2, <2>1, <2>2 DEF EventsHaveAuthors
<1>16. AuthorizationsHaveOwners'
  <2>1. owned[r].resource = PaymentOf(r)
    BY DEF PaymentOf
  <2>2. QED
    BY <1>0, <1>1, <1>4, <2>1 DEF AuthorizationsHaveOwners
<1>17. SuccessIsConfirmed'
  BY <1>1, <1>3, <1>4 DEF SuccessIsConfirmed
<1>18. QED
  BY <1>6, <1>7, <1>9, <1>10, <1>12, <1>13, <1>14, <1>15, <1>16, <1>17

\* What the transaction of a request that completes its work finds: the payment as
\* it was checked, and a confirmed draft of the status it may go to.
LEMMA CompletionFinds ==
    ASSUME PInv, NEW r \in Request, Working(r, "complete")
    PROVE  /\ PaymentOf(r) \in Resource /\ owned[r].token = r /\ r # None
           /\ draft[r] \in Payment
           /\ \A e \in outbox : e.id # r
           /\ r \in CreateRequest =>
                 /\ payments[PaymentOf(r)] = NoPayment
                 /\ draft[r].status \in {"AUTHORIZED", "FAILED"}
                 /\ draft[r].status = "AUTHORIZED" =>
                       draft[r].reference /\ r \in authorizations[PaymentOf(r)]
           /\ r \in CaptureRequest =>
                 /\ payments[PaymentOf(r)].status = "AUTHORIZED"
                 /\ draft[r].status \in {"CAPTURED", "CAPTURE_FAILED"}
                 /\ draft[r].reference
                 /\ draft[r].status = "CAPTURED" => r \in captures[PaymentOf(r)]
<1>1. InTransaction(r) /\ pc[r] = "owner" /\ work[r] = "complete"
  BY DEF Working, InTransaction
<1>2. \A e \in outbox : e.id # r
  BY <1>1 DEF PInv, EventsHaveAuthors
<1>3. draft[r] \in Payment
  BY DEF PInv, PaymentsTypeOK
<1>4. r \in CreateRequest => payments[PaymentOf(r)] = NoPayment
  BY <1>1 DEF PInv, PaymentLocksHold, LockedPaymentIsStable, Exists
<1>5. r \in CaptureRequest => payments[PaymentOf(r)].status = "AUTHORIZED"
  BY <1>1 DEF PInv, PaymentLocksHold, LockedPaymentIsStable, CaptureRequest
<1>6. QED
  BY <1>1, <1>2, <1>3, <1>4, <1>5, WorkersPayment DEF PInv, DraftsAreConfirmed

\* What a commit of the protocol does to the rows and to the request.
LEMMA CommitEffect ==
    ASSUME IInv, NEW r \in Request, Commit(r) \/ CommitUnacknowledged(r)
    PROVE  /\ req' = req /\ owned' = owned
           /\ pc[r] = "owner" /\ pc'[r] \in {"done", "failing"}
           /\ answer'[r].kind # "inProgress"
           /\ \A q \in Request : q # r => pc'[q] = pc[q] /\ answer'[q] = answer[q]
           /\ RowOf(r).status = "PROCESSING" /\ req[r].key \in Key
           /\ rows'[req[r].key].status = "COMPLETED"
           /\ rows'[req[r].key].response = r
           /\ rows'[req[r].key].resource = owned[r].resource
           /\ \A k \in Key : k # req[r].key => rows'[k] = rows[k]
<1>1. /\ RowOf(r) \in Row /\ req[r].key \in Key /\ rows \in [Key -> Row]
      /\ RowOf(r) = rows[req[r].key]
  BY RowOfType DEF IInv, TypeOK, RowOf
<1>2. /\ rows' = [rows EXCEPT ![req[r].key] = Completed(@, r)]
      /\ RowOf(r).status = "PROCESSING"
      /\ req' = req /\ owned' = owned /\ pc[r] = "owner"
  BY DEF Commit, CommitUnacknowledged, OwnedBy
<1>3. rows'[req[r].key] = Completed(RowOf(r), r)
  BY <1>1, <1>2
<1>4. /\ Completed(RowOf(r), r).status = "COMPLETED"
      /\ Completed(RowOf(r), r).response = r
      /\ Completed(RowOf(r), r).resource = owned[r].resource
  BY <1>1 DEF Completed, Row
<1>5. /\ pc'[r] \in {"done", "failing"} /\ answer'[r].kind # "inProgress"
      /\ \A q \in Request : q # r => pc'[q] = pc[q] /\ answer'[q] = answer[q]
  BY DEF Commit, CommitUnacknowledged, Reply, GoTo, IInv, TypeOK, AnswersMatchRows
<1>6. QED
  BY <1>1, <1>2, <1>3, <1>4, <1>5

\* The transaction of a request commits: its payment, its event and its key go
\* together, and the invariant is kept.
LEMMA CompleteKeepsInv ==
    ASSUME PInv, IInv', NEW r \in Request, Complete(r)
    PROVE  PInv'
<1> DEFINE p == PaymentOf(r)
           new == [id |-> r, payment |-> p, type |-> draft[r].status]
<1> USE DEF PInv
<1>0. Commit(r) \/ CommitUnacknowledged(r)
  BY DEF Complete
<1>1. Working(r, "complete") /\ InTransaction(r) /\ work[r] = "complete" /\ pc[r] = "owner"
  BY DEF Complete, Working, InTransaction
<1>2. /\ p \in Resource /\ owned[r].token = r /\ r # None /\ draft[r] \in Payment
      /\ \A e \in outbox : e.id # r
  BY <1>1, CompletionFinds
<1>3. /\ payments' = [payments EXCEPT ![p] = draft[r]]
      /\ outbox' = outbox \cup {new}
      /\ locks' = Released(r) /\ work' = [work EXCEPT ![r] = "over"]
      /\ draft' = draft /\ authorizations' = authorizations /\ captures' = captures
  BY DEF Complete, Persist, Phased
<1>4. /\ req' = req /\ owned' = owned /\ \A q \in Request : PaymentOf(q)' = PaymentOf(q)
      /\ pc'[r] # "owner"
      /\ \A q \in Request : q # r => pc'[q] = pc[q] /\ answer'[q] = answer[q]
  BY <1>0, CommitEffect DEF PaymentOf
<1>5. /\ payments'[p] = draft[r]
      /\ \A q \in Resource : q # p => payments'[q] = payments[q]
      /\ payments' \in [Resource -> Payment]
  BY <1>2, <1>3 DEF PaymentsTypeOK
<1>6. /\ work'[r] = "over" /\ \A q \in Request : q # r => work'[q] = work[q]
      /\ work' \in [Request -> Phase]
  BY <1>3 DEF PaymentsTypeOK, Phase
<1>7. draft[r].status \in Status \ {"CREATED"}
  BY <1>1, CompletionFinds DEF CaptureRequest, Status
<1>8. PaymentsTypeOK'
  <2>1. new \in Event
    BY <1>2, <1>7 DEF Event
  <2>2. locks' \in [Resource -> Request \cup {None}]
    BY <1>3 DEF PaymentsTypeOK, Released
  <2>3. QED
    BY <1>3, <1>5, <1>6, <2>1, <2>2 DEF PaymentsTypeOK, IInv
<1>9. /\ ~InTransaction(r)'
      /\ \A q \in Request : q # r => (InTransaction(q)' <=> InTransaction(q))
  BY <1>4, <1>6 DEF InTransaction
<1>10. RequestsAreFormed'
  BY <1>4 DEF RequestsAreFormed
<1>11. RowsHaveResources'
  <2>1. RowOf(r).status # "ABSENT" /\ RowOf(r).resource = owned[r].resource
    BY <1>1, WorkersPayment DEF PaymentOf
  <2>2. QED
    BY <1>0, <1>4, <2>1, CommitEffect DEF RowsHaveResources, RowOf
<1>12. WorkIsLocated'
  <2>1. ~Starting(r)'
    BY <1>0, CommitEffect DEF Starting
  <2>2. \A q \in Request : q # r => (Starting(q)' <=> Starting(q))
    BY <1>4 DEF Starting
  <2>3. QED
    BY <1>4, <1>6, <2>1, <2>2 DEF WorkIsLocated, CreatePhase, CapturePhase
<1>13. \A q \in Request : q # r /\ InTransaction(q) =>
          PaymentOf(q) \in Resource /\ PaymentOf(q) # p /\ locks[PaymentOf(q)] = q
  BY <1>1, WorkersPayment DEF InTransaction, TransactionsHoldLocks
<1>14. TransactionsHoldLocks'
  BY <1>3, <1>4, <1>9, <1>13 DEF TransactionsHoldLocks, Released
<1>15. PaymentLocksHold'
  <2>1. LockedPaymentIsStable'
    BY <1>4, <1>5, <1>9, <1>13 DEF PaymentLocksHold, LockedPaymentIsStable, Exists
  <2>2. ASSUME NEW q \in Resource, locks'[q] # None
        PROVE  InTransaction(locks[q])' /\ PaymentOf(locks[q])' = q
    <3>1. locks'[q] = locks[q] /\ locks[q] # r /\ locks[q] \in Request
      BY <1>3, <2>2 DEF Released, PaymentsTypeOK
    <3>2. QED
      BY <1>4, <1>9, <2>2, <3>1 DEF PaymentLocksHold, LocksHaveOwners
  <2>3. QED
    BY <2>1, <2>2 DEF PaymentLocksHold, LocksHaveOwners
<1>16. DraftsAreConfirmed'
  BY <1>3, <1>4, <1>6, RequestAssumption DEF DraftsAreConfirmed, CaptureRequest
<1>17. \A e \in outbox : e.id \in Request /\ e.payment \in Resource
  BY DEF PaymentsTypeOK, Event
<1>18. EventsHaveAuthors'
  <2>1. ASSUME NEW e \in outbox, e.id \in CaptureRequest
        PROVE  payments'[e.payment].status \in {"CAPTURED", "CAPTURE_FAILED"}
    <3>1. payments[e.payment].status \in {"CAPTURED", "CAPTURE_FAILED"}
      BY <2>1 DEF EventsHaveAuthors
    <3>2. payments[p].status \in {"CREATED", "AUTHORIZED"}
      BY <1>1, CompletionFinds DEF CaptureRequest, NoPayment
    <3>3. QED
      BY <1>5, <1>17, <3>1, <3>2
  <2>2. ASSUME NEW e \in outbox
        PROVE  /\ work'[e.id] = "over" /\ owned'[e.id].token # None
               /\ e.payment = PaymentOf(e.id)'
               /\ e.id \in CreateRequest => e.type \in {"AUTHORIZED", "FAILED"}
               /\ e.id \in CaptureRequest => e.type \in {"CAPTURED", "CAPTURE_FAILED"}
    BY <1>2, <1>4, <1>6, <1>17 DEF EventsHaveAuthors
  <2>3. /\ work'[new.id] = "over" /\ owned'[new.id].token # None
        /\ new.payment = PaymentOf(new.id)'
        /\ new.id \in CreateRequest => new.type \in {"AUTHORIZED", "FAILED"}
        /\ new.id \in CaptureRequest =>
              /\ new.type \in {"CAPTURED", "CAPTURE_FAILED"}
              /\ payments'[new.payment].status \in {"CAPTURED", "CAPTURE_FAILED"}
    BY <1>1, <1>2, <1>4, <1>5, <1>6, CompletionFinds
  <2>4. QED
    BY <1>3, <2>1, <2>2, <2>3 DEF EventsHaveAuthors
<1>19. CompletionsAreRecorded'
  <2>1. ASSUME NEW k \in Key, rows'[k].status = "COMPLETED"
        PROVE  \E e \in outbox' : e.id = rows'[k].response /\ e.payment = rows'[k].resource
    <3>1. CASE k = req[r].key
      <4>1. new.id = rows'[k].response /\ new.payment = rows'[k].resource
        BY <1>0, <3>1, CommitEffect DEF PaymentOf
      <4>2. QED
        BY <1>3, <4>1
    <3>2. CASE k # req[r].key
      BY <1>0, <1>3, <2>1, <3>2, CommitEffect DEF CompletionsAreRecorded
    <3>3. QED
      BY <3>1, <3>2
  <2>2. QED
    BY <2>1 DEF CompletionsAreRecorded
<1>20. AuthorizationsHaveOwners'
  BY <1>3, <1>4 DEF AuthorizationsHaveOwners
<1>21. SuccessIsConfirmed'
  <2>1. /\ draft[r].status = "AUTHORIZED" => draft[r].reference /\ r \in authorizations[p]
        /\ draft[r].status = "CAPTURED" => draft[r].reference /\ r \in captures[p]
    BY <1>1, CompletionFinds DEF CaptureRequest
  <2>2. QED
    BY <1>2, <1>3, <1>5, <1>17, <2>1 DEF SuccessIsConfirmed
<1>22. QED
  BY <1>8, <1>10, <1>11, <1>12, <1>14, <1>15, <1>16, <1>18, <1>19, <1>20, <1>21

\* A step of the work, or a failure of it, keeps the invariant.
LEMMA WorkStepInv ==
    ASSUME PInv, IInv', NEW r \in Request, WorkStep(r) \/ PaymentsFault(r)
    PROVE  PInv'
<1>1. /\ draft = [draft EXCEPT ![r] = draft[r]] /\ draft[r] \in Payment
      /\ r \in CreateRequest \/ r \in CaptureRequest
      /\ r \in CaptureRequest => r \notin CreateRequest
  BY DEF PInv, PaymentsTypeOK, CaptureRequest
<1>2. ASSUME Throws(r),
             \/ UNCHANGED captures
             \/ captures' = [captures EXCEPT ![PaymentOf(r)] = @ \cup {r}]
      PROVE  PInv'
  BY <1>2, RollbackKeepsInv DEF Throws, WorkFails, GoTo, Ended
<1>3. CASE Authorize(r)
  <2>1. PICK status \in {"AUTHORIZED", "FAILED"}, reference \in BOOLEAN :
           /\ draft' = [draft EXCEPT ![r] = [status |-> status, reference |-> reference]]
           /\ authorizations' =
                 IF status = "AUTHORIZED"
                 THEN [authorizations EXCEPT ![PaymentOf(r)] = @ \cup {r}]
                 ELSE authorizations
    BY <1>3 DEF Authorize
  <2>2. /\ pc[r] = "owner" /\ work[r] = "start" /\ r \in CreateRequest
        /\ work' = [work EXCEPT ![r] = "insert"]
        /\ UNCHANGED <<idemVars, payments, outbox, locks, captures>>
    BY <1>3 DEF Authorize, Working, Phased
  <2>3. [status |-> status, reference |-> reference] \in Payment
    BY DEF Payment, Status
  <2>4. status = "AUTHORIZED" => r \in authorizations'[PaymentOf(r)]
    BY <2>1, <2>2, WorkersPayment DEF PInv, PaymentsTypeOK
  <2>5. "insert" \in IF r \in CreateRequest THEN CreatePhase \ {"over"}
                                            ELSE CapturePhase \ {"over"}
    BY <2>2 DEF CreatePhase
  <2>6. /\ UNCHANGED captures /\ locks' = locks
        /\ "insert" \notin OpenPhase /\ work[r] \notin OpenPhase
        /\ \/ UNCHANGED authorizations
           \/ authorizations' = [authorizations EXCEPT ![PaymentOf(r)] = @ \cup {r}]
    BY <2>1, <2>2 DEF OpenPhase
  <2>7. QED
    BY <1>1, <2>1, <2>2, <2>3, <2>4, <2>5, <2>6, WorkKeepsInv
<1>4. CASE InsertPayment(r)
  <2>1. CASE ~Exists(PaymentOf(r)) /\ Phased(r, "record")
             /\ locks' = [locks EXCEPT ![PaymentOf(r)] = r]
             /\ UNCHANGED <<idemVars, payments, outbox, draft, authorizations, captures>>
    <3>1. /\ pc[r] = "owner" /\ work[r] = "insert" /\ r \in CreateRequest
          /\ locks[PaymentOf(r)] = None
          /\ work' = [work EXCEPT ![r] = "record"]
      BY <1>1, <1>4, <2>1 DEF InsertPayment, Working, Phased, PInv, WorkIsLocated, CapturePhase
    <3>2. /\ draft[r].status \in {"AUTHORIZED", "FAILED"}
          /\ draft[r].status = "AUTHORIZED" => r \in authorizations'[PaymentOf(r)]
      BY <2>1, <3>1 DEF PInv, DraftsAreConfirmed
    <3>3. /\ "record" \in IF r \in CreateRequest THEN CreatePhase \ {"over"}
                                                  ELSE CapturePhase \ {"over"}
          /\ "record" \in OpenPhase
      BY <3>1 DEF CreatePhase, OpenPhase
    <3>4. QED
      BY <1>1, <2>1, <3>1, <3>2, <3>3, WorkKeepsInv
  <2>2. QED
    BY <1>2, <1>4, <2>1 DEF InsertPayment
<1>5. CASE FindForUpdate(r)
  <2>1. CASE /\ payments[PaymentOf(r)] = [status |-> "AUTHORIZED", reference |-> TRUE]
             /\ locks[PaymentOf(r)] = None
             /\ locks' = [locks EXCEPT ![PaymentOf(r)] = r]
             /\ Phased(r, "capturing")
             /\ UNCHANGED <<idemVars, payments, outbox, draft, authorizations, captures>>
    <3>1. /\ pc[r] = "owner" /\ r \in CaptureRequest
          /\ work' = [work EXCEPT ![r] = "capturing"]
      BY <1>5, <2>1 DEF FindForUpdate, Working, Phased
    <3>2. /\ "capturing" \in IF r \in CreateRequest THEN CreatePhase \ {"over"}
                                                     ELSE CapturePhase \ {"over"}
          /\ "capturing" \in OpenPhase
      BY <1>1, <3>1 DEF CapturePhase, OpenPhase
    <3>3. QED
      BY <1>1, <2>1, <3>1, <3>2, WorkKeepsInv
  <2>2. QED
    BY <1>2, <1>5, <2>1 DEF FindForUpdate
<1>6. CASE CaptureReturns(r)
  <2>1. PICK status \in {"CAPTURED", "CAPTURE_FAILED"} :
           /\ draft' = [draft EXCEPT ![r] = [payments[PaymentOf(r)] EXCEPT !.status = status]]
           /\ captures' = IF status = "CAPTURED"
                          THEN [captures EXCEPT ![PaymentOf(r)] = @ \cup {r}]
                          ELSE captures
    BY <1>6 DEF CaptureReturns
  <2>2. /\ pc[r] = "owner" /\ work[r] = "capturing" /\ r \in CaptureRequest
        /\ work' = [work EXCEPT ![r] = "update"]
        /\ UNCHANGED <<idemVars, payments, outbox, locks, authorizations>>
    BY <1>1, <1>6 DEF CaptureReturns, Working, Phased, PInv, WorkIsLocated, CreatePhase
  <2>3. payments[PaymentOf(r)] = [status |-> "AUTHORIZED", reference |-> TRUE]
    BY <1>1, <2>2 DEF PInv, PaymentLocksHold, LockedPaymentIsStable, InTransaction
  <2>4. PICK d \in Payment :
           d.status = status /\ d.reference /\ draft' = [draft EXCEPT ![r] = d]
    <3>1. payments[PaymentOf(r)] \in Payment /\ status \in Status
      BY <2>2, WorkersPayment DEF PInv, PaymentsTypeOK, Status
    <3>2. /\ [payments[PaymentOf(r)] EXCEPT !.status = status] \in Payment
          /\ [payments[PaymentOf(r)] EXCEPT !.status = status].status = status
          /\ [payments[PaymentOf(r)] EXCEPT !.status = status].reference
                = payments[PaymentOf(r)].reference
      BY <3>1 DEF Payment
    <3>3. payments[PaymentOf(r)].reference
      BY <2>3
    <3>4. QED
      BY <2>1, <3>2, <3>3
  <2>5. status = "CAPTURED" => r \in captures'[PaymentOf(r)]
    BY <2>1, <2>2, WorkersPayment DEF PInv, PaymentsTypeOK
  <2>6. /\ "update" \in IF r \in CreateRequest THEN CreatePhase \ {"over"}
                                                ELSE CapturePhase \ {"over"}
        /\ "update" \in OpenPhase /\ work[r] \in OpenPhase
    BY <1>1, <2>2 DEF CapturePhase, OpenPhase
  <2>7. /\ UNCHANGED authorizations /\ locks' = locks
        /\ \/ UNCHANGED captures
           \/ captures' = [captures EXCEPT ![PaymentOf(r)] = @ \cup {r}]
    BY <2>1, <2>2
  <2>8. QED
    BY <1>1, <2>1, <2>2, <2>3, <2>4, <2>5, <2>6, <2>7, WorkKeepsInv
<1>7. CASE DetachSession(r)
  <2>1. /\ pc[r] = "owner" /\ work[r] = "capturing" /\ r \in CaptureRequest
        /\ work' = [work EXCEPT ![r] = "detached"] /\ locks' = Released(r)
        /\ UNCHANGED <<idemVars, payments, outbox, draft, authorizations, captures>>
    BY <1>1, <1>7 DEF DetachSession, Working, Phased, PInv, WorkIsLocated, CreatePhase
  <2>2. /\ "detached" \in IF r \in CreateRequest THEN CreatePhase \ {"over"}
                                                  ELSE CapturePhase \ {"over"}
        /\ "detached" \notin OpenPhase
    BY <1>1, <2>1 DEF CapturePhase, OpenPhase
  <2>3. QED
    BY <1>1, <2>1, <2>2, WorkKeepsInv
<1>8. CASE UpdateStatusIfAuthorized(r)
  <2>1. CASE /\ payments[PaymentOf(r)].status = "AUTHORIZED"
             /\ Phased(r, "record")
             /\ UNCHANGED <<idemVars, payments, outbox, locks, draft, authorizations>>
    <3>1. /\ pc[r] = "owner" /\ work[r] = "update" /\ r \in CaptureRequest
          /\ work' = [work EXCEPT ![r] = "record"] /\ captures' = captures
      BY <1>1, <1>8, <2>1
         DEF UpdateStatusIfAuthorized, Working, Phased, PInv, WorkIsLocated, CreatePhase
    <3>2. payments[PaymentOf(r)] = [status |-> "AUTHORIZED", reference |-> TRUE]
      BY <1>1, <3>1 DEF PInv, PaymentLocksHold, LockedPaymentIsStable, InTransaction
    <3>3. /\ draft[r].status \in {"CAPTURED", "CAPTURE_FAILED"}
          /\ draft[r].status = "CAPTURED" => r \in captures'[PaymentOf(r)]
          /\ draft[r].reference
      BY <3>1 DEF PInv, DraftsAreConfirmed
    <3>4. QED
      BY <1>1, <2>1, <3>1, <3>2, <3>3, WorkKeepsInv DEF CapturePhase, OpenPhase
  <2>2. QED
    BY <1>2, <1>8, <2>1 DEF UpdateStatusIfAuthorized
<1>9. CASE RecordEvent(r)
  <2>1. CASE /\ draft[r].status \in {"AUTHORIZED", "CAPTURED"} => draft[r].reference
             /\ Phased(r, "complete")
             /\ UNCHANGED <<idemVars, payments, outbox, locks, draft, authorizations, captures>>
    <3>1. /\ pc[r] = "owner" /\ work[r] = "record" /\ InTransaction(r)
          /\ work' = [work EXCEPT ![r] = "complete"]
      BY <1>9, <2>1 DEF RecordEvent, Working, Phased, InTransaction
    <3>2. IF r \in CreateRequest
          THEN ~Exists(PaymentOf(r))
          ELSE payments[PaymentOf(r)] = [status |-> "AUTHORIZED", reference |-> TRUE]
      BY <3>1 DEF PInv, PaymentLocksHold, LockedPaymentIsStable
    <3>3. /\ r \in CreateRequest =>
                /\ draft[r].status \in {"AUTHORIZED", "FAILED"}
                /\ draft[r].status = "AUTHORIZED" => r \in authorizations'[PaymentOf(r)]
          /\ r \in CaptureRequest =>
                /\ draft[r].status \in {"CAPTURED", "CAPTURE_FAILED"}
                /\ draft[r].status = "CAPTURED" => r \in captures'[PaymentOf(r)]
                /\ draft[r].reference
      BY <2>1, <3>1 DEF PInv, DraftsAreConfirmed
    <3>4. "complete" \in CreatePhase \ {"over"} /\ "complete" \in CapturePhase \ {"over"}
      BY DEF CreatePhase, CapturePhase
    <3>5. QED
      BY <1>1, <2>1, <3>1, <3>2, <3>3, <3>4, WorkKeepsInv DEF OpenPhase
  <2>2. QED
    BY <1>2, <1>9, <2>1 DEF RecordEvent
<1>10. CASE Complete(r)
  BY <1>10, CompleteKeepsInv
<1>11. CASE CompleteRefused(r)
  BY <1>11, RollbackKeepsInv DEF CompleteRefused, CompletionRefused, GoTo, Ended
<1>12. CASE CaptureThrows(r) \/ WorkThrows(r)
  BY <1>2, <1>12 DEF CaptureThrows, WorkThrows
<1>13. CASE CrashAtWork(r)
  BY <1>13, RollbackKeepsInv DEF CrashAtWork, Crash, GoTo
<1>14. QED
  BY <1>3, <1>4, <1>5, <1>6, <1>7, <1>8, <1>9, <1>10, <1>11, <1>12, <1>13
     DEF WorkStep, PaymentsFault

\* Every step of the payment service keeps the invariant.
LEMMA PaymentsNextInv == PInv /\ [PaymentsNext]_vars => PInv'
<1> SUFFICES ASSUME PInv, [PaymentsNext]_vars PROVE PInv'
  OBVIOUS
<1>1. IInv'
  BY NextFollowsProtocol, NextInv DEF PInv
<1>2. ASSUME NEW r \in Request, ProtocolStep(r) PROVE PInv'
  BY <1>1, <1>2, ProtocolStepFrame, FrameKeepsInv DEF ProtocolStep, PInv
<1>3. ASSUME NEW r \in Request, WorkStep(r) \/ PaymentsFault(r) PROVE PInv'
  BY <1>1, <1>3, WorkStepInv
<1>4. CASE Tick /\ UNCHANGED payVars
  BY <1>1, <1>4, TickFrame, FrameKeepsInv DEF PInv
<1>5. CASE UNCHANGED vars
  <2>1. ProtocolFrame
    BY <1>5 DEF vars, idemVars, ProtocolFrame, Starting
  <2>2. QED
    BY <1>1, <1>5, <2>1, FrameKeepsInv DEF vars
<1>6. QED
  BY <1>2, <1>3, <1>4, <1>5 DEF PaymentsNext

\* The invariant holds in every behaviour of the payment service.
LEMMA PaymentsInv == PaymentsSpec => []PInv
<1>1. QED
  BY PaymentsInitInv, PaymentsNextInv, PTL DEF PaymentsSpec

\* The variables of the payment service keep their types: what is written is
\* always a payment, an event or a lock of the kinds the tables hold.
THEOREM PaymentsTypeCorrect == PaymentsSpec => []PaymentsTypeOK
<1>1. PInv => PaymentsTypeOK
  BY DEF PInv
<1>2. QED
  BY <1>1, PaymentsInv, PTL

\* findByIdForUpdate and the INSERT of a payment protect what they checked until
\* the transaction ends, and every way out of the work lets the lock go.
THEOREM RowLocksHold == PaymentsSpec => []PaymentLocksHold
<1>1. PInv => PaymentLocksHold
  BY DEF PInv
<1>2. QED
  BY <1>1, PaymentsInv, PTL

\* Of the requests that are still in their transaction, no two are at the provider
\* with a capture of one payment, and none goes there after one whose effect was
\* committed.  A request whose session the database has ended is in no transaction
\* any more: it may still be at the provider while the next capture is made.
THEOREM CapturesAreSerial == PaymentsSpec => []ProviderCaptureIsSerial
<1>1. ASSUME PInv PROVE ProviderCaptureIsSerial
  <2> SUFFICES ASSUME NEW r1 \in CaptureRequest, NEW r2 \in CaptureRequest,
                      InTransaction(r1), r1 # r2, PaymentOf(r1) = PaymentOf(r2)
               PROVE  ~InTransaction(r2) /\ \A e \in outbox : e.id # r2
    BY DEF ProviderCaptureIsSerial
  <2>1. r1 \in Request /\ r2 \in Request /\ r1 \notin CreateRequest
    BY DEF CaptureRequest
  <2>2. ~InTransaction(r2)
    BY <1>1, <2>1 DEF PInv, TransactionsHoldLocks
  <2>3. payments[PaymentOf(r1)].status = "AUTHORIZED"
    BY <1>1, <2>1 DEF PInv, PaymentLocksHold, LockedPaymentIsStable
  <2>4. \A e \in outbox : e.id # r2
    BY <1>1, <2>3 DEF PInv, EventsHaveAuthors
  <2>5. QED
    BY <2>2, <2>4
<1>2. QED
  BY <1>1, PaymentsInv, PTL

\* All authorizations under one key present one payment id to the provider,
\* whichever retries, takeovers and reactivations made them.
THEOREM OneReference == PaymentsSpec => []OneReferencePerKey
<1>1. ASSUME PInv PROVE OneReferencePerKey
  <2> SUFFICES ASSUME NEW p1 \in Resource, NEW p2 \in Resource,
                      NEW r1 \in authorizations[p1], NEW r2 \in authorizations[p2],
                      req[r1].key = req[r2].key
               PROVE  p1 = p2
    BY DEF OneReferencePerKey
  <2>1. r1 \in Request /\ r2 \in Request
    BY <1>1 DEF PInv, PaymentsTypeOK
  <2>2. /\ owned[r1].token # None /\ owned[r1].resource = p1
        /\ owned[r2].token # None /\ owned[r2].resource = p2
    BY <1>1 DEF PInv, AuthorizationsHaveOwners
  <2>3. RowOf(r1).resource = p1 /\ RowOf(r2).resource = p2
    BY <1>1, <2>1, <2>2, OwnersPayment DEF PaymentOf
  <2>4. QED
    BY <2>3 DEF RowOf
<1>2. QED
  BY <1>1, PaymentsInv, PTL

\* A stored success was confirmed by the provider to the request that stored it,
\* and carries the provider's payment id.
THEOREM SuccessesAreConfirmed == PaymentsSpec => []SuccessIsConfirmed
<1>1. PInv => SuccessIsConfirmed
  BY DEF PInv
<1>2. QED
  BY <1>1, PaymentsInv, PTL

\* Requests under one key are all creates or all captures: their scopes differ.
LEMMA KeysTellOperations ==
    ASSUME PInv, NEW r1 \in Request, NEW r2 \in Request, req[r1].key = req[r2].key
    PROVE  r1 \in CreateRequest <=> r2 \in CreateRequest
<1>1. ASSUME NEW r \in Request
      PROVE  r \in CreateRequest <=> req[r].key \in CreateKey
  <2>1. r \in CreateRequest => req[r].key \in CreateKey
    BY DEF PInv, RequestsAreFormed
  <2>2. ASSUME r \notin CreateRequest PROVE req[r].key \in Resource \X CaptureKey
    <3>1. req[r].resource \in Resource
      BY DEF PInv, IInv, TypeOK
    <3>2. QED
      BY <2>2, <3>1 DEF PInv, RequestsAreFormed, CaptureRequest
  <2>3. QED
    BY <2>1, <2>2, KeyAssumption
<1>2. QED
  BY <1>1

\* Whoever was given a response, first hand or as a replay, finds the event of
\* the operation that produced it, on the key's own payment.
THEOREM ResponsesAreRecorded == PaymentsSpec => []ResponsesAreDurable
<1>1. ASSUME PInv PROVE ResponsesAreDurable
  <2> SUFFICES ASSUME NEW r \in Request, answer[r].kind = "response"
               PROVE  \E e \in outbox :
                         /\ e.id = answer[r].response
                         /\ e.payment = RowOf(r).resource
                         /\ e.type \in IF r \in CreateRequest
                                       THEN {"AUTHORIZED", "FAILED"}
                                       ELSE {"CAPTURED", "CAPTURE_FAILED"}
    BY DEF ResponsesAreDurable
  <2>1. /\ RowOf(r).status = "COMPLETED" /\ RowOf(r).response = answer[r].response
        /\ req[r].key \in Key
    BY <1>1, RowOfType DEF PInv, IInv, AnswersMatchRows
  <2>2. PICK e \in outbox : e.id = answer[r].response /\ e.payment = RowOf(r).resource
    BY <1>1, <2>1 DEF PInv, CompletionsAreRecorded, RowOf
  <2>3. e.id \in Request
    BY <1>1 DEF PInv, PaymentsTypeOK, Event
  <2>4. req[e.id].key = req[r].key
    BY <1>1, <2>1, <2>2, <2>3, NoneAssumption
       DEF PInv, IInv, RowsMatchOwners, TokensAreFresh, RowOf
  <2>5. e.id \in CreateRequest <=> r \in CreateRequest
    BY <1>1, <2>3, <2>4, KeysTellOperations
  <2>6. QED
    BY <1>1, <2>2, <2>3, <2>5 DEF PInv, EventsHaveAuthors, CaptureRequest
<1>2. QED
  BY <1>1, PaymentsInv, PTL

-----------------------------------------------------------------------------
(* The ledger *)

\* A step that stores nothing is invisible to the ledger.
LEMMA LedgerStutters ==
    ASSUME UNCHANGED <<payments, outbox>>,
           \A k \in Key :
              /\ rows'[k].status = "COMPLETED" <=> rows[k].status = "COMPLETED"
              /\ rows[k].status = "COMPLETED" => /\ rows'[k].response = rows[k].response
                                                 /\ rows'[k].resource = rows[k].resource
    PROVE  UNCHANGED Ledger!ledgerVars
BY DEF Ledger!ledgerVars

\* A step of the work that is not its commit stores nothing.
LEMMA OnlyCompletionsStore ==
    ASSUME NEW r \in Request, WorkStep(r) \/ PaymentsFault(r), ~Complete(r)
    PROVE  UNCHANGED <<payments, outbox, rows>>
BY DEF WorkStep, PaymentsFault, Authorize, InsertPayment, FindForUpdate, CaptureReturns,
       UpdateStatusIfAuthorized, RecordEvent, CompleteRefused, DetachSession,
       CaptureThrows, WorkThrows, CrashAtWork, Throws, Rollback, WorkFails, Crash,
       CompletionRefused, idemVars

\* The commit of create or capture is one step of the ledger.
LEMMA CompletionIsRecord ==
    ASSUME PInv, NEW r \in Request, Complete(r)
    PROVE  Ledger!LedgerNext
<1> DEFINE p == PaymentOf(r)
           k == req[r].key
           stored == [q \in Resource |-> payments[q].status]
           completed == {[key |-> j, by |-> rows[j].response, payment |-> rows[j].resource] :
                            j \in {i \in Key : rows[i].status = "COMPLETED"}}
<1>1. Working(r, "complete") /\ (Commit(r) \/ CommitUnacknowledged(r))
  BY DEF Complete
<1>2. /\ p \in Resource /\ draft[r] \in Payment
      /\ \A e \in outbox : e.id # r
  BY <1>1, CompletionFinds
<1>3. /\ k \in Key /\ rows[k].status = "PROCESSING"
      /\ rows'[k].status = "COMPLETED" /\ rows'[k].response = r /\ rows'[k].resource = p
      /\ \A j \in Key : j # k => rows'[j] = rows[j]
  BY <1>1, CommitEffect DEF PInv, PaymentOf, RowOf
<1>4. /\ payments' = [payments EXCEPT ![p] = draft[r]] /\ payments \in [Resource -> Payment]
      /\ outbox' = outbox \cup {[id |-> r, payment |-> p, type |-> draft[r].status]}
  BY DEF Complete, Persist, PInv, PaymentsTypeOK
<1>5. stored' = [stored EXCEPT ![p] = draft[r].status]
  BY <1>2, <1>4
<1>6. completed' = completed \cup {[key |-> k, by |-> r, payment |-> p]}
  <2>1. {i \in Key : rows'[i].status = "COMPLETED"}
           = {i \in Key : rows[i].status = "COMPLETED"} \cup {k}
    BY <1>3
  <2>2. ASSUME NEW i \in Key, rows[i].status = "COMPLETED"
        PROVE  rows'[i] = rows[i]
    BY <1>3, <2>2
  <2>3. QED
    BY <1>3, <2>1, <2>2
<1>7. \A c \in completed : c.key # k
  BY <1>3
<1>8. ASSUME NEW status, status = draft[r].status
      PROVE  Ledger!Record(r, p, k, status)
  BY <1>2, <1>4, <1>5, <1>6, <1>7, <1>8 DEF Ledger!Record, Ledger!KeyIsFree
<1>9. CASE r \in CreateRequest
  <2>1. stored[p] = "CREATED" /\ draft[r].status \in {"AUTHORIZED", "FAILED"}
    BY <1>1, <1>2, <1>9, CompletionFinds DEF NoPayment
  <2>2. Ledger!Create(r, p, k)
    <3>1. \E status \in {"AUTHORIZED", "FAILED"} : Ledger!Record(r, p, k, status)
      BY <1>8, <2>1
    <3>2. QED
      BY <2>1, <3>1 DEF Ledger!Create
  <2>3. QED
    BY <1>2, <1>3, <2>2 DEF Ledger!LedgerNext
<1>10. CASE r \in CaptureRequest
  <2>1. stored[p] = "AUTHORIZED" /\ draft[r].status \in {"CAPTURED", "CAPTURE_FAILED"}
    BY <1>1, <1>2, <1>10, CompletionFinds
  <2>2. Ledger!Capture(r, p, k)
    <3>1. \E status \in {"CAPTURED", "CAPTURE_FAILED"} : Ledger!Record(r, p, k, status)
      BY <1>8, <2>1
    <3>2. QED
      BY <2>1, <3>1 DEF Ledger!Capture
  <2>3. QED
    BY <1>2, <1>3, <2>2 DEF Ledger!LedgerNext
<1>11. QED
  BY <1>9, <1>10 DEF CaptureRequest

\* The payment service implements the ledger: each operation takes effect once, in
\* one step with its event and the completion of its key.
THEOREM LedgerIsImplemented == PaymentsSpec => ImplementsLedger
<1>1. PaymentsInit => Ledger!LedgerInit
  BY DEF PaymentsInit, Init, NoRow, NoPayment, Ledger!LedgerInit
<1>2. ASSUME PInv, [PaymentsNext]_vars PROVE [Ledger!LedgerNext]_(Ledger!ledgerVars)
  <2>1. ASSUME NEW r \in Request, ProtocolStep(r) PROVE UNCHANGED Ledger!ledgerVars
    BY <1>2, <2>1, ProtocolStepFrame, LedgerStutters
       DEF PInv, ProtocolStep, ProtocolFrame, payVars
  <2>2. ASSUME NEW r \in Request, WorkStep(r) \/ PaymentsFault(r)
        PROVE  [Ledger!LedgerNext]_(Ledger!ledgerVars)
    <3>1. CASE Complete(r)
      BY <1>2, <3>1, CompletionIsRecord
    <3>2. CASE ~Complete(r)
      BY <2>2, <3>2, OnlyCompletionsStore, LedgerStutters
    <3>3. QED
      BY <3>1, <3>2
  <2>3. CASE Tick /\ UNCHANGED payVars
    BY <1>2, <2>3, TickFrame, LedgerStutters DEF PInv, ProtocolFrame, payVars
  <2>4. CASE UNCHANGED vars
    BY <2>4, LedgerStutters DEF vars, idemVars, payVars
  <2>5. QED
    BY <1>2, <2>1, <2>2, <2>3, <2>4 DEF PaymentsNext
<1>3. QED
  BY <1>1, <1>2, PaymentsInv, PTL DEF PaymentsSpec, ImplementsLedger, Ledger!LedgerSpec

=============================================================================
