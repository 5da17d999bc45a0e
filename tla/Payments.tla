------------------------------- MODULE Payments -------------------------------
(***************************************************************************)
(* PaymentsService.create and PaymentsService.capture over the tables      *)
(* payments, outbox_events and idempotency_keys, and the payment provider. *)
(*                                                                         *)
(* A request is first a request of the idempotency protocol (the module    *)
(* extended here).  While its pc is "owner" it does the work modelled      *)
(* below, statement by statement: the writes of its transaction stay in    *)
(* draft until COMMIT, which is the protocol's Commit.  Every other step   *)
(* of the protocol leaves the payment side alone, except that whatever     *)
(* ends the work also rolls the transaction back.                          *)
(*                                                                         *)
(* The id a create request reserves with randomUUID() is that request, so  *)
(* the payments are named by the create requests.  A captured payment is   *)
(* named by its path parameter.                                            *)
(***************************************************************************)
EXTENDS Idempotency

CONSTANTS
    CreateRequest,   \* the requests POST /payments; the others are captures
    CreateKey,       \* (payments:create:<merchant>, Idempotency-Key) pairs
    CaptureKey       \* Idempotency-Keys a capture may carry; its scope adds the payment

ASSUME RequestAssumption == CreateRequest \subseteq Request
ASSUME ResourceAssumption == Resource = CreateRequest
ASSUME KeyAssumption ==
    /\ Key = CreateKey \cup (Resource \X CaptureKey)
    /\ CreateKey \cap (Resource \X CaptureKey) = {}

VARIABLES
    payments,        \* the table payments, as committed
    outbox,          \* the events inserted into outbox_events, as committed
    locks,           \* who holds the row lock (or the new row's key) of a payment
    work,            \* how far the work of a request is
    draft,           \* the payment row a request is about to write
    authorizations,  \* the requests whose authorization of a payment went through
    captures         \* the requests whose capture of a payment went through

payVars == <<payments, outbox, locks, work, draft, authorizations, captures>>
vars    == <<idemVars, payVars>>

-----------------------------------------------------------------------------
(* Data *)

CaptureRequest == Request \ CreateRequest

Status == {"CREATED", "AUTHORIZED", "FAILED", "CAPTURED", "CAPTURE_FAILED"}

\* reference: whether provider_payment_id is set.
Payment == [status : Status, reference : BOOLEAN]

\* No row; create starts from this status without storing it.
NoPayment == [status |-> "CREATED", reference |-> FALSE]

Exists(p) == payments[p] # NoPayment

AllowedTransition(from, to) ==
    \/ from = "CREATED"    /\ to \in {"AUTHORIZED", "FAILED"}
    \/ from = "AUTHORIZED" /\ to \in {"CAPTURED", "CAPTURE_FAILED"}

\* An event is named by the request that recorded it; its type by the status
\* it announces (payment.failed.v1 carries FAILED or CAPTURE_FAILED).
Event == [id : Request, payment : Resource, type : Status \ {"CREATED"}]

Phase == {"start", "insert", "capturing", "detached", "update", "record",
          "complete", "over"}

\* Seeded bugs, named *_Bug: what a plausible mistake would make of the
\* definition that follows.  No specification uses them.
PaymentOf_ReservedBug(r) == req[r].resource

\* The payment a request that owns its key works on.
PaymentOf(r) == owned[r].resource

Working(r, phase) == pc[r] = "owner" /\ work[r] = phase

Phased(r, phase) == work' = [work EXCEPT ![r] = phase]

Released_KeptBug(r) == locks

Released(r) == [p \in Resource |-> IF locks[p] = r THEN None ELSE locks[p]]

\* The transaction, if one is open, is rolled back.
Rollback(r) == /\ locks' = Released(r)
               /\ Phased(r, "over")
               /\ UNCHANGED <<payments, outbox, draft, authorizations>>

\* A statement or a check of the work throws into the catch block.
Throws(r) == WorkFails(r) /\ Rollback(r)

-----------------------------------------------------------------------------
(* create *)

\* provider.authorize, outside any transaction: it succeeds or declines, and may
\* leave the provider payment id empty.  ensureTransition admits both outcomes.
Authorize(r) ==
    /\ Working(r, "start") /\ r \in CreateRequest
    /\ \E status \in {"AUTHORIZED", "FAILED"}, reference \in BOOLEAN :
          /\ AllowedTransition("CREATED", status)
          /\ draft' = [draft EXCEPT ![r] = [status |-> status, reference |-> reference]]
          /\ authorizations' =
                IF status = "AUTHORIZED"
                THEN [authorizations EXCEPT ![PaymentOf(r)] = @ \cup {r}]
                ELSE authorizations
    /\ Phased(r, "insert")
    /\ UNCHANGED <<idemVars, payments, outbox, locks, captures>>

InsertPayment_UpsertBug(r) ==
    /\ Working(r, "insert")
    /\ locks[PaymentOf(r)] = None
    /\ locks' = [locks EXCEPT ![PaymentOf(r)] = r]
    /\ Phased(r, "record")
    /\ UNCHANGED <<idemVars, payments, outbox, draft, authorizations, captures>>

\* BEGIN and INSERT INTO payments.  An uncommitted row of the same id is waited
\* for; a committed one violates the primary key.
InsertPayment(r) ==
    /\ Working(r, "insert")
    /\ locks[PaymentOf(r)] = None
    /\ \/ Exists(PaymentOf(r)) /\ Throws(r) /\ UNCHANGED captures
       \/ /\ ~Exists(PaymentOf(r))
          /\ locks' = [locks EXCEPT ![PaymentOf(r)] = r]
          /\ Phased(r, "record")
          /\ UNCHANGED <<idemVars, payments, outbox, draft, authorizations, captures>>

-----------------------------------------------------------------------------
(* capture *)

FindForUpdate_NoLockBug(r) ==
    /\ Working(r, "start") /\ r \in CaptureRequest
    /\ IF payments[PaymentOf(r)] = [status |-> "AUTHORIZED", reference |-> TRUE]
       THEN /\ Phased(r, "capturing")
            /\ UNCHANGED <<idemVars, payments, outbox, locks, draft, authorizations>>
       ELSE Throws(r)
    /\ UNCHANGED captures

\* BEGIN, SELECT ... FOR UPDATE, and the checks of the row it returns: a
\* missing payment is 404 without waiting, one that is not AUTHORIZED 409, one
\* without a provider reference 500.
FindForUpdate(r) ==
    /\ Working(r, "start") /\ r \in CaptureRequest
    /\ \/ ~Exists(PaymentOf(r)) /\ Throws(r) /\ UNCHANGED captures
       \/ /\ Exists(PaymentOf(r))
          /\ locks[PaymentOf(r)] = None
          /\ \/ /\ payments[PaymentOf(r)] # [status |-> "AUTHORIZED", reference |-> TRUE]
                /\ Throws(r)
                /\ UNCHANGED captures
             \/ /\ payments[PaymentOf(r)] = [status |-> "AUTHORIZED", reference |-> TRUE]
                /\ locks' = [locks EXCEPT ![PaymentOf(r)] = r]
                /\ Phased(r, "capturing")
                /\ UNCHANGED <<idemVars, payments, outbox, draft, authorizations, captures>>

CaptureReturns_IgnoredBug(r) ==
    /\ Working(r, "capturing")
    /\ draft' = [draft EXCEPT ![r] = [payments[PaymentOf(r)] EXCEPT !.status = "CAPTURED"]]
    /\ \/ captures' = [captures EXCEPT ![PaymentOf(r)] = @ \cup {r}]
       \/ UNCHANGED captures
    /\ Phased(r, "update")
    /\ UNCHANGED <<idemVars, payments, outbox, locks, authorizations>>

\* provider.capture returns, with the payment row still locked.
CaptureReturns(r) ==
    /\ Working(r, "capturing")
    /\ \E status \in {"CAPTURED", "CAPTURE_FAILED"} :
          /\ AllowedTransition("AUTHORIZED", status)
          /\ draft' = [draft EXCEPT ![r] = [payments[PaymentOf(r)] EXCEPT !.status = status]]
          /\ captures' = IF status = "CAPTURED"
                         THEN [captures EXCEPT ![PaymentOf(r)] = @ \cup {r}]
                         ELSE captures
    /\ Phased(r, "update")
    /\ UNCHANGED <<idemVars, payments, outbox, locks, authorizations>>

\* The database ends the session of a request that waits for the provider: its
\* row lock is gone and the request does not know.
DetachSession(r) ==
    /\ Working(r, "capturing")
    /\ locks' = Released(r)
    /\ Phased(r, "detached")
    /\ UNCHANGED <<idemVars, payments, outbox, draft, authorizations, captures>>

\* The provider throws, or it returns to a request without a session, whose
\* next statement throws.  Either way the capture may have gone through.
CaptureThrows(r) ==
    /\ work[r] \in {"capturing", "detached"}
    /\ Throws(r)
    /\ \/ captures' = [captures EXCEPT ![PaymentOf(r)] = @ \cup {r}]
       \/ UNCHANGED captures

\* UPDATE payments ... WHERE status = 'AUTHORIZED'; no row is 409.
UpdateStatusIfAuthorized(r) ==
    /\ Working(r, "update")
    /\ IF payments[PaymentOf(r)].status = "AUTHORIZED"
       THEN /\ Phased(r, "record")
            /\ UNCHANGED <<idemVars, payments, outbox, locks, draft, authorizations>>
       ELSE Throws(r)
    /\ UNCHANGED captures

-----------------------------------------------------------------------------
(* Both *)

\* recordPaymentAuthorized, -Captured and -Failed: an event of a successful
\* operation cannot be recorded without the provider's payment id.
RecordEvent(r) ==
    /\ Working(r, "record")
    /\ \/ /\ draft[r].status \in {"AUTHORIZED", "CAPTURED"} => draft[r].reference
          /\ Phased(r, "complete")
          /\ UNCHANGED <<idemVars, payments, outbox, locks, draft, authorizations, captures>>
       \/ /\ draft[r].status \in {"AUTHORIZED", "CAPTURED"} /\ ~draft[r].reference
          /\ Throws(r)
          /\ UNCHANGED captures

Persist_NoEventBug(r) ==
    /\ payments' = [payments EXCEPT ![PaymentOf(r)] = draft[r]]
    /\ locks' = Released(r)
    /\ Phased(r, "over")
    /\ UNCHANGED <<outbox, draft, authorizations, captures>>

Persist_OldStatusBug(r) ==
    /\ payments' = [payments EXCEPT ![PaymentOf(r)] = draft[r]]
    /\ outbox' = outbox \cup {[id      |-> r,
                               payment |-> PaymentOf(r),
                               type    |-> payments[PaymentOf(r)].status]}
    /\ locks' = Released(r)
    /\ Phased(r, "over")
    /\ UNCHANGED <<draft, authorizations, captures>>

\* The transaction's writes become visible together.
Persist(r) ==
    /\ payments' = [payments EXCEPT ![PaymentOf(r)] = draft[r]]
    /\ outbox' = outbox \cup {[id      |-> r,
                               payment |-> PaymentOf(r),
                               type    |-> draft[r].status]}
    /\ locks' = Released(r)
    /\ Phased(r, "over")
    /\ UNCHANGED <<draft, authorizations, captures>>

Complete_RefusalIgnoredBug(r) ==
    /\ Working(r, "complete")
    /\ \/ Commit(r) \/ CommitUnacknowledged(r)
       \/ /\ Reply(r, [kind |-> "response", response |-> r])
          /\ UNCHANGED <<rows, req, lease, owned>>
    /\ Persist(r)

\* markCompleted and COMMIT.
Complete(r) ==
    /\ Working(r, "complete")
    /\ Commit(r) \/ CommitUnacknowledged(r)
    /\ Persist(r)

\* markCompleted matched no row: OWNERSHIP_LOST.
CompleteRefused(r) ==
    /\ Working(r, "complete")
    /\ CompletionRefused(r)
    /\ Rollback(r)
    /\ UNCHANGED captures

\* Any statement of the work, or authorize, throws.
WorkThrows(r) ==
    /\ work[r] \in {"start", "insert", "update", "record", "complete"}
    /\ Throws(r)
    /\ UNCHANGED captures

\* The instance dies.  A capture it was waiting for may have gone through.
CrashAtWork(r) ==
    /\ Crash(r)
    /\ Rollback(r)
    /\ \/ UNCHANGED captures
       \/ /\ pc[r] = "owner" /\ work[r] \in {"capturing", "detached"}
          /\ captures' = [captures EXCEPT ![PaymentOf(r)] = @ \cup {r}]

-----------------------------------------------------------------------------
PaymentsInit ==
    /\ Init
    /\ \A r \in CreateRequest : req[r].key \in CreateKey /\ req[r].resource = r
    /\ \A r \in CaptureRequest : \E k \in CaptureKey : req[r].key = <<req[r].resource, k>>
    /\ \A r1, r2 \in CaptureRequest :
          req[r1].resource = req[r2].resource => req[r1].hash = req[r2].hash
    /\ payments = [p \in Resource |-> NoPayment]
    /\ outbox = {}
    /\ locks = [p \in Resource |-> None]
    /\ work = [r \in Request |-> "start"]
    /\ draft = [r \in Request |-> NoPayment]
    /\ authorizations = [p \in Resource |-> {}]
    /\ captures = [p \in Resource |-> {}]

\* The steps of the protocol that are not steps of the work.
ProtocolStep(r) ==
    /\ \/ Receive(r) \/ Start(r) \/ MarkFailed(r)
       \/ StartFails(r) \/ AcquireUnacknowledged(r) \/ MarkFailedThrows(r) \/ Retry(r)
    /\ UNCHANGED payVars

WorkStep(r) ==
    \/ Authorize(r) \/ InsertPayment(r)
    \/ FindForUpdate(r) \/ CaptureReturns(r) \/ UpdateStatusIfAuthorized(r)
    \/ RecordEvent(r) \/ Complete(r) \/ CompleteRefused(r)

PaymentsFault(r) ==
    DetachSession(r) \/ CaptureThrows(r) \/ WorkThrows(r) \/ CrashAtWork(r)

PaymentsNext ==
    \/ \E r \in Request : ProtocolStep(r) \/ WorkStep(r) \/ PaymentsFault(r)
    \/ Tick /\ UNCHANGED payVars

PaymentsSpec == PaymentsInit /\ [][PaymentsNext]_vars

\* The provider answers (it has no timeout here, and the mock returns at once),
\* a statement runs, a lock that stays free is taken.
PaymentsFairness ==
    /\ \A r \in Request : WF_vars(ProtocolStep(r) /\ Start(r))
                          /\ WF_vars(ProtocolStep(r) /\ MarkFailed(r))
                          /\ WF_vars(WorkStep(r) \/ CaptureThrows(r))
    /\ WF_vars(Tick /\ UNCHANGED payVars)

-----------------------------------------------------------------------------
PaymentsTypeOK ==
    /\ TypeOK
    /\ payments \in [Resource -> Payment]
    /\ outbox \subseteq Event
    /\ locks \in [Resource -> Request \cup {None}]
    /\ work \in [Request -> Phase]
    /\ draft \in [Request -> Payment]
    /\ authorizations \in [Resource -> SUBSET Request]
    /\ captures \in [Resource -> SUBSET Request]

\* The phases of a request whose transaction is open on its payment.
InTransaction(r) ==
    pc[r] = "owner" /\ work[r] \in {"capturing", "update", "record", "complete"}

\* A payment row that was checked before the provider call, or found absent by
\* INSERT, is still so when the transaction's later statements run: the 409 of
\* updateStatusIfAuthorized is never reached, and a stale owner's INSERT stops at a
\* payment that the new owner has committed.
LockedPaymentIsStable ==
    \A r \in Request :
        InTransaction(r) =>
            IF r \in CreateRequest
            THEN ~Exists(PaymentOf(r))
            ELSE payments[PaymentOf(r)] = [status |-> "AUTHORIZED", reference |-> TRUE]

\* A payment lock is held by a request that is still at work on that payment:
\* every way out of the work lets it go.
LocksHaveOwners ==
    \A p \in Resource :
        locks[p] # None => InTransaction(locks[p]) /\ PaymentOf(locks[p]) = p

\* The row locks do what the code takes them for: they keep what was checked as it
\* was, and nobody is left waiting for one.
PaymentLocksHold == LockedPaymentIsStable /\ LocksHaveOwners

\* "Keep the row lock through the provider call to prevent concurrent double
\* capture": while a request with an open transaction is at the provider or
\* back from it, no other capture of the payment went through but those whose
\* own transaction has ended without effect.
ProviderCaptureIsSerial ==
    \A r1, r2 \in CaptureRequest :
        /\ InTransaction(r1)
        /\ r1 # r2
        /\ PaymentOf(r1) = PaymentOf(r2)
        => /\ ~InTransaction(r2)
           /\ r2 \in captures[PaymentOf(r1)] => \A e \in outbox : e.id # r2

\* ADR 006: every authorization made for one idempotency key presents the same
\* payment id to the provider.
OneReferencePerKey ==
    \A p1, p2 \in Resource :
        \A r1 \in authorizations[p1], r2 \in authorizations[p2] :
            req[r1].key = req[r2].key => p1 = p2

\* A stored success is one the provider confirmed to the request that stored it,
\* and an authorized payment can be captured: the 500 for a missing provider
\* reference is never reached.
SuccessIsConfirmed ==
    \A p \in Resource :
        /\ payments[p].status \in {"AUTHORIZED", "CAPTURED"} => payments[p].reference
        /\ \A e \in outbox :
              e.payment = p =>
                /\ e.type = "AUTHORIZED" => e.id \in authorizations[p]
                /\ e.type = "CAPTURED"   => e.id \in captures[p]

\* A client that was given a response finds its operation in the ledger: the
\* event of the request that produced the response, on the key's own payment.
ResponsesAreDurable ==
    \A r \in Request :
        answer[r].kind = "response" =>
            \E e \in outbox :
                /\ e.id = answer[r].response
                /\ e.payment = RowOf(r).resource
                /\ e.type \in IF r \in CreateRequest
                              THEN {"AUTHORIZED", "FAILED"}
                              ELSE {"CAPTURED", "CAPTURE_FAILED"}

(* The inductive invariant behind them *)

\* Requests keep the shape they came with: see PaymentsInit.
RequestsAreFormed ==
    /\ \A r \in CreateRequest : req[r].key \in CreateKey /\ req[r].resource = r
    /\ \A r \in CaptureRequest : \E k \in CaptureKey : req[r].key = <<req[r].resource, k>>

\* The resource of a row was reserved by a request for its key, so a capture's key
\* stands for one payment only.
RowsHaveResources ==
    \A k \in Key :
        rows[k].status # "ABSENT" =>
            \E r \in Request : req[r].key = k /\ req[r].resource = rows[k].resource

\* The work is under way only while its request owns the key, and does not begin
\* a second time.
CreatePhase  == {"start", "insert", "record", "complete", "over"}
CapturePhase == {"start", "capturing", "detached", "update", "record", "complete", "over"}

WorkIsLocated ==
    \A r \in Request :
        /\ work[r] \in IF r \in CreateRequest THEN CreatePhase ELSE CapturePhase
        /\ work[r] \notin {"start", "over"} => pc[r] = "owner"
        /\ work[r] = "over" => pc[r] # "owner" /\ ~Starting(r)

\* An open transaction has its payment's lock.
TransactionsHoldLocks ==
    \A r \in Request : InTransaction(r) => locks[PaymentOf(r)] = r

\* The row to be written carries the provider's answer to this request, and has
\* a reference by the time its event was recorded.
DraftsAreConfirmed ==
    /\ \A r \in CreateRequest :
          work[r] \in {"insert", "record", "complete"} =>
             /\ draft[r].status \in {"AUTHORIZED", "FAILED"}
             /\ draft[r].status = "AUTHORIZED" => r \in authorizations[PaymentOf(r)]
             /\ work[r] = "complete" /\ draft[r].status = "AUTHORIZED" => draft[r].reference
    /\ \A r \in CaptureRequest :
          work[r] \in {"update", "record", "complete"} =>
             /\ draft[r].status \in {"CAPTURED", "CAPTURE_FAILED"}
             /\ draft[r].status = "CAPTURED" => r \in captures[PaymentOf(r)]
             /\ draft[r].reference

\* An event was recorded by a request that has ended, about the payment it worked
\* on; a capture's event leaves the payment beyond another capture.
EventsHaveAuthors ==
    \A e \in outbox :
        /\ work[e.id] = "over" /\ owned[e.id].token # None
        /\ e.payment = PaymentOf(e.id)
        /\ e.id \in CreateRequest  => e.type \in {"AUTHORIZED", "FAILED"}
        /\ e.id \in CaptureRequest =>
              /\ e.type \in {"CAPTURED", "CAPTURE_FAILED"}
              /\ payments[e.payment].status \in {"CAPTURED", "CAPTURE_FAILED"}

\* A key is completed together with an event.
CompletionsAreRecorded ==
    \A k \in Key :
        rows[k].status = "COMPLETED" =>
            \E e \in outbox : e.id = rows[k].response /\ e.payment = rows[k].resource

\* An authorization was made by an owner, under the resource id it was given.
AuthorizationsHaveOwners ==
    \A p \in Resource : \A r \in authorizations[p] :
        owned[r].token # None /\ owned[r].resource = p

PInv == /\ IInv
        /\ PaymentsTypeOK
        /\ RequestsAreFormed
        /\ RowsHaveResources
        /\ WorkIsLocated
        /\ TransactionsHoldLocks
        /\ PaymentLocksHold
        /\ DraftsAreConfirmed
        /\ EventsHaveAuthors
        /\ CompletionsAreRecorded
        /\ AuthorizationsHaveOwners
        /\ SuccessIsConfirmed

(* Refinements *)

\* create and capture keep to the idempotency protocol, whatever they do while
\* they own a key.
FollowsProtocol == Spec

\* What is stored implements the abstract ledger: one atomic step per payment
\* operation, with its event and its key.
Ledger == INSTANCE PaymentLedger WITH
    payments  <- [p \in Resource |-> payments[p].status],
    completed <- {[key |-> k, by |-> rows[k].response, payment |-> rows[k].resource] :
                     k \in {j \in Key : rows[j].status = "COMPLETED"}}

ImplementsLedger == Ledger!LedgerSpec

=============================================================================
