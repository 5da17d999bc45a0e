----------------------------- MODULE PaymentLedger -----------------------------
(***************************************************************************)
(* What the payment service promises to those who read its tables: a       *)
(* payment is created once and captured at most once, and each of the two  *)
(* happens in one step together with its event and with the completion of  *)
(* the idempotency key it was asked under.  Requests, retries, leases,     *)
(* locks, crashes and the provider are not visible here.                   *)
(***************************************************************************)
EXTENDS Integers

CONSTANTS Request, Key, Resource

VARIABLES
    payments,    \* the stored status of a payment, CREATED if there is no row
    outbox,      \* the recorded events
    completed    \* the completed idempotency keys, and who completed them

ledgerVars == <<payments, outbox, completed>>

KeyIsFree(k) == \A c \in completed : c.key # k

\* One business operation: r moves payment p to a new status under key k.
Record(r, p, k, status) ==
    /\ KeyIsFree(k)
    /\ \A e \in outbox : e.id # r
    /\ payments' = [payments EXCEPT ![p] = status]
    /\ outbox' = outbox \cup {[id |-> r, payment |-> p, type |-> status]}
    /\ completed' = completed \cup {[key |-> k, by |-> r, payment |-> p]}

Create(r, p, k) ==
    /\ payments[p] = "CREATED"
    /\ \E status \in {"AUTHORIZED", "FAILED"} : Record(r, p, k, status)

Capture(r, p, k) ==
    /\ payments[p] = "AUTHORIZED"
    /\ \E status \in {"CAPTURED", "CAPTURE_FAILED"} : Record(r, p, k, status)

LedgerInit ==
    /\ payments = [p \in Resource |-> "CREATED"]
    /\ outbox = {}
    /\ completed = {}

LedgerNext ==
    \E r \in Request, p \in Resource, k \in Key : Create(r, p, k) \/ Capture(r, p, k)

LedgerSpec == LedgerInit /\ [][LedgerNext]_ledgerVars

=============================================================================
