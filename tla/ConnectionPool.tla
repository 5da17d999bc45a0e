----------------------------- MODULE ConnectionPool -----------------------------
(***************************************************************************)
(* Who holds and who waits for the connections of the Knex pool of a       *)
(* payment service: requests, for single statements and for transactions,  *)
(* captures that wait for a row lock in their transaction, and the poller, *)
(* which waits for confirms in its.                                        *)
(*                                                                         *)
(* What the statements do is in Idempotency, Payments and Outbox.  A       *)
(* statement that waits for a row another transaction has just written     *)
(* ends with that transaction, which needs no connection more.             *)
(***************************************************************************)
EXTENDS Integers, Sequences, SequencesExt, FiniteSets

CONSTANTS
    CreateRequest, CaptureRequest,   \* the requests
    Poller,      \* the outbox worker
    Payment,     \* the payments that are captured
    PoolSize,    \* pool.max, 10 unless configured
    None         \* no lock

Request == CreateRequest \cup CaptureRequest
Actor   == Request \cup {Poller}

ASSUME PoolSizeAssumption == PoolSize \in Nat \ {0}
ASSUME ActorAssumption ==
    /\ CreateRequest \cap CaptureRequest = {}
    /\ Poller \notin Request /\ None \notin Actor

VARIABLES
    pc,      \* what an actor does, or what it wants a connection for
    target,  \* the payment a capture is about
    queue,   \* who waits for a connection: first come, first served
    held,    \* how many connections an actor holds
    lock     \* who holds the row lock of a payment

poolVars == <<pc, target, queue, held, lock>>

Wants(a) == a \in ToSet(queue)

\* The connections that are in use: the first, the second, ... of an actor.
InUse == {s \in Actor \X (1 .. PoolSize) : s[2] <= held[s[1]]}

Free == PoolSize - Cardinality(InUse)

\* The queue without a.
Leaving(a) == RemoveAt(queue, CHOOSE i \in DOMAIN queue : queue[i] = a)

Goes(a, step) == pc' = [pc EXCEPT ![a] = step]

\* Wants a connection for its next step.
Queues(a, step) == Goes(a, step) /\ queue' = Append(queue, a)

Unlocked(a) == [p \in Payment |-> IF lock[p] = a THEN None ELSE lock[p]]

\* The statement or the transaction is over.
Releases(a) == held' = [held EXCEPT ![a] = 0] /\ lock' = Unlocked(a)

-----------------------------------------------------------------------------
(* The pool *)

Acquire(a) ==
    /\ queue # <<>> /\ Head(queue) = a /\ Free > 0
    /\ queue' = Tail(queue)
    /\ held' = [held EXCEPT ![a] = @ + 1]
    /\ UNCHANGED <<pc, target, lock>>

\* acquireConnectionTimeout: getExistingOrStart throws, BEGIN throws and markFailed
\* is next, markFailed throws and is logged, an iteration is over.
AcquireTimesOut(a) ==
    /\ Wants(a) /\ Free = 0
    /\ \/ /\ pc[a] = "begin" /\ a \in Request
          /\ Goes(a, "mark failed")
          /\ queue' = Append(Leaving(a), a)
       \/ /\ ~(pc[a] = "begin" /\ a \in Request)
          /\ Goes(a, IF a = Poller THEN "idle" ELSE "done")
          /\ queue' = Leaving(a)
    /\ Releases(a)
    /\ UNCHANGED target

-----------------------------------------------------------------------------
(* Requests *)

\* getExistingOrStart is a few single statements.
Arrive(r) ==
    /\ pc[r] = "idle"
    /\ Queues(r, "claim")
    /\ \/ r \in CreateRequest /\ UNCHANGED target
       \/ r \in CaptureRequest /\ \E p \in Payment : target' = [target EXCEPT ![r] = p]
    /\ UNCHANGED <<held, lock>>

\* A replay or a refusal is an answer; else create calls the provider without a
\* connection, capture begins its transaction.
Claimed(r) ==
    /\ pc[r] = "claim" /\ ~Wants(r)
    /\ Releases(r)
    /\ \/ Goes(r, "done") /\ UNCHANGED queue
       \/ r \in CreateRequest /\ Goes(r, "authorize") /\ UNCHANGED queue
       \/ r \in CaptureRequest /\ Queues(r, "begin")
    /\ UNCHANGED target

Authorized(r) ==
    /\ pc[r] = "authorize"
    /\ \/ Queues(r, "begin")
       \/ Queues(r, "mark failed")
    /\ UNCHANGED <<target, held, lock>>

\* findByIdForUpdate waits for the row lock with the connection in hand, and the
\* provider is called with both.
LockPayment(r) ==
    /\ r \in CaptureRequest /\ pc[r] = "begin" /\ ~Wants(r)
    /\ lock[target[r]] = None
    /\ lock' = [lock EXCEPT ![target[r]] = r]
    /\ Goes(r, "capture")
    /\ UNCHANGED <<target, queue, held>>

Captured(r) ==
    /\ pc[r] = "capture"
    /\ Goes(r, "complete")
    /\ UNCHANGED <<target, queue, held, lock>>

Inserted(r) ==
    /\ r \in CreateRequest /\ pc[r] = "begin" /\ ~Wants(r)
    /\ Goes(r, "complete")
    /\ UNCHANGED <<target, queue, held, lock>>

Complete_OtherConnectionBug(r) ==
    /\ pc[r] = "complete" /\ ~Wants(r)
    /\ \/ held[r] = 1 /\ queue' = Append(queue, r) /\ UNCHANGED <<pc, held, lock>>
       \/ held[r] = 2 /\ Releases(r) /\ Goes(r, "done") /\ UNCHANGED queue
    /\ UNCHANGED target

\* The event and the key at once, neither of them on the transaction.
Complete_TogetherBug(r) ==
    /\ pc[r] = "complete" /\ ~Wants(r)
    /\ \/ held[r] = 1 /\ queue' = queue \o <<r, r>> /\ UNCHANGED <<pc, held, lock>>
       \/ held[r] > 1 /\ Releases(r) /\ Goes(r, "done") /\ UNCHANGED queue
    /\ UNCHANGED target

\* The event and markCompleted are written on the transaction, and COMMIT.
Complete(r) ==
    /\ pc[r] = "complete"
    /\ Releases(r) /\ Goes(r, "done")
    /\ UNCHANGED <<target, queue>>

\* A statement, a check or the provider throws: ROLLBACK, then markFailed on a
\* connection of its own.
TransactionFails(r) ==
    /\ r \in Request /\ pc[r] \in {"begin", "capture", "complete"} /\ ~Wants(r)
    /\ Releases(r)
    /\ Queues(r, "mark failed")
    /\ UNCHANGED target

MarkedFailed(r) ==
    /\ pc[r] = "mark failed" /\ ~Wants(r)
    /\ Releases(r) /\ Goes(r, "done")
    /\ UNCHANGED <<target, queue>>

-----------------------------------------------------------------------------
(* The poller *)

PollBegins ==
    /\ pc[Poller] = "idle"
    /\ Queues(Poller, "begin")
    /\ UNCHANGED <<target, held, lock>>

\* The batch is locked (SKIP LOCKED waits for nobody), published, confirmed or
\* timed out, and committed or rolled back, on one connection.
PollEnds ==
    /\ pc[Poller] = "begin" /\ ~Wants(Poller)
    /\ Releases(Poller) /\ Goes(Poller, "idle")
    /\ UNCHANGED <<target, queue>>

-----------------------------------------------------------------------------
(* Specification *)

PoolInit ==
    /\ pc = [a \in Actor |-> "idle"]
    /\ target = [r \in Request |-> None]
    /\ queue = <<>>
    /\ held = [a \in Actor |-> 0]
    /\ lock = [p \in Payment |-> None]

\* What a request does next when nothing throws.
Advance(r) ==
    \/ Claimed(r) \/ Authorized(r) \/ LockPayment(r) \/ Inserted(r)
    \/ Captured(r) \/ Complete(r) \/ MarkedFailed(r)

PoolNext ==
    \/ \E a \in Actor : Acquire(a) \/ AcquireTimesOut(a)
    \/ \E r \in Request : Arrive(r) \/ Advance(r) \/ TransactionFails(r)
    \/ PollBegins \/ PollEnds

PoolSpec == PoolInit /\ [][PoolNext]_poolVars

\* Statements and iterations end, the provider answers, and the lock of a row goes
\* to everyone who waits for it in the end.  Nothing relies on a timeout.
PoolFairSpec ==
    /\ PoolSpec
    /\ \A a \in Actor : WF_poolVars(Acquire(a))
    /\ \A r \in Request : WF_poolVars(Advance(r))
    /\ \A r \in CaptureRequest : SF_poolVars(LockPayment(r))
    /\ WF_poolVars(PollEnds)

-----------------------------------------------------------------------------
(* Properties *)

PoolTypeOK ==
    /\ pc \in [Actor -> {"idle", "claim", "authorize", "begin", "capture",
                         "complete", "mark failed", "done"}]
    /\ target \in [Request -> Payment \cup {None}]
    /\ queue \in Seq(Actor) /\ IsInjective(queue)
    /\ held \in [Actor -> 0 .. PoolSize] /\ Free >= 0
    /\ lock \in [Payment -> CaptureRequest \cup {None}]

\* Nobody waits for a connection with a connection or a row lock in hand, whatever
\* a transaction calls and whatever throws: what waits cannot block what runs.
NoHoldAndWait ==
    \A a \in Actor : Wants(a) => held[a] = 0 /\ \A p \in Payment : lock[p] # a

(* The inductive invariant behind them *)

\* Who waits for a connection is about to use one, who holds a row lock is in the
\* transaction that took it, and who is between statements has nothing.
StepsMatch ==
    /\ \A a \in Actor : Wants(a) => pc[a] \in {"claim", "begin", "mark failed"}
    /\ \A a \in Actor : pc[a] \in {"idle", "authorize", "done"} => held[a] = 0
    /\ \A p \in Payment : lock[p] # None => pc[lock[p]] \in {"capture", "complete"}

PoolInv == PoolTypeOK /\ NoHoldAndWait /\ StepsMatch /\ IsFiniteSet(InUse)

(* Liveness *)

\* However many captures wait for one row: every request is answered, and the
\* poller gets its turn, without the pool's timeout.
EveryoneIsServed ==
    /\ \A r \in Request : pc[r] = "claim" ~> pc[r] = "done"
    /\ pc[Poller] = "begin" ~> pc[Poller] = "idle"

=============================================================================
