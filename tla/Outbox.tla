-------------------------------- MODULE Outbox --------------------------------
(***************************************************************************)
(* The delivery of outbox events: OutboxPublisherWorker.pollOnce of every  *)
(* service instance, over the table outbox_events, with RabbitMqPublisher  *)
(* and the broker.                                                         *)
(*                                                                         *)
(* An iteration is one transaction: it locks a batch (SKIP LOCKED), sends  *)
(* the events one after the other, waits for the outcome of each and       *)
(* writes it to the row.  Its writes are in draft until COMMIT.            *)
(*                                                                         *)
(* Events are numbered in the order (created_at, id).  created_at is set   *)
(* when a transaction begins, so they may become visible in any order.     *)
(***************************************************************************)
EXTENDS Integers, FiniteSets

CONSTANTS
    Event,        \* the ids of outbox_events, as numbers
    Worker,       \* the outbox workers, one per service instance
    None,         \* no lock
    BatchSize,    \* OUTBOX_BATCH_SIZE
    MaxAttempts   \* OUTBOX_MAX_ATTEMPTS

ASSUME EventAssumption    == Event \subseteq Nat /\ IsFiniteSet(Event)
ASSUME WorkerAssumption   == None \notin Worker
ASSUME BatchAssumption    == BatchSize \in Nat \ {0}
ASSUME AttemptsAssumption == MaxAttempts \in Nat \ {0}

VARIABLES
    table,      \* outbox_events, as committed
    locks,      \* which worker's transaction holds the lock of a row
    phase,      \* where a worker's iteration is
    session,    \* whether the transaction of the iteration is still open
    batch,      \* the events of the iteration that are not yet handled
    draft,      \* the rows the iteration has written, NoRow where it has not
    wire,       \* what is under way between a worker's channel and the broker
    returned,   \* whether the publish under way has a returnedError
    stray,      \* events sent on a channel that has since been invalidated
    routed,     \* how often the broker put an event into a queue, up to 2
    sends,      \* how often an event was sent, up to MaxAttempts
    unsure      \* events whose delivery was once left in doubt

dbVars     == <<table, locks>>
workerVars == <<phase, session, batch, draft>>
brokerVars == <<wire, returned, stray, routed, sends>>
outboxVars == <<dbVars, workerVars, brokerVars, unsure>>

-----------------------------------------------------------------------------
(* Data *)

\* waiting: next_retry_at is in the future.
OutboxRow == [status   : {"ABSENT", "PENDING", "PUBLISHED", "FAILED"},
              attempts : 0 .. MaxAttempts,
              waiting  : BOOLEAN]

NoRow     == [status |-> "ABSENT", attempts |-> 0, waiting |-> FALSE]
InsertedRow == [NoRow EXCEPT !.status = "PENDING"]

Oldest(events) == CHOOSE e \in events : \A f \in events : e <= f

Current(w) == Oldest(batch[w])

Saturated(n, bound) == IF n < bound THEN n + 1 ELSE bound

\* Seeded bugs, named *_Bug: what a plausible mistake would make of the
\* definition that follows.  No specification uses them.
Eligible_LockedBug == {e \in Event : table[e].status = "PENDING" /\ ~table[e].waiting}

\* What fetchPendingBatch locks: the first eligible rows nobody has locked.
Eligible == {e \in Event : /\ table[e].status = "PENDING"
                           /\ ~table[e].waiting
                           /\ locks[e] = None}

PendingBatch ==
    {e \in Eligible : Cardinality({f \in Eligible : f < e}) < BatchSize}

MarkedPublished(row) == [row EXCEPT !.status = "PUBLISHED"]

MarkedFailed_StrictBug(row) ==
    IF row.attempts + 1 > MaxAttempts
    THEN [status |-> "FAILED",  attempts |-> row.attempts + 1, waiting |-> FALSE]
    ELSE [status |-> "PENDING", attempts |-> row.attempts + 1, waiting |-> TRUE]

\* markPublishFailed: attempts + 1 >= maxAttempts is terminal.
MarkedFailed(row) ==
    IF row.attempts + 1 >= MaxAttempts
    THEN [status |-> "FAILED",  attempts |-> row.attempts + 1, waiting |-> FALSE]
    ELSE [status |-> "PENDING", attempts |-> row.attempts + 1, waiting |-> TRUE]

-----------------------------------------------------------------------------
(* The transaction of an iteration *)

Unlocked(w) == [e \in Event |-> IF locks[e] = w THEN None ELSE locks[e]]

\* The iteration is over; the next one is scheduled.
IterationEnds(w) ==
    /\ locks' = Unlocked(w)
    /\ phase' = [phase EXCEPT ![w] = "idle"]
    /\ session' = [session EXCEPT ![w] = TRUE]
    /\ batch' = [batch EXCEPT ![w] = {}]
    /\ draft' = [draft EXCEPT ![w] = [e \in Event |-> NoRow]]

\* ROLLBACK: what the iteration had published is pending again.
Rollback(w) ==
    /\ IterationEnds(w)
    /\ unsure' = unsure \cup {e \in Event : draft[w][e].status = "PUBLISHED"}
    /\ UNCHANGED table

\* The insert of an event becomes visible with its payment.
Record(e) ==
    /\ table[e].status = "ABSENT"
    /\ table' = [table EXCEPT ![e] = InsertedRow]
    /\ UNCHANGED <<locks, workerVars, brokerVars, unsure>>

\* next_retry_at <= now().
RetryDue(e) ==
    /\ table[e].waiting
    /\ table' = [table EXCEPT ![e].waiting = FALSE]
    /\ UNCHANGED <<locks, workerVars, brokerVars, unsure>>

\* pollOnce has a channel, begins its transaction and locks a batch.  Without a
\* channel, or with an empty batch, an iteration has no effect.
Fetch(w) ==
    /\ phase[w] = "idle"
    /\ Eligible # {}
    /\ batch' = [batch EXCEPT ![w] = PendingBatch]
    /\ locks' = [e \in Event |-> IF e \in PendingBatch THEN w ELSE locks[e]]
    /\ phase' = [phase EXCEPT ![w] = "publish"]
    /\ UNCHANGED <<table, session, draft, brokerVars, unsure>>

\* channel.publish of the next event of the batch.
Send(w) ==
    /\ phase[w] = "publish"
    /\ batch[w] # {}
    /\ phase' = [phase EXCEPT ![w] = "confirming"]
    /\ wire' = [wire EXCEPT ![w] = "message"]
    /\ sends' = [sends EXCEPT ![Current(w)] = Saturated(@, MaxAttempts)]
    /\ UNCHANGED <<dbVars, session, batch, draft, returned, stray, routed, unsure>>

\* The outcome of the current event is written to its row WHERE status =
\* 'PENDING' (no row is no error), unless the session is gone: then the UPDATE
\* throws and the iteration is over.
Settle(w, row) ==
    \/ /\ session[w]
       /\ draft' = IF table[Current(w)].status = "PENDING"
                   THEN [draft EXCEPT ![w][Current(w)] = row]
                   ELSE draft
       /\ batch' = [batch EXCEPT ![w] = @ \ {Current(w)}]
       /\ phase' = [phase EXCEPT ![w] = "publish"]
       /\ UNCHANGED <<dbVars, session>>
    \/ /\ ~session[w]
       /\ IterationEnds(w)
       /\ UNCHANGED table

NotAttempted_CountedBug(w) ==
    /\ phase[w] = "publish"
    /\ batch[w] # {}
    /\ Settle(w, MarkedFailed(table[Current(w)]))
    /\ UNCHANGED <<brokerVars, unsure>>

\* No channel for the publish, or channel.publish throws: the error aborts the
\* transaction, so no attempt is counted.
NotAttempted(w) ==
    /\ phase[w] = "publish"
    /\ batch[w] # {}
    /\ Rollback(w)
    /\ UNCHANGED brokerVars

\* basic.return, which the broker sends before the confirm.
HandleReturn(w) ==
    /\ wire[w] = "return"
    /\ returned' = [returned EXCEPT ![w] = TRUE]
    /\ wire' = [wire EXCEPT ![w] = "ack"]
    /\ UNCHANGED <<dbVars, workerVars, stray, routed, sends, unsure>>

\* The confirm callback: a nack or an earlier return is a failed attempt.
HandleConfirm(w) ==
    /\ wire[w] \in {"ack", "nack"}
    /\ Settle(w, IF wire[w] = "ack" /\ ~returned[w]
                 THEN MarkedPublished(table[Current(w)])
                 ELSE MarkedFailed(table[Current(w)]))
    /\ wire' = [wire EXCEPT ![w] = "none"]
    /\ returned' = [returned EXCEPT ![w] = FALSE]
    /\ UNCHANGED <<stray, routed, sends, unsure>>

\* The channel is invalidated with what is on it; only a message that is on its
\* way to the broker may still arrive there.
DropChannel(w) ==
    /\ stray' = stray \cup (IF wire[w] = "message" THEN {Current(w)} ELSE {})
    /\ wire' = [wire EXCEPT ![w] = "none"]
    /\ returned' = [returned EXCEPT ![w] = FALSE]
    /\ UNCHANGED <<routed, sends>>

ConfirmTimeout_NotSettledBug(w) ==
    /\ phase[w] = "confirming"
    /\ DropChannel(w)
    /\ unsure' = unsure \cup {Current(w)}
    /\ UNCHANGED <<dbVars, workerVars>>

\* The confirm timeout, or the channel closes under the publish: an attempt
\* that failed as far as the worker knows.
ConfirmTimeout(w) ==
    /\ phase[w] = "confirming"
    /\ Settle(w, MarkedFailed(table[Current(w)]))
    /\ DropChannel(w)
    /\ unsure' = unsure \cup {Current(w)}

\* All events handled: COMMIT.
Commit(w) ==
    /\ phase[w] = "publish" /\ batch[w] = {} /\ session[w]
    /\ table' = [e \in Event |-> IF draft[w][e] = NoRow THEN table[e] ELSE draft[w][e]]
    /\ IterationEnds(w)
    /\ UNCHANGED <<brokerVars, unsure>>

\* COMMIT, or the last UPDATE before it, fails.
CommitFails(w) ==
    /\ phase[w] = "publish" /\ batch[w] = {}
    /\ Rollback(w)
    /\ UNCHANGED brokerVars

\* The database ends the session: the locks are gone, and the worker goes on
\* until its next statement.
DetachSession(w) ==
    /\ phase[w] # "idle" /\ session[w]
    /\ session' = [session EXCEPT ![w] = FALSE]
    /\ locks' = Unlocked(w)
    /\ unsure' = unsure \cup {e \in Event : locks[e] = w}
    /\ UNCHANGED <<table, phase, batch, draft, brokerVars>>

\* The instance dies, and the one that replaces it starts to poll.
Crash(w) ==
    /\ phase[w] # "idle"
    /\ IterationEnds(w)
    /\ DropChannel(w)
    /\ unsure' = unsure \cup {e \in Event : draft[w][e].status = "PUBLISHED"}
                        \cup (IF phase[w] = "confirming" THEN {Current(w)} ELSE {})
    /\ UNCHANGED table

-----------------------------------------------------------------------------
(* The broker *)

BrokerRoutes(w) ==
    /\ wire[w] = "message"
    /\ routed' = [routed EXCEPT ![Current(w)] = Saturated(@, 2)]
    /\ wire' = [wire EXCEPT ![w] = "ack"]
    /\ UNCHANGED <<dbVars, workerVars, returned, stray, sends, unsure>>

\* No queue is bound: a mandatory message comes back and is confirmed.
BrokerReturns(w) ==
    /\ wire[w] = "message"
    /\ wire' = [wire EXCEPT ![w] = "return"]
    /\ UNCHANGED <<dbVars, workerVars, returned, stray, routed, sends, unsure>>

BrokerRejects(w) ==
    /\ wire[w] = "message"
    /\ wire' = [wire EXCEPT ![w] = "nack"]
    /\ UNCHANGED <<dbVars, workerVars, returned, stray, routed, sends, unsure>>

\* A message of an invalidated channel arrives after all, or is lost.
StrayEnds(e) ==
    /\ e \in stray
    /\ stray' = stray \ {e}
    /\ \/ routed' = [routed EXCEPT ![e] = Saturated(@, 2)]
       \/ UNCHANGED routed
    /\ UNCHANGED <<dbVars, workerVars, wire, returned, sends, unsure>>

-----------------------------------------------------------------------------
OutboxInit ==
    /\ table = [e \in Event |-> NoRow]
    /\ locks = [e \in Event |-> None]
    /\ phase = [w \in Worker |-> "idle"]
    /\ session = [w \in Worker |-> TRUE]
    /\ batch = [w \in Worker |-> {}]
    /\ draft = [w \in Worker |-> [e \in Event |-> NoRow]]
    /\ wire = [w \in Worker |-> "none"]
    /\ returned = [w \in Worker |-> FALSE]
    /\ stray = {}
    /\ routed = [e \in Event |-> 0]
    /\ sends = [e \in Event |-> 0]
    /\ unsure = {}

Iteration(w) ==
    \/ Fetch(w) \/ Send(w) \/ HandleReturn(w) \/ HandleConfirm(w)
    \/ ConfirmTimeout(w) \/ Commit(w)
    \/ CommitFails(w) /\ ~session[w]

Broker(w) == BrokerRoutes(w) \/ BrokerReturns(w) \/ BrokerRejects(w)

OutboxFault(w) ==
    \/ NotAttempted(w) \/ DetachSession(w) \/ Crash(w)
    \/ CommitFails(w) /\ session[w]

OutboxNext ==
    \/ \E e \in Event : Record(e) \/ RetryDue(e) \/ StrayEnds(e)
    \/ \E w \in Worker : Iteration(w) \/ Broker(w) \/ OutboxFault(w)

OutboxSpec == OutboxInit /\ [][OutboxNext]_outboxVars

\* The worker keeps polling, a publish ends by its timeout at the latest, and a
\* retry falls due.  Channels, sessions and instances stop failing some day; the
\* broker owes nothing.
OutboxFairness ==
    /\ \A w \in Worker : WF_outboxVars(Iteration(w))
                        /\ <>[][~OutboxFault(w)]_outboxVars
    /\ \A e \in Event : WF_outboxVars(RetryDue(e))

OutboxFairSpec == OutboxSpec /\ OutboxFairness

-----------------------------------------------------------------------------
OutboxTypeOK ==
    /\ table \in [Event -> OutboxRow]
    /\ locks \in [Event -> Worker \cup {None}]
    /\ phase \in [Worker -> {"idle", "publish", "confirming"}]
    /\ session \in [Worker -> BOOLEAN]
    /\ batch \in [Worker -> SUBSET Event]
    /\ draft \in [Worker -> [Event -> OutboxRow]]
    /\ wire \in [Worker -> {"none", "message", "return", "ack", "nack"}]
    /\ returned \in [Worker -> BOOLEAN]
    /\ stray \subseteq Event
    /\ routed \in [Event -> 0 .. 2]
    /\ sends \in [Event -> 0 .. MaxAttempts]
    /\ unsure \subseteq Event

\* The events of a transaction that is still open, handled or not.
Holds(w, e) == session[w] /\ (e \in batch[w] \/ draft[w][e] # NoRow)

\* An event is in one open transaction at most, its lock is there, and its row
\* is as that transaction read it: the WHERE clauses of markPublished and
\* markPublishFailed, whose misses the worker ignores, never miss.
HeldEventsAreStable ==
    \A w \in Worker, e \in Event :
        Holds(w, e) => /\ locks[e] = w
                       /\ table[e].status = "PENDING"
                       /\ ~table[e].waiting

\* No event is marked published that no queue has got: neither a returned
\* message, nor a late answer, nor an aborted batch counts as a delivery.
PublishedWasRouted ==
    \A e \in Event : table[e].status = "PUBLISHED" => routed[e] > 0

\* An attempt is counted only for a message that was sent, and an event is
\* FAILED after exactly MaxAttempts of them.
AttemptsWereMade ==
    \A e \in Event :
        /\ table[e].attempts <= sends[e]
        /\ table[e].status = "FAILED" <=> table[e].attempts = MaxAttempts

\* "Delivery is explicitly at-least-once": consumers see an event twice, or see
\* one that is FAILED, only if a confirm was lost to a timeout or to an
\* iteration that was rolled back.  Several pollers alone duplicate nothing.
DuplicatesAreExplained ==
    \A e \in Event \ unsure :
        /\ routed[e] < 2
        /\ table[e].status = "FAILED" => routed[e] = 0

\* What PUBLISHED, FAILED, an attempt and a second delivery mean, together.
DeliveryIsAtLeastOnce ==
    PublishedWasRouted /\ AttemptsWereMade /\ DuplicatesAreExplained

(* The inductive invariant behind them *)

\* What the transaction of an iteration has read or written, open or not.
Handles(w, e) == e \in batch[w] \/ draft[w][e] # NoRow

\* A worker between two iterations has nothing in hand, one that waits for a
\* confirm has a publish under way, and what it has written it does not send again.
IterationsAreOrdered ==
    \A w \in Worker :
        /\ phase[w] = "idle" => session[w] /\ \A e \in Event : ~Handles(w, e)
        /\ phase[w] = "confirming" <=> wire[w] # "none"
        /\ phase[w] = "confirming" => batch[w] # {}
        /\ returned[w] => wire[w] = "ack"
        /\ \A e \in batch[w] : draft[w][e] = NoRow

\* What a lost session had in hand, and what a dropped channel carried, is in doubt.
LossesAreUnsure ==
    /\ \A w \in Worker, e \in Event : ~session[w] /\ Handles(w, e) => e \in unsure
    /\ stray \subseteq unsure

\* The count of a row, committed or not, is one of messages that were sent.
CountsAttempts(row, e) ==
    /\ row.attempts <= sends[e]
    /\ row.status = "FAILED" <=> row.attempts = MaxAttempts

AttemptsAreCounted ==
    /\ \A e \in Event : CountsAttempts(table[e], e)
    /\ \A w \in Worker, e \in Event : CountsAttempts(draft[w][e], e)
    /\ \A w \in Worker :
          phase[w] = "confirming" /\ session[w] =>
              table[Current(w)].attempts < sends[Current(w)]

\* The broker has confirmed, and not returned, what the worker is about to mark.
Confirms(w, e) == wire[w] = "ack" /\ ~returned[w] /\ e = Current(w)

Delivered(w, e) == draft[w][e].status = "PUBLISHED" \/ Confirms(w, e)

DeliveriesWereRouted ==
    /\ PublishedWasRouted
    /\ \A w \in Worker, e \in Event : Delivered(w, e) => routed[e] > 0

\* A delivery that is not in doubt is marked, or about to be by an open transaction.
RoutedIsMarked ==
    \A e \in Event \ unsure :
        /\ routed[e] < 2
        /\ routed[e] > 0 => \/ table[e].status = "PUBLISHED"
                            \/ \E w \in Worker : session[w] /\ Delivered(w, e)

OInv == /\ OutboxTypeOK
        /\ IterationsAreOrdered
        /\ HeldEventsAreStable
        /\ LossesAreUnsure
        /\ AttemptsAreCounted
        /\ DeliveriesWereRouted
        /\ RoutedIsMarked

(* Liveness *)

\* Once the failures around it end, a recorded event is published or given up,
\* whatever the other events of its batches do: nothing blocks the queue.
EveryEventSettles ==
    \A e \in Event :
        table[e].status = "PENDING" ~> table[e].status \in {"PUBLISHED", "FAILED"}

=============================================================================
