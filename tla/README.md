# Verification of the payment orchestration platform

TLA+ modules, TLC configurations and TLAPS proofs for the services of this
repository. The payment service is where the platform's own logic lives; most
modules are about it, and one about the gateway in front of it.

## 1. The system

```
client -> api-gateway -> payment-service --(authorize, capture)--> provider
                           |      |
                           |      +-- PostgreSQL: payments, idempotency_keys, outbox_events
                           +-- outbox worker -> RabbitMQ publisher -> RabbitMQ
ledger-service, webhook-service: skeletons
```

| Component | State | Operations | What is hard | What makes it correct |
|---|---|---|---|---|
| Idempotency protocol (`services/idempotency`, `data-access/idempotency`) | a row of `idempotency_keys` per (scope, key): status, payload hash, reserved resource id, lease, token, response | `getExistingOrStart`, `markCompleted`, `markFailed` | every statement is its own transaction; stale reads; leases tested on two clocks; lost replies; crashes | one effective owner; an outcome is final; replays agree; abandoned keys are released |
| Payment operations (`services/payments`) | `payments` rows, an open transaction and its row lock | `create`, `capture`, `getById` | a provider call between reads and writes, under a row lock or before any transaction; partial failure; lease expiry meanwhile | stored, evented and answered outcomes agree; captures of a payment are serial; ADR 006: one provider-facing id per key |
| Payment state machine (`payment-state-service`) | none | `ensureTransition`, `ensureCanCapture` | is it asked about what is stored? | stored statuses move along the table only |
| Outbox recording (`services/outbox`) | `outbox_events` rows | three `record*` operations | throws on missing data inside the transaction | the event is stored if and only if the payment is |
| Provider | external | `authorize`, `capture` | may succeed and then be lost | modelled by its contract |
| Outbox worker (`workers`), `outbox-events-data-access` | a timer, the iteration in flight, locked batch | `start`, `stop`, `pollOnce` | an aborted batch, several pollers, retries, reordering | at-least-once; nothing marked published without a confirm; attempts bounded |
| RabbitMQ publisher | pending publishes | `publish`, returned messages | confirm, return, timeout and late answers | one outcome per publish, from its own channel |
| RabbitMQ connection manager | connection, channel, promise of a connect in flight, closed | `getConfirmChannel`, `invalidateChannel`, `close`, listeners | single-flight, invalidation and close while connecting | no dead channel handed out for ever, nothing left open after close |
| Bootstrap and shutdown | lifecycle, memoised promises, timers | `bootstrap`, `shutdown`, `handleSignal` | signals during start; grace periods; forced exit | order of closes; worker never starts after shutdown |
| Gateway client and HTTP pipelines | attempts of a call; requests at the payment service | `create`, `capture`, `getById`, the middlewares around them | timeout or loss while the payment service goes on | a write is sent once; what a client may conclude from an answer is true |
| Knex pool | connections in use and waited for | acquire, release, acquire timeout | transactions that wait for row locks and confirms keep connections | nobody waits for a connection with one in hand |
| Containers, migrations, openapi-kit, utilities | none shared | wiring, generation | sequential | - |

Interactions: `create` and `capture` call the idempotency protocol first; a
STARTED decision makes the request the owner of its key; the work calls the
provider, then writes payment, event and key completion in one transaction
(`TransactionManager.run`). The worker reads the events of committed
transactions. Service instances share nothing but the database and the broker.

`PROJECT.json` lists all components with their sources, the map from each
definition to source lines, and under `hazards` each hard-to-test place with
the property that covers it.

## 2. Modules

| Module | Role |
|---|---|
| `Idempotency` | the protocol: one process per HTTP request, one action per SQL statement |
| `MCIdempotency` | its small instances |
| `IdempotencyProofs` | theorems about it and about `RequestHash`, for all values of the constants |
| `Payments` | extends `Idempotency`: what an owner does, with provider, row locks and commit |
| `PaymentLedger` | abstract specification: one atomic step per payment operation |
| `MCPayments` | instances of `Payments` |
| `PaymentsProofs` | its theorems, with the refinements of `Idempotency` and `PaymentLedger` |
| `Outbox` | the delivery of recorded events: polling transactions of several workers, publisher and broker |
| `OutboxProofs` | theorems about `Outbox` and `RetryDelay` |
| `RetryDelay` | extends `Outbox`: the attempts an iteration has read, `retryDelayFor`, and `next_retry_at` |
| `MCOutbox` | its instance for safety; the one for liveness is of `RetryDelay` |
| `RequestHash` | extends `Idempotency`: `canonicalize` and `buildRequestHash`, hashes that are computed |
| `MCRequestHash` | its instance |
| `Transport` | abstract specification: one broker connection at a time, none after close |
| `RabbitConnection` | `RabbitMqConnectionManager` between its awaits, over connections and channels that end at any time; implements `Transport` |
| `RabbitProofs` | theorems about `RabbitConnection`, with the refinement of `Transport` |
| `Lifecycle` | `main`, `PaymentServiceBootstrap` and the loop of the worker, from boot to the end of the process |
| `MCLifecycle` | its instance |
| `LifecycleProofs` | theorems about `Lifecycle` |
| `Gateway` | a call through middlewares, client and network to a payment service that is `PaymentLedger` |
| `MCGateway` | its instance |
| `GatewayProofs` | theorems about `Gateway` |
| `ConnectionPool` | who holds and who waits for the connections of the Knex pool |
| `PoolProofs` | theorems about `ConnectionPool` |
| `LineLemmas` | sequences without repetitions, for the queue of the pool and the timers |

### Idempotency

`rows[k]` is the row of the pair (scope, idempotency key) `k`; `req[r]` is what
a request brings; `pc[r]` is the await its handler stands at; `lease[r]` the
expiry it computed; `owned[r]` its STARTED decision; `answer[r]` what the client
was told. Rows are those this code writes: every PROCESSING row has an expiry, a
token and a resource id, so what `isProcessingExpired` and `buildStartedDecision` do
for older rows without them is left out.

| Action | Code |
|---|---|
| `Receive`, `Find`, `FindAgain`, `DecideFromExisting` | `getExistingOrStart` and `decideFromExisting` up to their next statement |
| `Acquire`, `Miss` | `tryInsertProcessing`, `reactivateFailed` and `takeoverExpiredProcessing` with or without a returned row |
| `AcquireUnacknowledged`, `StartFails` | such a statement throws, having run or not |
| `Commit`, `CompletionRefused`, `CommitUnacknowledged` | `markCompleted` as the last statement before COMMIT |
| `WorkFails`, `MarkFailed`, `MarkFailedThrows` | the `catch` blocks of `create` and `capture` |
| `Crash`, `Retry`, `Tick` | the instance dies; a client told "in progress" asks again; time |

Abstractions. A `randomUUID()` token is the request that drew it: tokens are
distinct, and a request stores at most one. A stored response is the request
that produced it. Times are relative to the database's clock, an application
clock is anywhere within `MaxSkew` of it and may differ at each reading, and
all expiries below `-MaxSkew` are one value. The lease test of
`isProcessingExpired` is taken at the instant of the SELECT; a later evaluation
could only send a request to the takeover statement, which tests everything
again. `expires_at` is written and read by nobody, so it is left out.

### Payments

A request whose `pc` is `owner` does its work in the phases of `work[r]`. The
row it is about to write is in `draft[r]` and becomes visible, with its event
and the completion of the key, in `Persist`, which is the COMMIT. `locks` are
the row locks of `SELECT ... FOR UPDATE` and the uncommitted key of an INSERT.
`authorizations` and `captures` record which calls went through at the
provider; no guard reads them. Every phase can throw. The request can crash in
every phase, and then PostgreSQL rolls its transaction back. `DetachSession` is
a database session that ends while its request waits for the provider: the lock
goes at once, the request finds out at its next statement. In the later phases
the request's next step is that statement, so the loss is the throw itself.

A missing payment, a payment that is not AUTHORIZED and one without provider
reference take the same way out (`Throws`): they differ in the HTTP code only.

### PaymentLedger

Three variables and one action scheme: a free key, a payment in the status from
which the operation starts, an event of a new operation, all in one step.
`Payments` implements it under the mapping in its last definitions
(`payments` to the statuses, `completed` to the COMPLETED rows).

### Outbox

A worker's iteration (`pollOnce`) is one transaction. `Fetch` locks the first
`BatchSize` eligible rows nobody has locked; `Send` puts the oldest of them on
the channel; `HandleReturn`, `HandleConfirm` and `ConfirmTimeout` are the
callbacks of `RabbitMqPublisher.publish`; `Settle` is the UPDATE of
`markPublished` or `markPublishFailed` in the iteration's `draft`, and `Commit`
makes the draft the `table`. `NotAttempted` is the error that aborts the whole
transaction, `CommitFails` any other statement that throws; a COMMIT whose reply
is lost is a `Commit`, because nothing follows it. `DetachSession` and `Crash` are
as in Payments. An iteration without a channel or without events has no effect
and is left out.

The broker (external) routes, returns or rejects a message; a return comes
before its confirm, on the same channel. A message on an invalidated channel
becomes `stray` and may arrive later; answers on such a channel reach nobody,
because the return listener is detached and the confirm callback is settled.
`routed`, `sends` and `unsure` record history for the properties; no guard reads
them. Retry delays are abstracted to `waiting`, which ends some time later:
`next_retry_at` is computed on an application clock and compared on the
database's, so nothing here relies on its length.

### RetryDelay

The worker computes a delay from the event as it was fetched, and the database
counts the attempt in the row as it is (`attempts + 1`). `RetryDelay` adds two
variables to `Outbox` to tell the two apart: `read`, the attempts of the events an
iteration has in hand, and `scheduled`, the delay in the committed `next_retry_at`.
`FetchRows` and `CommitDelays` are `Fetch` and `Commit` with what they do to these;
every other step leaves `scheduled` alone, and an iteration that is over forgets what
it read. `DelaysBackOff` compares what a COMMIT schedules with what was scheduled
before. The capped exponent is scaled down: 1 for delays up to 2 instead of 52 for
delays a number can hold, so that four attempts go beyond the cap.

### RequestHash

`Idempotency` compares payload hashes as names. That is right if the hash tells
payloads apart exactly when they mean different things, which is a property of
`canonicalize`: it sorts the keys of every object at every depth and keeps the
order of arrays. `Canonicalize` does that to a JSON value whose objects remember
the order in which they were filled; `Meaning` is the reference, which forgets
it. SHA-256 is taken as injective, so that a hash is a canonical text. Both are
recursive functions on the constant `Value`, a set of JSON values with their parts;
`Payload` are those that clients send. `AnswersGoByMeaning` relates what requests
are told to what they said: the variables of the protocol hold hashes only, so the
property speaks of all payloads that have these hashes.

Values may be nested in any way and filled in any order. The two callers of today
hash flat literals whose keys come in a fixed order, so this says more than they
need: it is what `canonicalize` promises to the next one. A member named
`__proto__`, which `result[key] =` would drop, is left out.

### RabbitConnection and Transport

The fields of the manager (`connection`, `channel`, `connecting`, `closed`), the
runs of `connectConfirmChannel` under way (`attempt`), what its callers wait for
or hold (`caller`), where `closeResources` is (`closing`), and the broker's view
(`links`, `chans`, and in `listening` the channels whose listener for returned
messages is attached).

| Action | Code |
|---|---|
| `GetConfirmChannel` | `getConfirmChannel`: current channel, attempt under way, or a new attempt |
| `OpenOk`, `ConnectFails`, `Connect` | `connect`, which gives the connection back if the manager was closed meanwhile |
| `ChannelOpens`, `ExchangeAsserted`, `AttachChannel`, `SetupFails`, `Rejected` | `connectConfirmChannel` and its `catch` |
| `ConnectionEnds`, `ChannelEnds` | the listeners: `invalidateConnection`, `invalidateTransport` |
| `Publish`, `Release`, `Confirmed`, `ConfirmTimeout` | what the publisher and `pollOnce` do with a channel, `invalidateChannel` included |
| `CloseBegins`, `CloseGoesOn`, `ChannelClosed`, `ConnectionClosed` | `close` and `closeResources` |

JavaScript runs to the next await, so an action is such a run. Promises that
have settled run their continuations before the next call or timer; frames that
arrived together are handled before those. `Quiet` says that no continuation is
pending, and guards what a timer or a new call starts. Any number of callers may
have a publish under way; the worker awaits each before the next, so it is one
caller at a time that publishes or asks for a channel. An identity of a
connection, channel or attempt is used again once nobody refers to it.

`Transport` sees which connections are open and the status of the manager. It
promises that a connection is opened only when there is none and nobody has
closed the manager for good, and that a closed manager has none.

### Lifecycle

`life`, `main`, `http`, `handler` (one request), `stop` (which await of `stop()`),
the worker's `worker`, `timer`, `iteration`, the resources `rabbit` and `knex`,
and `signal`. All grace timers have the length `shutdownGraceMs`, so they expire
in the order they were armed: `armed` is a queue, of `"grace"` and of signals for
the hard stops of `handleSignal`. An iteration waits in turn for the broker and
for the database. A request or an iteration may last for ever.

`CallShutdown` is a call of `shutdown()` without a signal, as the unit tests make
it, and `direct` remembers it. It is the only way in which the grace timers of
`stop()` can expire before a hard stop does. A second signal of the same
kind is not modelled: the listeners are `once`, so Node's default kills.

### Gateway

A call arrives with an operation, a key, a payment and its flaws; a request of
the payment service is a pair of a call and an attempt, and goes on after the
client has given up. `NoResponse` is a timeout or a lost connection,
`HeadersArrive`, `BodyArrives` and `BodyIsLost` the two awaits of `send`.
`Execute`, `Replay` and `Decline` are what `Payments` can do with a request, as
seen by who waits for the answer: `Execute` takes the steps of `PaymentLedger`
(which `Payments` implements, run `payments_capture`), and its answer may be the
error of a COMMIT that went through unacknowledged. `trusted` is whether the two
services share the internal token.

### ConnectionPool

`queue` is first come, first served; `held` counts connections per actor, `InUse`
numbers them, `lock` is the row lock of a captured payment. A request uses
connections for single statements (`claim`, `mark failed`) and for its
transaction; a capture keeps the connection while it waits for the row lock and
for the provider, and the poller while it waits for confirms. `AcquireTimesOut`
is `acquireConnectionTimeout`.

## 3. Runs

| Run | Instance | Question |
|---|---|---|
| `idem_safety` | 3 requests, 1 key, 2 payloads, 2 resource ids, lease 1, skew 1 | Can two owners, a stale owner, a late takeover or a lost reply spoil a key? |
| `idem_liveness` | 2 requests, 1 key, 7 payloads, lease 1, skew 1 | Does an abandoned key go to who keeps asking? Are conflicts and replays judged by what payloads mean? |
| `payments_create` | 3 creates under one key | What do retries and takeovers authorize? Can a stale owner insert what the new one has committed? Does `create` follow the protocol? |
| `payments_capture` | 1 create, 2 captures under one or two keys | Are captures serial, do payment, event, key and answer agree, and do they implement the ledger? |
| `payments_liveness` | 1 authorized payment, 2 captures | Does every request end, or does the row lock keep one waiting for ever? |
| `outbox_safety` | 2 workers, 2 events, batch 2, 2 attempts | Is an event published that no queue got, held twice, counted wrongly, or duplicated without cause? |
| `outbox_liveness` | `RetryDelay`: 1 worker, 2 events, batch 1, 4 attempts, delays up to 2 | Does a failing event block the queue? Do the delays scheduled for it back off? |
| `rabbit` | 2 callers, 2 attempts, 2 connections, 3 channels | Does anything leak or get lost when connections, channels and `close()` interleave? Does the manager recover? |
| `lifecycle` | 2 signals, 1 request, 1 iteration, a direct call | Is anything closed under work that uses it? Does a signal always end the process? |
| `lifecycle_grace` | the same | Does RabbitMQ close under a waiting confirm before the forced exit? It does not: see the finding below |
| `gateway` | 3 calls, 1 key, 1 payment, all flaws | What may a client conclude from an answer? |
| `pool` | 3 captures of one payment, 1 create, the poller, 2 connections | Can captures that wait for a row use up the pool? |

Bounds. A key's history is a sequence of owners: three requests give the first
owner, the one that displaces it and a third that replays, races or displaces
again. Keys do not interact in the protocol, so one is enough there. Two
payloads give every mismatch; a lease and a skew of one tick put an expiry on
both sides of every comparison, and at equality. Two captures give every race
for a row lock, with equal keys (the protocol decides) or different ones (the
lock decides). Two workers and two events give
two transactions on overlapping or split batches; two attempts give a retry and
a terminal one, four a wait beyond the capped exponent; `routed` and `sends` stop
counting at 2 and at `MaxAttempts`, beyond which no property looks. Two callers and two attempts give a shared
attempt and one begun while another is still being discarded, a third channel
stays in the hands of a caller while two others come and go. More captures than
connections wait for one row, so the pool runs dry while the holder works. Three
calls with one key are an operation, its repetition and something in between.
The payments runs use skew 0 because the skew is explored in the
protocol's own runs. No counter grows: expiries are clipped to the interval
`Expiry`, and no guard refers to a bound of the model.
Symmetry is used in safety runs only: requests (and captures' keys) are
interchangeable there. `AuthorizedInit`, where `payments_liveness` starts, is a
state that `PaymentsSpec` reaches by a create and enough ticks; it keeps the
liveness graph small. The protocol and payments runs check for deadlock too, but `Tick` is
always possible, so what guards against everyone waiting is liveness. The other
runs do not: settled events, a closed manager, a process that has ended, answered
calls and an idle pool are where those systems rest.

Fairness. Weak fairness of a request's own steps: Node runs a ready
continuation, PostgreSQL ends a statement, and a lock that stays free is given.
`payments_liveness` also assumes that the provider answers or throws; the code
sets no timeout on it, and without that assumption a capture holds its lock for
ever. Weak fairness of `Tick` is time passing, of `Retry` a client that keeps
asking when told "in progress". No fault is ever assumed to happen. In the protocol and payments
runs none is assumed to stop either. `OutboxFairness` assumes that channels,
sessions and instances stop failing some day: an iteration aborted for ever
delivers nothing, by design. It assumes nothing of the broker, whose silence ends
in the confirm timeout. `RabbitFairSpec`: the poll interval makes callers call
again, an attempt ends by its timeouts, a publish by its own, and what is being
closed ends (the heartbeat ends a silent connection). Strong fairness of
`Publish` says that now and then an event is published and not only a channel
asked for: a channel that ended between `assertExchange` and `AttachChannel` is
found dead only by publishing on it, so without it a quiet service keeps a dead
channel. `LifecycleFairSpec`: timers expire, a manager that never connected and
a pool nobody uses close, and Node ends a process with nothing to wait for;
requests, iterations and resources in use may last for ever. `PoolFairSpec`:
statements and iterations end, the provider answers, and a row lock goes to
everyone who waits for it in the end (strong fairness of `LockPayment`: PostgreSQL
queues waiters); no timeout is relied on. `Gateway` is checked for safety only.

What the properties say is written above each of them in the modules. The ones
with the most behind them: `SoleOwner`, `LeaseHonoured`, `ResponsesAgree`,
`OwnershipLostIsTrue`, `OutcomeIsFinal`, `AnswersGoByMeaning` (protocol); `OneReferencePerKey`,
`PaymentLocksHold`, `ProviderCaptureIsSerial`, `SuccessIsConfirmed`,
`ResponsesAreDurable`, `FollowsProtocol`, `ImplementsLedger` (payments);
`HeldEventsAreStable`, `DeliveryIsAtLeastOnce`, `EveryEventSettles` (outbox);
`NoOrphans`, `HeardWhileUsable`, `ImplementsTransport`, `RecoversWhenFaultsStop`
(connection manager); `ClosesBehindWork`, `SignalEndsProcess` (lifecycle);
`RefusalHasNoEffect`, `AnswersAgree` (gateway); `NoHoldAndWait`,
`EveryoneIsServed` (pool). Some are conjunctions of parts named above them
(`PaymentLocksHold`, `DeliveryIsAtLeastOnce`, `ClosesBehindWork`).

Finding. `lifecycle_grace` shows a process that is forced to exit over an
iteration that only waits for the broker: `handleSignal` arms the hard stop before
`stop()` arms the grace timer of the worker, both for `shutdownGraceMs`, so the step
of `stop()` that closes RabbitMQ "so a pending confirm can settle"
(`tests/unit/bootstrap-lifecycle.test.ts`) is never reached in a process that a
signal stops. The test calls `shutdown()` directly. What is lost is an orderly end:
the open transaction is rolled back and the event is sent again.

Limits of the code that the properties were shaped by:

* `ProviderCaptureIsSerial` speaks of requests whose transaction is open. After
  a lost session or a crash the provider may still be busy with a capture when
  the next one starts.
* A capture that went through at the provider and was then lost (crash, throw,
  lost session) can be followed by a declined retry, so CAPTURE_FAILED may be
  stored for a payment the provider captured. ADR 006 describes the same window
  for authorizations. `SuccessIsConfirmed` states the direction the code keeps:
  a stored success was confirmed to the request that stored it.
* A client whose commit went through unacknowledged is told OWNERSHIP_LOST
  although its operation is stored (`OwnershipLostIsTrue`); a retry replays the
  stored response. For the client of the gateway this is a 409 like others, so a
  409 that names lost ownership, or whose body was lost, is no refusal
  (`RefusalHasNoEffect`).
* A success whose body the gateway cannot read before its timeout is answered as
  a success with `data: null`, which the documented 200 and 201 answers do not
  have (`payment-service-client.ts:148`, `routes/payments/payments.ts:12`).
  `AnswersAgree` is what is left: such a success was carried out.
* A repeated call answers with what was stored when its key was completed, not
  with the payment as it is now: `AnswersAgree` compares answers of one key only.
* The manager stores a channel even if it has ended since its exchange was
  asserted; see the fairness of `Publish`.

Definitions whose names end in `Bug` are plausible mistakes in the definition
that follows them. No specification refers to them; putting one in place of
its neighbour makes the property named with it in `PROJECT.json` fail.

## 4. Proofs

Every invariant, action property and refinement that the passing runs check is
also proved for all values of the constants; only liveness is left to TLC. The
assumptions are the named ones in the modules that declare the constants: that
special values differ from the others, that a lease, a batch, an attempt limit and
a pool are positive, and that a JSON value is an atom, an array or an object and is
nested finitely deep. One is narrower than the code: the configuration admits any
positive maximum of the delays, `DelayAssumption` one up to the capped power of two,
2 ^ 52 ms or 142 thousand years. Beyond it a delay would stop doubling before its
maximum.

| Module | Theorem | Property |
|---|---|---|
| `IdempotencyProofs` | `TypeCorrect` | `TypeOK` |
| | `Fencing` | `SoleOwner` |
| | `LeaseIsHonoured` | `LeaseHonoured` |
| | `StableResource` | `OwnersShareResource` |
| | `ReplayIsFaithful` | `ResponsesAgree` |
| | `OwnershipLostIsHonest` | `OwnershipLostIsTrue` |
| | `StateIsAlwaysFound` | `ConflictLeavesARow`: `FindAgain` finds a row. No run checks it: `OutcomeIsFinal` says already that rows stay |
| | `OutcomesAreFinal` | `OutcomeIsFinal` (action property) |
| | `HashesGoByMeaning` | about `BuildRequestHash`: equal hashes are equal meanings |
| | `AnswersAreByMeaning` | `AnswersGoByMeaning` |
| `PaymentsProofs` | `WorkFollowsTheProtocol` | `FollowsProtocol` (refinement) |
| | `PaymentsTypeCorrect` | `PaymentsTypeOK` |
| | `RowLocksHold` | `PaymentLocksHold` |
| | `CapturesAreSerial` | `ProviderCaptureIsSerial`, of requests still in their transaction |
| | `OneReference` | `OneReferencePerKey` |
| | `SuccessesAreConfirmed` | `SuccessIsConfirmed` |
| | `ResponsesAreRecorded` | `ResponsesAreDurable` |
| | `LedgerIsImplemented` | `ImplementsLedger` (refinement) |
| `OutboxProofs` | `OutboxTypeCorrect` | `OutboxTypeOK` |
| | `HeldEventsStayStable` | `HeldEventsAreStable` |
| | `AtLeastOnce` | `DeliveryIsAtLeastOnce` |
| | `DelayDoubles` | about `RetryDelayFor`: twice the last delay, up to the maximum |
| | `DelaysDouble` | `DelaysBackOff` (action property) |
| `RabbitProofs` | `RabbitTypeCorrect` | `RabbitTypeOK` |
| | `NothingLeaks` | `NoOrphans` |
| | `ReturnsAreHeard` | `HeardWhileUsable` |
| | `TransportIsImplemented` | `ImplementsTransport` (refinement) |
| `LifecycleProofs` | `LifecycleTypeCorrect` | `LifecycleTypeOK` |
| | `ClosesNothingInUse` | `ClosesBehindWork` |
| | `EndsAreClean` | `EndsCleanly` |
| `GatewayProofs` | `GatewayTypeCorrect` | `GatewayTypeOK` |
| | `RefusalsHaveNoEffect` | `RefusalHasNoEffect` |
| | `ClientsAreToldTheSame` | `AnswersAgree` |
| `PoolProofs` | `PoolTypeCorrect` | `PoolTypeOK` |
| | `WaitersHoldNothing` | `NoHoldAndWait` |

Each component has an inductive invariant, defined after its properties in the
component's own module, so that TLC can check it before it is proved (put its
name in the place of a property in the `.cfg`). It consists of named parts, each
a thing the code relies on without saying it. Type invariants say more than types
where a proof needs it: what an attempt of the manager holds at which await, that
a write is sent once.

### Idempotency: `IInv`

A token is in no row before its request acquires, and then only in the row
of that request's key (`TokensAreFresh`); a PROCESSING row expires when the
lease of its token's request does, and a FAILED row has no owner still at work
(`RowsMatchOwners`); payload and resource of a row are those of its owners
(`OwnersMatchRows`); answers are what is stored (`AnswersMatchRows`). That a
FAILED row has no live owner is what keeps a reactivation from displacing one,
and that a row's expiry is its owner's lease makes the database's test
`processing_expires_at < now()` the only test that counts, which is why the skew
does not matter.

There is one lemma per kind of step: a quiet step writes no row and
gains no ownership (`QuietStep`, with `AnswerStep`, `MoveStep`, `DecideStep` as
its uses), an acquisition (`AcquireStep`), an owner finishing its row
(`FinishStep`), and a tick (`TickStep`). `NextInv` sorts the actions into them.

### Request hashes: `HInv`

The theorem has two halves. The protocol's: a row has the hash of the request whose
token is in it, and a request that was told that its key was reused met another
hash under that key (`AnswersGoByHash`, which with `IInv` is inductive), so answers
go by hash. The other is `HashesGoByMeaning`: two values have one hash if and only if
they mean the same.

That one is an induction over JSON. The library's induction theorems cannot be used
here; `NestingInduction` is the same principle for a set instead of a predicate, and
follows from `NestingAssumption` in three lines: of the values outside the set one
has all its parts inside. Nor is the equation of a recursive definition for free: it
holds only if some function satisfies it. `RecursionHasASolution` builds that
function, as the union of the partial solutions (`Obeys`), any two of which agree
where both are defined (`ObeyingAgree`); `CanonicalizeEquation` and `MeaningEquation`
are its two uses. These proofs cite Zenon where the definition is unfolded, because
the translation to SMT takes the equation for granted whether or not it has a
solution. The rest is that a canonical text is rebuilt from those of the parts
(`RebuiltAlike`) and that sorting names loses none (`SortedHasTheNames`, by the rank
of a name among the others).

### Payments: `PInv`

`WorkFollowsTheProtocol` comes first: a step of the payment service is one of the
protocol or leaves its variables alone, so `IInv` and all that follows from it hold
of `create` and `capture` with everything they do while they own a key. `PInv` adds
that work is done by owners on the payment of their key (`WorkIsLocated`), that an
open transaction has its row lock from the step that checked the row
(`TransactionsHoldLocks`), that a draft of success was confirmed by the provider
(`DraftsAreConfirmed`), that events and completed keys were written together by the
request they name (`EventsHaveAuthors`, `CompletionsAreRecorded`), and that
authorizations were made by owners of the payment's key
(`AuthorizationsHaveOwners`). `LedgerIsImplemented` needs the first two: at `Persist`
the key is still PROCESSING under the request's token and the payment is still as
the transaction saw it, so the commit is one step of the ledger; every other step
stutters.

### Outbox: `OInv`

An iteration handles events in one phase at a time (`IterationsAreOrdered`) and
keeps what it locked (`HeldEventsAreStable`). A message in flight whose iteration is
lost is in `unsure` (`LossesAreUnsure`); attempts, drafted or stored, are of
messages sent (`AttemptsAreCounted`); a drafted or stored PUBLISHED was routed
(`DeliveriesWereRouted`), and a routed event outside `unsure` is marked or about to
be by an open transaction (`RoutedIsMarked`). The last part is what excludes a
second delivery by another poller: the event it would have to fetch is locked or
no longer PENDING.

`RetryDelay` adds to it (`RetryInv`): what an open transaction has written for an event
is an outcome of the row as it still is (`DraftsFollowRows`), the attempts it has read
are still those of the row (`ReadsFollowRows`), and a row that may be tried again has
the delay of the attempts before its last in `next_retry_at` (`DelaysFollowRows`). Each
of its steps is one of `Outbox`, so `OInv` comes for free. For `DelaysDouble` the rest is
arithmetic: `2 ^ (n + 1)` is twice `2 ^ n`, which the provers do not know and which
`PowersOfTwo` derives from the number of subsets of a set, and where the exponent is
capped the power is already at least the maximum (`DelayAssumption`).

### RabbitConnection: `RInv`

There is one attempt under way, `connecting`, and somebody waits for it
(`AttemptIsShared`); its connection is the current one or has ended
(`ConnectionIsHandedOver`), a connection being closed is never the one an attempt
has just opened; `close()` takes the fields only when no attempt can fill them
again (`ClosingIsFinal`); a usable channel is of a connection that is not dead and
the stored one is of the stored connection with its listener attached
(`ChannelsBelong`), as are those in the hands of callers (`CallersAreHeard`).
`NoOrphans` is inductive with these. For `TransportIsImplemented`, no connection is
open while an attempt opens another, and none is left when `closeResources` returns.

### Lifecycle: `LifecycleInv`

Bootstrap, main and server (`StagesMatch`), worker (`WorkerMatches`) and resources
(`ResourcesMatch`) follow the stages of `stop()`. The heart of `WorkIsNotCutOff` is
`HardStopComesFirst`: unless `shutdown()` was called directly, the first timer of
the queue is a hard stop whenever `stop()` waits for the server or the worker. So no
grace can be over in a living process (`NoGraceIsOver`), which is also why the step
of the finding above is never reached.

### Gateway: `GInv`

The hops of a call come in order (`HopsAreOrdered`), the tables are those of the
ledger (`TablesAgree`), a write is answered with what its key stores or with an
error, and with none that denies its effect once it had one (`WritesAreAnswered`).
What a client is told is the gateway's own error, or the answer to its last attempt
with its body or without (`AnswersAreRelayed`). A refusal is therefore the gateway's
own before anything was sent, or that of a request that had no effect; and since a
write is sent once, there is no other request of the call.

### ConnectionPool: `PoolInv`

Who waits for a connection is about to use one, who holds a row lock is in
the transaction that took it, and who is between statements has nothing
(`StepsMatch`). Connections in use are the set `InUse`, so that what is free is a
cardinality: releasing makes it a subset, and a connection is added only when
one is free.

`LineLemmas` holds the facts about sequences without repetitions that the queue of
the pool and the timers of the process need: what appending, taking the head and
removing an element do to the elements, to the order and to the head.

### Model-checked only

Liveness (`EveryRequestEnds`, `AbandonedKeyIsReleased`, `EveryEventSettles`,
`EveryCallReturns`, `RecoversWhenFaultsStop`, `SignalEndsProcess`,
`EveryoneIsServed`): temporal proofs under fairness are out of the prover's reach.

## 5. State of the plan

Every component of section 1 with state of its own is modelled, and every safety
property, action property and refinement that a run checks is proved. What is
left open are the hazards without a property listed in `PROJECT.json`: there the
code promises nothing that could be stated.

## 6. Not modelled

* The ledger and webhook services: skeletons with a health route.
* The OpenAPI kit and the generated documents, correlation ids, CORS, health
  routes, logging and error wording: no state, no decision about a payment.
* The contents of the validation schemas: `Gateway` knows that a request fails
  them or not, and that the schemas of both services admit the same requests.
* Containers, wiring, and running the migrations. The constraints they create
  matter: the unique (scope, key) is the guard of `Acquire`, the primary key of
  `payments` that of `InsertPayment`.
* Parsing the broker URL, and the mapping of rows to DTOs.
* The order of events of one payment: the code promises none.
