----------------------------- MODULE Idempotency -----------------------------
(***************************************************************************)
(* The idempotency protocol of the payment service: IdempotencyService     *)
(* over the table idempotency_keys, as every HTTP request that owns an     *)
(* Idempotency-Key runs it.                                                *)
(*                                                                         *)
(* A request is a process.  Its statements are single SQL statements in    *)
(* autocommit mode, so each is one action; between two of them every other *)
(* request of every service instance may run.  What the request does with  *)
(* the key once it owns it (the work) is left to the modules that extend   *)
(* this one: here the work ends in Commit or fails.                        *)
(*                                                                         *)
(* randomUUID() is modelled by the request itself: a request stores at     *)
(* most one processing token, so the request is that token.                *)
(*                                                                         *)
(* Instants are kept relative to the database clock: an expiry of n is n   *)
(* ticks ahead of the database's now().  Tick lowers every expiry by one,  *)
(* down to Past, which is before every reading of every clock.             *)
(***************************************************************************)
EXTENDS Integers

CONSTANTS
    Request,    \* HTTP requests that reach the payment service
    Key,        \* (scope, idempotency_key) pairs
    Hash,       \* request hashes
    Resource,   \* resource ids a request may reserve
    None,       \* SQL NULL, or no value yet
    Lease,      \* processingLeaseMs, in ticks
    MaxSkew     \* how far an application clock is from the database's, in ticks

ASSUME NoneAssumption  == None \notin Request \cup Resource \cup Hash
ASSUME LeaseAssumption == Lease \in Nat \ {0}
ASSUME SkewAssumption  == MaxSkew \in Nat

VARIABLES
    rows,    \* the table idempotency_keys
    req,     \* a request's key, payload hash and proposed resource id
    pc,      \* where a request's handler is
    lease,   \* the processingExpiresAt a request is about to write, or wrote
    owned,   \* the STARTED decision of a request: its token and resource id
    answer   \* what the client was told

idemVars == <<rows, req, pc, lease, owned, answer>>

-----------------------------------------------------------------------------
(* Data *)

Past == -(MaxSkew + 1)

Expiry == Past .. (Lease + MaxSkew)

Row == [status   : {"ABSENT", "PROCESSING", "COMPLETED", "FAILED"},
        hash     : Hash \cup {None},
        resource : Resource \cup {None},
        token    : Request \cup {None},
        expires  : Expiry,
        response : Request \cup {None}]

NoRow == [status |-> "ABSENT", hash |-> None, resource |-> None,
          token |-> None, expires |-> Past, response |-> None]

\* What the handler's program counter may be.  "owner" is the whole of the
\* work after a STARTED decision, "failing" the catch block that follows it.
Location == {"idle", "find", "insert", "findAgain", "reactivate", "takeover",
             "owner", "failing", "done", "crashed"}

\* A response is known by the request whose commit produced it.
Answer == [kind     : {"none", "response", "keyReused", "inProgress",
                       "ownershipLost", "error"},
           response : Request \cup {None}]

NoAnswer   == [kind |-> "none", response |-> None]
Says(kind) == [kind |-> kind, response |-> None]

Ended(r) == pc[r] \in {"done", "crashed"}

RowOf(r) == rows[req[r].key]

-----------------------------------------------------------------------------
(* The SQL statements: a WHERE clause is a predicate, an UPDATE an operator *)

\* Seeded bugs: definitions named *_Bug are what a plausible mistake would make
\* of the definition that follows.  No specification uses them.
CanReactivate_AnyFinishedBug(row, hash) ==
    row.status \in {"FAILED", "COMPLETED"} /\ row.hash = hash

CanReactivate_NoStatusBug(row, hash) == row.hash = hash

CanReactivate(row, hash) == row.status = "FAILED" /\ row.hash = hash

CanTakeOver_NoExpiryBug(row, hash) == row.status = "PROCESSING" /\ row.hash = hash

CanTakeOver_SwappedBug(row, hash) ==
    row.status = "PROCESSING" /\ row.hash = hash /\ row.expires > 0

CanTakeOver(row, hash) ==
    row.status = "PROCESSING" /\ row.hash = hash /\ row.expires < 0

OwnedBy_NoStatusBug(row, token) == row.token = token

\* markCompleted and markFailed share their WHERE clause.
OwnedBy(row, token) == row.status = "PROCESSING" /\ row.token = token

Acquired_SameTokenBug(row, r) ==
    [row EXCEPT !.status = "PROCESSING", !.expires = lease[r],
                !.token = IF row.token = None THEN r ELSE row.token]

Acquired_NewResourceBug(row, r) ==
    [row EXCEPT !.status = "PROCESSING", !.expires = lease[r], !.token = r,
                !.resource = req[r].resource]

Acquired(row, r) ==
    [row EXCEPT !.status = "PROCESSING", !.expires = lease[r], !.token = r]

Completed(row, r) ==
    [row EXCEPT !.status = "COMPLETED", !.response = r,
                !.resource = owned[r].resource]

-----------------------------------------------------------------------------
(* Handler steps.  Each names the request and what it leaves alone. *)

GoTo(r, where)    == pc' = [pc EXCEPT ![r] = where]
Reply(r, message) == /\ GoTo(r, "done")
                     /\ answer' = [answer EXCEPT ![r] = message]

\* Date.now() on the instance that serves a request, relative to the database.
AppClock == -MaxSkew .. MaxSkew

BuildExpiry_TwiceBug(r) == \E now \in AppClock :
                              lease' = [lease EXCEPT ![r] = now + Lease + Lease]

\* buildProcessingExpiresAt(), computed before the statement that writes it.
BuildExpiry(r) == \E now \in AppClock :
                     lease' = [lease EXCEPT ![r] = now + Lease]

Receive(r) ==
    /\ pc[r] = "idle"
    /\ GoTo(r, "find")
    /\ UNCHANGED <<rows, req, lease, owned, answer>>

\* decideFromExisting, up to its next statement: the row is a snapshot that
\* the UPDATE of the next step checks again.
DecideFromExisting(r, row) ==
    \/ /\ row.hash # req[r].hash
       /\ Reply(r, Says("keyReused"))
       /\ UNCHANGED lease
    \/ /\ row.hash = req[r].hash
       /\ row.status = "COMPLETED"
       /\ Reply(r, [kind |-> "response", response |-> row.response])
       /\ UNCHANGED lease
    \/ /\ row.hash = req[r].hash
       /\ row.status = "FAILED"
       /\ GoTo(r, "reactivate")
       /\ BuildExpiry(r)
       /\ UNCHANGED answer
    \/ /\ row.hash = req[r].hash
       /\ row.status = "PROCESSING"
       /\ \E now \in AppClock : row.expires <= now
       /\ GoTo(r, "takeover")
       /\ BuildExpiry(r)
       /\ UNCHANGED answer
    \/ /\ row.hash = req[r].hash
       /\ row.status = "PROCESSING"
       /\ \E now \in AppClock : row.expires > now
       /\ Reply(r, Says("inProgress"))
       /\ UNCHANGED lease

\* The first SELECT of getExistingOrStart.
Find(r) ==
    /\ pc[r] = "find"
    /\ \/ /\ RowOf(r).status # "ABSENT"
          /\ DecideFromExisting(r, RowOf(r))
       \/ /\ RowOf(r).status = "ABSENT"
          /\ GoTo(r, "insert")
          /\ BuildExpiry(r)
          /\ UNCHANGED answer
    /\ UNCHANGED <<rows, req, owned>>

\* The SELECT after INSERT ... ON CONFLICT DO NOTHING returned no row.  No code
\* deletes a row, so the 500 for a missing one is dead (ConflictLeavesARow).
FindAgain(r) ==
    /\ pc[r] = "findAgain"
    /\ IF RowOf(r).status = "ABSENT"
       THEN Reply(r, Says("error")) /\ UNCHANGED lease
       ELSE DecideFromExisting(r, RowOf(r))
    /\ UNCHANGED <<rows, req, owned>>

\* What an acquiring statement stores, and what it matches.
AcquiredRow(r) ==
    IF pc[r] = "insert"
    THEN Acquired([NoRow EXCEPT !.hash = req[r].hash,
                                !.resource = req[r].resource], r)
    ELSE Acquired(RowOf(r), r)

Matches(r) ==
    \/ pc[r] = "insert"     /\ RowOf(r).status = "ABSENT"
    \/ pc[r] = "reactivate" /\ CanReactivate(RowOf(r), req[r].hash)
    \/ pc[r] = "takeover"   /\ CanTakeOver(RowOf(r), req[r].hash)

\* The statement matched: the decision is STARTED, read from the returned row.
Acquire(r) ==
    /\ Matches(r)
    /\ rows' = [rows EXCEPT ![req[r].key] = AcquiredRow(r)]
    /\ owned' = [owned EXCEPT ![r] = [token    |-> AcquiredRow(r).token,
                                      resource |-> AcquiredRow(r).resource]]
    /\ GoTo(r, "owner")
    /\ UNCHANGED <<req, lease, answer>>

\* The statement matched no row.  After an INSERT the row is read again; after
\* an UPDATE the code falls through to IDEMPOTENCY_REQUEST_IN_PROGRESS.
Miss(r) ==
    /\ pc[r] \in {"insert", "reactivate", "takeover"}
    /\ ~Matches(r)
    /\ \/ pc[r] = "insert" /\ GoTo(r, "findAgain") /\ UNCHANGED answer
       \/ pc[r] # "insert" /\ Reply(r, Says("inProgress"))
    /\ UNCHANGED <<rows, req, lease, owned>>

\* A statement of getExistingOrStart throws: it did not run, ...
StartFails(r) ==
    /\ pc[r] \in {"find", "findAgain", "insert", "reactivate", "takeover"}
    /\ Reply(r, Says("error"))
    /\ UNCHANGED <<rows, req, lease, owned>>

\* ... or it ran and its reply was lost.  The request does not know it owns the
\* row and never releases it.
AcquireUnacknowledged(r) ==
    /\ Matches(r)
    /\ rows' = [rows EXCEPT ![req[r].key] = AcquiredRow(r)]
    /\ Reply(r, Says("error"))
    /\ UNCHANGED <<req, lease, owned>>

\* markCompleted is the last statement of the work's transaction and holds the
\* row's lock until COMMIT, so the two are one step.
Commit(r) ==
    /\ pc[r] = "owner"
    /\ OwnedBy(RowOf(r), owned[r].token)
    /\ rows' = [rows EXCEPT ![req[r].key] = Completed(@, r)]
    /\ Reply(r, [kind |-> "response", response |-> r])
    /\ UNCHANGED <<req, lease, owned>>

\* The COMMIT took effect, but the connection broke before the reply.
CommitUnacknowledged(r) ==
    /\ pc[r] = "owner"
    /\ OwnedBy(RowOf(r), owned[r].token)
    /\ rows' = [rows EXCEPT ![req[r].key] = Completed(@, r)]
    /\ GoTo(r, "failing")
    /\ UNCHANGED <<req, lease, owned, answer>>

\* markCompleted matched no row: OWNERSHIP_LOST rolls the transaction back.
CompletionRefused(r) ==
    /\ pc[r] = "owner"
    /\ ~OwnedBy(RowOf(r), owned[r].token)
    /\ GoTo(r, "failing")
    /\ UNCHANGED <<rows, req, lease, owned, answer>>

\* Anything else in the work throws; its transaction is rolled back.
WorkFails(r) ==
    /\ pc[r] = "owner"
    /\ GoTo(r, "failing")
    /\ UNCHANGED <<rows, req, lease, owned, answer>>

\* The catch block: markFailed, then the original error or OWNERSHIP_LOST.
MarkFailed(r) ==
    /\ pc[r] = "failing"
    /\ \/ /\ OwnedBy(RowOf(r), owned[r].token)
          /\ rows' = [rows EXCEPT ![req[r].key].status = "FAILED"]
          /\ Reply(r, Says("error"))
       \/ /\ ~OwnedBy(RowOf(r), owned[r].token)
          /\ Reply(r, Says("ownershipLost"))
          /\ UNCHANGED rows
    /\ UNCHANGED <<req, lease, owned>>

\* markFailed itself throws: the error is logged and swallowed.  The row stays
\* PROCESSING until its lease ends, or the UPDATE took effect unnoticed: that
\* is MarkFailed, whose answer is the same.
MarkFailedThrows(r) ==
    /\ pc[r] = "failing"
    /\ Reply(r, Says("error"))
    /\ UNCHANGED <<rows, req, lease, owned>>

\* The instance that serves the request dies, or is shut down by force.
Crash(r) ==
    /\ pc[r] # "idle"
    /\ ~Ended(r)
    /\ GoTo(r, "crashed")
    /\ UNCHANGED <<rows, req, lease, owned, answer>>

\* The client was told that the key is busy and sends the request again.
Retry(r) ==
    /\ pc[r] = "done"
    /\ answer[r].kind = "inProgress"
    /\ GoTo(r, "find")
    /\ answer' = [answer EXCEPT ![r] = NoAnswer]
    /\ UNCHANGED <<rows, req, lease, owned>>

Earlier(t) == IF t = Past THEN Past ELSE t - 1

Tick ==
    /\ rows' = [k \in Key |-> [rows[k] EXCEPT !.expires = Earlier(@)]]
    /\ lease' = [r \in Request |-> Earlier(lease[r])]
    /\ UNCHANGED <<req, pc, owned, answer>>

-----------------------------------------------------------------------------
Init ==
    /\ rows = [k \in Key |-> NoRow]
    /\ req \in [Request -> [key : Key, hash : Hash, resource : Resource]]
    /\ pc = [r \in Request |-> "idle"]
    /\ lease = [r \in Request |-> Past]
    /\ owned = [r \in Request |-> [token |-> None, resource |-> None]]
    /\ answer = [r \in Request |-> NoAnswer]

\* What the handler does when nothing around it fails.
Start(r)  == Find(r) \/ FindAgain(r) \/ Acquire(r) \/ Miss(r)
Finish(r) == Commit(r) \/ CompletionRefused(r) \/ MarkFailed(r)

Fault(r) == \/ StartFails(r) \/ AcquireUnacknowledged(r)
            \/ CommitUnacknowledged(r) \/ WorkFails(r)
            \/ MarkFailedThrows(r) \/ Crash(r)

Next ==
    \/ \E r \in Request : Receive(r) \/ Start(r) \/ Finish(r) \/ Fault(r) \/ Retry(r)
    \/ Tick

Spec == Init /\ [][Next]_idemVars

\* Requests that arrived are served, time passes, and a client that was told
\* the key is busy keeps asking.  Nothing makes a fault or a crash happen.
Fairness ==
    /\ \A r \in Request : WF_idemVars(Start(r) \/ Finish(r)) /\ WF_idemVars(Retry(r))
    /\ WF_idemVars(Tick)

-----------------------------------------------------------------------------
TypeOK ==
    /\ rows \in [Key -> Row]
    /\ req \in [Request -> [key : Key, hash : Hash, resource : Resource]]
    /\ pc \in [Request -> Location]
    /\ lease \in [Request -> Expiry]
    /\ owned \in [Request -> [token    : Request \cup {None},
                              resource : Resource \cup {None}]]
    /\ answer \in [Request -> Answer]

-----------------------------------------------------------------------------
(* Safety *)

\* A request that was told STARTED and has not yet ended.
Owns(r) == pc[r] \in {"owner", "failing"}

\* Fencing: of all the requests that believe they own a key, at most one holds
\* the token that markCompleted and markFailed accept.
SoleOwner ==
    \A r1, r2 \in Request :
        /\ Owns(r1) /\ OwnedBy(RowOf(r1), owned[r1].token)
        /\ Owns(r2) /\ OwnedBy(RowOf(r2), owned[r2].token)
        /\ req[r1].key = req[r2].key
        => r1 = r2

\* An owner is displaced only after the lease it wrote has run out on the
\* database's clock, however the application clocks are skewed.
LeaseHonoured ==
    \A r \in Request :
        Owns(r) /\ RowOf(r).token # owned[r].token => lease[r] < 0

\* ADR 006: reactivation and takeover keep the reserved resource id, so every
\* owner of a key works on, and shows the provider, the same payment.
OwnersShareResource ==
    \A r \in Request :
        owned[r].token # None => owned[r].resource = RowOf(r).resource

\* The 500 of getExistingOrStart is never reached: once an INSERT met a
\* conflict, the row it met is still there.
ConflictLeavesARow ==
    \A r \in Request : pc[r] = "findAgain" => RowOf(r).status # "ABSENT"

\* Two clients that were given a response for one key were given the same one,
\* and it answers the payload that both of them sent.
ResponsesAgree ==
    \A r1, r2 \in Request :
        /\ answer[r1].kind = "response"
        /\ answer[r2].kind = "response"
        /\ req[r1].key = req[r2].key
        => /\ answer[r1].response = answer[r2].response
           /\ req[r1].hash = req[r2].hash

\* A client is told OWNERSHIP_LOST only if its lease ran out and another
\* request took the key, or if its own commit went through unacknowledged.
OwnershipLostIsTrue ==
    \A r \in Request :
        answer[r].kind = "ownershipLost" =>
            \/ lease[r] < 0 /\ RowOf(r).token # r
            \/ RowOf(r).status = "COMPLETED" /\ RowOf(r).response = r

\* A step never changes what a key was completed with: no stale owner, retry,
\* markFailed or takeover touches a COMPLETED row, nor gives a key another
\* payload or another resource.
OutcomeIsFinal ==
    [][\A k \in Key :
          /\ rows[k].status = "COMPLETED" =>
                /\ rows'[k].status = "COMPLETED"
                /\ rows'[k].response = rows[k].response
          /\ rows[k].status # "ABSENT" =>
                /\ rows'[k].hash = rows[k].hash
                /\ rows'[k].resource = rows[k].resource]_idemVars

(* The inductive invariant behind them *)

\* A request that may still be about to acquire its key.
Starting(r) ==
    \/ pc[r] \in {"idle", "find", "insert", "findAgain", "reactivate", "takeover"}
    \/ answer[r].kind = "inProgress"

\* A token is stored once, in the row of the request that it stands for, and
\* the request that was told STARTED is the one that holds it.
TokensAreFresh ==
    /\ \A r \in Request :
          /\ owned[r].token \in {None, r}
          /\ Owns(r) => owned[r].token = r
          /\ Starting(r) => owned[r].token = None /\ \A k \in Key : rows[k].token # r
    /\ \A k \in Key : rows[k].token # None => req[rows[k].token].key = k

\* A row's expiry is its owner's lease; a finished row has no owner at work.
RowsMatchOwners ==
    \A k \in Key :
        LET row == rows[k] IN
        /\ row.status = "ABSENT" => row.token = None
        /\ row.status # "ABSENT" => row.token # None
        /\ row.status = "PROCESSING" => row.expires = lease[row.token]
        /\ row.status = "FAILED" => ~Owns(row.token)
        /\ row.status = "COMPLETED" => row.response = row.token

\* An owner's key holds a row with the owner's payload and resource.
OwnersMatchRows ==
    \A r \in Request :
        /\ owned[r].token # None =>
              /\ RowOf(r).status # "ABSENT"
              /\ RowOf(r).resource = owned[r].resource
              /\ RowOf(r).hash = req[r].hash
        /\ pc[r] = "findAgain" => RowOf(r).status # "ABSENT"

\* Only an ended request has an answer, and a response given to a client is
\* the one stored for the key and the payload.
AnswersMatchRows ==
    \A r \in Request :
        /\ pc[r] # "done" => answer[r].kind = "none"
        /\ answer[r].kind = "response" =>
              /\ RowOf(r).status = "COMPLETED"
              /\ RowOf(r).response = answer[r].response
              /\ RowOf(r).hash = req[r].hash

IInv == /\ TypeOK
        /\ TokensAreFresh
        /\ RowsMatchOwners
        /\ OwnersMatchRows
        /\ AnswersMatchRows
        /\ LeaseHonoured
        /\ OwnershipLostIsTrue

(* Liveness *)

\* Every request that arrived is answered, unless its instance dies: no
\* handler step waits for another request.
EveryRequestEnds == \A r \in Request : pc[r] = "find" ~> Ended(r)

\* A key whose owner is gone without releasing it (a crash, a lost reply, a
\* markFailed that threw) does not stay with it while a client with the same
\* payload keeps asking.
AbandonedKeyIsReleased ==
    \A r1, r2 \in Request :
        /\ RowOf(r1).status = "PROCESSING" /\ RowOf(r1).token = r1 /\ Ended(r1)
        /\ req[r2].key = req[r1].key /\ req[r2].hash = req[r1].hash
        /\ pc[r2] = "find"
        ~> \/ RowOf(r1).token # r1
           \/ Ended(r2) /\ answer[r2].kind # "inProgress"

=============================================================================
