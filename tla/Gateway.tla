-------------------------------- MODULE Gateway --------------------------------
(***************************************************************************)
(* The way of a call through the gateway to the payment service and back:  *)
(* the middlewares, PaymentServiceClient with its timeout and its retry,   *)
(* the network between the services, and the internal routes.              *)
(*                                                                         *)
(* What the payment service does with a request it admits is PaymentLedger:*)
(* that Payments implements it is checked there.  A request of the payment *)
(* service is a pair of a call and the attempt of the client that sent it; *)
(* it goes on after the client has given up.                               *)
(***************************************************************************)
EXTENDS Integers

CONSTANTS
    Call,         \* calls of the public API
    ClientKey,    \* values of the Idempotency-Key header
    Resource,     \* payment ids
    Flaw,         \* what may be wrong with a call, see below
    None          \* null

ASSUME FlawAssumption == Flaw \subseteq {"json", "auth", "schema"}
ASSUME NoneAssumption == None \notin Resource \cup ClientKey

Attempt == 1 .. 2
Sent    == Call \X Attempt

VARIABLES
    payments, outbox, completed,   \* the tables, as in PaymentLedger
    trusted,   \* whether both services have the same INTERNAL_SERVICE_TOKEN
    call,      \* what a call asks for, and what is wrong with it
    at,        \* where the gateway is with a call
    attempt,   \* the attempts the client has made for a call
    request,   \* the requests at the payment service
    answer     \* what the gateway has answered

ledgerTables == <<payments, outbox, completed>>
gatewayVars  == <<ledgerTables, trusted, call, at, attempt, request, answer>>

Ledger == INSTANCE PaymentLedger WITH
    Request <- Sent,
    Key     <- (ClientKey \X {None}) \cup (ClientKey \X Resource)

-----------------------------------------------------------------------------
(* Data *)

Operation == {"create", "capture", "get"}

\* json: the body does not parse.  auth: no valid API key.  schema: the request
\* fails the validation of its route.
Calls == [op : Operation, key : ClientKey, payment : Resource, flaws : SUBSET Flaw]

NoCall == [op |-> "get", key |-> None, payment |-> None, flaws |-> {}]

IsWrite(c) == call[c].op # "get"

\* Capture keys are scoped by payment, create keys are not.
Scope(c) == <<call[c].key, IF call[c].op = "create" THEN None ELSE call[c].payment>>

\* The body of an answer: a payment, an error, the error that names lost ownership,
\* the gateway's own error for one it could not read, or JSON null.
Status == {"AUTHORIZED", "FAILED", "CAPTURED", "CAPTURE_FAILED"}
Body(p, s) == [payment |-> p, status |-> s]
Bodies ==
    [payment : Resource, status : Status]
        \cup {Body(None, s) : s \in {"error", "ownership lost", "unread", "null"}}

IsPayment(body) == body.payment # None

Answers == [code : {200, 201, 400, 401, 404, 409, 500, 502, 504}, body : Bodies]

Error(code) == [code |-> code, body |-> Body(None, "error")]
OwnershipLost == [code |-> 409, body |-> Body(None, "ownership lost")]
NoAnswerYet == [code |-> 0, body |-> Body(None, "null")]
NoRequest   == [at |-> "none", answer |-> NoAnswerYet]

IsOk(code) == code \in {200, 201}

OkCode(c) == IF call[c].op = "create" THEN 201 ELSE 200

-----------------------------------------------------------------------------
(* The gateway before the client *)

Reply(c, a) ==
    /\ at' = [at EXCEPT ![c] = "answered"]
    /\ answer' = [answer EXCEPT ![c] = a]

Arrive(c) ==
    /\ at[c] = "idle"
    /\ call' \in {[call EXCEPT ![c] = input] : input \in Calls}
    /\ at' = [at EXCEPT ![c] = "arrived"]
    /\ UNCHANGED <<ledgerTables, trusted, attempt, request, answer>>

\* express.json comes before all else, and its error is no ApiError; auth comes
\* before validation.
Refusal(flaws) ==
    IF "json" \in flaws THEN 500 ELSE IF "auth" \in flaws THEN 401 ELSE 400

Refuse(c) ==
    /\ at[c] = "arrived" /\ call[c].flaws # {}
    /\ Reply(c, Error(Refusal(call[c].flaws)))
    /\ UNCHANGED <<ledgerTables, trusted, call, attempt, request>>

-----------------------------------------------------------------------------
(* PaymentServiceClient *)

SendAttempt(c, n) ==
    /\ attempt' = [attempt EXCEPT ![c] = n]
    /\ request' = [request EXCEPT ![<<c, n>>].at = "sent"]
    /\ at' = [at EXCEPT ![c] = "sending"]

Forward(c) ==
    /\ at[c] = "arrived" /\ call[c].flaws = {}
    /\ SendAttempt(c, 1)
    /\ UNCHANGED <<ledgerTables, trusted, call, answer>>

CanRetry_AlwaysBug(c) == attempt[c] < 2

\* Only a GET has a second attempt.
CanRetry(c) == ~IsWrite(c) /\ attempt[c] < 2

\* fetch throws: the time is over (504), or the connection is refused or lost
\* (502).  The payment service may have got the request, and may still work on it.
NoResponse(c) ==
    /\ at[c] = "sending"
    /\ \/ /\ CanRetry(c)
          /\ SendAttempt(c, 2)
          /\ UNCHANGED answer
       \/ /\ ~CanRetry(c)
          /\ \E code \in {502, 504} : Reply(c, Error(code))
          /\ UNCHANGED <<attempt, request>>
    /\ UNCHANGED <<ledgerTables, trusted, call>>

Answered(c) == request[<<c, attempt[c]>>].answer

\* fetch resolves: the status line and the headers are there, the body is not.
HeadersArrive(c) ==
    /\ at[c] = "sending" /\ request[<<c, attempt[c]>>].at = "answered"
    /\ at' = [at EXCEPT ![c] = "reading"]
    /\ UNCHANGED <<ledgerTables, trusted, call, attempt, request, answer>>

\* The status of the payment service is the status of the gateway.
BodyArrives(c) ==
    /\ at[c] = "reading"
    /\ Reply(c, Answered(c))
    /\ UNCHANGED <<ledgerTables, trusted, call, attempt, request>>

\* The body is cut off or comes too late: response.json() rejects and the client
\* goes on with null, which an error replaces by a message of its own.
BodyIsLost(c) ==
    /\ at[c] = "reading"
    /\ Reply(c, [Answered(c) EXCEPT
                    !.body = Body(None, IF IsOk(Answered(c).code) THEN "null" ELSE "unread")])
    /\ UNCHANGED <<ledgerTables, trusted, call, attempt, request>>

-----------------------------------------------------------------------------
(* The internal routes of the payment service *)

Respond(q, a) == request' = [request EXCEPT ![q] = [at |-> "answered", answer |-> a]]

\* internalAuthMiddleware, then the validation, which has the same schemas as the
\* gateway's and rejects nothing that passed there.
Admit(q) == request[q].at = "sent" /\ trusted

RejectToken(q) ==
    /\ request[q].at = "sent" /\ ~trusted
    /\ Respond(q, Error(401))
    /\ UNCHANGED <<ledgerTables, trusted, call, at, attempt, answer>>

Read(q) ==
    LET p == call[q[1]].payment IN
    /\ Admit(q) /\ call[q[1]].op = "get"
    /\ Respond(q, IF payments[p] = "CREATED"
                  THEN Error(404)
                  ELSE [code |-> 200, body |-> Body(p, payments[p])])
    /\ UNCHANGED <<ledgerTables, trusted, call, at, attempt, answer>>

\* The operation is committed and answered, or COMMIT goes through unacknowledged:
\* then markFailed finds the key completed and throws IDEMPOTENCY_OWNERSHIP_LOST, or
\* fails for another reason and the error of COMMIT is the answer.
Execute(q) ==
    LET c == q[1] IN
    /\ Admit(q) /\ IsWrite(c)
    /\ \E p \in Resource :
          /\ \/ call[c].op = "create" /\ Ledger!Create(q, p, Scope(c))
             \/ call[c].op = "capture" /\ p = call[c].payment /\ Ledger!Capture(q, p, Scope(c))
          /\ \/ Respond(q, [code |-> OkCode(c), body |-> Body(p, payments'[p])])
             \/ \E a \in {Error(500), OwnershipLost} : Respond(q, a)
    /\ UNCHANGED <<trusted, call, at, attempt, answer>>

Replay_CurrentBug(q) ==
    LET c == q[1] IN
    /\ Admit(q) /\ IsWrite(c)
    /\ \E done \in completed :
          /\ done.key = Scope(c)
          /\ Respond(q, [code |-> OkCode(c), body |-> Body(done.payment, payments[done.payment])])
    /\ UNCHANGED <<ledgerTables, trusted, call, at, attempt, answer>>

\* A completed key answers with the response stored under it, which is what the
\* event of the request that completed it says.
Replay(q) ==
    LET c == q[1] IN
    /\ Admit(q) /\ IsWrite(c)
    /\ \E done \in completed, e \in outbox :
          /\ done.key = Scope(c) /\ e.id = done.by
          /\ Respond(q, [code |-> OkCode(c), body |-> Body(done.payment, e.type)])
    /\ UNCHANGED <<ledgerTables, trusted, call, at, attempt, answer>>

\* The operation is refused or fails, or its key was taken over: nothing is
\* committed for it.
Decline(q) ==
    /\ Admit(q) /\ IsWrite(q[1])
    /\ \E a \in {OwnershipLost} \cup {Error(code) : code \in {404, 409, 500}} : Respond(q, a)
    /\ UNCHANGED <<ledgerTables, trusted, call, at, attempt, answer>>

-----------------------------------------------------------------------------
(* Specification *)

GatewayInit ==
    /\ Ledger!LedgerInit
    /\ trusted \in BOOLEAN
    /\ call = [c \in Call |-> NoCall]
    /\ at = [c \in Call |-> "idle"]
    /\ attempt = [c \in Call |-> 0]
    /\ request = [q \in Sent |-> NoRequest]
    /\ answer = [c \in Call |-> NoAnswerYet]

GatewayStep(c) ==
    \/ Refuse(c) \/ Forward(c) \/ NoResponse(c)
    \/ HeadersArrive(c) \/ BodyArrives(c) \/ BodyIsLost(c)

ServiceStep(q) ==
    RejectToken(q) \/ Read(q) \/ Execute(q) \/ Replay(q) \/ Decline(q)

GatewayNext ==
    \/ \E c \in Call : Arrive(c) \/ GatewayStep(c)
    \/ \E q \in Sent : ServiceStep(q)

GatewaySpec == GatewayInit /\ [][GatewayNext]_gatewayVars

-----------------------------------------------------------------------------
(* Properties *)

RequestState ==
         [at : {"none", "sent"}, answer : {NoAnswerYet}]
    \cup [at : {"answered"}, answer : Answers]

GatewayTypeOK ==
    /\ payments \in [Resource -> Status \cup {"CREATED"}]
    /\ trusted \in BOOLEAN
    /\ call \in [Call -> Calls \cup {NoCall}]
    /\ at \in [Call -> {"idle", "arrived", "sending", "reading", "answered"}]
    /\ attempt \in [Call -> 0 .. 2] /\ \A c \in Call : IsWrite(c) => attempt[c] < 2
    /\ request \in [Sent -> RequestState]
    /\ answer \in [Call -> Answers \cup {NoAnswerYet}]

EffectOf(c) == {e \in outbox : e.id[1] = c}

\* What a client may conclude from an error of its own making: its call has no
\* effect, and will have none later.  From 5xx it may conclude nothing, nor from a
\* 409 that names lost ownership or whose body did not reach the gateway.
RefusalHasNoEffect ==
    \A c \in Call :
        answer[c].code \in {400, 401, 404} \/ answer[c] = Error(409) => EffectOf(c) = {}

\* A call that is answered with success was carried out, by itself or by an
\* earlier call with its key, and all such answers show the same payment in the
\* same state, whatever happened to the payment since.
AnswersAgree ==
    \A c, d \in Call :
        /\ IsWrite(c) /\ IsOk(answer[c].code) => \E done \in completed : done.key = Scope(c)
        /\ /\ IsWrite(c) /\ IsWrite(d) /\ Scope(c) = Scope(d)
           /\ IsPayment(answer[c].body) /\ IsPayment(answer[d].body)
           => answer[c] = answer[d]

(* The inductive invariant behind them *)

\* A call is forwarded once it has passed the middlewares; what the payment service
\* got are the attempts made so far, and an answer is read after it was given.
HopsAreOrdered ==
    \A c \in Call :
        /\ at[c] # "idle" => call[c] \in Calls
        /\ at[c] \in {"idle", "arrived"} => attempt[c] = 0
        /\ at[c] \in {"sending", "reading"} => attempt[c] > 0
        /\ at[c] = "reading" => request[<<c, attempt[c]>>].at = "answered"
        /\ at[c] # "answered" => answer[c] = NoAnswerYet
        /\ \A n \in Attempt : request[<<c, n>>].at # "none" <=> n <= attempt[c]

\* The tables are those of the ledger: an event per operation, a row per key.
TablesAgree ==
    /\ outbox \subseteq [id : Sent, payment : Resource, type : Status]
    /\ \A e, f \in outbox : e.id = f.id => e = f
    /\ \A done \in completed : done.payment \in Resource
    /\ \A done, other \in completed : done.key = other.key => done = other

\* The response stored under the key of c.
Stored(c, a) ==
    \E done \in completed, e \in outbox :
        /\ done.key = Scope(c) /\ e.id = done.by
        /\ a = [code |-> OkCode(c), body |-> Body(done.payment, e.type)]

\* A write is answered with what its key stores or with an error; when it had its
\* effect, the error is none of those that deny it.
WritesAreAnswered ==
    /\ \A q \in Sent : IsWrite(q[1]) /\ request[q].at = "answered" =>
          \/ Stored(q[1], request[q].answer)
          \/ request[q].answer = OwnershipLost
          \/ \E code \in {401, 404, 409, 500} : request[q].answer = Error(code)
    /\ \A e \in outbox :
          /\ IsWrite(e.id[1]) /\ request[e.id].at = "answered"
          /\ \/ request[e.id].answer.code \in {200, 201, 500}
             \/ request[e.id].answer = OwnershipLost

\* What is left of a when its body may have been lost.
Relays(a, b) ==
    /\ b.code = a.code
    /\ b.body \in {a.body, Body(None, IF IsOk(a.code) THEN "null" ELSE "unread")}

\* The gateway's own error, or what the last attempt got.
MayAnswer(c, a) ==
    \/ attempt[c] = 0 /\ \E code \in {400, 401, 500} : a = Error(code)
    \/ \E code \in {502, 504} : a = Error(code)
    \/ /\ attempt[c] > 0 /\ request[<<c, attempt[c]>>].at = "answered"
       /\ Relays(Answered(c), a)

AnswersAreRelayed == \A c \in Call : at[c] = "answered" => MayAnswer(c, answer[c])

GInv == /\ GatewayTypeOK
        /\ HopsAreOrdered
        /\ TablesAgree
        /\ WritesAreAnswered
        /\ AnswersAreRelayed

=============================================================================
