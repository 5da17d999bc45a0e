------------------------------ MODULE GatewayProofs ------------------------------
(***************************************************************************)
(* Theorems about Gateway: for any number of calls, keys and payments, what *)
(* a client may conclude from the answer it gets, though requests outlive   *)
(* the attempts that sent them and answers are lost on the way.             *)
(***************************************************************************)
EXTENDS Gateway, TLAPS

-----------------------------------------------------------------------------
(* Data *)

\* Requests of the payment service are pairs.
LEMMA SentPairs ==
    /\ \A c \in Call : \A n \in Attempt : <<c, n>> \in Sent
    /\ \A q \in Sent : q[1] \in Call /\ q[2] \in Attempt /\ q = <<q[1], q[2]>>
BY DEF Sent

\* An error is an answer without a payment.
LEMMA ErrorIsAnswer ==
    ASSUME NEW code \in {400, 401, 404, 409, 500, 502, 504}
    PROVE  Error(code) \in Answers /\ Error(code).code = code /\ ~IsPayment(Error(code).body)
<1>1. Body(None, "error") \in Bodies
  BY DEF Bodies
<1>2. Error(code) \in Answers
  BY <1>1 DEF Error, Answers
<1>3. QED
  BY <1>2 DEF Error, Body, IsPayment

\* So is the error that names lost ownership, which tells less than the others.
LEMMA OwnershipLostIsAnswer ==
    /\ OwnershipLost \in Answers /\ OwnershipLost.code = 409 /\ ~IsPayment(OwnershipLost.body)
    /\ OwnershipLost # Error(409)
<1>1. Body(None, "ownership lost") \in Bodies
  BY DEF Bodies
<1>2. OwnershipLost \in Answers
  BY <1>1 DEF OwnershipLost, Answers
<1>3. OwnershipLost.code = 409 /\ ~IsPayment(OwnershipLost.body)
  BY DEF OwnershipLost, Body, IsPayment
<1>4. OwnershipLost # Error(409)
  BY DEF OwnershipLost, Error, Body
<1>5. QED
  BY <1>2, <1>3, <1>4

\* A payment in a body is a payment.
LEMMA PaymentAnswers ==
    ASSUME NEW c \in Call, NEW p \in Resource, NEW s \in Status
    PROVE  /\ [code |-> OkCode(c), body |-> Body(p, s)] \in Answers
           /\ IsOk(OkCode(c)) /\ OkCode(c) \in {200, 201}
<1>1. OkCode(c) \in {200, 201}
  BY DEF OkCode
<1>2. Body(p, s) \in Bodies
  BY DEF Bodies, Body
<1>3. QED
  BY <1>1, <1>2 DEF Answers, IsOk

\* An answer is its code and its body.
LEMMA AnswerIsItsParts ==
    ASSUME NEW a \in Answers, NEW b \in Answers, a.code = b.code, a.body = b.body
    PROVE  a = b
BY DEF Answers

-----------------------------------------------------------------------------
(* The inductive invariant *)

\* Initially no call is under way and nothing is stored.
LEMMA GatewayInitInv == GatewayInit => GInv
<1> SUFFICES ASSUME GatewayInit PROVE GInv
  OBVIOUS
<1>1. GatewayTypeOK
  BY DEF GatewayInit, GatewayTypeOK, RequestState, Ledger!LedgerInit, NoRequest,
     IsWrite, NoCall
<1>2. HopsAreOrdered
  <2>1. \A c \in Call : \A n \in Attempt : request[<<c, n>>] = NoRequest
    BY SentPairs DEF GatewayInit
  <2>2. \A c \in Call : at[c] = "idle" /\ attempt[c] = 0 /\ answer[c] = NoAnswerYet
    BY DEF GatewayInit
  <2>3. NoRequest.at = "none" /\ \A n \in Attempt : ~(n <= 0)
    BY DEF NoRequest, Attempt
  <2>4. QED
    BY <2>1, <2>2, <2>3 DEF HopsAreOrdered
<1>3. TablesAgree /\ WritesAreAnswered /\ AnswersAreRelayed
  BY DEF GatewayInit, Ledger!LedgerInit, TablesAgree, WritesAreAnswered,
     AnswersAreRelayed,
         NoRequest
<1>4. QED
  BY <1>1, <1>2, <1>3 DEF GInv

\* A call moves on inside the gateway.
LEMMA GatewayMovesInv ==
    ASSUME GInv, NEW c \in Call,
           UNCHANGED <<ledgerTables, trusted, call, attempt, request>>,
           at' \in [Call -> {"idle", "arrived", "sending", "reading", "answered"}],
           answer' \in [Call -> Answers \cup {NoAnswerYet}],
           \A d \in Call : d # c => at'[d] = at[d] /\ answer'[d] = answer[d],
           at[c] # "idle",
           \/ /\ at'[c] = "reading" /\ answer'[c] = NoAnswerYet
              /\ attempt[c] > 0 /\ request[<<c, attempt[c]>>].at = "answered"
           \/ at'[c] = "answered" /\ MayAnswer(c, answer'[c])
    PROVE  GInv'
<1>1. GatewayTypeOK'
  BY DEF GInv, GatewayTypeOK, IsWrite, ledgerTables
<1>2. HopsAreOrdered'
  BY DEF GInv, HopsAreOrdered
<1>3. TablesAgree'
  BY DEF GInv, TablesAgree, ledgerTables
<1>4. WritesAreAnswered'
  <2>1. UNCHANGED <<call, request, outbox, completed>>
    BY DEF ledgerTables
  <2>2. \A q \in Sent : IsWrite(q[1])' <=> IsWrite(q[1])
    BY <2>1 DEF IsWrite
  <2>3. \A e \in outbox : IsWrite(e.id[1])' <=> IsWrite(e.id[1])
    BY <2>1 DEF IsWrite
  <2>4. \A q \in Sent : Stored(q[1], request[q].answer)' <=> Stored(q[1], request[q].answer)
    BY <2>1 DEF Stored, Scope, OkCode
  <2>5. WritesAreAnswered
    BY DEF GInv
  <2>6. QED
    BY <2>1, <2>2, <2>3, <2>4, <2>5 DEF WritesAreAnswered
<1>5. AnswersAreRelayed'
  <2>1. \A d \in Call : \A a : a = answer'[d] => (MayAnswer(d, a) <=> MayAnswer(d, answer[d])')
    BY DEF MayAnswer, Answered
  <2>2. QED
    BY <2>1 DEF GInv, AnswersAreRelayed
<1>6. QED
  BY <1>1, <1>2, <1>3, <1>4, <1>5 DEF GInv

\* The gateway answers with its own error or with what the last attempt got.
LEMMA RepliesInv ==
    ASSUME GInv, NEW c \in Call, at[c] # "idle", NEW a \in Answers, MayAnswer(c, a),
           Reply(c, a), UNCHANGED <<ledgerTables, trusted, call, attempt, request>>
    PROVE  GInv'
<1>1. /\ at \in [Call -> {"idle", "arrived", "sending", "reading", "answered"}]
      /\ answer \in [Call -> Answers \cup {NoAnswerYet}]
  BY DEF GInv, GatewayTypeOK
<1>2. /\ at' \in [Call -> {"idle", "arrived", "sending", "reading", "answered"}]
      /\ answer' \in [Call -> Answers \cup {NoAnswerYet}]
      /\ \A d \in Call : d # c => at'[d] = at[d] /\ answer'[d] = answer[d]
      /\ at'[c] = "answered" /\ answer'[c] = a
  BY <1>1 DEF Reply
<1>3. QED
  BY <1>2, GatewayMovesInv

\* Refuse, the end of NoResponse, HeadersArrive, BodyArrives and BodyIsLost.
LEMMA GatewayStepInv ==
    ASSUME GInv, NEW c \in Call,
           \/ Refuse(c) \/ HeadersArrive(c) \/ BodyArrives(c) \/ BodyIsLost(c)
           \/ NoResponse(c) /\ ~CanRetry(c)
    PROVE  GInv'
<1>1. /\ at \in [Call -> {"idle", "arrived", "sending", "reading", "answered"}]
      /\ answer \in [Call -> Answers \cup {NoAnswerYet}]
      /\ UNCHANGED <<ledgerTables, trusted, call, attempt, request>>
  BY DEF GInv, GatewayTypeOK, Refuse, HeadersArrive, BodyArrives, BodyIsLost, NoResponse
<1>2. CASE Refuse(c)
  <2>1. PICK code \in {400, 401, 500} : Reply(c, Error(code))
    BY <1>2 DEF Refuse, Refusal
  <2>2. at[c] # "idle" /\ attempt[c] = 0
    BY <1>2 DEF Refuse, GInv, HopsAreOrdered
  <2>3. Error(code) \in Answers /\ MayAnswer(c, Error(code))
    BY <2>2, ErrorIsAnswer DEF MayAnswer
  <2>4. QED
    BY <1>1, <2>1, <2>2, <2>3, RepliesInv
<1>3. CASE NoResponse(c) /\ ~CanRetry(c)
  <2>1. PICK code \in {502, 504} : Reply(c, Error(code))
    BY <1>3 DEF NoResponse
  <2>2. at[c] # "idle"
    BY <1>3 DEF NoResponse
  <2>3. Error(code) \in Answers /\ MayAnswer(c, Error(code))
    BY ErrorIsAnswer DEF MayAnswer
  <2>4. QED
    BY <1>1, <2>1, <2>2, <2>3, RepliesInv
<1>4. CASE HeadersArrive(c)
  BY <1>1, <1>4, GatewayMovesInv DEF HeadersArrive, GInv, HopsAreOrdered
<1>5. CASE BodyArrives(c) \/ BodyIsLost(c)
  <2>1. /\ at[c] = "reading" /\ attempt[c] > 0
        /\ request[<<c, attempt[c]>>].at = "answered"
    BY <1>5 DEF BodyArrives, BodyIsLost, GInv, HopsAreOrdered
  <2>2. Answered(c) \in Answers
    <3>1. attempt[c] \in Attempt
      BY <2>1 DEF GInv, GatewayTypeOK, Attempt
    <3>2. QED
      BY <2>1, <3>1, SentPairs DEF GInv, GatewayTypeOK, RequestState, Answered
  <2>3. PICK b \in Answers : MayAnswer(c, b) /\ Reply(c, b)
    <3>1. CASE BodyArrives(c)
      BY <2>1, <2>2, <3>1 DEF BodyArrives, Relays, MayAnswer
    <3>2. CASE BodyIsLost(c)
      <4> DEFINE lost == Body(None, IF IsOk(Answered(c).code) THEN "null" ELSE "unread")
      <4>1. lost \in Bodies
        BY DEF Bodies
      <4>2. PICK b \in [code : {Answered(c).code}, body : {lost}] :
                Reply(c, b)
        BY <2>2, <3>2 DEF BodyIsLost, Answers
      <4>3. b \in Answers
        BY <2>2, <4>1 DEF Answers
      <4>4. QED
        BY <2>1, <4>2, <4>3 DEF Relays, MayAnswer
    <3>3. QED
      BY <1>5, <3>1, <3>2
  <2>4. QED
    BY <1>1, <2>1, <2>3, RepliesInv
<1>6. QED
  BY <1>2, <1>3, <1>4, <1>5

\* Of a call that was not forwarded the payment service knows nothing.
LEMMA ArriveKeepsInv ==
    ASSUME GInv, NEW c \in Call, Arrive(c)
    PROVE  GInv'
<1>1. /\ at[c] = "idle" /\ attempt[c] = 0 /\ answer[c] = NoAnswerYet
      /\ \A n \in Attempt : request[<<c, n>>].at = "none"
      /\ UNCHANGED <<ledgerTables, trusted, attempt, request, answer>>
      /\ at' = [at EXCEPT ![c] = "arrived"]
  <2>1. /\ at[c] = "idle" /\ at' = [at EXCEPT ![c] = "arrived"]
        /\ UNCHANGED <<ledgerTables, trusted, attempt, request, answer>>
    BY DEF Arrive
  <2>2. attempt[c] = 0 /\ answer[c] = NoAnswerYet
    BY <2>1 DEF GInv, HopsAreOrdered
  <2>3. \A n \in Attempt : ~(n <= attempt[c])
    BY <2>2 DEF Attempt
  <2>4. \A n \in Attempt : request[<<c, n>>].at = "none"
    BY <2>3 DEF GInv, HopsAreOrdered
  <2>5. QED
    BY <2>1, <2>2, <2>4
<1>2. PICK input \in Calls : call' = [call EXCEPT ![c] = input]
  BY DEF Arrive
<1>3. /\ call \in [Call -> Calls \cup {NoCall}]
      /\ at \in [Call -> {"idle", "arrived", "sending", "reading", "answered"}]
  BY DEF GInv, GatewayTypeOK
<1>4. /\ call'[c] = input /\ \A d \in Call : d # c => call'[d] = call[d]
      /\ at'[c] = "arrived" /\ \A d \in Call : d # c => at'[d] = at[d]
  BY <1>1, <1>2, <1>3
<1>5. GatewayTypeOK'
  <2>1. \A d \in Call : IsWrite(d)' => attempt'[d] < 2
    <3>1. \A d \in Call : d # c => (IsWrite(d)' <=> IsWrite(d))
      BY <1>4 DEF IsWrite
    <3>2. \A d \in Call : IsWrite(d) => attempt[d] < 2
      BY DEF GInv, GatewayTypeOK
    <3>3. QED
      BY <1>1, <3>1, <3>2
  <2>2. QED
    BY <1>1, <1>2, <1>3, <2>1 DEF GInv, GatewayTypeOK, ledgerTables
<1>6. HopsAreOrdered'
  BY <1>1, <1>4 DEF GInv, HopsAreOrdered
<1>7. TablesAgree'
  BY <1>1 DEF GInv, TablesAgree, ledgerTables
<1>8. WritesAreAnswered'
  <2>1. \A q \in Sent : request[q].at = "answered" => q[1] \in Call /\ q[1] # c
    BY <1>1, SentPairs
  <2>2. ASSUME NEW q \in Sent, request[q].at = "answered"
        PROVE  /\ IsWrite(q[1])' <=> IsWrite(q[1])
               /\ Stored(q[1], request[q].answer)' <=> Stored(q[1], request[q].answer)
    <3>1. call'[q[1]] = call[q[1]]
      BY <1>4, <2>1, <2>2
    <3>2. QED
      BY <1>1, <3>1 DEF IsWrite, Stored, Scope, OkCode, ledgerTables
  <2>3. WritesAreAnswered /\ \A e \in outbox : e.id \in Sent
    BY DEF GInv, TablesAgree
  <2>4. QED
    BY <1>1, <2>2, <2>3 DEF WritesAreAnswered, ledgerTables
<1>9. AnswersAreRelayed'
  BY <1>1, <1>4 DEF GInv, AnswersAreRelayed, MayAnswer, Answered
<1>10. QED
  BY <1>5, <1>6, <1>7, <1>8, <1>9 DEF GInv

\* Forward and a retry: the payment service gets one request more.
LEMMA SendKeepsInv ==
    ASSUME GInv, NEW c \in Call, NEW n \in Attempt, SendAttempt(c, n),
           at[c] \in {"arrived", "sending"}, attempt[c] = n - 1, n = 1 \/ ~IsWrite(c),
           UNCHANGED <<ledgerTables, trusted, call, answer>>
    PROVE  GInv'
<1> DEFINE r == <<c, n>>
<1>1. /\ r \in Sent /\ n \in {1, 2} /\ request \in [Sent -> RequestState]
      /\ at \in [Call -> {"idle", "arrived", "sending", "reading", "answered"}]
      /\ attempt \in [Call -> 0 .. 2] /\ \A d \in Call : IsWrite(d) => attempt[d] < 2
  <2>1. n \in {1, 2}
    BY DEF Attempt
  <2>2. r \in Sent
    BY SentPairs
  <2>3. QED
    BY <2>1, <2>2 DEF GInv, GatewayTypeOK
<1>2. request[r].at = "none" /\ answer[c] = NoAnswerYet
  <2>1. request[r].at # "none" <=> n <= attempt[c]
    BY DEF GInv, HopsAreOrdered
  <2>2. ~(n <= attempt[c])
    BY <1>1
  <2>3. answer[c] = NoAnswerYet
    BY DEF GInv, HopsAreOrdered
  <2>4. QED
    BY <2>1, <2>2, <2>3
<1>3. /\ request' \in [Sent -> RequestState] /\ request'[r].at = "sent"
      /\ \A q \in Sent : q # r => request'[q] = request[q]
  <2>1. request[r] \in [at : {"none"}, answer : {NoAnswerYet}]
    BY <1>1, <1>2 DEF RequestState
  <2>2. request' = [request EXCEPT ![r].at = "sent"]
    BY DEF SendAttempt
  <2>3. request'[r] \in [at : {"sent"}, answer : {NoAnswerYet}]
    BY <1>1, <2>1, <2>2
  <2>4. \A q \in Sent : q # r => request'[q] = request[q]
    BY <1>1, <2>2
  <2>5. request' \in [Sent -> RequestState]
    BY <1>1, <2>2, <2>3 DEF RequestState
  <2>6. QED
    BY <2>3, <2>4, <2>5
<1>4. /\ at'[c] = "sending" /\ \A d \in Call : d # c => at'[d] = at[d]
      /\ at' \in [Call -> {"idle", "arrived", "sending", "reading", "answered"}]
  BY <1>1 DEF SendAttempt
<1>5. /\ attempt' \in [Call -> 0 .. 2] /\ attempt'[c] = n
      /\ \A d \in Call : d # c => attempt'[d] = attempt[d]
  BY <1>1 DEF SendAttempt
<1>6. GatewayTypeOK'
  <2>1. \A d \in Call : attempt'[d] \in 0 .. 2 /\ (IsWrite(d)' => attempt'[d] < 2)
    BY <1>1, <1>5 DEF IsWrite
  <2>2. QED
    BY <1>3, <1>4, <1>5, <2>1 DEF GInv, GatewayTypeOK, ledgerTables
<1>7. HopsAreOrdered'
  <2>1. ASSUME NEW d \in Call, d # c
        PROVE  /\ \A m \in Attempt : request'[<<d, m>>] = request[<<d, m>>]
               /\ attempt[d] > 0 => request'[<<d, attempt[d]>>] = request[<<d, attempt[d]>>]
    <3>1. \A m \in Attempt : <<d, m>> \in Sent /\ <<d, m>> # r
      BY <2>1, SentPairs
    <3>2. attempt[d] > 0 => attempt[d] \in Attempt
      BY <1>1 DEF Attempt
    <3>3. QED
      BY <1>3, <3>1, <3>2
  <2>2. \A m \in Attempt : request'[<<c, m>>].at # "none" <=> m <= n
    <3>1. \A m \in Attempt : <<c, m>> \in Sent /\ (m # n => <<c, m>> # r)
      BY SentPairs
    <3>2. \A m \in Attempt : m # n => (request[<<c, m>>].at # "none" <=> m <= n - 1)
      BY DEF GInv, HopsAreOrdered
    <3>3. QED
      BY <1>1, <1>3, <3>1, <3>2 DEF Attempt
  <2>3. call[c] \in Calls
    BY DEF GInv, HopsAreOrdered
  <2>4. ASSUME NEW d \in Call
        PROVE  /\ at'[d] # "idle" => call'[d] \in Calls
               /\ at'[d] \in {"idle", "arrived"} => attempt'[d] = 0
               /\ at'[d] \in {"sending", "reading"} => attempt'[d] > 0
               /\ at'[d] = "reading" => request'[<<d, attempt'[d]>>].at = "answered"
               /\ at'[d] # "answered" => answer'[d] = NoAnswerYet
               /\ \A m \in Attempt : request'[<<d, m>>].at # "none" <=> m <= attempt'[d]
    <3>1. CASE d = c
      BY <1>1, <1>2, <1>4, <1>5, <2>2, <2>3, <3>1
    <3>2. CASE d # c
      BY <1>4, <1>5, <2>1, <3>2 DEF GInv, HopsAreOrdered
    <3>3. QED
      BY <3>1, <3>2
  <2>5. QED
    BY <2>4 DEF HopsAreOrdered
<1>8. TablesAgree'
  BY DEF GInv, TablesAgree, ledgerTables
<1>9. WritesAreAnswered'
  <2>1. WritesAreAnswered /\ \A e \in outbox : e.id \in Sent
    BY DEF GInv, TablesAgree
  <2>2. UNCHANGED <<call, outbox, completed>>
    BY DEF ledgerTables
  <2>3. \A q \in Sent : request'[q].at = "answered" \/ request[q].at = "answered" =>
           request'[q] = request[q]
    BY <1>2, <1>3
  <2>4. ASSUME NEW q \in Sent, request'[q].at = "answered"
        PROVE  Stored(q[1], request[q].answer)' <=> Stored(q[1], request[q].answer)
    <3>1. request'[q].answer = request[q].answer
      BY <2>3, <2>4
    <3>2. QED
      BY <2>2, <3>1 DEF Stored, Scope, OkCode
  <2>5. /\ \A q \in Sent : IsWrite(q[1])' <=> IsWrite(q[1])
        /\ \A e \in outbox : IsWrite(e.id[1])' <=> IsWrite(e.id[1])
    BY <2>2 DEF IsWrite
  <2>6. QED
    BY <2>1, <2>2, <2>3, <2>4, <2>5 DEF WritesAreAnswered
<1>10. AnswersAreRelayed'
  <2>1. ASSUME NEW d \in Call, at'[d] = "answered" PROVE MayAnswer(d, answer[d])'
    <3>1. d # c /\ at[d] = "answered" /\ attempt'[d] = attempt[d]
      BY <1>4, <1>5, <2>1
    <3>2. attempt[d] > 0 => request'[<<d, attempt[d]>>] = request[<<d, attempt[d]>>]
      <4>1. attempt[d] > 0 => attempt[d] \in Attempt
        BY <1>1 DEF Attempt
      <4>2. QED
        BY <1>3, <3>1, <4>1, SentPairs
    <3>3. MayAnswer(d, answer[d])
      BY <3>1 DEF GInv, AnswersAreRelayed
    <3>4. QED
      BY <3>1, <3>2, <3>3 DEF MayAnswer, Answered
  <2>2. QED
    BY <2>1 DEF AnswersAreRelayed
<1>11. QED
  BY <1>6, <1>7, <1>8, <1>9, <1>10 DEF GInv

\* The payment service answers a request: nobody has read another answer to it.
LEMMA RespondFrame ==
    ASSUME GInv, NEW q \in Sent, NEW a \in Answers, request[q].at = "sent", Respond(q, a),
           UNCHANGED <<trusted, call, at, attempt, answer>>,
           payments' \in [Resource -> Status \cup {"CREATED"}]
    PROVE  /\ request'[q].at = "answered" /\ request'[q].answer = a
           /\ \A s \in Sent : s # q => request'[s] = request[s]
           /\ GatewayTypeOK' /\ HopsAreOrdered' /\ AnswersAreRelayed'
<1>1. /\ request \in [Sent -> RequestState]
      /\ request' = [request EXCEPT ![q] = [at |-> "answered", answer |-> a]]
  BY DEF GInv, GatewayTypeOK, Respond
<1>2. [at |-> "answered", answer |-> a] \in RequestState
  BY DEF RequestState
<1>3. /\ request' \in [Sent -> RequestState]
      /\ request'[q].at = "answered" /\ request'[q].answer = a
      /\ \A s \in Sent : s # q => request'[s] = request[s]
  BY <1>1, <1>2
<1>4. GatewayTypeOK'
  BY <1>3 DEF GInv, GatewayTypeOK, IsWrite
<1>5. \A c \in Call : \A n \in Attempt :
         /\ request'[<<c, n>>].at # "none" <=> request[<<c, n>>].at # "none"
         /\ request[<<c, n>>].at = "answered" => request'[<<c, n>>] = request[<<c, n>>]
  BY <1>3, SentPairs
<1>6. \A c \in Call : attempt[c] > 0 => attempt[c] \in Attempt
  BY DEF GInv, GatewayTypeOK, Attempt
<1>7. HopsAreOrdered'
  BY <1>5, <1>6 DEF GInv, HopsAreOrdered
<1>8. AnswersAreRelayed'
  <2>1. ASSUME NEW c \in Call, at[c] = "answered" PROVE MayAnswer(c, answer[c])'
    <3>1. MayAnswer(c, answer[c])
      BY <2>1 DEF GInv, AnswersAreRelayed
    <3>2. attempt[c] > 0 /\ request[<<c, attempt[c]>>].at = "answered" =>
             request'[<<c, attempt[c]>>] = request[<<c, attempt[c]>>]
      BY <1>5, <1>6
    <3>3. QED
      BY <3>1, <3>2 DEF MayAnswer, Answered
  <2>2. QED
    BY <2>1 DEF AnswersAreRelayed
<1>9. QED
  BY <1>3, <1>4, <1>7, <1>8

\* RejectToken, Read, Replay and Decline: no table changes.
LEMMA RespondKeepsInv ==
    ASSUME GInv, NEW q \in Sent, NEW a \in Answers, request[q].at = "sent", Respond(q, a),
           UNCHANGED <<ledgerTables, trusted, call, at, attempt, answer>>,
           IsWrite(q[1]) =>
              \/ Stored(q[1], a) \/ a = OwnershipLost
              \/ \E code \in {401, 404, 409, 500} : a = Error(code)
    PROVE  GInv'
<1>1. /\ request'[q].at = "answered" /\ request'[q].answer = a
      /\ \A s \in Sent : s # q => request'[s] = request[s]
      /\ GatewayTypeOK' /\ HopsAreOrdered' /\ AnswersAreRelayed'
  BY RespondFrame DEF ledgerTables, GInv, GatewayTypeOK
<1>2. TablesAgree'
  BY DEF GInv, TablesAgree, ledgerTables
<1>3. WritesAreAnswered'
  <2>1. UNCHANGED <<call, outbox, completed>> /\ WritesAreAnswered
    BY DEF ledgerTables, GInv
  <2>2. ASSUME NEW s \in Sent, NEW b, b = request'[s].answer, Stored(s[1], b)
        PROVE  Stored(s[1], request[s].answer)'
    BY <2>1, <2>2 DEF Stored, Scope, OkCode
  <2>3. ASSUME NEW s \in Sent, IsWrite(s[1])', request'[s].at = "answered"
        PROVE  \/ Stored(s[1], request'[s].answer)
               \/ request'[s].answer = OwnershipLost
               \/ \E code \in {401, 404, 409, 500} : request'[s].answer = Error(code)
    BY <1>1, <2>1, <2>3 DEF WritesAreAnswered, IsWrite
  <2>4. \A s \in Sent : Stored(s[1], request'[s].answer) => Stored(s[1], request[s].answer)'
    BY <2>2
  <2>5. \A e \in outbox : e.id \in Sent /\ e.id # q
    BY <2>1 DEF WritesAreAnswered, GInv, TablesAgree
  <2>6. ASSUME NEW e \in outbox
        PROVE  /\ IsWrite(e.id[1])' /\ request'[e.id].at = "answered"
               /\ \/ request'[e.id].answer.code \in {200, 201, 500}
                  \/ request'[e.id].answer = OwnershipLost
    BY <1>1, <2>1, <2>5 DEF WritesAreAnswered, IsWrite
  <2>7. QED
    BY <2>1, <2>3, <2>4, <2>6 DEF WritesAreAnswered
<1>4. QED
  BY <1>1, <1>2, <1>3 DEF GInv

\* Requests of the payment service that write no table.
LEMMA TableFreeStepInv ==
    ASSUME GInv, NEW q \in Sent, RejectToken(q) \/ Read(q) \/ Replay(q) \/ Decline(q)
    PROVE  GInv'
<1>1. /\ request[q].at = "sent"
      /\ UNCHANGED <<ledgerTables, trusted, call, at, attempt, answer>>
  BY DEF RejectToken, Read, Replay, Decline, Admit
<1>2. q[1] \in Call /\ q[2] \in Attempt /\ q = <<q[1], q[2]>>
  BY SentPairs
<1>3. CASE RejectToken(q)
  <2>1. Respond(q, Error(401)) /\ Error(401) \in Answers
    BY <1>3, ErrorIsAnswer DEF RejectToken
  <2>2. \E code \in {401, 404, 409, 500} : Error(401) = Error(code)
    OBVIOUS
  <2>3. QED
    BY <1>1, <2>1, <2>2, RespondKeepsInv
<1>4. CASE Read(q)
  <2> DEFINE p == call[q[1]].payment
  <2>1. p \in Resource
    <3>1. at[q[1]] # "idle"
      <4>1. request[<<q[1], q[2]>>].at # "none"
        BY <1>1, <1>2
      <4>2. q[2] <= attempt[q[1]]
        BY <1>2, <4>1 DEF GInv, HopsAreOrdered
      <4>3. ~(q[2] <= 0)
        BY <1>2 DEF Attempt
      <4>4. QED
        BY <1>2, <4>2, <4>3 DEF GInv, HopsAreOrdered
    <3>2. QED
      BY <1>2, <3>1 DEF GInv, HopsAreOrdered, Calls
  <2>2. payments \in [Resource -> Status \cup {"CREATED"}]
    BY DEF GInv, GatewayTypeOK
  <2>3. ~IsWrite(q[1])
    BY <1>4 DEF Read, IsWrite
  <2>4. CASE payments[p] = "CREATED"
    <3>1. Respond(q, Error(404)) /\ Error(404) \in Answers
      BY <1>4, <2>4, ErrorIsAnswer DEF Read
    <3>2. QED
      BY <1>1, <2>3, <3>1, RespondKeepsInv
  <2>5. CASE payments[p] # "CREATED"
    <3>1. payments[p] \in Status
      BY <2>1, <2>2, <2>5
    <3>2. Body(p, payments[p]) \in Bodies
      BY <2>1, <3>1 DEF Bodies, Body
    <3>3. [code |-> 200, body |-> Body(p, payments[p])] \in Answers
      BY <3>2 DEF Answers
    <3>4. PICK a \in Answers : Respond(q, a)
      BY <1>4, <2>5, <3>3 DEF Read
    <3>5. QED
      BY <1>1, <2>3, <3>4, RespondKeepsInv
  <2>6. QED
    BY <2>4, <2>5
<1>5. CASE Replay(q)
  <2>1. PICK done \in completed, e \in outbox :
           /\ done.key = Scope(q[1]) /\ e.id = done.by
           /\ Respond(q, [code |-> OkCode(q[1]), body |-> Body(done.payment, e.type)])
    BY <1>5 DEF Replay
  <2>2. done.payment \in Resource /\ e.type \in Status
    BY DEF GInv, TablesAgree
  <2>3. PICK a \in Answers : Respond(q, a) /\ Stored(q[1], a)
    BY <1>2, <2>1, <2>2, PaymentAnswers DEF Stored
  <2>4. QED
    BY <1>1, <2>3, RespondKeepsInv
<1>6. CASE Decline(q)
  <2>1. PICK a \in {OwnershipLost} \cup {Error(code) : code \in {404, 409, 500}} : Respond(q, a)
    BY <1>6 DEF Decline
  <2>2. CASE a = OwnershipLost
    BY <1>1, <2>1, <2>2, OwnershipLostIsAnswer, RespondKeepsInv
  <2>3. CASE a # OwnershipLost
    <3>1. PICK code \in {404, 409, 500} : a = Error(code)
      BY <2>1, <2>3
    <3>2. a \in Answers
      BY <3>1, ErrorIsAnswer
    <3>3. \E x \in {401, 404, 409, 500} : a = Error(x)
      BY <3>1
    <3>4. QED
      BY <1>1, <2>1, <3>2, <3>3, RespondKeepsInv
  <2>4. QED
    BY <2>2, <2>3
<1>7. QED
  BY <1>3, <1>4, <1>5, <1>6

\* Execute: the operation, its event and its key appear with the answer, which tells
\* what was stored or is one of those that say nothing.
LEMMA ExecuteKeepsInv ==
    ASSUME GInv, NEW q \in Sent, Execute(q)
    PROVE  GInv'
<1> DEFINE c == q[1]
<1>1. /\ request[q].at = "sent" /\ IsWrite(c) /\ c \in Call
      /\ UNCHANGED <<trusted, call, at, attempt, answer>>
  BY SentPairs DEF Execute, Admit
<1>2. PICK p \in Resource :
        /\ \/ call[c].op = "create" /\ Ledger!Create(q, p, Scope(c))
           \/ /\ call[c].op = "capture" /\ p = call[c].payment
              /\ Ledger!Capture(q, p, Scope(c))
        /\ \/ Respond(q, [code |-> OkCode(c), body |-> Body(p, payments'[p])])
           \/ \E a \in {Error(500), OwnershipLost} : Respond(q, a)
  BY DEF Execute
<1>3. PICK status \in Status : Ledger!Record(q, p, Scope(c), status)
  BY <1>2 DEF Ledger!Create, Ledger!Capture, Status
<1> DEFINE event == [id |-> q, payment |-> p, type |-> status]
           row   == [key |-> Scope(c), by |-> q, payment |-> p]
<1>4. /\ \A done \in completed : done.key # Scope(c)
      /\ \A e \in outbox : e.id # q
      /\ payments' = [payments EXCEPT ![p] = status]
      /\ outbox' = outbox \cup {event} /\ completed' = completed \cup {row}
  BY <1>3 DEF Ledger!Record, Ledger!KeyIsFree
<1>5. /\ payments' \in [Resource -> Status \cup {"CREATED"}] /\ payments'[p] = status
  BY <1>4 DEF GInv, GatewayTypeOK
<1>6. /\ event.id = q /\ event.type = status
      /\ event \in [id : Sent, payment : Resource, type : Status]
      /\ row.key = Scope(c) /\ row.by = q /\ row.payment = p
  OBVIOUS
<1> HIDE DEF event, row
<1>7. PICK a \in Answers :
        /\ Respond(q, a)
        /\ \/ a = [code |-> OkCode(c), body |-> Body(p, status)]
           \/ a = OwnershipLost
           \/ a = Error(500)
  BY <1>1, <1>2, <1>5, ErrorIsAnswer, OwnershipLostIsAnswer, PaymentAnswers
<1>8. /\ request'[q].at = "answered" /\ request'[q].answer = a
      /\ \A s \in Sent : s # q => request'[s] = request[s]
      /\ GatewayTypeOK' /\ HopsAreOrdered' /\ AnswersAreRelayed'
  BY <1>1, <1>5, <1>7, RespondFrame
<1>9. TablesAgree'
  BY <1>4, <1>6 DEF GInv, TablesAgree
<1>10. WritesAreAnswered'
  <2>1. UNCHANGED call /\ WritesAreAnswered
    BY <1>1 DEF GInv
  <2>2. ASSUME NEW s \in Sent, NEW b, b = request'[s].answer, Stored(s[1], b)
        PROVE  Stored(s[1], request[s].answer)'
    BY <1>4, <2>1, <2>2 DEF Stored, Scope, OkCode
  <2>3. ASSUME a = [code |-> OkCode(c), body |-> Body(p, status)]
        PROVE  Stored(q[1], request[q].answer)'
    <3>1. event \in outbox' /\ row \in completed'
      BY <1>4
    <3>2. Scope(c)' = Scope(c) /\ OkCode(c)' = OkCode(c)
      BY <2>1 DEF Scope, OkCode
    <3>3. \E done \in completed', e \in outbox' :
             /\ done.key = Scope(c)' /\ e.id = done.by
             /\ request'[q].answer = [code |-> OkCode(c)', body |-> Body(done.payment, e.type)]
      BY <1>6, <1>8, <2>3, <3>1, <3>2
    <3>4. QED
      BY <3>3 DEF Stored
  <2>4. ASSUME NEW s \in Sent, IsWrite(s[1])', request'[s].at = "answered"
        PROVE  \/ Stored(s[1], request[s].answer)'
               \/ request'[s].answer = OwnershipLost
               \/ \E code \in {401, 404, 409, 500} : request'[s].answer = Error(code)
    <3>1. CASE s = q
      BY <1>7, <1>8, <2>3, <3>1
    <3>2. CASE s # q
      <4>1. request'[s] = request[s] /\ IsWrite(s[1])
        BY <1>8, <2>1, <2>4, <3>2 DEF IsWrite
      <4>2. \/ Stored(s[1], request[s].answer)
            \/ request[s].answer = OwnershipLost
            \/ \E code \in {401, 404, 409, 500} : request[s].answer = Error(code)
        BY <2>1, <2>4, <4>1 DEF WritesAreAnswered
      <4>3. QED
        BY <2>2, <4>1, <4>2
    <3>3. QED
      BY <3>1, <3>2
  <2>5. a.code \in {200, 201, 500} \/ a = OwnershipLost
    BY <1>1, <1>7, ErrorIsAnswer DEF OkCode
  <2>6. ASSUME NEW e \in outbox'
        PROVE  /\ IsWrite(e.id[1])' /\ request'[e.id].at = "answered"
               /\ \/ request'[e.id].answer.code \in {200, 201, 500}
                  \/ request'[e.id].answer = OwnershipLost
    <3>1. CASE e = event
      BY <1>1, <1>6, <1>8, <2>1, <2>5, <3>1 DEF IsWrite
    <3>2. CASE e \in outbox
      <4>1. e.id \in Sent /\ e.id # q
        BY <1>4, <3>2 DEF GInv, TablesAgree
      <4>2. QED
        BY <1>8, <2>1, <3>2, <4>1 DEF WritesAreAnswered, IsWrite
    <3>3. QED
      BY <1>4, <3>1, <3>2
  <2>7. QED
    BY <2>4, <2>6 DEF WritesAreAnswered
<1>11. QED
  BY <1>8, <1>9, <1>10 DEF GInv

\* The invariant is inductive.
LEMMA GatewayNextKeepsInv == GInv /\ [GatewayNext]_gatewayVars => GInv'
<1> SUFFICES ASSUME GInv, [GatewayNext]_gatewayVars PROVE GInv'
  OBVIOUS
<1>1. ASSUME NEW c \in Call, Arrive(c) PROVE GInv'
  BY <1>1, ArriveKeepsInv
<1>2. ASSUME NEW c \in Call, GatewayStep(c) PROVE GInv'
  <2>1. CASE Forward(c)
    <3>1. at[c] = "arrived" /\ attempt[c] = 0 /\ SendAttempt(c, 1)
          /\ UNCHANGED <<ledgerTables, trusted, call, answer>>
      BY <2>1 DEF Forward, GInv, HopsAreOrdered
    <3>2. PICK n \in Attempt : n = 1 /\ SendAttempt(c, n)
      BY <3>1 DEF Attempt
    <3>3. attempt[c] = n - 1
      BY <3>1, <3>2
    <3>4. QED
      BY <3>1, <3>2, <3>3, SendKeepsInv
  <2>2. CASE NoResponse(c) /\ CanRetry(c)
    <3>1. at[c] = "sending" /\ SendAttempt(c, 2) /\ ~IsWrite(c) /\ attempt[c] < 2
          /\ UNCHANGED <<ledgerTables, trusted, call, answer>>
      BY <2>2 DEF NoResponse, CanRetry
    <3>2. attempt[c] = 1
      <4>1. attempt[c] \in 0 .. 2
        BY DEF GInv, GatewayTypeOK
      <4>2. attempt[c] > 0
        BY <3>1 DEF GInv, HopsAreOrdered
      <4>3. QED
        BY <3>1, <4>1, <4>2
    <3>3. PICK n \in Attempt : n = 2 /\ SendAttempt(c, n)
      BY <3>1 DEF Attempt
    <3>4. attempt[c] = n - 1
      BY <3>2, <3>3
    <3>5. QED
      BY <3>1, <3>3, <3>4, SendKeepsInv
  <2>3. QED
    BY <1>2, <2>1, <2>2, GatewayStepInv DEF GatewayStep
<1>3. ASSUME NEW q \in Sent, ServiceStep(q) PROVE GInv'
  BY <1>3, TableFreeStepInv, ExecuteKeepsInv DEF ServiceStep
<1>4. CASE UNCHANGED gatewayVars
  <2>1. UNCHANGED <<payments, outbox, completed, trusted, call, at, attempt, request, answer>>
    BY <1>4 DEF gatewayVars, ledgerTables
  <2>2. GatewayTypeOK' /\ HopsAreOrdered' /\ TablesAgree'
    BY <2>1 DEF GInv, GatewayTypeOK, HopsAreOrdered, TablesAgree, IsWrite
  <2>3. WritesAreAnswered'
    <3>1. /\ \A q \in Sent : IsWrite(q[1])' <=> IsWrite(q[1])
          /\ \A e \in outbox : IsWrite(e.id[1])' <=> IsWrite(e.id[1])
      BY <2>1 DEF IsWrite
    <3>2. \A q \in Sent : Stored(q[1], request[q].answer)' <=> Stored(q[1], request[q].answer)
      BY <2>1 DEF Stored, Scope, OkCode
    <3>3. WritesAreAnswered
      BY DEF GInv
    <3>4. QED
      BY <2>1, <3>1, <3>2, <3>3 DEF WritesAreAnswered
  <2>4. AnswersAreRelayed'
    <3>1. \A c \in Call : MayAnswer(c, answer[c])' <=> MayAnswer(c, answer[c])
      BY <2>1 DEF MayAnswer, Answered
    <3>2. QED
      BY <2>1, <3>1 DEF GInv, AnswersAreRelayed
  <2>5. QED
    BY <2>2, <2>3, <2>4 DEF GInv
<1>5. QED
  BY <1>1, <1>2, <1>3, <1>4 DEF GatewayNext

\* Calls, tables and answers of a gateway in front of a payment service that goes on
\* working: the inductive invariant.
THEOREM GatewayInvHolds == GatewaySpec => []GInv
BY GatewayInitInv, GatewayNextKeepsInv, PTL DEF GatewaySpec

-----------------------------------------------------------------------------
(* What follows from it *)

\* Types: attempts, requests and answers are what they should be, and a write has
\* one attempt.
THEOREM GatewayTypeCorrect == GatewaySpec => []GatewayTypeOK
<1>1. GInv => GatewayTypeOK
  BY DEF GInv
<1>2. QED
  BY <1>1, GatewayInvHolds, PTL

\* The event of a call is that of its only attempt.
LEMMA EffectsAreAttempts ==
    ASSUME GInv, NEW c \in Call, NEW e \in EffectOf(c)
    PROVE  /\ e.id = <<c, attempt[c]>> /\ attempt[c] > 0 /\ e \in outbox /\ IsWrite(c)
<1>1. e \in outbox /\ e.id[1] = c /\ e.id \in Sent
  BY DEF EffectOf, GInv, TablesAgree
<1>2. IsWrite(c) /\ request[e.id].at = "answered"
  BY <1>1 DEF GInv, WritesAreAnswered
<1>3. PICK n \in Attempt : e.id = <<c, n>>
  BY <1>1, SentPairs
<1>4. n <= attempt[c]
  BY <1>2, <1>3 DEF GInv, HopsAreOrdered
<1>5. attempt[c] \in 0 .. 2 /\ attempt[c] < 2 /\ n \in 1 .. 2
  BY <1>2 DEF GInv, GatewayTypeOK, Attempt
<1>6. n = attempt[c] /\ attempt[c] > 0
  BY <1>4, <1>5
<1>7. QED
  BY <1>1, <1>2, <1>3, <1>6

\* An error that blames the request means that the call has no effect and gets none,
\* although the payment service goes on after the client has given up.
THEOREM RefusalsHaveNoEffect == GatewaySpec => []RefusalHasNoEffect
<1>1. ASSUME GInv, NEW c \in Call, NEW e \in EffectOf(c)
      PROVE  answer[c].code \notin {400, 401, 404} /\ answer[c] # Error(409)
  <2>1. /\ e.id = <<c, attempt[c]>> /\ attempt[c] > 0 /\ e \in outbox
    BY <1>1, EffectsAreAttempts
  <2>2. Answered(c).code \in {200, 201, 500} \/ Answered(c) = OwnershipLost
    BY <1>1, <2>1 DEF GInv, WritesAreAnswered, Answered
  <2>3. CASE at[c] # "answered"
    <3>1. answer[c] = NoAnswerYet
      BY <1>1, <2>3 DEF GInv, HopsAreOrdered
    <3>2. answer[c].code = 0 /\ Error(409).code = 409
      BY <3>1, ErrorIsAnswer DEF NoAnswerYet
    <3>3. QED
      BY <3>2
  <2>4. CASE MayAnswer(c, answer[c])
    <3>1. (\E code \in {502, 504} : answer[c] = Error(code)) \/ Relays(Answered(c), answer[c])
      BY <2>1, <2>4, <1>1 DEF MayAnswer, GInv, GatewayTypeOK
    <3>2. Error(409).code = 409
      BY ErrorIsAnswer
    <3>3. CASE \E code \in {502, 504} : answer[c] = Error(code)
      <4>1. answer[c].code \in {502, 504}
        BY <3>3, ErrorIsAnswer
      <4>2. QED
        BY <3>2, <4>1
    <3>4. CASE Relays(Answered(c), answer[c])
      <4>1. answer[c].code = Answered(c).code
        BY <3>4 DEF Relays
      <4>2. CASE Answered(c).code \in {200, 201, 500}
        BY <3>2, <4>1, <4>2
      <4>3. CASE Answered(c) = OwnershipLost
        <5>1. answer[c].code = 409
          BY <4>1, <4>3, OwnershipLostIsAnswer
        <5>2. answer[c].body \in {OwnershipLost.body, Body(None, "null"), Body(None, "unread")}
          BY <3>4, <4>3 DEF Relays
        <5>3. Error(409).body \notin {OwnershipLost.body, Body(None, "null"), Body(None, "unread")}
          BY DEF Error, OwnershipLost, Body
        <5>4. QED
          BY <5>1, <5>2, <5>3
      <4>4. QED
        BY <2>2, <4>2, <4>3
    <3>5. QED
      BY <3>1, <3>3, <3>4
  <2>5. QED
    BY <1>1, <2>3, <2>4 DEF GInv, AnswersAreRelayed
<1>2. GInv => RefusalHasNoEffect
  BY <1>1 DEF RefusalHasNoEffect, EffectOf
<1>3. QED
  BY <1>2, GatewayInvHolds, PTL

\* A success, or a payment in an answer to a write, was relayed.
LEMMA SuccessIsRelayed ==
    ASSUME GInv, NEW c \in Call, IsOk(answer[c].code) \/ IsPayment(answer[c].body)
    PROVE  Relays(Answered(c), answer[c]) /\ request[<<c, attempt[c]>>].at = "answered"
           /\ <<c, attempt[c]>> \in Sent
<1>1. at[c] = "answered"
  <2>1. ~IsOk(NoAnswerYet.code) /\ ~IsPayment(NoAnswerYet.body)
    BY DEF NoAnswerYet, IsOk, IsPayment, Body
  <2>2. QED
    BY <2>1 DEF GInv, HopsAreOrdered
<1>2. MayAnswer(c, answer[c])
  BY <1>1 DEF GInv, AnswersAreRelayed
<1>3. ASSUME NEW code \in {400, 401, 500, 502, 504}, answer[c] = Error(code)
      PROVE  FALSE
  BY <1>3, ErrorIsAnswer DEF IsOk
<1>4. /\ attempt[c] > 0 /\ request[<<c, attempt[c]>>].at = "answered"
      /\ Relays(Answered(c), answer[c])
  BY <1>2, <1>3 DEF MayAnswer
<1>5. attempt[c] \in Attempt
  BY <1>4 DEF GInv, GatewayTypeOK, Attempt
<1>6. QED
  BY <1>4, <1>5, SentPairs

\* Of a write, it is what the key stores.
LEMMA SuccessIsStored ==
    ASSUME GInv, NEW c \in Call, IsWrite(c), IsOk(answer[c].code) \/ IsPayment(answer[c].body)
    PROVE  /\ Stored(c, Answered(c)) /\ answer[c].code = Answered(c).code
           /\ IsPayment(answer[c].body) => answer[c].body = Answered(c).body
<1>1. /\ Relays(Answered(c), answer[c]) /\ request[<<c, attempt[c]>>].at = "answered"
      /\ <<c, attempt[c]>> \in Sent
  BY SuccessIsRelayed
<1>2. ~IsPayment(Body(None, "null")) /\ ~IsPayment(Body(None, "unread"))
  BY DEF IsPayment, Body
<1>3. /\ answer[c].code = Answered(c).code
      /\ IsPayment(answer[c].body) => answer[c].body = Answered(c).body
  BY <1>1, <1>2 DEF Relays
<1>4. \/ Stored(c, Answered(c)) \/ Answered(c) = OwnershipLost
      \/ \E code \in {401, 404, 409, 500} : Answered(c) = Error(code)
  <2>1. \A q \in Sent : q = <<c, attempt[c]>> => q[1] = c
    OBVIOUS
  <2>2. PICK q \in Sent : q = <<c, attempt[c]>> /\ q[1] = c
    BY <1>1, <2>1
  <2>3. QED
    BY <1>1, <2>2 DEF GInv, WritesAreAnswered, Answered
<1>5. Answered(c) # OwnershipLost
  BY <1>3, OwnershipLostIsAnswer DEF IsOk
<1>6. ASSUME NEW code \in {401, 404, 409, 500}, Answered(c) = Error(code)
      PROVE  FALSE
  BY <1>3, <1>6, ErrorIsAnswer DEF IsOk
<1>7. QED
  BY <1>3, <1>4, <1>5, <1>6

\* Keys of create and capture are apart.
LEMMA ScopesTellOperations ==
    ASSUME GInv, NEW c \in Call, NEW d \in Call, IsWrite(c), IsWrite(d), Scope(c) = Scope(d)
    PROVE  OkCode(c) = OkCode(d)
<1>1. call[c] \in Calls /\ call[d] \in Calls
  BY DEF GInv, GatewayTypeOK, IsWrite, NoCall
<1>2. call[c].payment \in Resource /\ call[d].payment \in Resource
  BY <1>1 DEF Calls
<1>3. (IF call[c].op = "create" THEN None ELSE call[c].payment)
        = (IF call[d].op = "create" THEN None ELSE call[d].payment)
  BY DEF Scope
<1>4. call[c].op = "create" <=> call[d].op = "create"
  BY <1>2, <1>3, NoneAssumption
<1>5. QED
  BY <1>4 DEF OkCode

\* However often a call is repeated, whatever is lost on the way and whatever happens
\* to the payment later: success was stored, and payments in answers agree.
THEOREM ClientsAreToldTheSame == GatewaySpec => []AnswersAgree
<1>1. ASSUME GInv, NEW c \in Call, IsWrite(c), IsOk(answer[c].code)
      PROVE  \E done \in completed : done.key = Scope(c)
  BY <1>1, SuccessIsStored DEF Stored
<1>2. ASSUME GInv, NEW c \in Call, NEW d \in Call, IsWrite(c), IsWrite(d),
             Scope(c) = Scope(d), IsPayment(answer[c].body), IsPayment(answer[d].body)
      PROVE  answer[c] = answer[d]
  <2>1. /\ Stored(c, Answered(c)) /\ answer[c].code = Answered(c).code
        /\ answer[c].body = Answered(c).body
        /\ Stored(d, Answered(d)) /\ answer[d].code = Answered(d).code
        /\ answer[d].body = Answered(d).body
    BY <1>2, SuccessIsStored
  <2>2. OkCode(c) = OkCode(d)
    BY <1>2, ScopesTellOperations
  <2>3. PICK done \in completed, e \in outbox :
           /\ done.key = Scope(c) /\ e.id = done.by
           /\ Answered(c) = [code |-> OkCode(c), body |-> Body(done.payment, e.type)]
    BY <2>1 DEF Stored
  <2>4. PICK done2 \in completed, e2 \in outbox :
           /\ done2.key = Scope(d) /\ e2.id = done2.by
           /\ Answered(d) = [code |-> OkCode(d), body |-> Body(done2.payment, e2.type)]
    BY <2>1 DEF Stored
  <2>5. done = done2
    BY <1>2, <2>3, <2>4 DEF GInv, TablesAgree
  <2>6. e = e2
    BY <1>2, <2>3, <2>4, <2>5 DEF GInv, TablesAgree
  <2>7. answer[c].code = answer[d].code /\ answer[c].body = answer[d].body
    BY <2>1, <2>2, <2>3, <2>4, <2>5, <2>6
  <2>8. answer[c] \in Answers /\ answer[d] \in Answers
    <3>1. ~IsPayment(NoAnswerYet.body)
      BY DEF NoAnswerYet, IsPayment, Body
    <3>2. QED
      BY <1>2, <3>1 DEF GInv, GatewayTypeOK
  <2>9. QED
    BY <2>7, <2>8, AnswerIsItsParts
<1>3. GInv => AnswersAgree
  BY <1>1, <1>2 DEF AnswersAgree
<1>4. QED
  BY <1>3, GatewayInvHolds, PTL

=============================================================================
