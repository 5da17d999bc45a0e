------------------------------ MODULE MCPayments ------------------------------
(* Payments on small instances. *)
EXTENDS Payments, TLC

\* The keys that the requests of the instance can carry.
MCKey == CreateKey \cup (Resource \X CaptureKey)

CreateSymmetry  == Permutations(CreateRequest)
CaptureSymmetry == Permutations(CaptureRequest) \cup Permutations(CaptureKey)

\* A state that PaymentsSpec reaches: every create request was answered with an
\* authorized payment of its own, long ago, and no capture has arrived.
AuthorizedInit ==
    /\ req \in [Request -> [key : Key, hash : Hash, resource : Resource]]
    /\ \A r \in CreateRequest : req[r].key \in CreateKey /\ req[r].resource = r
    /\ \A r1, r2 \in CreateRequest : req[r1].key = req[r2].key => r1 = r2
    /\ \A r \in CaptureRequest : \E k \in CaptureKey : req[r].key = <<req[r].resource, k>>
    /\ \A r1, r2 \in CaptureRequest :
          req[r1].resource = req[r2].resource => req[r1].hash = req[r2].hash
    /\ rows = [k \in Key |->
                 IF \E r \in CreateRequest : req[r].key = k
                 THEN LET r == CHOOSE r \in CreateRequest : req[r].key = k IN
                      [status |-> "COMPLETED", hash |-> req[r].hash, resource |-> r,
                       token |-> r, expires |-> Past, response |-> r]
                 ELSE NoRow]
    /\ pc = [r \in Request |-> IF r \in CreateRequest THEN "done" ELSE "idle"]
    /\ lease = [r \in Request |-> Past]
    /\ owned = [r \in Request |-> IF r \in CreateRequest
                                  THEN [token |-> r, resource |-> r]
                                  ELSE [token |-> None, resource |-> None]]
    /\ answer = [r \in Request |-> IF r \in CreateRequest
                                   THEN [kind |-> "response", response |-> r]
                                   ELSE NoAnswer]
    /\ payments = [p \in Resource |-> [status |-> "AUTHORIZED", reference |-> TRUE]]
    /\ outbox = {[id |-> p, payment |-> p, type |-> "AUTHORIZED"] : p \in Resource}
    /\ locks = [p \in Resource |-> None]
    /\ work = [r \in Request |-> IF r \in CreateRequest THEN "over" ELSE "start"]
    /\ draft = [r \in Request |-> IF r \in CreateRequest
                                  THEN [status |-> "AUTHORIZED", reference |-> TRUE]
                                  ELSE NoPayment]
    /\ authorizations = [p \in Resource |-> {p}]
    /\ captures = [p \in Resource |-> {}]

AuthorizedFairSpec == AuthorizedInit /\ [][PaymentsNext]_vars /\ PaymentsFairness

=============================================================================
