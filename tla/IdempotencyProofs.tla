-------------------------- MODULE IdempotencyProofs --------------------------
(***************************************************************************)
(* Theorems about the idempotency protocol, for any number of requests,    *)
(* keys, payloads and resources, any lease and any clock skew, and about   *)
(* the hashes it compares, for all JSON values.                            *)
(***************************************************************************)
EXTENDS RequestHash, FiniteSetTheorems, TLAPS

USE NoneAssumption, LeaseAssumption, SkewAssumption

-----------------------------------------------------------------------------
(* Type correctness *)

\* A clock tick keeps an expiry within its range.
LEMMA EarlierType ==
    ASSUME NEW t \in Expiry
    PROVE  Earlier(t) \in Expiry
BY DEF Expiry, Earlier, Past

\* A new lease is in range whatever the skew of the clock it is read from.
LEMMA BuildExpiryType ==
    ASSUME NEW now \in AppClock
    PROVE  now + Lease \in Expiry
BY DEF Expiry, AppClock, Past

\* Past, the expiry of a row that was never written, is in range.
LEMMA PastType == Past \in Expiry
BY DEF Expiry, Past

\* An absent row is a row.
LEMMA NoRowType == NoRow \in Row
BY PastType DEF NoRow, Row

\* The variables have their types initially.
LEMMA InitType == Init => TypeOK
BY NoRowType, PastType
   DEF Init, TypeOK, Location, Answer, NoAnswer

\* A request's key has a row, absent or not.
LEMMA RowOfType ==
    ASSUME TypeOK, NEW r \in Request
    PROVE  /\ req[r].key \in Key
           /\ req[r].hash \in Hash
           /\ req[r].resource \in Resource
           /\ RowOf(r) \in Row
BY DEF TypeOK, RowOf

\* A row that is acquired stays a row.
LEMMA AcquiredType ==
    ASSUME TypeOK, NEW r \in Request, NEW row \in Row
    PROVE  Acquired(row, r) \in Row
<1>1. lease[r] \in Expiry
  BY DEF TypeOK
<1>2. QED
  BY <1>1 DEF Acquired, Row

\* What an acquiring statement stores is a row.
LEMMA AcquiredRowType ==
    ASSUME TypeOK, NEW r \in Request
    PROVE  AcquiredRow(r) \in Row
<1>1. [NoRow EXCEPT !.hash = req[r].hash, !.resource = req[r].resource] \in Row
  BY NoRowType, RowOfType DEF Row
<1>2. QED
  BY <1>1, RowOfType, AcquiredType DEF AcquiredRow

\* A row that is completed by an owner stays a row.
LEMMA CompletedType ==
    ASSUME TypeOK, NEW r \in Request
    PROVE  Completed(RowOf(r), r) \in Row
<1>1. owned[r].resource \in Resource \cup {None}
  BY DEF TypeOK
<1>2. RowOf(r) \in Row
  BY RowOfType
<1>3. QED
  BY <1>1, <1>2 DEF Completed, Row

\* Ending a handler with a message keeps the types of pc and answer.
LEMMA ReplyType ==
    ASSUME TypeOK, NEW r \in Request, NEW m \in Answer, Reply(r, m)
    PROVE  pc' \in [Request -> Location] /\ answer' \in [Request -> Answer]
BY DEF TypeOK, Reply, GoTo, Location

\* Moving a handler keeps the type of pc.
LEMMA GoToType ==
    ASSUME TypeOK, NEW r \in Request, NEW l \in Location, GoTo(r, l)
    PROVE  pc' \in [Request -> Location]
BY DEF TypeOK, GoTo

\* Computing a new lease keeps the type of lease.
LEMMA BuildExpiryKeepsType ==
    ASSUME TypeOK, NEW r \in Request, BuildExpiry(r)
    PROVE  lease' \in [Request -> Expiry]
BY BuildExpiryType DEF TypeOK, BuildExpiry

\* What a client can be told is an answer.
LEMMA MessageType ==
    /\ \A kind \in {"keyReused", "inProgress", "ownershipLost", "error"} :
          Says(kind) \in Answer
    /\ \A p \in Request \cup {None} : [kind |-> "response", response |-> p] \in Answer
    /\ NoAnswer \in Answer
BY DEF Says, Answer, NoAnswer

\* The places a step moves a handler to are locations.
LEMMA LocationType ==
    /\ "find" \in Location /\ "insert" \in Location /\ "findAgain" \in Location
    /\ "reactivate" \in Location /\ "takeover" \in Location /\ "owner" \in Location
    /\ "failing" \in Location /\ "crashed" \in Location
BY DEF Location

\* decideFromExisting keeps the types.
LEMMA DecideType ==
    ASSUME TypeOK, NEW r \in Request, NEW row \in Row, DecideFromExisting(r, row)
    PROVE  /\ pc' \in [Request -> Location]
           /\ lease' \in [Request -> Expiry]
           /\ answer' \in [Request -> Answer]
<1>1. row.response \in Request \cup {None}
  BY DEF Row
<1>2. CASE Reply(r, Says("keyReused")) /\ UNCHANGED lease
  BY <1>2, MessageType, ReplyType DEF TypeOK
<1>3. CASE Reply(r, [kind |-> "response", response |-> row.response]) /\ UNCHANGED lease
  BY <1>1, <1>3, MessageType, ReplyType DEF TypeOK
<1>4. CASE GoTo(r, "reactivate") /\ BuildExpiry(r) /\ UNCHANGED answer
  BY <1>4, LocationType, GoToType, BuildExpiryKeepsType DEF TypeOK
<1>5. CASE GoTo(r, "takeover") /\ BuildExpiry(r) /\ UNCHANGED answer
  BY <1>5, LocationType, GoToType, BuildExpiryKeepsType DEF TypeOK
<1>6. CASE Reply(r, Says("inProgress")) /\ UNCHANGED lease
  BY <1>6, MessageType, ReplyType DEF TypeOK
<1>7. QED
  BY <1>2, <1>3, <1>4, <1>5, <1>6 DEF DecideFromExisting

\* Every step of the protocol keeps the types.
LEMMA NextType == TypeOK /\ [Next]_idemVars => TypeOK'
<1> SUFFICES ASSUME TypeOK, [Next]_idemVars PROVE TypeOK'
  OBVIOUS
<1>1. ASSUME NEW r \in Request, Receive(r) PROVE TypeOK'
  BY <1>1, LocationType, GoToType DEF Receive, TypeOK
<1>2. ASSUME NEW r \in Request, Find(r) PROVE TypeOK'
  <2>1. CASE DecideFromExisting(r, RowOf(r))
    BY <1>2, <2>1, RowOfType, DecideType DEF Find, TypeOK
  <2>2. CASE GoTo(r, "insert") /\ BuildExpiry(r) /\ UNCHANGED answer
    BY <1>2, <2>2, LocationType, GoToType, BuildExpiryKeepsType DEF Find, TypeOK
  <2>3. QED
    BY <1>2, <2>1, <2>2 DEF Find
<1>3. ASSUME NEW r \in Request, FindAgain(r) PROVE TypeOK'
  <2>1. CASE DecideFromExisting(r, RowOf(r))
    BY <1>3, <2>1, RowOfType, DecideType DEF FindAgain, TypeOK
  <2>2. CASE Reply(r, Says("error")) /\ UNCHANGED lease
    BY <1>3, <2>2, MessageType, ReplyType DEF FindAgain, TypeOK
  <2>3. QED
    BY <1>3, <2>1, <2>2 DEF FindAgain
<1>4. ASSUME NEW r \in Request,
             rows' = [rows EXCEPT ![req[r].key] = AcquiredRow(r)]
      PROVE  rows' \in [Key -> Row]
  BY <1>4, AcquiredRowType, RowOfType DEF TypeOK
<1>5. ASSUME NEW r \in Request, Acquire(r) PROVE TypeOK'
  <2>1. [token |-> AcquiredRow(r).token, resource |-> AcquiredRow(r).resource]
          \in [token : Request \cup {None}, resource : Resource \cup {None}]
    BY AcquiredRowType DEF Row
  <2>2. owned' \in [Request -> [token : Request \cup {None},
                                resource : Resource \cup {None}]]
    BY <1>5, <2>1 DEF Acquire, TypeOK
  <2>3. QED
    BY <1>4, <1>5, <2>2, LocationType, GoToType DEF Acquire, TypeOK
<1>6. ASSUME NEW r \in Request, Miss(r) PROVE TypeOK'
  <2>1. CASE GoTo(r, "findAgain") /\ UNCHANGED answer
    BY <1>6, <2>1, LocationType, GoToType DEF Miss, TypeOK
  <2>2. CASE Reply(r, Says("inProgress"))
    BY <1>6, <2>2, MessageType, ReplyType DEF Miss, TypeOK
  <2>3. QED
    BY <1>6, <2>1, <2>2 DEF Miss
<1>7. ASSUME NEW r \in Request, StartFails(r) PROVE TypeOK'
  BY <1>7, MessageType, ReplyType DEF StartFails, TypeOK
<1>8. ASSUME NEW r \in Request, AcquireUnacknowledged(r) PROVE TypeOK'
  BY <1>4, <1>8, MessageType, ReplyType DEF AcquireUnacknowledged, TypeOK
<1>9. ASSUME NEW r \in Request,
             rows' = [rows EXCEPT ![req[r].key] = Completed(@, r)]
      PROVE  rows' \in [Key -> Row]
  BY <1>9, CompletedType, RowOfType DEF TypeOK, RowOf
<1>10. ASSUME NEW r \in Request, Commit(r) PROVE TypeOK'
  BY <1>9, <1>10, MessageType, ReplyType DEF Commit, TypeOK
<1>11. ASSUME NEW r \in Request, CommitUnacknowledged(r) PROVE TypeOK'
  BY <1>9, <1>11, LocationType, GoToType DEF CommitUnacknowledged, TypeOK
<1>12. ASSUME NEW r \in Request, CompletionRefused(r) PROVE TypeOK'
  BY <1>12, LocationType, GoToType DEF CompletionRefused, TypeOK
<1>13. ASSUME NEW r \in Request, WorkFails(r) PROVE TypeOK'
  BY <1>13, LocationType, GoToType DEF WorkFails, TypeOK
<1>14. ASSUME NEW r \in Request, MarkFailed(r) PROVE TypeOK'
  <2>1. CASE /\ rows' = [rows EXCEPT ![req[r].key].status = "FAILED"]
             /\ Reply(r, Says("error"))
    <3>1. [RowOf(r) EXCEPT !.status = "FAILED"] \in Row
      BY RowOfType DEF Row
    <3>2. rows' \in [Key -> Row]
      BY <2>1, <3>1, RowOfType DEF TypeOK, RowOf
    <3>3. QED
      BY <1>14, <2>1, <3>2, MessageType, ReplyType DEF MarkFailed, TypeOK
  <2>2. CASE Reply(r, Says("ownershipLost")) /\ UNCHANGED rows
    BY <1>14, <2>2, MessageType, ReplyType DEF MarkFailed, TypeOK
  <2>3. QED
    BY <1>14, <2>1, <2>2 DEF MarkFailed
<1>15. ASSUME NEW r \in Request, MarkFailedThrows(r) PROVE TypeOK'
  BY <1>15, MessageType, ReplyType DEF MarkFailedThrows, TypeOK
<1>16. ASSUME NEW r \in Request, Crash(r) PROVE TypeOK'
  BY <1>16, LocationType, GoToType DEF Crash, TypeOK
<1>17. ASSUME NEW r \in Request, Retry(r) PROVE TypeOK'
  BY <1>17, LocationType, MessageType, GoToType DEF Retry, TypeOK
<1>18. CASE Tick
  <2>1. ASSUME NEW k \in Key PROVE [rows[k] EXCEPT !.expires = Earlier(@)] \in Row
    <3>1. rows[k] \in Row
      BY DEF TypeOK
    <3>2. Earlier(rows[k].expires) \in Expiry
      BY <3>1, EarlierType DEF Row
    <3>3. QED
      BY <3>1, <3>2 DEF Row
  <2>2. QED
    BY <1>18, <2>1, EarlierType DEF Tick, TypeOK
<1>19. CASE UNCHANGED idemVars
  BY <1>19 DEF idemVars, TypeOK
<1>20. QED
  BY <1>1, <1>2, <1>3, <1>5, <1>6, <1>7, <1>8, <1>10, <1>11, <1>12, <1>13,
     <1>14, <1>15, <1>16, <1>17, <1>18, <1>19
     DEF Next, Start, Finish, Fault

\* The variables keep their types in every behaviour of the protocol.
THEOREM TypeCorrect == Spec => []TypeOK
<1>1. QED
  BY InitType, NextType, PTL DEF Spec

-----------------------------------------------------------------------------
(* The inductive invariant *)

\* The invariant holds initially.
LEMMA InitInv == Init => IInv
<1> SUFFICES ASSUME Init PROVE IInv
  OBVIOUS
<1>1. TypeOK
  BY InitType
<1>2. TokensAreFresh
  BY DEF Init, TokensAreFresh, Owns, Starting, NoRow
<1>3. RowsMatchOwners
  BY DEF Init, RowsMatchOwners, NoRow
<1>4. OwnersMatchRows
  BY DEF Init, OwnersMatchRows
<1>5. AnswersMatchRows
  BY DEF Init, AnswersMatchRows, NoAnswer
<1>6. LeaseHonoured
  BY DEF Init, LeaseHonoured, Owns
<1>7. OwnershipLostIsTrue
  BY DEF Init, OwnershipLostIsTrue, NoAnswer
<1>8. QED
  BY <1>1, <1>2, <1>3, <1>4, <1>5, <1>6, <1>7 DEF IInv

\* A step of one request that writes no row and gains no ownership keeps the
\* invariant if what it answers is true.
LEMMA QuietStep ==
    ASSUME IInv, TypeOK', NEW r \in Request, NEW l \in Location, NEW m \in Answer,
           NEW e \in Expiry,
           UNCHANGED <<rows, req, owned>>,
           pc' = [pc EXCEPT ![r] = l],
           answer' = [answer EXCEPT ![r] = m],
           lease' = [lease EXCEPT ![r] = e],
           e = lease[r] \/ (Starting(r) /\ pc[r] # "done"),
           l \in {"owner", "failing"} => Owns(r),
           l \in {"idle", "find", "insert", "findAgain", "reactivate", "takeover"}
              \/ m.kind = "inProgress" => Starting(r),
           l = "findAgain" => RowOf(r).status # "ABSENT",
           l # "done" => m.kind = "none",
           m.kind = "response" => /\ RowOf(r).status = "COMPLETED"
                                  /\ RowOf(r).response = m.response
                                  /\ RowOf(r).hash = req[r].hash,
           m.kind = "ownershipLost" =>
              \/ lease'[r] < 0 /\ RowOf(r).token # r
              \/ RowOf(r).status = "COMPLETED" /\ RowOf(r).response = r
    PROVE  IInv'
<1> USE DEF IInv
<1>1. \A q \in Request : q # r => /\ pc'[q] = pc[q]
                                  /\ answer'[q] = answer[q]
                                  /\ lease'[q] = lease[q]
  BY DEF TypeOK
<1>2. pc'[r] = l /\ answer'[r] = m /\ lease'[r] = e
  BY DEF TypeOK
<1>3. \A q \in Request : RowOf(q)' = RowOf(q)
  BY DEF RowOf
<1>4. \A q \in Request : /\ Owns(q)' => Owns(q)
                         /\ Starting(q)' => Starting(q)
  BY <1>1, <1>2 DEF Owns, Starting
<1>5. TokensAreFresh'
  BY <1>4 DEF TokensAreFresh
<1>6. RowsMatchOwners'
  <2>1. \A k \in Key : rows[k].token \in Request \cup {None}
    BY DEF TypeOK, Row
  <2>2. \A k \in Key : rows[k].token # None /\ lease'[rows[k].token] # lease[rows[k].token]
           => rows[k].token = r /\ Starting(r)
    BY <1>1, <1>2, <2>1
  <2>3. \A k \in Key : rows[k].token # None => lease'[rows[k].token] = lease[rows[k].token]
    BY <2>2 DEF TokensAreFresh
  <2>4. \A k \in Key : rows[k].token # None => (Owns(rows[k].token)' => Owns(rows[k].token))
    BY <1>4, <2>1
  <2>5. QED
    BY <2>3, <2>4 DEF RowsMatchOwners
<1>7. OwnersMatchRows'
  BY <1>1, <1>2, <1>3 DEF OwnersMatchRows
<1>8. AnswersMatchRows'
  BY <1>1, <1>2, <1>3 DEF AnswersMatchRows
<1>9. LeaseHonoured'
  <2>1. ASSUME NEW q \in Request, Owns(q)', RowOf(q)'.token # owned'[q].token
        PROVE  lease'[q] < 0
    <3>1. Owns(q) /\ lease[q] < 0
      BY <1>3, <1>4, <2>1 DEF LeaseHonoured
    <3>2. ~Starting(q)
      BY <3>1 DEF Owns, Starting, AnswersMatchRows
    <3>3. lease'[q] = lease[q]
      BY <1>1, <1>2, <3>2
    <3>4. QED
      BY <3>1, <3>3
  <2>2. QED
    BY <2>1 DEF LeaseHonoured
<1>10. OwnershipLostIsTrue'
  BY <1>1, <1>2, <1>3 DEF OwnershipLostIsTrue
<1>11. QED
  BY <1>5, <1>6, <1>7, <1>8, <1>9, <1>10

\* What an acquiring statement that matches leaves in the row: its own token and
\* lease, and the payload and resource of the row, or its own if there was none.
LEMMA AcquiredRowFields ==
    ASSUME IInv, NEW r \in Request, Matches(r)
    PROVE  LET row == AcquiredRow(r) IN
           /\ row.status = "PROCESSING" /\ row.token = r /\ row.expires = lease[r]
           /\ row.hash = req[r].hash
           /\ RowOf(r).status # "ABSENT" => row.hash = RowOf(r).hash
                                            /\ row.resource = RowOf(r).resource
<1>1. RowOf(r) \in Row
  BY RowOfType DEF IInv
<1>2. NoRow \in Row
  BY NoRowType
<1>3. CASE pc[r] = "insert"
  <2>1. AcquiredRow(r).hash = req[r].hash
    BY <1>2, <1>3 DEF AcquiredRow, Acquired, NoRow
  <2>2. RowOf(r).status = "ABSENT"
    BY <1>3 DEF Matches
  <2>3. QED
    BY <1>3, <2>1, <2>2 DEF AcquiredRow, Acquired, NoRow
<1>4. CASE pc[r] # "insert"
  BY <1>1, <1>4 DEF AcquiredRow, Acquired, Matches, CanReactivate, CanTakeOver, Row
<1>5. QED
  BY <1>3, <1>4

\* An acquisition keeps the invariant, acknowledged (l = "owner") or not.
LEMMA AcquireStep ==
    ASSUME IInv, TypeOK', NEW r \in Request, Matches(r),
           NEW l \in {"owner", "done"}, NEW m \in Answer,
           rows' = [rows EXCEPT ![req[r].key] = AcquiredRow(r)],
           UNCHANGED <<req, lease>>,
           pc' = [pc EXCEPT ![r] = l],
           answer' = [answer EXCEPT ![r] = m],
           \/ /\ l = "owner" /\ m.kind = "none"
              /\ owned' = [owned EXCEPT ![r] = [token    |-> AcquiredRow(r).token,
                                                resource |-> AcquiredRow(r).resource]]
           \/ l = "done" /\ m.kind = "error" /\ UNCHANGED owned
    PROVE  IInv'
<1> DEFINE new == AcquiredRow(r)
<1> USE DEF IInv
<1>1. \A q \in Request : q # r => /\ pc'[q] = pc[q]
                                  /\ answer'[q] = answer[q]
                                  /\ owned'[q] = owned[q]
  BY DEF TypeOK
<1>2. /\ pc'[r] = l /\ answer'[r] = m
      /\ owned'[r] = owned[r] \/ (owned'[r].token = r /\ owned'[r].resource = new.resource)
      /\ l = "owner" => owned'[r].token = r /\ owned'[r].resource = new.resource
  BY AcquiredRowFields DEF TypeOK
<1>3. /\ req[r].key \in Key
      /\ rows'[req[r].key] = new
      /\ \A k \in Key : k # req[r].key => rows'[k] = rows[k]
  BY RowOfType DEF TypeOK
<1>4. \A q \in Request : /\ req[q].key = req[r].key => RowOf(q)' = new /\ RowOf(q) = RowOf(r)
                         /\ req[q].key # req[r].key => RowOf(q)' = RowOf(q)
  BY <1>3, RowOfType DEF RowOf
<1>5. /\ new.status = "PROCESSING" /\ new.token = r /\ new.expires = lease[r]
      /\ new.hash = req[r].hash
      /\ RowOf(r).status # "ABSENT" => new.hash = RowOf(r).hash
                                       /\ new.resource = RowOf(r).resource
  BY AcquiredRowFields
<1>6. /\ Starting(r) /\ owned[r].token = None /\ (\A k \in Key : rows[k].token # r)
      /\ ~Starting(r)'
  BY <1>2 DEF Matches, Starting, TokensAreFresh
<1>7. \A q \in Request : q # r => (Owns(q)' <=> Owns(q)) /\ (Starting(q)' <=> Starting(q))
  BY <1>1 DEF Owns, Starting
<1>8. Owns(r)' => l = "owner"
  BY <1>2 DEF Owns
<1>9. TokensAreFresh'
  <2>1. \A q \in Request : /\ owned'[q].token \in {None, q}
                           /\ Owns(q)' => owned'[q].token = q
    BY <1>1, <1>2, <1>6, <1>7, <1>8 DEF TokensAreFresh
  <2>2. \A q \in Request : Starting(q)' => owned'[q].token = None
                                           /\ \A k \in Key : rows'[k].token # q
    BY <1>1, <1>3, <1>5, <1>6, <1>7 DEF TokensAreFresh
  <2>3. \A k \in Key : rows'[k].token # None => req'[rows'[k].token].key = k
    BY <1>3, <1>5 DEF TokensAreFresh
  <2>4. QED
    BY <2>1, <2>2, <2>3 DEF TokensAreFresh
<1>10. RowsMatchOwners'
  <2>1. ASSUME NEW k \in Key, k # req[r].key
        PROVE  rows'[k] = rows[k] /\ rows[k].token # r
               /\ (rows[k].token # None => (Owns(rows[k].token)' <=> Owns(rows[k].token)))
    <3>1. rows[k].token \in Request \cup {None}
      BY DEF TypeOK, Row
    <3>2. QED
      BY <1>3, <1>6, <1>7, <2>1, <3>1
  <2>2. r # None
    BY NoneAssumption
  <2>3. QED
    BY <1>3, <1>5, <2>1, <2>2 DEF RowsMatchOwners
<1>11. OwnersMatchRows'
  <2>1. ASSUME NEW q \in Request, owned'[q].token # None
        PROVE  /\ RowOf(q)'.status # "ABSENT"
               /\ RowOf(q)'.resource = owned'[q].resource
               /\ RowOf(q)'.hash = req'[q].hash
    <3>1. CASE q = r
      BY <1>2, <1>4, <1>5, <1>6, <2>1, <3>1
    <3>2. CASE q # r
      BY <1>1, <1>4, <1>5, <2>1, <3>2 DEF OwnersMatchRows
    <3>3. QED
      BY <3>1, <3>2
  <2>2. ASSUME NEW q \in Request, pc'[q] = "findAgain"
        PROVE  RowOf(q)'.status # "ABSENT"
    BY <1>1, <1>2, <1>4, <1>5, <2>2 DEF OwnersMatchRows
  <2>3. QED
    BY <2>1, <2>2 DEF OwnersMatchRows
<1>12. RowOf(r).status # "COMPLETED"
  BY DEF Matches, CanReactivate, CanTakeOver
<1>13. AnswersMatchRows'
  BY <1>1, <1>2, <1>4, <1>12 DEF AnswersMatchRows
<1>14. LeaseHonoured'
  <2>1. ASSUME NEW q \in Request, Owns(q)', RowOf(q)'.token # owned'[q].token
        PROVE  lease'[q] < 0
    <3>1. CASE q = r
      BY <1>2, <1>4, <1>5, <1>8, <2>1, <3>1
    <3>2. CASE q # r /\ RowOf(q).token # owned[q].token
      BY <1>1, <1>7, <2>1, <3>2 DEF LeaseHonoured
    <3>3. CASE q # r /\ RowOf(q).token = owned[q].token
      \* q is the owner that r displaces: by takeover, so its lease ran out.
      <4>1. owned[q].token = q /\ Owns(q)
        BY <1>7, <2>1, <3>3 DEF TokensAreFresh
      <4>2. req[q].key = req[r].key
        BY <1>1, <1>4, <2>1, <3>3
      <4>3. RowOf(r).token = q /\ q # None
        BY <1>4, <3>3, <4>1, <4>2, NoneAssumption
      <4>4. CanTakeOver(RowOf(r), req[r].hash)
        BY <1>3, <4>1, <4>3 DEF Matches, CanReactivate, RowsMatchOwners, RowOf
      <4>5. lease[q] = RowOf(r).expires
        BY <1>3, <4>3, <4>4 DEF CanTakeOver, RowsMatchOwners, RowOf
      <4>6. QED
        BY <4>4, <4>5 DEF CanTakeOver
    <3>4. QED
      BY <3>1, <3>2, <3>3
  <2>2. QED
    BY <2>1 DEF LeaseHonoured
<1>15. OwnershipLostIsTrue'
  BY <1>1, <1>2, <1>4, <1>5, <1>12 DEF OwnershipLostIsTrue
<1>16. QED
  BY <1>9, <1>10, <1>11, <1>13, <1>14, <1>15

\* The owner finishes its row: it completes it, and is answered (l = "done") or
\* not; or it marks it failed and is answered.
LEMMA FinishStep ==
    ASSUME IInv, TypeOK', NEW r \in Request, Owns(r), OwnedBy(RowOf(r), owned[r].token),
           NEW l \in {"failing", "done"}, NEW m \in Answer, NEW new \in Row,
           rows' = [rows EXCEPT ![req[r].key] = new],
           UNCHANGED <<req, lease, owned>>,
           pc' = [pc EXCEPT ![r] = l],
           answer' = [answer EXCEPT ![r] = m],
           new.token = RowOf(r).token, new.hash = RowOf(r).hash,
           new.resource = RowOf(r).resource,
           \/ new.status = "COMPLETED" /\ new.response = r
           \/ new.status = "FAILED" /\ l = "done",
           \/ m.kind = "none"
           \/ l = "done" /\ m.kind = "error"
           \/ l = "done" /\ m.kind = "response" /\ m.response = r /\ new.status = "COMPLETED"
    PROVE  IInv'
<1> USE DEF IInv
<1>1. \A q \in Request : q # r => pc'[q] = pc[q] /\ answer'[q] = answer[q]
  BY DEF TypeOK
<1>2. pc'[r] = l /\ answer'[r] = m
  BY DEF TypeOK
<1>3. /\ req[r].key \in Key
      /\ rows'[req[r].key] = new
      /\ \A k \in Key : k # req[r].key => rows'[k] = rows[k]
  BY RowOfType DEF TypeOK
<1>4. \A q \in Request : /\ req[q].key = req[r].key => RowOf(q)' = new /\ RowOf(q) = RowOf(r)
                         /\ req[q].key # req[r].key => RowOf(q)' = RowOf(q)
  BY <1>3, RowOfType DEF RowOf
<1>5. owned[r].token = r /\ RowOf(r).token = r /\ RowOf(r).status = "PROCESSING"
  BY DEF TokensAreFresh, OwnedBy
<1>6. \A q \in Request : /\ Owns(q)' => Owns(q)
                         /\ Starting(q)' => Starting(q)
  BY <1>1, <1>2 DEF Owns, Starting
<1>7. \A k \in Key : rows'[k].token = rows[k].token
  BY <1>3 DEF RowOf
<1>8. TokensAreFresh'
  BY <1>6, <1>7 DEF TokensAreFresh
<1>9. RowsMatchOwners'
  <2>1. ASSUME NEW k \in Key, k # req[r].key
        PROVE  rows'[k] = rows[k]
               /\ (rows[k].token # None => (Owns(rows[k].token)' => Owns(rows[k].token)))
    <3>1. rows[k].token \in Request \cup {None}
      BY DEF TypeOK, Row
    <3>2. QED
      BY <1>3, <1>6, <2>1, <3>1
  <2>2. r # None
    BY NoneAssumption
  <2>3. new.status = "FAILED" => ~Owns(r)'
    BY <1>2 DEF Owns
  <2>4. QED
    BY <1>3, <1>5, <2>1, <2>2, <2>3 DEF RowsMatchOwners
<1>10. OwnersMatchRows'
  BY <1>1, <1>2, <1>4 DEF OwnersMatchRows
<1>11. AnswersMatchRows'
  <2>1. ASSUME NEW q \in Request, answer'[q].kind = "response"
        PROVE  /\ RowOf(q)'.status = "COMPLETED"
               /\ RowOf(q)'.response = answer'[q].response
               /\ RowOf(q)'.hash = req'[q].hash
    <3>1. CASE q = r
      <4>1. RowOf(r).hash = req[r].hash
        BY <1>5, NoneAssumption DEF OwnersMatchRows
      <4>2. m.kind = "response"
        BY <1>2, <2>1, <3>1
      <4>3. QED
        BY <1>2, <1>4, <3>1, <4>1, <4>2
    <3>2. CASE q # r
      BY <1>1, <1>4, <1>5, <2>1, <3>2 DEF AnswersMatchRows
    <3>3. QED
      BY <3>1, <3>2
  <2>2. ASSUME NEW q \in Request, pc'[q] # "done" PROVE answer'[q].kind = "none"
    BY <1>1, <1>2, <2>2 DEF AnswersMatchRows
  <2>3. QED
    BY <2>1, <2>2 DEF AnswersMatchRows
<1>12. LeaseHonoured'
  BY <1>4, <1>6 DEF LeaseHonoured
<1>13. OwnershipLostIsTrue'
  BY <1>1, <1>2, <1>4, <1>5 DEF OwnershipLostIsTrue
<1>14. QED
  BY <1>8, <1>9, <1>10, <1>11, <1>12, <1>13

\* Time passes for every expiry alike.
LEMMA TickStep == ASSUME IInv, TypeOK', Tick PROVE IInv'
<1> USE DEF IInv
<1>1. \A k \in Key : /\ rows'[k].status = rows[k].status
                     /\ rows'[k].token = rows[k].token
                     /\ rows'[k].hash = rows[k].hash
                     /\ rows'[k].resource = rows[k].resource
                     /\ rows'[k].response = rows[k].response
                     /\ rows'[k].expires = Earlier(rows[k].expires)
  BY DEF Tick, TypeOK, Row
<1>2. /\ \A r \in Request : lease'[r] = Earlier(lease[r])
      /\ UNCHANGED <<req, pc, owned, answer>>
  BY DEF Tick
<1>3. \A r \in Request : lease[r] < 0 => lease'[r] < 0
  BY <1>2 DEF TypeOK, Expiry, Earlier, Past
<1>4. \A r \in Request : /\ RowOf(r)'.status = RowOf(r).status
                         /\ RowOf(r)'.token = RowOf(r).token
                         /\ RowOf(r)'.hash = RowOf(r).hash
                         /\ RowOf(r)'.resource = RowOf(r).resource
                         /\ RowOf(r)'.response = RowOf(r).response
  BY <1>1, <1>2, RowOfType DEF RowOf
<1>5. \A r : (Owns(r)' <=> Owns(r)) /\ (Starting(r)' <=> Starting(r))
  BY <1>2 DEF Owns, Starting
<1>6. TokensAreFresh'
  BY <1>1, <1>2, <1>5 DEF TokensAreFresh
<1>7. RowsMatchOwners'
  <2>1. \A k \in Key : rows[k].token \in Request \cup {None}
    BY DEF TypeOK, Row
  <2>2. QED
    BY <1>1, <1>2, <1>5, <2>1 DEF RowsMatchOwners
<1>8. OwnersMatchRows'
  BY <1>2, <1>4 DEF OwnersMatchRows
<1>9. AnswersMatchRows'
  BY <1>2, <1>4 DEF AnswersMatchRows
<1>10. LeaseHonoured'
  BY <1>2, <1>3, <1>4, <1>5 DEF LeaseHonoured
<1>11. OwnershipLostIsTrue'
  BY <1>2, <1>3, <1>4 DEF OwnershipLostIsTrue
<1>12. QED
  BY <1>6, <1>7, <1>8, <1>9, <1>10, <1>11

\* A step that only answers a request with an error is quiet.
LEMMA AnswerStep ==
    ASSUME IInv, TypeOK', NEW r \in Request,
           NEW kind \in {"keyReused", "inProgress", "error", "ownershipLost"}, Reply(r, Says(kind)),
           UNCHANGED <<rows, req, owned, lease>>,
           kind = "inProgress" => Starting(r),
           kind = "ownershipLost" =>
              \/ lease[r] < 0 /\ RowOf(r).token # r
              \/ RowOf(r).status = "COMPLETED" /\ RowOf(r).response = r
    PROVE  IInv'
<1>1. /\ lease = [lease EXCEPT ![r] = lease[r]]
      /\ lease[r] \in Expiry /\ Says(kind) \in Answer
      /\ "done" \in Location /\ Says(kind).kind = kind
  BY MessageType DEF IInv, TypeOK, Location, Says
<1>2. QED
  BY <1>1, QuietStep DEF Reply, GoTo

\* A step of decideFromExisting keeps the invariant: it is quiet.
LEMMA DecideStep ==
    ASSUME IInv, TypeOK', NEW r \in Request, pc[r] \in {"find", "findAgain"},
           RowOf(r).status # "ABSENT",
           DecideFromExisting(r, RowOf(r)), UNCHANGED <<rows, req, owned>>
    PROVE  IInv'
<1>1. Starting(r) /\ answer[r] \in Answer /\ lease[r] \in Expiry
      /\ answer[r].kind = "none"
  BY DEF Starting, IInv, TypeOK, AnswersMatchRows
<1>2. /\ answer = [answer EXCEPT ![r] = answer[r]]
      /\ lease = [lease EXCEPT ![r] = lease[r]]
  BY DEF IInv, TypeOK
<1>4. ASSUME NEW l \in {"reactivate", "takeover"}, GoTo(r, l), BuildExpiry(r),
             UNCHANGED answer
      PROVE  IInv'
  <2>1. PICK now \in AppClock : lease' = [lease EXCEPT ![r] = now + Lease]
    BY <1>4 DEF BuildExpiry
  <2>2. now + Lease \in Expiry
    BY BuildExpiryType
  <2>3. l \in Location
    BY LocationType
  <2>4. QED
    BY <1>1, <1>2, <1>4, <2>1, <2>2, <2>3, QuietStep DEF GoTo
<1>6. CASE Reply(r, Says("keyReused")) /\ UNCHANGED lease
  BY <1>6, AnswerStep
<1>7. CASE /\ Reply(r, [kind |-> "response", response |-> RowOf(r).response])
           /\ UNCHANGED lease
           /\ RowOf(r).status = "COMPLETED" /\ RowOf(r).hash = req[r].hash
  <2>1. RowOf(r).response \in Request \cup {None}
    BY RowOfType DEF IInv, Row
  <2>2. [kind |-> "response", response |-> RowOf(r).response] \in Answer
        /\ "done" \in Location
    BY <2>1, MessageType DEF Location
  <2>3. QED
    BY <1>1, <1>2, <1>7, <2>2, QuietStep DEF Reply, GoTo
<1>8. CASE Reply(r, Says("inProgress")) /\ UNCHANGED lease
  BY <1>1, <1>8, AnswerStep
<1>9. QED
  BY <1>4, <1>6, <1>7, <1>8 DEF DecideFromExisting

\* A step that only moves a request is quiet.
LEMMA MoveStep ==
    ASSUME IInv, TypeOK', NEW r \in Request, ~Ended(r), NEW l \in Location, GoTo(r, l),
           UNCHANGED <<rows, req, owned, lease, answer>>, l # "done",
           l \in {"owner", "failing"} => Owns(r),
           l \in {"find", "findAgain"} => Starting(r),
           l = "findAgain" => RowOf(r).status # "ABSENT",
           l \notin {"idle", "insert", "reactivate", "takeover"}
    PROVE  IInv'
<1>1. PICK m \in Answer : m = answer[r]
  BY DEF IInv, TypeOK
<1>2. PICK e \in Expiry : e = lease[r]
  BY DEF IInv, TypeOK
<1>3. /\ answer' = [answer EXCEPT ![r] = m]
      /\ lease' = [lease EXCEPT ![r] = e]
  BY <1>1, <1>2 DEF IInv, TypeOK
<1>4. m.kind = "none"
  BY <1>1 DEF IInv, AnswersMatchRows, Ended
<1>5. /\ pc' = [pc EXCEPT ![r] = l]
      /\ UNCHANGED <<rows, req, owned>>
      /\ l \in {"idle", "find", "insert", "findAgain", "reactivate", "takeover"}
            \/ m.kind = "inProgress" => Starting(r)
  BY <1>4 DEF GoTo
<1>6. TypeOK' /\ IInv /\ UNCHANGED <<rows, req, owned>>
  OBVIOUS
<1>7. /\ e = lease[r] \/ (Starting(r) /\ pc[r] # "done")
      /\ l \in {"owner", "failing"} => Owns(r)
      /\ l = "findAgain" => RowOf(r).status # "ABSENT"
      /\ l # "done" => m.kind = "none"
  BY <1>2, <1>4
<1>8. m.kind # "response" /\ m.kind # "ownershipLost"
  BY <1>4
<1>9. QED
  BY <1>3, <1>5, <1>6, <1>7, <1>8, QuietStep

\* Every step of the protocol keeps the invariant.
LEMMA NextInv == IInv /\ [Next]_idemVars => IInv'
<1> SUFFICES ASSUME IInv, [Next]_idemVars PROVE IInv'
  OBVIOUS
<1>t. TypeOK'
  BY NextType DEF IInv
<1>1. ASSUME NEW r \in Request, Receive(r) PROVE IInv'
  BY <1>1, <1>t, MoveStep, LocationType DEF Receive, Starting, Ended
<1>2. ASSUME NEW r \in Request, Find(r) PROVE IInv'
  <2>1. CASE RowOf(r).status # "ABSENT" /\ DecideFromExisting(r, RowOf(r))
    BY <1>2, <1>t, <2>1, DecideStep DEF Find
  <2>2. CASE GoTo(r, "insert") /\ BuildExpiry(r) /\ UNCHANGED answer
    <3>1. PICK now \in AppClock : lease' = [lease EXCEPT ![r] = now + Lease]
      BY <2>2 DEF BuildExpiry
    <3>2. PICK m \in Answer : m = answer[r] /\ m.kind = "none"
      BY <1>2 DEF IInv, TypeOK, AnswersMatchRows, Find
    <3>3. /\ answer' = [answer EXCEPT ![r] = m]
          /\ now + Lease \in Expiry
          /\ Starting(r)
      BY <1>2, <2>2, <3>2, BuildExpiryType DEF IInv, TypeOK, Find, Starting
    <3>4. QED
      BY <1>2, <1>t, <2>2, <3>1, <3>2, <3>3, QuietStep, LocationType DEF Find, GoTo
  <2>3. QED
    BY <1>2, <2>1, <2>2 DEF Find
<1>3. ASSUME NEW r \in Request, FindAgain(r) PROVE IInv'
  <2>1. RowOf(r).status # "ABSENT"
    BY <1>3 DEF FindAgain, IInv, OwnersMatchRows
  <2>2. QED
    BY <1>3, <1>t, <2>1, DecideStep DEF FindAgain
<1>4. ASSUME NEW r \in Request, Acquire(r) PROVE IInv'
  <2>1. PICK m \in Answer : m = answer[r] /\ m.kind = "none"
    BY <1>4 DEF Acquire, Matches, IInv, TypeOK, AnswersMatchRows
  <2>2. answer' = [answer EXCEPT ![r] = m]
    BY <1>4, <2>1 DEF Acquire, IInv, TypeOK
  <2>3. QED
    BY <1>4, <1>t, <2>1, <2>2, AcquireStep DEF Acquire, GoTo
<1>5. ASSUME NEW r \in Request, AcquireUnacknowledged(r) PROVE IInv'
  BY <1>5, <1>t, AcquireStep, MessageType DEF AcquireUnacknowledged, Reply, GoTo, Says
<1>6. ASSUME NEW r \in Request, Miss(r) PROVE IInv'
  <2>1. Starting(r) /\ ~Ended(r)
    BY <1>6 DEF Miss, Starting, Ended
  <2>2. CASE pc[r] = "insert" /\ GoTo(r, "findAgain") /\ UNCHANGED answer
    <3>1. RowOf(r).status # "ABSENT"
      BY <1>6, <2>2 DEF Miss, Matches
    <3>2. QED
      BY <1>6, <1>t, <2>1, <2>2, <3>1, MoveStep, LocationType DEF Miss
  <2>3. CASE Reply(r, Says("inProgress"))
    BY <1>6, <1>t, <2>1, <2>3, AnswerStep DEF Miss
  <2>4. QED
    BY <1>6, <2>2, <2>3 DEF Miss
<1>7. ASSUME NEW r \in Request, StartFails(r) PROVE IInv'
  BY <1>7, <1>t, AnswerStep DEF StartFails
<1>8. ASSUME NEW r \in Request, pc[r] = "owner", OwnedBy(RowOf(r), owned[r].token),
             rows' = [rows EXCEPT ![req[r].key] = Completed(@, r)],
             UNCHANGED <<req, lease, owned>>
      PROVE  \E new \in Row : /\ rows' = [rows EXCEPT ![req[r].key] = new]
                              /\ new.token = RowOf(r).token /\ new.hash = RowOf(r).hash
                              /\ new.resource = RowOf(r).resource
                              /\ new.status = "COMPLETED" /\ new.response = r
  <2>1. owned[r].resource = RowOf(r).resource
    BY <1>8, NoneAssumption DEF IInv, TokensAreFresh, OwnersMatchRows, Owns
  <2>2. RowOf(r) \in Row
    BY RowOfType DEF IInv
  <2>3. LET new == Completed(RowOf(r), r) IN
        /\ new.token = RowOf(r).token /\ new.hash = RowOf(r).hash
        /\ new.resource = RowOf(r).resource
        /\ new.status = "COMPLETED" /\ new.response = r
    BY <2>1, <2>2 DEF Completed, Row
  <2>4. rows' = [rows EXCEPT ![req[r].key] = Completed(RowOf(r), r)]
    BY <1>8, RowOfType DEF RowOf, IInv, TypeOK
  <2>5. Completed(RowOf(r), r) \in Row
    BY CompletedType DEF IInv
  <2>6. QED
    BY <2>3, <2>4, <2>5
<1>9. ASSUME NEW r \in Request, Commit(r) PROVE IInv'
  <2>1. PICK new \in Row : /\ rows' = [rows EXCEPT ![req[r].key] = new]
                           /\ new.token = RowOf(r).token /\ new.hash = RowOf(r).hash
                           /\ new.resource = RowOf(r).resource
                           /\ new.status = "COMPLETED" /\ new.response = r
    BY <1>8, <1>9 DEF Commit
  <2>2. [kind |-> "response", response |-> r] \in Answer
    BY MessageType
  <2>3. Owns(r)
    BY <1>9 DEF Commit, Owns
  <2>4. QED
    BY <1>9, <1>t, <2>1, <2>2, <2>3, FinishStep DEF Commit, Reply, GoTo
<1>10. ASSUME NEW r \in Request, CommitUnacknowledged(r) PROVE IInv'
  <2>1. PICK new \in Row : /\ rows' = [rows EXCEPT ![req[r].key] = new]
                           /\ new.token = RowOf(r).token /\ new.hash = RowOf(r).hash
                           /\ new.resource = RowOf(r).resource
                           /\ new.status = "COMPLETED" /\ new.response = r
    BY <1>8, <1>10 DEF CommitUnacknowledged
  <2>2. PICK m \in Answer : m = answer[r] /\ m.kind = "none"
    BY <1>10 DEF CommitUnacknowledged, IInv, TypeOK, AnswersMatchRows
  <2>3. Owns(r) /\ answer' = [answer EXCEPT ![r] = m]
    BY <1>10, <2>2 DEF CommitUnacknowledged, Owns, IInv, TypeOK
  <2>4. /\ pc' = [pc EXCEPT ![r] = "failing"]
        /\ UNCHANGED <<req, lease, owned>>
        /\ OwnedBy(RowOf(r), owned[r].token)
    BY <1>10 DEF CommitUnacknowledged, GoTo
  <2>5. QED
    BY <1>t, <2>1, <2>2, <2>3, <2>4, FinishStep
<1>11. ASSUME NEW r \in Request, CompletionRefused(r) \/ WorkFails(r) PROVE IInv'
  BY <1>11, <1>t, MoveStep, LocationType DEF CompletionRefused, WorkFails, Owns, Ended
<1>12. ASSUME NEW r \in Request, MarkFailed(r) PROVE IInv'
  <2>1. Owns(r)
    BY <1>12 DEF MarkFailed, Owns
  <2>2. CASE /\ OwnedBy(RowOf(r), owned[r].token)
             /\ rows' = [rows EXCEPT ![req[r].key].status = "FAILED"]
             /\ Reply(r, Says("error"))
    <3>1. PICK new \in Row : new = [RowOf(r) EXCEPT !.status = "FAILED"]
      BY RowOfType DEF IInv, Row
    <3>2. /\ rows' = [rows EXCEPT ![req[r].key] = new]
          /\ new.token = RowOf(r).token /\ new.hash = RowOf(r).hash
          /\ new.resource = RowOf(r).resource /\ new.status = "FAILED"
      BY <2>2, <3>1, RowOfType DEF RowOf, IInv, TypeOK, Row
    <3>3. PICK m \in Answer : m = Says("error") /\ m.kind = "error"
      BY MessageType DEF Says
    <3>4. QED
      BY <1>12, <1>t, <2>1, <2>2, <3>2, <3>3, FinishStep DEF MarkFailed, Reply, GoTo
  <2>3. CASE /\ ~OwnedBy(RowOf(r), owned[r].token)
             /\ Reply(r, Says("ownershipLost"))
             /\ UNCHANGED rows
    <3>1. owned[r].token = r /\ r # None
      BY <2>1, NoneAssumption DEF IInv, TokensAreFresh
    <3>2. CASE RowOf(r).token # r
      BY <1>12, <1>t, <2>1, <2>3, <3>1, <3>2, AnswerStep DEF MarkFailed, IInv, LeaseHonoured
    <3>3. CASE RowOf(r).token = r
      \* r still is the row's last owner, so the row is not FAILED and r has
      \* completed it without knowing.
      <4>1. RowOf(r).status = "COMPLETED" /\ RowOf(r).response = r
        <5>1. RowOf(r) \in Row /\ req[r].key \in Key
          BY RowOfType DEF IInv
        <5>2. RowOf(r).status \notin {"ABSENT", "PROCESSING", "FAILED"}
          BY <2>1, <2>3, <3>1, <3>3, <5>1
             DEF OwnedBy, IInv, RowsMatchOwners, OwnersMatchRows, RowOf
        <5>3. QED
          BY <3>3, <5>1, <5>2 DEF Row, IInv, RowsMatchOwners, RowOf
      <4>2. QED
        BY <1>12, <1>t, <2>3, <4>1, AnswerStep DEF MarkFailed
    <3>4. QED
      BY <3>2, <3>3
  <2>4. QED
    BY <1>12, <2>2, <2>3 DEF MarkFailed
<1>13. ASSUME NEW r \in Request, MarkFailedThrows(r) PROVE IInv'
  BY <1>13, <1>t, AnswerStep DEF MarkFailedThrows
<1>14. ASSUME NEW r \in Request, Crash(r) PROVE IInv'
  BY <1>14, <1>t, MoveStep, LocationType DEF Crash
<1>15. ASSUME NEW r \in Request, Retry(r) PROVE IInv'
  <2>1. PICK e \in Expiry : e = lease[r]
    BY DEF IInv, TypeOK
  <2>2. lease' = [lease EXCEPT ![r] = e]
    BY <1>15, <2>1 DEF Retry, IInv, TypeOK
  <2>3. Starting(r)
    BY <1>15 DEF Retry, Starting
  <2>4. NoAnswer \in Answer /\ NoAnswer.kind = "none" /\ "find" \in Location
    BY MessageType, LocationType DEF NoAnswer
  <2>5. QED
    BY <1>15, <1>t, <2>1, <2>2, <2>3, <2>4, QuietStep DEF Retry, GoTo
<1>16. CASE Tick
  BY <1>16, <1>t, TickStep
<1>17. CASE UNCHANGED idemVars
  BY <1>17 DEF idemVars, IInv, TypeOK, TokensAreFresh, RowsMatchOwners, OwnersMatchRows,
               AnswersMatchRows, LeaseHonoured, OwnershipLostIsTrue, Owns, Starting, RowOf
<1>18. QED
  BY <1>1, <1>2, <1>3, <1>4, <1>5, <1>6, <1>7, <1>9, <1>10, <1>11, <1>12, <1>13, <1>14,
     <1>15, <1>16, <1>17 DEF Next, Start, Finish, Fault

-----------------------------------------------------------------------------
(* The theorems *)

\* The invariant holds in every behaviour of the protocol.
LEMMA SpecInv == Spec => []IInv
<1>1. QED
  BY InitInv, NextInv, PTL DEF Spec

\* At any time at most one request that works for a key can complete it or fail
\* it: a stale owner's token is refused by markCompleted and markFailed.
THEOREM Fencing == Spec => []SoleOwner
<1>1. IInv => SoleOwner
  BY DEF IInv, TokensAreFresh, SoleOwner, OwnedBy, RowOf
<1>2. QED
  BY <1>1, SpecInv, PTL

\* takeoverExpiredProcessing displaces no owner before the lease it wrote ends,
\* whatever the skew between the clocks of the instances and the database.
THEOREM LeaseIsHonoured == Spec => []LeaseHonoured
<1>1. IInv => LeaseHonoured
  BY DEF IInv
<1>2. QED
  BY <1>1, SpecInv, PTL

\* All owners of a key get the resource id that was reserved with the key.
THEOREM StableResource == Spec => []OwnersShareResource
<1>1. IInv => OwnersShareResource
  BY DEF IInv, OwnersMatchRows, OwnersShareResource
<1>2. QED
  BY <1>1, SpecInv, PTL

\* Two clients that were given a response for one key were given the same one,
\* for the same payload.
THEOREM ReplayIsFaithful == Spec => []ResponsesAgree
<1>1. IInv => ResponsesAgree
  BY DEF IInv, AnswersMatchRows, ResponsesAgree, RowOf
<1>2. QED
  BY <1>1, SpecInv, PTL

\* OWNERSHIP_LOST is told only to a request whose lease ran out and whose key
\* another one took, or whose own commit went through.
THEOREM OwnershipLostIsHonest == Spec => []OwnershipLostIsTrue
<1>1. IInv => OwnershipLostIsTrue
  BY DEF IInv
<1>2. QED
  BY <1>1, SpecInv, PTL

\* The branch IDEMPOTENCY_STATE_NOT_FOUND of getExistingOrStart is dead.
THEOREM StateIsAlwaysFound == Spec => []ConflictLeavesARow
<1>1. IInv => ConflictLeavesARow
  BY DEF IInv, OwnersMatchRows, ConflictLeavesARow
<1>2. QED
  BY <1>1, SpecInv, PTL

\* A row that a step replaces with one of the same payload and resource, and
\* that was not COMPLETED, changes no outcome.
LEMMA OneRowWritten ==
    ASSUME TypeOK, NEW r \in Request, NEW new,
           rows' = [rows EXCEPT ![req[r].key] = new],
           RowOf(r).status # "COMPLETED",
           RowOf(r).status # "ABSENT" => /\ new.hash = RowOf(r).hash
                                         /\ new.resource = RowOf(r).resource,
           NEW k \in Key
    PROVE  /\ rows[k].status = "COMPLETED" => /\ rows'[k].status = "COMPLETED"
                                              /\ rows'[k].response = rows[k].response
           /\ rows[k].status # "ABSENT" => /\ rows'[k].hash = rows[k].hash
                                           /\ rows'[k].resource = rows[k].resource
<1>1. CASE k = req[r].key
  BY <1>1 DEF TypeOK, RowOf
<1>2. CASE k # req[r].key
  BY <1>2 DEF TypeOK
<1>3. QED
  BY <1>1, <1>2

\* A COMPLETED row keeps its response for ever, and a row its payload and
\* resource: no step of any request, in time or late, changes them.
THEOREM OutcomesAreFinal == Spec => OutcomeIsFinal
<1> DEFINE Kept(k) ==
       /\ rows[k].status = "COMPLETED" => /\ rows'[k].status = "COMPLETED"
                                          /\ rows'[k].response = rows[k].response
       /\ rows[k].status # "ABSENT" => /\ rows'[k].hash = rows[k].hash
                                       /\ rows'[k].resource = rows[k].resource
<1>1. ASSUME IInv, [Next]_idemVars, NEW k \in Key PROVE Kept(k)
  <2>1. CASE UNCHANGED rows
    BY <2>1
  <2>2. ASSUME NEW r \in Request, Acquire(r) \/ AcquireUnacknowledged(r) PROVE Kept(k)
    <3>1. RowOf(r).status # "COMPLETED" /\ Matches(r)
          /\ rows' = [rows EXCEPT ![req[r].key] = AcquiredRow(r)]
      BY <2>2 DEF Acquire, AcquireUnacknowledged, Matches, CanReactivate, CanTakeOver
    <3>2. RowOf(r).status # "ABSENT" => /\ AcquiredRow(r).hash = RowOf(r).hash
                                        /\ AcquiredRow(r).resource = RowOf(r).resource
      BY <1>1, <3>1, AcquiredRowFields
    <3>3. QED
      BY <1>1, <3>1, <3>2, OneRowWritten DEF IInv
  <2>3. ASSUME NEW r \in Request, Commit(r) \/ CommitUnacknowledged(r) PROVE Kept(k)
    <3>1. /\ RowOf(r).status = "PROCESSING" /\ pc[r] = "owner"
          /\ rows' = [rows EXCEPT ![req[r].key] = Completed(@, r)]
      BY <2>3 DEF Commit, CommitUnacknowledged, OwnedBy
    <3>2. owned[r].resource = RowOf(r).resource
      BY <1>1, <3>1, NoneAssumption DEF IInv, TokensAreFresh, OwnersMatchRows, Owns
    <3>3. RowOf(r) \in Row /\ rows' = [rows EXCEPT ![req[r].key] = Completed(RowOf(r), r)]
      BY <1>1, <3>1, RowOfType DEF RowOf, IInv, TypeOK
    <3>4. /\ Completed(RowOf(r), r).hash = RowOf(r).hash
          /\ Completed(RowOf(r), r).resource = RowOf(r).resource
      BY <3>2, <3>3 DEF Completed, Row
    <3>5. QED
      BY <1>1, <3>1, <3>3, <3>4, OneRowWritten DEF IInv
  <2>4. ASSUME NEW r \in Request, MarkFailed(r) PROVE Kept(k)
    <3>1. CASE OwnedBy(RowOf(r), owned[r].token)
      <4>1. /\ RowOf(r) \in Row /\ RowOf(r).status = "PROCESSING"
            /\ rows' = [rows EXCEPT ![req[r].key] = [RowOf(r) EXCEPT !.status = "FAILED"]]
        BY <1>1, <2>4, <3>1, RowOfType DEF MarkFailed, OwnedBy, RowOf, IInv, TypeOK
      <4>2. /\ [RowOf(r) EXCEPT !.status = "FAILED"].hash = RowOf(r).hash
            /\ [RowOf(r) EXCEPT !.status = "FAILED"].resource = RowOf(r).resource
        BY <4>1 DEF Row
      <4>3. QED
        BY <1>1, <4>1, <4>2, OneRowWritten DEF IInv
    <3>2. CASE ~OwnedBy(RowOf(r), owned[r].token)
      BY <2>1, <2>4, <3>2 DEF MarkFailed
    <3>3. QED
      BY <3>1, <3>2
  <2>5. CASE Tick
    <3>1. rows[k] \in Row
      BY <1>1 DEF IInv, TypeOK
    <3>2. QED
      BY <2>5, <3>1 DEF Tick, Row
  <2>6. QED
    BY <1>1, <2>1, <2>2, <2>3, <2>4, <2>5
       DEF Next, Start, Finish, Fault, idemVars, Receive, Find, FindAgain, Miss,
           StartFails, CompletionRefused, WorkFails, MarkFailedThrows, Crash, Retry
<1>2. IInv /\ [Next]_idemVars => [\A k \in Key : Kept(k)]_idemVars
  BY <1>1
<1>3. QED
  BY <1>2, SpecInv, PTL DEF Spec, OutcomeIsFinal

-----------------------------------------------------------------------------
(* Hashes in rows and answers *)

\* A step leaves a row's token and payload alone, or leaves those of a request
\* of its key in it.
LEMMA RowsKeepTheirHash ==
    ASSUME IInv, [Next]_idemVars, NEW k \in Key
    PROVE  \/ rows'[k].token = rows[k].token /\ rows'[k].hash = rows[k].hash
           \/ \E r \in Request : /\ req[r].key = k
                                 /\ rows'[k].token = r /\ rows'[k].hash = req[r].hash
<1> DEFINE Kept == rows'[k].token = rows[k].token /\ rows'[k].hash = rows[k].hash
           Taken == \E r \in Request : /\ req[r].key = k
                                       /\ rows'[k].token = r /\ rows'[k].hash = req[r].hash
<1>0. rows[k] \in Row /\ rows \in [Key -> Row]
  BY DEF IInv, TypeOK
<1>1. CASE UNCHANGED rows
  BY <1>1
<1>2. ASSUME NEW r \in Request, Acquire(r) \/ AcquireUnacknowledged(r) PROVE Kept \/ Taken
  <2>1. Matches(r) /\ rows' = [rows EXCEPT ![req[r].key] = AcquiredRow(r)]
    BY <1>2 DEF Acquire, AcquireUnacknowledged
  <2>2. AcquiredRow(r).token = r /\ AcquiredRow(r).hash = req[r].hash
    BY <2>1, AcquiredRowFields
  <2>3. QED
    BY <1>0, <2>1, <2>2
<1>3. ASSUME NEW r \in Request, Commit(r) \/ CommitUnacknowledged(r) PROVE Kept
  <2>1. rows' = [rows EXCEPT ![req[r].key] = Completed(@, r)]
    BY <1>3 DEF Commit, CommitUnacknowledged
  <2>2. QED
    BY <1>0, <2>1 DEF Completed, Row
<1>4. ASSUME NEW r \in Request, MarkFailed(r) PROVE Kept
  <2>1. \/ rows' = [rows EXCEPT ![req[r].key].status = "FAILED"]
        \/ UNCHANGED rows
    BY <1>4 DEF MarkFailed
  <2>2. QED
    BY <1>0, <2>1 DEF Row
<1>5. CASE Tick
  BY <1>0, <1>5 DEF Tick, Row
<1>6. QED
  BY <1>1, <1>2, <1>3, <1>4, <1>5
     DEF Next, Start, Finish, Fault, idemVars, Receive, Find, FindAgain, Miss,
         StartFails, CompletionRefused, WorkFails, MarkFailedThrows, Crash, Retry

\* Only who meets a row with another hash is told that the key was reused.
LEMMA RefusalsMeetAnotherHash ==
    ASSUME IInv, [Next]_idemVars, NEW r \in Request, answer'[r].kind = "keyReused"
    PROVE  \/ answer[r].kind = "keyReused"
           \/ RowOf(r).status # "ABSENT" /\ RowOf(r).hash # req[r].hash
<1>0. answer \in [Request -> Answer]
  BY DEF IInv, TypeOK
<1>1. CASE UNCHANGED answer
  BY <1>1
<1>2. ASSUME NEW q \in Request, NEW m, Reply(q, m), m.kind # "keyReused"
      PROVE  answer[r].kind = "keyReused"
  BY <1>0, <1>2 DEF Reply
<1>3. ASSUME NEW q \in Request, RowOf(q).status # "ABSENT", DecideFromExisting(q, RowOf(q))
      PROVE  \/ answer[r].kind = "keyReused"
             \/ RowOf(r).status # "ABSENT" /\ RowOf(r).hash # req[r].hash
  <2>1. CASE RowOf(q).hash # req[q].hash /\ Reply(q, Says("keyReused"))
    BY <1>0, <1>3, <2>1 DEF Reply
  <2>2. CASE Reply(q, [kind |-> "response", response |-> RowOf(q).response])
    BY <1>2, <2>2
  <2>3. CASE Reply(q, Says("inProgress"))
    BY <1>2, <2>3 DEF Says
  <2>4. QED
    BY <1>1, <1>3, <2>1, <2>2, <2>3 DEF DecideFromExisting
<1>4. ASSUME NEW q \in Request, Find(q) \/ FindAgain(q)
      PROVE  \/ answer[r].kind = "keyReused"
             \/ RowOf(r).status # "ABSENT" /\ RowOf(r).hash # req[r].hash
  <2>1. \/ RowOf(q).status # "ABSENT" /\ DecideFromExisting(q, RowOf(q))
        \/ UNCHANGED answer
        \/ Reply(q, Says("error"))
    BY <1>4 DEF Find, FindAgain
  <2>2. QED
    BY <1>1, <1>2, <1>3, <2>1 DEF Says
<1>5. ASSUME NEW q \in Request,
             \/ Miss(q) \/ StartFails(q) \/ AcquireUnacknowledged(q)
             \/ Commit(q) \/ MarkFailed(q) \/ MarkFailedThrows(q)
      PROVE  answer[r].kind = "keyReused"
  <2>1. \/ UNCHANGED answer
        \/ \E kind \in {"inProgress", "error", "ownershipLost"} : Reply(q, Says(kind))
        \/ Reply(q, [kind |-> "response", response |-> q])
    BY <1>5 DEF Miss, StartFails, AcquireUnacknowledged, Commit, MarkFailed, MarkFailedThrows
  <2>2. QED
    BY <1>1, <1>2, <2>1 DEF Says
<1>6. ASSUME NEW q \in Request, Retry(q) PROVE answer[r].kind = "keyReused"
  BY <1>0, <1>6 DEF Retry, NoAnswer
<1>7. QED
  BY <1>1, <1>3, <1>4, <1>5, <1>6
     DEF Next, Start, Finish, Fault, idemVars, Receive, Acquire, CommitUnacknowledged,
         CompletionRefused, WorkFails, Crash, Tick

\* What requests came with does not change.
LEMMA RequestsAreFixed == [Next]_idemVars => req' = req
BY DEF Next, Start, Finish, Fault, idemVars, Receive, Find, FindAgain, Acquire, Miss,
       StartFails, AcquireUnacknowledged, Commit, CommitUnacknowledged, CompletionRefused,
       WorkFails, MarkFailed, MarkFailedThrows, Crash, Retry, Tick

\* The invariant of the hashes is kept by every step of the protocol.
LEMMA HashesKeepInv == HInv /\ [Next]_idemVars => HInv'
<1> SUFFICES ASSUME HInv, [Next]_idemVars PROVE AnswersGoByHash'
  BY NextInv DEF HInv
<1>1. IInv /\ AnswersGoByHash /\ req' = req
  BY RequestsAreFixed DEF HInv
<1>2. req \in [Request -> [key : Key, hash : Hash, resource : Resource]]
  BY <1>1 DEF IInv, TypeOK
<1>3. ASSUME NEW k \in Key, rows'[k].token # None
      PROVE  rows'[k].hash = req'[rows'[k].token].hash
  BY <1>1, <1>3, RowsKeepTheirHash DEF AnswersGoByHash
<1>4. ASSUME NEW r \in Request, answer'[r].kind = "keyReused"
      PROVE  \E s \in Request : req'[s].key = req'[r].key /\ req'[s].hash # req'[r].hash
  <2>1. CASE answer[r].kind = "keyReused"
    BY <1>1, <2>1 DEF AnswersGoByHash
  <2>2. CASE RowOf(r).status # "ABSENT" /\ RowOf(r).hash # req[r].hash
    <3>1. req[r].key \in Key /\ RowOf(r).token # None /\ RowOf(r).token \in Request \cup {None}
      BY <1>1, <1>2, <2>2, RowOfType DEF IInv, RowsMatchOwners, RowOf, Row
    <3>2. /\ req[RowOf(r).token].key = req[r].key
          /\ RowOf(r).hash = req[RowOf(r).token].hash
      BY <1>1, <3>1 DEF AnswersGoByHash, IInv, TokensAreFresh, RowOf
    <3>3. QED
      BY <1>1, <2>2, <3>1, <3>2
  <2>3. QED
    BY <1>1, <1>4, <2>1, <2>2, RefusalsMeetAnotherHash
<1>5. QED
  BY <1>3, <1>4 DEF AnswersGoByHash

\* The invariant of the hashes holds in every behaviour of the protocol.
LEMMA SpecHashes == Spec => []HInv
<1>1. Init => HInv
  <2> SUFFICES ASSUME Init PROVE HInv
    OBVIOUS
  <2>1. \A k \in Key : rows[k].token = None
    BY DEF Init, NoRow
  <2>2. \A r \in Request : answer[r].kind = "none"
    BY DEF Init, NoAnswer
  <2>3. QED
    BY <2>1, <2>2, InitInv DEF HInv, AnswersGoByHash
<1>2. QED
  BY <1>1, HashesKeepInv, PTL DEF Spec

-----------------------------------------------------------------------------
(* Canonical texts *)

\* Sorting keeps the names: Object.keys(value).sort() has those of the object.
LEMMA SortedHasTheNames ==
    ASSUME NEW S \in SUBSET Nat, IsFiniteSet(S)
    PROVE  ToSet(Sorted(S)) = S
<1> DEFINE n == Cardinality(S)
           UpTo(x) == {y \in S : y <= x}
           rank == [x \in S |-> Cardinality(UpTo(x))]
           Increasing(s) == \A i, j \in 1 .. n : i < j => s[i] < s[j]
<1>0. \A x \in S : x \in Nat
  OBVIOUS
<1>1. n \in Nat /\ IsFiniteSet(1 .. n) /\ Cardinality(1 .. n) = n
  BY FS_CardinalityType, FS_Interval
<1>2. ASSUME NEW x \in S
      PROVE  IsFiniteSet(UpTo(x)) /\ Cardinality(UpTo(x)) \in 1 .. n
  <2>1. UpTo(x) \in SUBSET S /\ UpTo(x) # {}
    OBVIOUS
  <2>2. IsFiniteSet(UpTo(x)) /\ Cardinality(UpTo(x)) <= n
    BY <2>1, FS_Subset
  <2>3. Cardinality(UpTo(x)) \in Nat /\ Cardinality(UpTo(x)) # 0
    BY <2>1, <2>2, FS_CardinalityType, FS_EmptySet
  <2>4. QED
    BY <1>1, <2>2, <2>3
<1>3. ASSUME NEW x \in S, NEW y \in S, x < y PROVE rank[x] < rank[y]
  <2>1. UpTo(x) \in SUBSET UpTo(y) /\ y \in UpTo(y) /\ y \notin UpTo(x)
    <3>1. x \in Nat /\ y \in Nat
      BY <1>0
    <3>2. \A z \in S : z <= x => z <= y
      BY <1>0, <1>3, <3>1
    <3>3. y <= y /\ ~(y <= x)
      BY <1>3, <3>1
    <3>4. QED
      BY <3>2, <3>3
  <2>2. /\ Cardinality(UpTo(x)) <= Cardinality(UpTo(y))
        /\ Cardinality(UpTo(x)) # Cardinality(UpTo(y))
    BY <1>2, <2>1, FS_Subset
  <2>3. QED
    BY <1>2, <2>2
<1>4. rank \in [S -> 1 .. n]
  BY <1>2
<1> HIDE DEF UpTo, rank, n
<1>5. rank \in Injection(S, 1 .. n)
  BY <1>3, <1>4 DEF Injection, IsInjective
<1>6. \A i \in 1 .. n : \E x \in S : rank[x] = i
  <2>1. Cardinality(S) = Cardinality(1 .. n)
    BY <1>1 DEF n
  <2>2. rank \in Surjection(S, 1 .. n)
    BY <1>1, <1>5, <2>1, FS_Injection
  <2>3. QED
    BY <2>2 DEF Surjection
<1>7. \E s \in [1 .. n -> S] : Increasing(s)
  <2> DEFINE s == [i \in 1 .. n |-> CHOOSE x \in S : rank[x] = i]
  <2>1. \A i \in 1 .. n : s[i] \in S /\ rank[s[i]] = i
    BY <1>6
  <2> HIDE DEF s
  <2>2. ASSUME NEW i \in 1 .. n, NEW j \in 1 .. n, i < j PROVE s[i] < s[j]
    <3>1. s[j] < s[i] => rank[s[j]] < rank[s[i]]
      BY <1>3, <2>1
    <3>2. s[i] \in Nat /\ s[j] \in Nat /\ rank[s[i]] = i /\ rank[s[j]] = j
      BY <1>0, <2>1
    <3>3. QED
      BY <2>2, <3>1, <3>2
  <2>3. s \in [1 .. n -> S]
    BY <2>1 DEF s
  <2>4. QED
    BY <2>2, <2>3
<1>8. Sorted(S) \in [1 .. n -> S] /\ Increasing(Sorted(S))
  BY <1>7 DEF Sorted, n
<1>9. Sorted(S) \in Injection(1 .. n, S)
  <2>1. \A i \in 1 .. n : Sorted(S)[i] \in Nat
    BY <1>0, <1>8
  <2>2. ASSUME NEW i \in 1 .. n, NEW j \in 1 .. n, i # j PROVE Sorted(S)[i] # Sorted(S)[j]
    <3>1. i < j \/ j < i
      BY <2>2
    <3>2. QED
      BY <2>1, <3>1, <1>8
  <2>3. QED
    BY <1>8, <2>2 DEF Injection, IsInjective
<1>10. \A x \in S : \E i \in 1 .. n : Sorted(S)[i] = x
  <2>1. Cardinality(1 .. n) = Cardinality(S)
    BY <1>1 DEF n
  <2>2. Sorted(S) \in Surjection(1 .. n, S)
    BY <1>9, <2>1, FS_Injection
  <2>3. QED
    BY <2>2 DEF Surjection
<1>11. QED
  BY <1>8, <1>10 DEF ToSet

\* The parts of a value are values, and an object's names a finite set of numbers.
LEMMA ValueParts ==
    ASSUME NEW v \in Value
    PROVE  /\ v.kind \in {"atom", "array", "object"}
           /\ v.kind = "atom" => v = JAtom(v.atom)
           /\ v.kind = "array" => \A i \in DOMAIN v.items : v.items[i] \in Parts(v)
           /\ v.kind = "object" =>
                 /\ ToSet(v.names) \in SUBSET Nat /\ IsFiniteSet(ToSet(v.names))
                 /\ \A n \in ToSet(v.names) : v.at[n] \in Parts(v)
           /\ Parts(v) \subseteq Value
<1>1. CASE IsAtom(v)
  BY <1>1 DEF IsAtom, Parts
<1>2. CASE IsArray(v)
  BY <1>2 DEF IsArray, Parts, ToSet
<1>3. CASE IsObject(v)
  <2>1. DOMAIN v.names = 1 .. Len(v.names) /\ Len(v.names) \in Nat
    BY <1>3 DEF IsObject
  <2>2. v.names \in Surjection(1 .. Len(v.names), ToSet(v.names))
    BY <1>3, <2>1 DEF IsObject, Surjection, ToSet
  <2>3. IsFiniteSet(ToSet(v.names))
    BY <2>1, <2>2, FS_Interval, FS_Surjection
  <2>4. ToSet(v.names) \in SUBSET Nat
    BY <1>3, <2>1 DEF IsObject, ToSet
  <2>5. QED
    BY <1>3, <2>3, <2>4 DEF IsObject, Parts
<1>4. QED
  BY <1>1, <1>2, <1>3, ValueAssumption

\* Induction over JSON: what a value inherits from its parts holds of all values.
LEMMA NestingInduction ==
    ASSUME NEW Good, \A v \in Value : Parts(v) \subseteq Good => v \in Good
    PROVE  Value \subseteq Good
<1> SUFFICES ASSUME Value \ Good # {} PROVE FALSE
  OBVIOUS
<1>1. PICK v \in Value \ Good : Parts(v) \cap (Value \ Good) = {}
  BY NestingAssumption
<1>2. QED
  BY <1>1, ValueParts

(* Canonicalize and Meaning are functions defined by recursion.  That there are
   such functions is proved here, once for both: they rebuild a value from what
   they make of its parts, and differ in what they make of names. *)

NamesAs(form, names) == IF form = "text" THEN Sorted(names) ELSE names

Rebuilt(form, f, v) ==
    IF v.kind = "array" THEN JArray([i \in DOMAIN v.items |-> f[v.items[i]]])
    ELSE IF v.kind = "object" THEN
         JObject(NamesAs(form, ToSet(v.names)), [n \in ToSet(v.names) |-> f[v.at[n]]])
    ELSE v

\* f obeys the equation on D, which has the parts of its members.
Obeys(form, f, D) ==
    \A v \in D : Parts(v) \subseteq D /\ f[v] = Rebuilt(form, f, v)

\* A value is rebuilt from its parts only.
LEMMA RebuiltFromParts ==
    ASSUME NEW v \in Value, NEW form, NEW f, NEW g, \A p \in Parts(v) : f[p] = g[p]
    PROVE  Rebuilt(form, f, v) = Rebuilt(form, g, v)
<1>1. CASE v.kind = "atom"
  BY <1>1 DEF Rebuilt
<1>2. CASE v.kind = "array"
  <2>1. [i \in DOMAIN v.items |-> f[v.items[i]]] = [i \in DOMAIN v.items |-> g[v.items[i]]]
    BY <1>2, ValueParts
  <2>2. QED
    BY <1>2, <2>1 DEF Rebuilt
<1>3. CASE v.kind = "object"
  <2>1. [n \in ToSet(v.names) |-> f[v.at[n]]] = [n \in ToSet(v.names) |-> g[v.at[n]]]
    BY <1>3, ValueParts
  <2>2. QED
    BY <1>3, <2>1 DEF Rebuilt
<1>4. QED
  BY <1>1, <1>2, <1>3, ValueParts

\* There is one way to obey the equation.
LEMMA ObeyingAgree ==
    ASSUME NEW form, NEW f, NEW D \in SUBSET Value, Obeys(form, f, D),
           NEW g, NEW E \in SUBSET Value, Obeys(form, g, E),
           NEW v \in D \cap E
    PROVE  f[v] = g[v]
<1> DEFINE Good == {u \in Value : u \in D \cap E => f[u] = g[u]}
<1>1. ASSUME NEW u \in Value, Parts(u) \subseteq Good, u \in D \cap E PROVE f[u] = g[u]
  <2>1. \A p \in Parts(u) : f[p] = g[p]
    BY <1>1 DEF Obeys
  <2>2. QED
    BY <1>1, <2>1, RebuiltFromParts DEF Obeys
<1>2. \A u \in Value : Parts(u) \subseteq Good => u \in Good
  BY <1>1
<1>3. Value \subseteq Good
  <2> HIDE DEF Good
  <2>1. QED
    BY <1>2, NestingInduction
<1>4. QED
  BY <1>3

\* Some function obeys the equation on all values.
LEMMA RecursionHasASolution ==
    ASSUME NEW form
    PROVE  \E f : f = [v \in Value |-> f[v]] /\ Obeys(form, f, Value)
<1> DEFINE U == {v \in Value : \E D \in SUBSET Value : v \in D /\ \E f : Obeys(form, f, D)}
           Some(v) == CHOOSE f : \E D \in SUBSET Value : v \in D /\ Obeys(form, f, D)
           F == [v \in Value |-> Some(v)[v]]
<1>1. ASSUME NEW D \in SUBSET Value, NEW f, Obeys(form, f, D), NEW v \in D
      PROVE  F[v] = f[v] /\ v \in U
  <2>1. \E E \in SUBSET Value : v \in E /\ Obeys(form, Some(v), E)
    <3>1. \E h : \E E \in SUBSET Value : v \in E /\ Obeys(form, h, E)
      BY <1>1
    <3>2. QED
      BY <3>1
  <2>2. PICK E \in SUBSET Value : v \in E /\ Obeys(form, Some(v), E)
    BY <2>1
  <2> HIDE DEF Some
  <2>3. Some(v)[v] = f[v]
    BY <1>1, <2>2, ObeyingAgree
  <2>4. QED
    BY <1>1, <2>3
<1> HIDE DEF F
<1>2. Obeys(form, F, U)
  <2> SUFFICES ASSUME NEW v \in U PROVE Parts(v) \subseteq U /\ F[v] = Rebuilt(form, F, v)
    BY DEF Obeys
  <2>1. PICK D \in SUBSET Value : v \in D /\ \E f : Obeys(form, f, D)
    OBVIOUS
  <2>2. PICK f : Obeys(form, f, D)
    BY <2>1
  <2>3. Parts(v) \subseteq D /\ f[v] = Rebuilt(form, f, v)
    BY <2>1, <2>2 DEF Obeys
  <2>4. F[v] = f[v] /\ Parts(v) \subseteq U /\ \A p \in Parts(v) : F[p] = f[p]
    BY <1>1, <2>1, <2>2, <2>3
  <2>5. QED
    BY <2>3, <2>4, RebuiltFromParts
<1>3. ASSUME NEW v \in Value, Parts(v) \subseteq U, v \notin U PROVE FALSE
  <2> DEFINE G == [u \in Value |-> IF u = v THEN Rebuilt(form, F, v) ELSE F[u]]
  <2>1. U \subseteq Value
    OBVIOUS
  <2> HIDE DEF U
  <2>2. ASSUME NEW u \in U \cup {v}
        PROVE  Parts(u) \subseteq U /\ G[u] = Rebuilt(form, G, u)
    <3>1. Parts(u) \subseteq U
      BY <1>2, <1>3, <2>2 DEF Obeys
    <3>2. u \in Value /\ \A p \in Parts(u) : G[p] = F[p]
      BY <1>3, <2>1, <3>1
    <3>3. Rebuilt(form, G, u) = Rebuilt(form, F, u)
      BY <3>2, RebuiltFromParts
    <3>4. G[u] = Rebuilt(form, F, u)
      BY <1>2, <2>1, <2>2, <3>2 DEF Obeys
    <3>5. QED
      BY <3>1, <3>3, <3>4
  <2> HIDE DEF G
  <2>3. Obeys(form, G, U \cup {v}) /\ U \cup {v} \in SUBSET Value
    BY <2>1, <2>2 DEF Obeys
  <2>4. v \in U
    BY <1>1, <2>3
  <2>5. QED
    BY <1>3, <2>4
<1>4. Value \subseteq U
  <2>1. \A v \in Value : Parts(v) \subseteq U => v \in U
    BY <1>3
  <2> HIDE DEF U
  <2>2. QED
    BY <2>1, NestingInduction
<1>5. U = Value
  BY <1>4
<1>6. F = [v \in Value |-> F[v]]
  BY DEF F
<1>7. QED
  BY <1>2, <1>5, <1>6

\* The function that canonicalize is, and the one that meaning is, obey their
\* equations.
LEMMA CanonicalizeEquation == Obeys("text", Canonicalize, Value)
<1>1. PICK f : f = [v \in Value |-> f[v]] /\ Obeys("text", f, Value)
  BY RecursionHasASolution
<1>2. ASSUME NEW v \in Value
      PROVE  f[v] =
          IF v.kind = "array" THEN JArray([i \in DOMAIN v.items |-> f[v.items[i]]])
          ELSE IF v.kind = "object" THEN
               JObject(Sorted(ToSet(v.names)), [n \in ToSet(v.names) |-> f[v.at[n]]])
          ELSE v
  BY <1>1 DEF Obeys, Rebuilt, NamesAs
<1>3. f = [v \in Value |->
          IF v.kind = "array" THEN JArray([i \in DOMAIN v.items |-> f[v.items[i]]])
          ELSE IF v.kind = "object" THEN
               JObject(Sorted(ToSet(v.names)), [n \in ToSet(v.names) |-> f[v.at[n]]])
          ELSE v]
  BY <1>1, <1>2, Zenon
<1>4. Canonicalize = [v \in Value |->
          IF v.kind = "array" THEN JArray([i \in DOMAIN v.items |-> Canonicalize[v.items[i]]])
          ELSE IF v.kind = "object" THEN
               JObject(Sorted(ToSet(v.names)),
                       [n \in ToSet(v.names) |-> Canonicalize[v.at[n]]])
          ELSE v]
  BY <1>3, Zenon DEF Canonicalize
<1>5. QED
  BY <1>4, ValueParts DEF Obeys, Rebuilt, NamesAs

LEMMA MeaningEquation == Obeys("meaning", Meaning, Value)
<1>1. PICK f : f = [v \in Value |-> f[v]] /\ Obeys("meaning", f, Value)
  BY RecursionHasASolution
<1>2. ASSUME NEW v \in Value
      PROVE  f[v] =
          IF v.kind = "array" THEN JArray([i \in DOMAIN v.items |-> f[v.items[i]]])
          ELSE IF v.kind = "object" THEN
               JObject(ToSet(v.names), [n \in ToSet(v.names) |-> f[v.at[n]]])
          ELSE v
  BY <1>1 DEF Obeys, Rebuilt, NamesAs
<1>3. f = [v \in Value |->
          IF v.kind = "array" THEN JArray([i \in DOMAIN v.items |-> f[v.items[i]]])
          ELSE IF v.kind = "object" THEN
               JObject(ToSet(v.names), [n \in ToSet(v.names) |-> f[v.at[n]]])
          ELSE v]
  BY <1>1, <1>2, Zenon
<1>4. Meaning = [v \in Value |->
          IF v.kind = "array" THEN JArray([i \in DOMAIN v.items |-> Meaning[v.items[i]]])
          ELSE IF v.kind = "object" THEN
               JObject(ToSet(v.names), [n \in ToSet(v.names) |-> Meaning[v.at[n]]])
          ELSE v]
  BY <1>3, Zenon DEF Meaning
<1>5. QED
  BY <1>4, ValueParts DEF Obeys, Rebuilt, NamesAs

\* What is rebuilt from equal parts under equal names is equal, and only that.
LEMMA RebuiltAlike ==
    ASSUME NEW form \in {"text", "meaning"}, NEW f, Obeys(form, f, Value),
           NEW u \in Value, NEW v \in Value
    PROVE  f[u] = f[v] <=>
             /\ u.kind = v.kind
             /\ u.kind = "atom" => u = v
             /\ u.kind = "array" =>
                   /\ DOMAIN u.items = DOMAIN v.items
                   /\ \A i \in DOMAIN u.items : f[u.items[i]] = f[v.items[i]]
             /\ u.kind = "object" =>
                   /\ ToSet(u.names) = ToSet(v.names)
                   /\ \A n \in ToSet(u.names) : f[u.at[n]] = f[v.at[n]]
<1>1. f[u] = Rebuilt(form, f, u) /\ f[v] = Rebuilt(form, f, v)
  BY DEF Obeys
<1>2. f[u].kind = u.kind /\ f[v].kind = v.kind
  BY <1>1, ValueParts DEF Rebuilt, JArray, JObject
<1>3. CASE u.kind # v.kind
  BY <1>2, <1>3
<1>4. CASE u.kind = "atom" /\ v.kind = "atom"
  BY <1>1, <1>4 DEF Rebuilt
<1>5. CASE u.kind = "array" /\ v.kind = "array"
  <2> DEFINE a == [i \in DOMAIN u.items |-> f[u.items[i]]]
             b == [i \in DOMAIN v.items |-> f[v.items[i]]]
  <2>1. f[u] = JArray(a) /\ f[v] = JArray(b)
    BY <1>1, <1>5 DEF Rebuilt
  <2>2. a = b <=> /\ DOMAIN u.items = DOMAIN v.items
                  /\ \A i \in DOMAIN u.items : f[u.items[i]] = f[v.items[i]]
    <3>1. ASSUME a = b
          PROVE  /\ DOMAIN u.items = DOMAIN v.items
                 /\ \A i \in DOMAIN u.items : f[u.items[i]] = f[v.items[i]]
      <4>1. DOMAIN a = DOMAIN b /\ \A i \in DOMAIN a : a[i] = b[i]
        BY <3>1
      <4>2. QED
        BY <4>1
    <3>2. QED
      BY <3>1
  <2> HIDE DEF a, b
  <2>3. JArray(a) = JArray(b) <=> a = b
    <3>1. JArray(a).items = a /\ JArray(b).items = b
      BY DEF JArray
    <3>2. QED
      BY <3>1
  <2>4. QED
    BY <1>5, <2>1, <2>2, <2>3
<1>6. CASE u.kind = "object" /\ v.kind = "object"
  <2> DEFINE N == ToSet(u.names)
             M == ToSet(v.names)
             a == [n \in N |-> f[u.at[n]]]
             b == [n \in M |-> f[v.at[n]]]
  <2>1. f[u] = JObject(NamesAs(form, N), a) /\ f[v] = JObject(NamesAs(form, M), b)
    BY <1>1, <1>6 DEF Rebuilt
  <2>2. N = M => (a = b <=> \A n \in N : f[u.at[n]] = f[v.at[n]])
    <3>1. ASSUME N = M, a = b PROVE \A n \in N : f[u.at[n]] = f[v.at[n]]
      <4>1. \A n \in N : a[n] = b[n]
        BY <3>1
      <4> HIDE DEF N, M
      <4>2. QED
        BY <3>1, <4>1
    <3> HIDE DEF N, M
    <3>2. QED
      BY <3>1
  <2>3. NamesAs(form, N) = NamesAs(form, M) => N = M
    BY <1>6, ValueParts, SortedHasTheNames DEF NamesAs
  <2> HIDE DEF N, M, a, b
  <2>4. JObject(NamesAs(form, N), a) = JObject(NamesAs(form, M), b)
           <=> NamesAs(form, N) = NamesAs(form, M) /\ a = b
    <3>1. /\ JObject(NamesAs(form, N), a).names = NamesAs(form, N)
          /\ JObject(NamesAs(form, M), b).names = NamesAs(form, M)
          /\ JObject(NamesAs(form, N), a).at = a
          /\ JObject(NamesAs(form, M), b).at = b
      BY DEF JObject
    <3>2. QED
      BY <3>1
  <2>5. f[u] = f[v] <=> N = M /\ \A n \in N : f[u.at[n]] = f[v.at[n]]
    BY <2>1, <2>2, <2>3, <2>4
  <2>6. QED
    BY <1>6, <2>5 DEF N, M
<1>7. QED
  BY <1>3, <1>4, <1>5, <1>6, ValueParts

\* Two payloads have one hash if and only if they mean the same.
THEOREM HashesGoByMeaning ==
    \A u, v \in Value : BuildRequestHash(u) = BuildRequestHash(v) <=> Meaning[u] = Meaning[v]
<1> DEFINE Good == {u \in Value : \A v \in Value :
                        Canonicalize[u] = Canonicalize[v] <=> Meaning[u] = Meaning[v]}
<1>1. ASSUME NEW u \in Value, Parts(u) \subseteq Good, NEW v \in Value
      PROVE  Canonicalize[u] = Canonicalize[v] <=> Meaning[u] = Meaning[v]
  <2>1. u.kind = "array" /\ v.kind = "array" =>
            \A i \in DOMAIN u.items \cap DOMAIN v.items :
                Canonicalize[u.items[i]] = Canonicalize[v.items[i]]
                   <=> Meaning[u.items[i]] = Meaning[v.items[i]]
    BY <1>1, ValueParts
  <2>2. u.kind = "object" /\ v.kind = "object" =>
            \A n \in ToSet(u.names) \cap ToSet(v.names) :
                Canonicalize[u.at[n]] = Canonicalize[v.at[n]]
                   <=> Meaning[u.at[n]] = Meaning[v.at[n]]
    BY <1>1, ValueParts
  <2>3. QED
    BY <2>1, <2>2, RebuiltAlike, CanonicalizeEquation, MeaningEquation
<1>2. Value \subseteq Good
  <2>1. \A u \in Value : Parts(u) \subseteq Good => u \in Good
    BY <1>1
  <2> HIDE DEF Good
  <2>2. QED
    BY <2>1, NestingInduction
<1>3. QED
  BY <1>2 DEF BuildRequestHash

\* A client is told that its key was reused only if a request with that key said
\* something else, and is given a response only to what it said itself, whatever
\* the order in which objects were filled at any depth.
THEOREM AnswersAreByMeaning == Spec => []AnswersGoByMeaning
<1>1. HInv => AnswersGoByMeaning
  <2> SUFFICES ASSUME HInv, NEW payload \in [Request -> Payload], Sends(payload),
                      NEW r \in Request
               PROVE  /\ answer[r].kind = "keyReused" =>
                            \E s \in Request : /\ req[s].key = req[r].key
                                               /\ Meaning[payload[s]] # Meaning[payload[r]]
                      /\ answer[r].kind = "response" =>
                            Meaning[payload[answer[r].response]] = Meaning[payload[r]]
    BY DEF AnswersGoByMeaning
  <2>1. \A q, s \in Request :
            req[q].hash = req[s].hash <=> Meaning[payload[q]] = Meaning[payload[s]]
    <3>1. \A q \in Request : payload[q] \in Value
      BY PayloadAssumption
    <3>2. QED
      BY <3>1, HashesGoByMeaning DEF Sends
  <2>2. ASSUME answer[r].kind = "keyReused"
        PROVE  \E s \in Request : /\ req[s].key = req[r].key
                                  /\ Meaning[payload[s]] # Meaning[payload[r]]
    BY <2>1, <2>2 DEF HInv, AnswersGoByHash
  <2>3. ASSUME answer[r].kind = "response"
        PROVE  Meaning[payload[answer[r].response]] = Meaning[payload[r]]
    <3>1. /\ req[r].key \in Key /\ RowOf(r).status = "COMPLETED"
          /\ RowOf(r).response = answer[r].response /\ RowOf(r).hash = req[r].hash
      BY <2>3 DEF HInv, IInv, AnswersMatchRows, TypeOK
    <3>2. /\ RowOf(r).token # None /\ RowOf(r).token \in Request \cup {None}
          /\ answer[r].response = RowOf(r).token
      BY <3>1, RowOfType DEF HInv, IInv, RowsMatchOwners, RowOf, Row
    <3>3. req[RowOf(r).token].hash = RowOf(r).hash
      BY <3>1, <3>2 DEF HInv, AnswersGoByHash, RowOf
    <3>4. QED
      BY <2>1, <3>1, <3>2, <3>3
  <2>4. QED
    BY <2>2, <2>3
<1>2. QED
  BY <1>1, SpecHashes, PTL

=============================================================================
