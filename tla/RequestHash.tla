------------------------------- MODULE RequestHash -------------------------------
(***************************************************************************)
(* IdempotencyService.buildRequestHash: canonicalize sorts the keys of     *)
(* every object at every depth, JSON.stringify writes them in that order.  *)
(* SHA-256 is taken as injective: a hash is a canonical text.              *)
(*                                                                         *)
(* A JSON value is an atom, an array of values, or an object: its names in *)
(* the order in which it was filled, and the value at each name.           *)
(***************************************************************************)
EXTENDS Idempotency, Sequences, SequencesExt

CONSTANTS
    Value,     \* JSON values, with the values that are part of one
    Payload    \* those that clients send

-----------------------------------------------------------------------------
(* Values.  Names are numbers, and their order is that of sort(). *)

JAtom(a)          == [kind |-> "atom", atom |-> a]
JArray(items)     == [kind |-> "array", items |-> items]
JObject(names, f) == [kind |-> "object", names |-> names, at |-> f]

Parts(v) ==
    CASE v.kind = "atom"   -> {}
      [] v.kind = "array"  -> ToSet(v.items)
      [] v.kind = "object" -> {v.at[n] : n \in ToSet(v.names)}

IsAtom(v)   == v.kind = "atom" /\ v = JAtom(v.atom)
IsArray(v)  == v.kind = "array" /\ v = JArray(v.items) /\ v.items \in Seq(Value)
IsObject(v) == /\ v.kind = "object"
               /\ v = JObject(v.names, v.at)
               /\ v.names \in Seq(Nat) /\ IsInjective(v.names)
               /\ v.at \in [ToSet(v.names) -> Value]

ASSUME ValueAssumption   == \A v \in Value : IsAtom(v) \/ IsArray(v) \/ IsObject(v)
ASSUME PayloadAssumption == Payload \subseteq Value

\* What JSON.parse returns is nested finitely deep: some value is innermost.
ASSUME NestingAssumption ==
    \A S \in SUBSET Value : S # {} => \E v \in S : Parts(v) \cap S = {}

\* Object.keys(value).sort().
Sorted(names) ==
    CHOOSE s \in [1 .. Cardinality(names) -> names] :
        \A i, j \in 1 .. Cardinality(names) : i < j => s[i] < s[j]

\* canonicalize; its result is what JSON.stringify writes.
Canonicalize[v \in Value] ==
    IF v.kind = "array" THEN JArray([i \in DOMAIN v.items |-> Canonicalize[v.items[i]]])
    ELSE IF v.kind = "object" THEN
         JObject(Sorted(ToSet(v.names)),
                 [n \in ToSet(v.names) |-> Canonicalize[v.at[n]]])
    ELSE v

BuildRequestHash_TopOnlyBug(v) ==
    IF v.kind = "object" THEN JObject(Sorted(ToSet(v.names)), v.at) ELSE v

BuildRequestHash(v) == Canonicalize[v]

HashedFairSpec == Spec /\ Fairness

-----------------------------------------------------------------------------
(* Property *)

\* What a JSON value says: all of it but the order in which objects were filled.
Meaning[v \in Value] ==
    IF v.kind = "array" THEN JArray([i \in DOMAIN v.items |-> Meaning[v.items[i]]])
    ELSE IF v.kind = "object" THEN
         JObject(ToSet(v.names), [n \in ToSet(v.names) |-> Meaning[v.at[n]]])
    ELSE v

\* The hashes of these payloads are those that the requests came with.
Sends(payload) == \A r \in Request : req[r].hash = BuildRequestHash(payload[r])

\* A client is told that its key was reused only if a request with that key says
\* something else, and is given a response only to what it said itself: neither
\* the order in which objects were filled, at any depth, nor that of an array is
\* mistaken for the other.
AnswersGoByMeaning ==
    \A payload \in [Request -> Payload] : Sends(payload) =>
        \A r \in Request :
            /\ answer[r].kind = "keyReused" =>
                  \E s \in Request : /\ req[s].key = req[r].key
                                     /\ Meaning[payload[s]] # Meaning[payload[r]]
            /\ answer[r].kind = "response" =>
                  Meaning[payload[answer[r].response]] = Meaning[payload[r]]

(* What it rests on, besides IInv *)

\* The hash of a row is that of the request whose token is in it, and who was
\* told that its key was reused met another hash.
AnswersGoByHash ==
    /\ \A k \in Key : rows[k].token # None => rows[k].hash = req[rows[k].token].hash
    /\ \A r \in Request : answer[r].kind = "keyReused" =>
          \E s \in Request : req[s].key = req[r].key /\ req[s].hash # req[r].hash

HInv == IInv /\ AnswersGoByHash

=============================================================================
