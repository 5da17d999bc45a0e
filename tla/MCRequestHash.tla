----------------------------- MODULE MCRequestHash -----------------------------
(* RequestHash on a small instance: the payloads differ in what they say, or only
   in the order in which an object of theirs was filled. *)
EXTENDS RequestHash

A == JAtom("a")
B == JAtom("b")

\* An object with the names 1 and 2, filled in one order or the other.
OneTwo(v, w) == JObject(<<1, 2>>, <<v, w>>)
TwoOne(v, w) == JObject(<<2, 1>>, <<v, w>>)

\* An object in an object, in both orders at both levels, and one with other
\* values; an object in an array, in both orders; and an array in both orders.
MCPayload ==
    { OneTwo(OneTwo(A, B), A), TwoOne(TwoOne(A, B), A), OneTwo(OneTwo(B, A), A),
      JArray(<<OneTwo(A, B)>>), JArray(<<TwoOne(A, B)>>),
      JArray(<<A, B>>), JArray(<<B, A>>) }

MCValue == MCPayload \cup {OneTwo(A, B), TwoOne(A, B), OneTwo(B, A), A, B}

MCHash == {BuildRequestHash(p) : p \in MCPayload}

=============================================================================
