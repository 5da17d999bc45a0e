--------------------------- MODULE MCIdempotency ---------------------------
(* Idempotency on a small instance: one key, a few requests. *)
EXTENDS Idempotency, TLC

\* The requests, payloads and resources differ only in name.
Symmetry == Permutations(Request) \cup Permutations(Hash) \cup Permutations(Resource)

=============================================================================
