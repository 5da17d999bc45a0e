------------------------------- MODULE MCGateway -------------------------------
(* Gateway on small instances. *)
EXTENDS Gateway, TLC

CallSymmetry == Permutations(Call) \cup Permutations(Resource)

=============================================================================
