------------------------------- MODULE MCOutbox -------------------------------
(* Outbox on small instances.  Events have an order, so only workers are
   interchangeable. *)
EXTENDS Outbox, TLC

WorkerSymmetry == Permutations(Worker)

=============================================================================
