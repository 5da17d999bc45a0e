------------------------------ MODULE MCLifecycle ------------------------------
(* Lifecycle with the two signals of main, which are interchangeable. *)
EXTENDS Lifecycle, TLC

SignalSymmetry == Permutations(Signal)

=============================================================================
