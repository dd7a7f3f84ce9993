------------------------------ MODULE MCCaller ------------------------------
(* Caller with four sequences, so that few calls wrap the counter.          *)
EXTENDS Caller, TLC

Symmetry == Permutations(Calls) \cup Permutations(Consumers)
=============================================================================
