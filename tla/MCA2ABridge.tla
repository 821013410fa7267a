---------------------------- MODULE MCA2ABridge ----------------------------
(* Instances of A2ABridge for TLC. *)
EXTENDS A2ABridge, TLC

Interchangeable == Permutations(Executors) \cup Permutations(Calls)
=============================================================================
