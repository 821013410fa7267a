----------------------------- MODULE MCA2ATasks -----------------------------
(* Small instances of A2ATasks for TLC. *)
EXTENDS A2ATasks, TLC

Interchangeable == Permutations(Ids)
=============================================================================
