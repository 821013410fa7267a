---------------------------- MODULE MCRunPlanner ----------------------------
(* Instances of RunPlanner for TLC: every kind of prompt the runtime knows. *)
EXTENDS RunPlanner, TLC

\* The shapes of patch the planner of the runtime composes.
Shapes == {Nothing, Finish}

AllRequests == Request

Comparisons == {[mode |-> "parallel_search", explicit |-> FALSE]}

Interchangeable == Permutations(Executors)
=============================================================================
