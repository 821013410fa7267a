---------------------------- MODULE MCLiveGraph ----------------------------
(* Small instances of LiveGraph for TLC: three tasks and scripted planners. *)
EXTENDS LiveGraph, TLC

MCTasks == 1..3

Nothing == [add |-> {}, connect |-> {}, cancel |-> {}, wait |-> {}, resume |-> {},
            finish |-> FALSE]

\* The mutations the scripted planners choose from.
Frontier == [Nothing EXCEPT !.add = {1, 2}]
Expand   == [Nothing EXCEPT !.add = {3}, !.connect = {<<1, 3>>}]
Redirect == [Expand EXCEPT !.cancel = {2}]
Decide   == [Nothing EXCEPT !.cancel = {2}]
Park     == [Nothing EXCEPT !.add = {3}, !.wait = {3}]
Unpark   == [Nothing EXCEPT !.resume = {3}]
Conclude == [Nothing EXCEPT !.finish = TRUE]

AllPatches == {Nothing, Frontier, Expand, Redirect, Decide, Park, Unpark, Conclude}
FewPatches == {Frontier, Expand, Decide, Conclude}

Interchangeable == Permutations(Executors)
=============================================================================
