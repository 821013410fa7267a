---------------------------- MODULE MCMemoryStore ----------------------------
(* Instances of MemoryStore for TLC: a project, a user within it, and a user of
   it named "", whose scope is rendered as that of the project. *)
EXTENDS MemoryStore, TLC

CONSTANTS project, user, blank, short, long, old, new, other

Projects  == {project, user, blank}
Narrowing == [s \in Projects |-> {project, s}]
Rendering == [s \in Projects |-> IF s = blank THEN project ELSE s]

Texts   == {short, long}
Chunked == (short :> 1) @@ (long :> 2)

\* Two models with vectors of one length, and one with another.
Lengths == [m \in Models |-> IF m = other THEN 4 ELSE 3]
=============================================================================
