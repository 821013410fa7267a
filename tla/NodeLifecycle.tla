---------------------------- MODULE NodeLifecycle ----------------------------
(***************************************************************************)
(* What the live graph promises whoever watches its nodes and edges: a     *)
(* task comes, is planned and replanned while nothing executes it, starts  *)
(* when every task it needs has succeeded, ends once, and starts again     *)
(* only when its execution was interrupted.  Dependencies are never taken  *)
(* back, never become circular, and once the graph is sealed it is over.   *)
(***************************************************************************)
CONSTANT Tasks

VARIABLES state,   \* of each task
          needs,   \* a set of pairs: the second task needs the first
          sealed   \* no task may come or start any more

nodeVars == <<state, needs, sealed>>

Ended == {"succeeded", "failed", "cancelled"}

Circular(S) == S # {} /\ \A t \in S : \E u \in S : <<t, u>> \in needs

Init == state = [t \in Tasks |-> "absent"] /\ needs = {} /\ sealed = FALSE

\* Where a planner may move a task; what executes it can only cancel.
Planned(old, new) ==
    \/ old = new
    \/ old = "absent"  /\ new \in {"pending", "waiting", "cancelled"}
    \/ old = "pending" /\ new \in {"waiting", "cancelled"}
    \/ old = "waiting" /\ new \in {"pending", "cancelled"}
    \/ old = "running" /\ new = "cancelled"

Replan ==
    /\ ~sealed
    /\ DOMAIN state' = Tasks /\ \A t \in Tasks : Planned(state[t], state'[t])
    /\ needs \subseteq needs' /\ ~ \E S \in SUBSET Tasks : Circular(S)'
    /\ sealed' => \A t \in Tasks : state'[t] \in Ended \cup {"absent"}

Startable(t) ==
    /\ state[t] = "pending"
    /\ \A q \in Tasks : <<q, t>> \in needs => state[q] \in {"succeeded", "absent"}

Begin(S) ==
    /\ ~sealed /\ \A t \in S : Startable(t)
    /\ state' = [t \in Tasks |-> IF t \in S THEN "running" ELSE state[t]]
    /\ UNCHANGED <<needs, sealed>>

End(t) ==
    /\ ~sealed /\ state[t] = "running"
    /\ \E s \in {"succeeded", "failed"} : state' = [state EXCEPT ![t] = s]
    /\ UNCHANGED <<needs, sealed>>

Interrupt ==
    /\ ~sealed
    /\ state' = [t \in Tasks |-> IF state[t] = "running" THEN "pending" ELSE state[t]]
    /\ UNCHANGED <<needs, sealed>>

Next == \/ Replan \/ Interrupt
        \/ \E S \in SUBSET Tasks : Begin(S)
        \/ \E t \in Tasks : End(t)

Spec == Init /\ [][Next]_nodeVars

=============================================================================
