---------------------------- MODULE TaskLifecycle ----------------------------
(***************************************************************************)
(* What the A2A adapter promises of a task (TaskState and TERMINAL in      *)
(* s13code/core/a2a_adapter/server.py): it is accepted, it may be set to   *)
(* work, it ends once, and an end is final, whatever restarts in between.  *)
(***************************************************************************)
CONSTANT Ids

VARIABLE state

TaskState == {"submitted", "working", "completed", "failed", "canceled"}
Final     == {"completed", "failed", "canceled"}
Open      == TaskState \ Final

Init == state = [i \in Ids |-> "absent"]

Submit(i) ==
    state[i] = "absent" /\ state' = [state EXCEPT ![i] = "submitted"]

\* One task is set to work, or a restart sets every open one to work.
Begin(S) ==
    /\ \A i \in S : state[i] \in Open
    /\ state' = [i \in Ids |-> IF i \in S THEN "working" ELSE state[i]]

End(i) ==
    state[i] \in Open /\ \E s \in Final : state' = [state EXCEPT ![i] = s]

Next == \/ \E i \in Ids : Submit(i) \/ End(i)
        \/ \E S \in SUBSET Ids : Begin(S)

Spec == Init /\ [][Next]_state

=============================================================================
