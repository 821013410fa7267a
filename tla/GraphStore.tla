----------------------------- MODULE GraphStore -----------------------------
(***************************************************************************)
(* The durable graph of one run: s13code/core/live_graph/store.py.         *)
(*                                                                         *)
(* The store is a SQLite file whose every mutator is one transaction, so   *)
(* each operation below is one atomic step and survives a crash of the     *)
(* process.  The tables and their counterparts here:                       *)
(*                                                                         *)
(*   runs     run       "absent", or the value of runs.finished            *)
(*   nodes    node      the state column, "absent" for a missing row       *)
(*   edges    edges     a set of <<parent, child>> pairs                   *)
(*   events   journal   a sequence with one entry for each transaction:    *)
(*                      the rows one transaction writes become one entry   *)
(*   patches  patches   trigger event |-> the patch it was answered with   *)
(*                                                                         *)
(* A task id is a number, the order of numbers being ORDER BY id.  What a  *)
(* task computes (skill, input, result) is left out.                       *)
(***************************************************************************)
EXTENDS Integers, Sequences, FiniteSets

CONSTANTS
    Tasks,     \* the task ids a planner may ever use
    Patches    \* the GraphPatch values a planner may return

NodeState == {"pending", "running", "succeeded", "failed", "cancelled", "waiting"}
Live      == {"pending", "waiting", "running"}
Terminal  == {"succeeded", "failed", "cancelled"}

Patch == [add : SUBSET Tasks, connect : SUBSET (Tasks \X Tasks),
          cancel : SUBSET Tasks, wait : SUBSET Tasks, resume : SUBSET Tasks,
          finish : BOOLEAN]

ASSUME TasksAssumption   == Tasks \subseteq Nat /\ IsFiniteSet(Tasks)
ASSUME PatchesAssumption == Patches \subseteq Patch

VARIABLES run, node, edges, journal, patches

storeVars == <<run, node, edges, journal, patches>>

PlannerKinds == {"run_started", "task_succeeded", "task_failed"}
EventKinds   == PlannerKinds \cup {"run_resumed", "task_started", "graph_patched", "external"}

\* One transaction's rows: the tasks it names and, for a patch, its trigger.
Event == [kind : EventKinds, tasks : SUBSET Tasks, trigger : Nat]

\* The values of the tables and of the journal.
StoreTypeOK ==
    /\ run \in {"absent", "open", "finished"}
    /\ node \in [Tasks -> NodeState \cup {"absent"}]
    /\ edges \subseteq Tasks \X Tasks
    /\ journal \in Seq(Event)
    /\ DOMAIN patches \subseteq Nat
    /\ patches \in [DOMAIN patches -> Patch]

StoreInit ==
    /\ run = "absent"
    /\ node = [t \in Tasks |-> "absent"]
    /\ edges = {}
    /\ journal = << >>
    /\ patches = << >>

-----------------------------------------------------------------------------
(* Reads. *)

Existing == {t \in Tasks : node[t] # "absent"}
InState(s) == {t \in Tasks : node[t] = s}

\* Mutants: ready() without its sub-select, and a sub-select that counts every parent.
ReadyWithoutParents == InState("pending")
ReadyRootsOnly      == {t \in InState("pending") : \A q \in Existing : <<q, t>> \notin edges}

\* The SELECT of ready(): pending, and no existing parent short of success.
ReadyTasks ==
    {t \in InState("pending") :
        \A q \in Existing : <<q, t>> \in edges => node[q] = "succeeded"}

\* ORDER BY id LIMIT k; a limit below one selects nothing.
FirstById(S, k) == {t \in S : Cardinality({u \in S : u < t}) < k}
IsFirst(t, S)   == t \in S /\ \A u \in S : t <= u

\* Events that no committed patch answers, in journal order.
PendingPlannerEvents ==
    {i \in DOMAIN journal : journal[i].kind \in PlannerKinds /\ i \notin DOMAIN patches}

-----------------------------------------------------------------------------
(* Mutators. *)

Log(kind, tasks, trigger) ==
    journal' = Append(journal, [kind |-> kind, tasks |-> tasks, trigger |-> trigger])

\* start(): INSERT OR IGNORE; only the first insertion writes an event.
Start ==
    /\ run = "absent"
    /\ run' = "open"
    /\ Log("run_started", {}, 0)
    /\ UNCHANGED <<node, edges, patches>>

\* Mutants of the next definition: a state no reader of the column knows, and a
\* resume that leaves interrupted tasks as they were.
NodeAfterResumeMarked   == [t \in Tasks |-> IF node[t] = "running" THEN "interrupted" ELSE node[t]]
NodeAfterResumeStranded == node

\* resume(): whatever a dead process left running is runnable again.
NodeAfterResume == [t \in Tasks |-> IF node[t] = "running" THEN "pending" ELSE node[t]]

Resume ==
    /\ run # "absent"
    /\ node' = NodeAfterResume
    /\ Log("run_resumed", {}, 0)
    /\ UNCHANGED <<run, edges, patches>>

\* mark_running(): the state column is guarded, the event row is not.
MarkRunning(S) ==
    /\ S # {}
    /\ node' = [t \in Tasks |-> IF t \in S /\ node[t] = "pending" THEN "running" ELSE node[t]]
    /\ Log("task_started", S, 0)
    /\ UNCHANGED <<run, edges, patches>>

\* Mutant: the UPDATE of record_outcome() without its state condition.
CanRecordAnyState(t) == node[t] # "absent"

CanRecord(t) == node[t] = "running"

\* record_outcome(): rowcount must be one, otherwise it raises and rolls back.
RecordOutcome(t, success) ==
    /\ CanRecord(t)
    /\ node' = [node EXCEPT ![t] = IF success THEN "succeeded" ELSE "failed"]
    /\ Log(IF success THEN "task_succeeded" ELSE "task_failed", {t}, 0)
    /\ UNCHANGED <<run, edges, patches>>

\* record_external_event(): a trusted transport event, before any mutation.
RecordExternalEvent(t) ==
    /\ run # "absent"
    /\ Log("external", {t}, 0)
    /\ UNCHANGED <<run, node, edges, patches>>

-----------------------------------------------------------------------------
(* apply_patch(): validation, then the writes in the order of the code. *)

\* _has_cycle(): some set of parents has an edge from each member back into it.
HasCycle(E) ==
    \E S \in SUBSET {c[1] : c \in E} :
        S # {} /\ \A t \in S : \E u \in S : <<t, u>> \in E

Cancellable == {t \in Tasks : node[t] \in {"pending", "waiting", "running"}}

WellFormed(p) ==
    LET known == Existing \cup p.add IN
    /\ p.add \cap Existing = {}
    /\ \A c \in p.connect : c[1] \in known /\ c[2] \in known /\ c[1] # c[2]
    /\ p.cancel \cup p.wait \cup p.resume \subseteq known
    /\ p.cancel \subseteq Cancellable
    /\ p.wait \cap Existing \subseteq InState("pending")
    /\ p.resume \cap Existing \subseteq InState("waiting")
    /\ ~HasCycle(edges \cup p.connect)

\* Mutant: without the check of runs.finished.
AdmissibleAfterFinish(p) == run # "absent" /\ WellFormed(p)

\* GraphMutationError is raised exactly when this is false.
Admissible(p) == run = "open" /\ WellFormed(p)

\* add, cancel, wait, resume are written in this order, so the last one wins.
Written(p) ==
    [t \in Tasks |-> IF t \in p.resume THEN "pending"
                     ELSE IF t \in p.wait THEN "waiting"
                     ELSE IF t \in p.cancel THEN "cancelled"
                     ELSE IF t \in p.add THEN "pending"
                     ELSE node[t]]

\* Mutant: finish cancels only what is running.
LeftoversRunning(p) == IF p.finish THEN {t \in Tasks : Written(p)[t] = "running"} ELSE {}

\* What finish=True sweeps up: every task that is not terminal by then.
Leftovers(p) == IF p.finish THEN {t \in Tasks : Written(p)[t] \in Live} ELSE {}

\* Mutant: finish journals the cancellations without updating the rows.
NodeAfterWithoutSweep(p) == Written(p)

NodeAfter(p) == [t \in Tasks |-> IF t \in Leftovers(p) THEN "cancelled" ELSE Written(p)[t]]

\* The first answer to a trigger is the only one: a later one returns False.
AlreadyPatched(i) == i \in DOMAIN patches

ApplyPatch(p, i) ==
    /\ ~AlreadyPatched(i)
    /\ Admissible(p)
    /\ node' = NodeAfter(p)
    /\ edges' = edges \cup p.connect
    /\ run' = IF p.finish THEN "finished" ELSE run
    /\ Log("graph_patched", p.cancel \cup Leftovers(p), i)
    /\ patches' = [k \in DOMAIN patches \cup {i} |-> IF k = i THEN p ELSE patches[k]]

-----------------------------------------------------------------------------
(* Whoever holds the store can do this to it and nothing else. *)

StoreNext ==
    \/ Start \/ Resume
    \/ \E S \in SUBSET ReadyTasks : MarkRunning(S)
    \/ \E t \in Tasks, success \in BOOLEAN : RecordOutcome(t, success)
    \/ \E t \in Tasks : RecordExternalEvent(t)
    \/ \E p \in Patch, i \in Nat : ApplyPatch(p, i)

\* finish=True is a durable cancellation boundary (store.py:185-198): nothing
\* is left pending, waiting or running in a finished run, ever after.
FinishedIsQuiescent == run = "finished" => \A t \in Tasks : node[t] \notin Live

=============================================================================
