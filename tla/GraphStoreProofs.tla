-------------------------- MODULE GraphStoreProofs --------------------------
(* What every transaction of the store preserves, whoever calls it. *)
EXTENDS GraphStore, SequenceTheorems, TLAPS

(***************************************************************************)
(* An entry of the right type keeps the journal a sequence of events.      *)
(***************************************************************************)
LEMMA LogTyped ==
    ASSUME journal \in Seq(Event),
           NEW kind \in EventKinds, NEW tasks \in SUBSET Tasks, NEW trigger \in Nat,
           Log(kind, tasks, trigger)
    PROVE  journal' \in Seq(Event)
<1>1. [kind |-> kind, tasks |-> tasks, trigger |-> trigger] \in Event
  BY DEF Event
<1> QED
  BY <1>1 DEF Log

(***************************************************************************)
(* Patching writes node states only, and never removes a task.             *)
(***************************************************************************)
LEMMA PatchedNodes ==
    ASSUME StoreTypeOK, NEW p \in Patch
    PROVE  /\ Written(p) \in [Tasks -> NodeState \cup {"absent"}]
           /\ NodeAfter(p) \in [Tasks -> NodeState \cup {"absent"}]
           /\ Leftovers(p) \subseteq Tasks
<1>1. Written(p) \in [Tasks -> NodeState \cup {"absent"}]
  BY DEF StoreTypeOK, Written, NodeState
<1>2. Leftovers(p) \subseteq Tasks
  BY DEF Leftovers
<1> QED
  BY <1>1, <1>2 DEF NodeAfter, NodeState

(***************************************************************************)
(* The tables of store.py keep their types under every transaction.        *)
(***************************************************************************)
THEOREM StoreTypePreserved ==
    ASSUME StoreTypeOK, [StoreNext]_storeVars
    PROVE  StoreTypeOK'
<1> USE DEF StoreTypeOK
<1>1. CASE Start
  BY <1>1, LogTyped DEF Start, EventKinds, PlannerKinds
<1>2. CASE Resume
  <2>1. node' \in [Tasks -> NodeState \cup {"absent"}]
    BY <1>2 DEF Resume, NodeAfterResume, NodeState
  <2> QED
    BY <1>2, <2>1, LogTyped DEF Resume, EventKinds
<1>3. ASSUME NEW S \in SUBSET ReadyTasks, MarkRunning(S)
      PROVE  StoreTypeOK'
  <2>1. node' \in [Tasks -> NodeState \cup {"absent"}]
    BY <1>3 DEF MarkRunning, NodeState
  <2>2. S \subseteq Tasks
    BY DEF ReadyTasks, InState
  <2> QED
    BY <1>3, <2>1, <2>2, LogTyped DEF MarkRunning, EventKinds
<1>4. ASSUME NEW t \in Tasks, NEW success \in BOOLEAN, RecordOutcome(t, success)
      PROVE  StoreTypeOK'
  <2>1. node' \in [Tasks -> NodeState \cup {"absent"}]
    BY <1>4 DEF RecordOutcome, NodeState
  <2> QED
    BY <1>4, <2>1, LogTyped DEF RecordOutcome, EventKinds, PlannerKinds
<1>5. ASSUME NEW t \in Tasks, RecordExternalEvent(t)
      PROVE  StoreTypeOK'
  BY <1>5, LogTyped DEF RecordExternalEvent, EventKinds
<1>6. ASSUME NEW p \in Patch, NEW i \in Nat, ApplyPatch(p, i)
      PROVE  StoreTypeOK'
  <2>1. /\ node' \in [Tasks -> NodeState \cup {"absent"}]
        /\ p.cancel \cup Leftovers(p) \subseteq Tasks
    BY <1>6, PatchedNodes DEF ApplyPatch, Patch
  <2>2. edges' \subseteq Tasks \X Tasks /\ run' \in {"absent", "open", "finished"}
    BY <1>6 DEF ApplyPatch, Patch
  <2>3. journal' \in Seq(Event)
    BY <1>6, <2>1, LogTyped DEF ApplyPatch, EventKinds
  <2>4. DOMAIN patches' \subseteq Nat /\ patches' \in [DOMAIN patches' -> Patch]
    BY <1>6 DEF ApplyPatch
  <2> QED
    BY <2>1, <2>2, <2>3, <2>4
<1>7. CASE UNCHANGED storeVars
  BY <1>7 DEF storeVars
<1> QED
  BY <1>1, <1>2, <1>3, <1>4, <1>5, <1>6, <1>7 DEF StoreNext

(***************************************************************************)
(* A finished run is quiescent, and the patch that finishes it makes it so *)
(* (store.py:184-198).                                                     *)
(***************************************************************************)
THEOREM QuiescencePreserved ==
    ASSUME StoreTypeOK, FinishedIsQuiescent, [StoreNext]_storeVars
    PROVE  FinishedIsQuiescent'
<1> USE DEF FinishedIsQuiescent, StoreTypeOK
<1>1. CASE Start
  BY <1>1 DEF Start
<1>2. CASE Resume
  BY <1>2 DEF Resume, NodeAfterResume, Live
<1>3. ASSUME NEW S \in SUBSET ReadyTasks, MarkRunning(S)
      PROVE  FinishedIsQuiescent'
  BY <1>3 DEF MarkRunning, Live
<1>4. ASSUME NEW t \in Tasks, NEW success \in BOOLEAN, RecordOutcome(t, success)
      PROVE  FinishedIsQuiescent'
  BY <1>4 DEF RecordOutcome, CanRecord, Live
<1>5. ASSUME NEW t \in Tasks, RecordExternalEvent(t)
      PROVE  FinishedIsQuiescent'
  BY <1>5 DEF RecordExternalEvent
<1>6. ASSUME NEW p \in Patch, NEW i \in Nat, ApplyPatch(p, i)
      PROVE  FinishedIsQuiescent'
  <2>1. CASE ~p.finish
    BY <1>6, <2>1 DEF ApplyPatch, Admissible
  <2>2. CASE p.finish
    <3>1. Leftovers(p) = {t \in Tasks : Written(p)[t] \in Live}
      BY <2>2 DEF Leftovers
    <3>2. \A t \in Tasks : NodeAfter(p)[t] \notin Live
      BY <3>1 DEF NodeAfter, Live
    <3> QED
      BY <1>6, <3>2 DEF ApplyPatch
  <2> QED
    BY <2>1, <2>2
<1>7. CASE UNCHANGED storeVars
  BY <1>7 DEF storeVars
<1> QED
  BY <1>1, <1>2, <1>3, <1>4, <1>5, <1>6, <1>7 DEF StoreNext

(***************************************************************************)
(* No transaction overwrites a terminal state (store.py:157-166).          *)
(***************************************************************************)
THEOREM TerminalKept ==
    ASSUME StoreTypeOK, [StoreNext]_storeVars,
           NEW t \in Tasks, node[t] \in Terminal
    PROVE  node'[t] = node[t]
<1> USE DEF StoreTypeOK, Terminal
<1>1. CASE Start
  BY <1>1 DEF Start
<1>2. CASE Resume
  BY <1>2 DEF Resume, NodeAfterResume
<1>3. ASSUME NEW S \in SUBSET ReadyTasks, MarkRunning(S)
      PROVE  node'[t] = node[t]
  BY <1>3 DEF MarkRunning
<1>4. ASSUME NEW u \in Tasks, NEW success \in BOOLEAN, RecordOutcome(u, success)
      PROVE  node'[t] = node[t]
  BY <1>4 DEF RecordOutcome, CanRecord
<1>5. ASSUME NEW u \in Tasks, RecordExternalEvent(u)
      PROVE  node'[t] = node[t]
  BY <1>5 DEF RecordExternalEvent
<1>6. ASSUME NEW p \in Patch, NEW i \in Nat, ApplyPatch(p, i)
      PROVE  node'[t] = node[t]
  <2>1. t \in Existing
    BY DEF Existing
  <2>2. t \notin p.add /\ t \notin p.cancel /\ t \notin p.wait /\ t \notin p.resume
    BY <1>6, <2>1 DEF ApplyPatch, Admissible, WellFormed, Cancellable, InState
  <2>3. Written(p)[t] = node[t]
    BY <2>2 DEF Written
  <2>4. t \notin Leftovers(p)
    BY <2>3 DEF Leftovers, Live
  <2> QED
    BY <1>6, <2>3, <2>4 DEF ApplyPatch, NodeAfter
<1>7. CASE UNCHANGED storeVars
  BY <1>7 DEF storeVars
<1> QED
  BY <1>1, <1>2, <1>3, <1>4, <1>5, <1>6, <1>7 DEF StoreNext

(***************************************************************************)
(* A finished run is sealed: its graph and its patches take no further     *)
(* mutation (store.py:142-143); only the journal may grow.                 *)
(***************************************************************************)
THEOREM FinishedIsSealed ==
    ASSUME StoreTypeOK, FinishedIsQuiescent, [StoreNext]_storeVars, run = "finished"
    PROVE  UNCHANGED <<run, node, edges, patches>>
<1>1. \A t \in Tasks : node[t] \notin {"pending", "waiting", "running"}
  BY DEF FinishedIsQuiescent, Live
<1>2. CASE Start
  BY <1>2 DEF Start
<1>3. CASE Resume
  <2>1. NodeAfterResume = node
    BY <1>1 DEF NodeAfterResume, StoreTypeOK
  <2> QED
    BY <1>3, <2>1 DEF Resume
<1>4. ASSUME NEW S \in SUBSET ReadyTasks, MarkRunning(S)
      PROVE  UNCHANGED <<run, node, edges, patches>>
  <2>1. S = {}
    BY <1>1 DEF ReadyTasks, InState
  <2> QED
    BY <1>4, <2>1 DEF MarkRunning
<1>5. ASSUME NEW t \in Tasks, NEW success \in BOOLEAN, RecordOutcome(t, success)
      PROVE  UNCHANGED <<run, node, edges, patches>>
  BY <1>1, <1>5 DEF RecordOutcome, CanRecord
<1>6. ASSUME NEW t \in Tasks, RecordExternalEvent(t)
      PROVE  UNCHANGED <<run, node, edges, patches>>
  BY <1>6 DEF RecordExternalEvent
<1>7. ASSUME NEW p \in Patch, NEW i \in Nat, ApplyPatch(p, i)
      PROVE  UNCHANGED <<run, node, edges, patches>>
  BY <1>7 DEF ApplyPatch, Admissible
<1>8. CASE UNCHANGED storeVars
  BY <1>8 DEF storeVars
<1> QED
  BY <1>2, <1>3, <1>4, <1>5, <1>6, <1>7, <1>8 DEF StoreNext

(***************************************************************************)
(* A run that was never started has no task and no event.                  *)
(***************************************************************************)
Blank == run = "absent" => journal = << >> /\ \A t \in Tasks : node[t] = "absent"

\* Every mutator but start() asks for the run, or for a task of it.
LEMMA BlankPreserved ==
    ASSUME StoreTypeOK, Blank, [StoreNext]_storeVars
    PROVE  Blank'
<1>1. ASSUME NEW S \in SUBSET ReadyTasks, MarkRunning(S)
      PROVE  run # "absent"
  BY <1>1 DEF MarkRunning, ReadyTasks, InState, Blank
<1>2. ASSUME NEW t \in Tasks, NEW success \in BOOLEAN, RecordOutcome(t, success)
      PROVE  run # "absent"
  BY <1>2 DEF RecordOutcome, CanRecord, Blank
<1>3. run' = "absent" => UNCHANGED storeVars
  BY <1>1, <1>2
     DEF StoreNext, Start, Resume, MarkRunning, RecordOutcome, RecordExternalEvent,
         ApplyPatch, Admissible
<1> QED
  BY <1>3 DEF Blank, storeVars

=============================================================================
