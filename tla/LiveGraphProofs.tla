--------------------------- MODULE LiveGraphProofs ---------------------------
(* What holds of any number of overlapping calls of run(), for every set of *)
(* tasks, every planner and every bound.                                    *)
EXTENDS LiveGraph, GraphStoreProofs, FiniteSetTheorems, WellFoundedInduction

(***************************************************************************)
(* A step of calls, workers and process under a planner that may answer    *)
(* with any patch.  What is proved of such steps holds for every planner.  *)
(***************************************************************************)
CallStep(e) == Fill(e) \/ LoopStep(e) \/ \E p \in Patch : PlannerTurn(e, p)

AnyStep ==
    \/ \E e \in Executors, l \in Limits : RunFresh(e, l) \/ RunResumed(e, l)
    \/ \E e \in Executors : CallStep(e) \/ CallCancelled(e)
    \/ \E e \in Executors, t \in Tasks : WorkerEnds(e, t) \/ WorkerStops(e, t)
    \/ Crash

\* The planner of LiveGraph answers with one of Patches.
LEMMA NextIsAnyStep == [Next]_vars => [AnyStep]_vars
BY PatchesAssumption DEF Next, ExecutorStep, AnyStep, CallStep

(***************************************************************************)
(* Every step of the executors is one transaction of the store, or none.   *)
(***************************************************************************)
LEMMA CommitsStoreStep ==
    ASSUME TypeOK, NEW e \in Executors, NEW p \in Patch, Commits(p, current[e])
    PROVE  [StoreNext]_storeVars
BY DEF TypeOK, Commits, StoreNext

\* Launching marks ready tasks as running and does no more to the store.
LEMMA FillStoreStep ==
    ASSUME NEW e \in Executors, Fill(e)
    PROVE  [StoreNext]_storeVars
<1>1. Launch(e) \subseteq ReadyTasks
  BY DEF Launch, FirstById
<1> QED
  BY <1>1 DEF Fill, StoreNext

\* A step of the executors is one operation of the store or leaves it alone.
THEOREM StepIsStoreStep ==
    ASSUME TypeOK, [AnyStep]_vars
    PROVE  [StoreNext]_storeVars
<1>1. ASSUME NEW e \in Executors, NEW l \in Limits, RunFresh(e, l) \/ RunResumed(e, l)
      PROVE  [StoreNext]_storeVars
  BY <1>1 DEF RunFresh, RunResumed, StoreNext
<1>2. ASSUME NEW e \in Executors, CallStep(e)
      PROVE  [StoreNext]_storeVars
  <2>1. CASE \E i \in queue[e] : ReplayNext(e, i)
    BY <2>1 DEF ReplayNext
  <2>2. CASE ReplayEnds(e) \/ Wake(e) \/ EndBatch(e)
    BY <2>2 DEF ReplayEnds, Wake, EndBatch
  <2>3. ASSUME NEW p \in Patch, Replan(e, p) \/ Plan(e, p) \/ PatchRefused(e, p)
        PROVE  [StoreNext]_storeVars
    BY <2>3, CommitsStoreStep DEF Replan, Plan, PatchRefused
  <2>4. CASE Fill(e)
    BY <2>4, FillStoreStep
  <2>5. ASSUME NEW t \in todo[e], Discard(e, t) \/ Record(e, t) \/ OutcomeRefused(e, t)
        PROVE  [StoreNext]_storeVars
    <3>1. t \in Tasks
      BY DEF TypeOK
    <3>2. (future[e][t] = "ok") \in BOOLEAN
      OBVIOUS
    <3> QED
      BY <2>5, <3>1, <3>2 DEF Discard, Record, OutcomeRefused, StoreNext
  <2> QED
    BY <1>2, <2>1, <2>2, <2>3, <2>4, <2>5 DEF CallStep, LoopStep, PlannerTurn
<1>3. ASSUME NEW e \in Executors, NEW t \in Tasks, WorkerEnds(e, t) \/ WorkerStops(e, t)
      PROVE  [StoreNext]_storeVars
  BY <1>3 DEF WorkerEnds, WorkerStops, SetFuture
<1>4. CASE Crash
  BY <1>4 DEF Crash
<1>5. CASE UNCHANGED vars
  BY <1>5 DEF vars
<1>6. ASSUME NEW e \in Executors, CallCancelled(e)
      PROVE  [StoreNext]_storeVars
  BY <1>6 DEF CallCancelled
<1> QED
  BY <1>1, <1>2, <1>3, <1>4, <1>5, <1>6 DEF AnyStep

-----------------------------------------------------------------------------
(***************************************************************************)
(* Type correctness of the local variables.                                *)
(***************************************************************************)
LEMMA PendingAreNumbers ==
    ASSUME StoreTypeOK
    PROVE  PendingPlannerEvents \subseteq Nat
BY LenProperties DEF StoreTypeOK, PendingPlannerEvents

\* Asking coroutines to stop keeps their states.
LEMMA StoppingTyped ==
    ASSUME TypeOK, NEW e \in Executors, NEW S
    PROVE  Stopping(e, S) \in [Executors -> [Tasks -> FutureState]]
<1> DEFINE row == [t \in Tasks |-> IF t \in S /\ future[e][t] = "working"
                                  THEN "stopping" ELSE future[e][t]]
<1>1. row \in [Tasks -> FutureState]
  BY DEF TypeOK, FutureState
<1> QED
  BY <1>1 DEF TypeOK, Stopping

\* So does taking a finished coroutine out of in_flight.
LEMMA PopTyped ==
    ASSUME TypeOK, NEW e \in Executors, NEW t, Pop(e, t)
    PROVE  /\ todo' \in [Executors -> SUBSET Tasks]
           /\ future' \in [Executors -> [Tasks -> FutureState]]
BY DEF TypeOK, Pop, FutureState

\* And so does the end of a coroutine.
LEMMA SetFutureTyped ==
    ASSUME TypeOK, NEW e \in Executors, NEW t \in Tasks,
           NEW state \in FutureState, SetFuture(e, t, state)
    PROVE  future' \in [Executors -> [Tasks -> FutureState]]
BY DEF TypeOK, SetFuture

\* After a future of the batch the call goes on or returns.
LEMMA NextInBatchTyped ==
    ASSUME NEW e, NEW count
    PROVE  NextInBatch(e, count) \in Location
BY DEF NextInBatch, Location

\* The steps of a call keep the types of its variables.
LEMMA CallStepTyped ==
    ASSUME TypeOK, StoreTypeOK', NEW e \in Executors, CallStep(e)
    PROVE  TypeOK'
<1> USE DEF TypeOK
<1>1. CASE \E i \in queue[e] : ReplayNext(e, i)
  BY <1>1 DEF ReplayNext, Goto, Location
<1>2. CASE ReplayEnds(e)
  BY <1>2 DEF ReplayEnds, Goto, Location
<1>3. ASSUME NEW p \in Patch, Replan(e, p)
      PROVE  TypeOK'
  BY <1>3 DEF Replan, Goto, Location
<1>4. ASSUME NEW p \in Patch, Plan(e, p)
      PROVE  TypeOK'
  <2>1. pc' \in [Executors -> Location]
    BY <1>4, NextInBatchTyped DEF Plan, Goto
  <2>2. future' \in [Executors -> [Tasks -> FutureState]]
    BY <1>4, StoppingTyped DEF Plan
  <2> QED
    BY <1>4, <2>1, <2>2 DEF Plan
<1>5. ASSUME NEW p \in Patch, PatchRefused(e, p)
      PROVE  TypeOK'
  BY <1>5 DEF PatchRefused, Raise, Goto, Location
<1>6. CASE Fill(e)
  <2> DEFINE row == [t \in Tasks |-> IF t \in Launch(e) THEN "working" ELSE future[e][t]]
  <2>1. row \in [Tasks -> FutureState]
    BY DEF FutureState
  <2>2. future' = [future EXCEPT ![e] = row]
    BY <1>6 DEF Fill
  <2>3. future' \in [Executors -> [Tasks -> FutureState]]
    BY <2>1, <2>2
  <2>4. pc' \in [Executors -> Location]
    BY <1>6 DEF Fill, Goto, Location
  <2> QED
    BY <1>6, <2>3, <2>4 DEF Fill
<1>7. CASE Wake(e)
  BY <1>7 DEF Wake, Goto, Location
<1>8. CASE EndBatch(e)
  <2>1. future' \in [Executors -> [Tasks -> FutureState]]
    BY <1>8, StoppingTyped DEF EndBatch
  <2> QED
    BY <1>8, <2>1 DEF EndBatch, Goto, Location
<1>9. ASSUME NEW t \in todo[e], Discard(e, t)
      PROVE  TypeOK'
  BY <1>9, PopTyped DEF Discard
<1>10. ASSUME NEW t \in todo[e], Record(e, t)
       PROVE  TypeOK'
  <2>1. pc' \in [Executors -> Location]
    BY <1>10, NextInBatchTyped DEF Record, Goto, Location
  <2>2. Len(journal') \in Nat
    BY LenProperties DEF StoreTypeOK
  <2>3. current' \in [Executors -> Nat] /\ executed' \in [Executors -> SUBSET Tasks]
    BY <1>10, <2>2 DEF Record
  <2> QED
    BY <1>10, <2>1, <2>3, PopTyped DEF Record
<1>11. ASSUME NEW t \in todo[e], OutcomeRefused(e, t)
       PROVE  TypeOK'
  BY <1>11, PopTyped DEF OutcomeRefused, Raise, Goto, Location
<1> QED
  BY <1>1, <1>2, <1>3, <1>4, <1>5, <1>6, <1>7, <1>8, <1>9, <1>10, <1>11
     DEF CallStep, LoopStep, PlannerTurn

(***************************************************************************)
(* TypeOK is an invariant.                                                 *)
(***************************************************************************)
LEMMA TypeInit == Init => TypeOK
<1> SUFFICES ASSUME Init
             PROVE  TypeOK
  OBVIOUS
<1>1. StoreTypeOK
  BY EmptySeq DEF Init, StoreInit, StoreTypeOK, NodeState
<1> QED
  BY <1>1 DEF Init, TypeOK, Location, FutureState

\* So does every step of calls, workers and processes.
LEMMA TypeNext ==
    ASSUME TypeOK, [AnyStep]_vars
    PROVE  TypeOK'
<1>1. StoreTypeOK'
  BY NextIsAnyStep, StepIsStoreStep, StoreTypePreserved DEF TypeOK
<1>2. ASSUME NEW e \in Executors, NEW l \in Limits, RunFresh(e, l) \/ RunResumed(e, l)
      PROVE  TypeOK'
  <2>1. queue' \in [Executors -> SUBSET Nat]
    BY <1>2, PendingAreNumbers DEF TypeOK, RunFresh, RunResumed
  <2>2. l \in Nat \cup {Unlimited}
    BY LimitsAssumption
  <2>3. Begin(e, l)
    BY <1>2 DEF RunFresh, RunResumed
  <2>4. limit' \in [Executors -> Nat \cup {Unlimited}] /\ pc' \in [Executors -> Location]
    BY <2>2, <2>3 DEF Begin, Goto, Location, TypeOK
  <2> QED
    BY <1>1, <2>1, <2>3, <2>4 DEF Begin, TypeOK
<1>3. ASSUME NEW e \in Executors, CallStep(e)
      PROVE  TypeOK'
  BY <1>1, <1>3, CallStepTyped
<1>4. ASSUME NEW e \in Executors, NEW t \in Tasks, WorkerEnds(e, t) \/ WorkerStops(e, t)
      PROVE  TypeOK'
  <2>1. future' \in [Executors -> [Tasks -> FutureState]]
    <3>1. PICK r \in {"ok", "error", "cancelled"} : SetFuture(e, t, r)
      BY <1>4 DEF WorkerEnds, WorkerStops
    <3>2. r \in FutureState
      BY DEF FutureState
    <3> QED
      BY <3>1, <3>2, SetFutureTyped
  <2> QED
    BY <1>1, <1>4, <2>1 DEF WorkerEnds, WorkerStops, SetFuture, TypeOK
<1>5. CASE Crash
  BY <1>1, <1>5 DEF Crash, TypeOK, Location, FutureState
<1>6. CASE UNCHANGED vars
  BY <1>1, <1>6 DEF vars, execVars, TypeOK
<1>7. ASSUME NEW e \in Executors, CallCancelled(e)
      PROVE  TypeOK'
  BY <1>1, <1>7 DEF CallCancelled, Raise, Goto, Location, TypeOK
<1> QED
  BY <1>2, <1>3, <1>4, <1>5, <1>6, <1>7 DEF AnyStep

\* Every variable of store and executors keeps its type.
THEOREM TypeCorrect == Spec => []TypeOK
BY TypeInit, TypeNext, NextIsAnyStep, PTL DEF Spec

-----------------------------------------------------------------------------
(***************************************************************************)
(* Nothing is pending, waiting or running in a finished run.               *)
(***************************************************************************)
THEOREM AlwaysQuiescent == Spec => []FinishedIsQuiescent
<1>1. Init => FinishedIsQuiescent
  BY DEF Init, StoreInit, FinishedIsQuiescent
<1>2. TypeOK /\ FinishedIsQuiescent /\ [Next]_vars => FinishedIsQuiescent'
  BY NextIsAnyStep, StepIsStoreStep, QuiescencePreserved DEF TypeOK
<1> QED
  BY <1>1, <1>2, TypeCorrect, PTL DEF Spec

(***************************************************************************)
(* An outcome or a cancellation is final, over crashes, replays and        *)
(* overlapping calls.                                                      *)
(***************************************************************************)
THEOREM OutcomesAreFinal ==
    Spec => [][\A t \in Tasks : node[t] \in Terminal => node'[t] = node[t]]_vars
<1>1. TypeOK /\ [Next]_vars =>
          [\A t \in Tasks : node[t] \in Terminal => node'[t] = node[t]]_vars
  BY NextIsAnyStep, StepIsStoreStep, TerminalKept DEF TypeOK
<1> QED
  BY <1>1, TypeCorrect, PTL DEF Spec

(***************************************************************************)
(* Once finished, a run is sealed.                                         *)
(***************************************************************************)
THEOREM FinishSeals ==
    Spec => [][run = "finished" => UNCHANGED <<run, node, edges, patches>>]_vars
<1>1. TypeOK /\ FinishedIsQuiescent /\ [Next]_vars =>
          [run = "finished" => UNCHANGED <<run, node, edges, patches>>]_vars
  BY NextIsAnyStep, StepIsStoreStep, FinishedIsSealed DEF TypeOK
<1> QED
  BY <1>1, TypeCorrect, AlwaysQuiescent, PTL DEF Spec

-----------------------------------------------------------------------------
(***************************************************************************)
(* The graph of a run, watched from outside, implements NodeLifecycle.     *)
(***************************************************************************)

\* Tasks that all have a successor among themselves are a cycle to _has_cycle().
LEMMA CycleFound ==
    ASSUME NEW E, NEW S, S # {}, \A t \in S : \E u \in S : <<t, u>> \in E
    PROVE  HasCycle(E)
<1>1. ASSUME NEW t \in S
      PROVE  t \in {c[1] : c \in E}
  <2>1. PICK u \in S : <<t, u>> \in E
    OBVIOUS
  <2>2. <<t, u>>[1] = t
    OBVIOUS
  <2> QED
    BY <2>1, <2>2
<1> QED
  BY <1>1 DEF HasCycle

\* A patch moves every task as a planner may (store.py:148-183).
LEMMA PatchPlans ==
    ASSUME StoreTypeOK, NEW p \in Patch, WellFormed(p), NEW t \in Tasks
    PROVE  Nodes!Planned(node[t], NodeAfter(p)[t])
<1>1. /\ t \in p.add => node[t] = "absent"
      /\ t \in p.cancel => node[t] \in {"pending", "waiting", "running"}
      /\ t \in p.wait => t \in p.add \/ node[t] = "pending"
      /\ t \in p.resume => t \in p.add \/ node[t] = "waiting"
      /\ t \in p.cancel \cup p.wait \cup p.resume => t \in p.add \/ node[t] # "absent"
  BY DEF WellFormed, Existing, InState, Cancellable
<1>2. Nodes!Planned(node[t], Written(p)[t])
  BY <1>1 DEF Written, Nodes!Planned
<1>3. CASE t \in Leftovers(p)
  <2>1. NodeAfter(p)[t] = "cancelled" /\ Written(p)[t] \in {"pending", "waiting", "running"}
    BY <1>3 DEF NodeAfter, Leftovers, Live
  <2> QED
    BY <1>2, <2>1 DEF Nodes!Planned
<1>4. CASE t \notin Leftovers(p)
  BY <1>2, <1>4 DEF NodeAfter
<1> QED
  BY <1>3, <1>4

\* Every transaction is one of the steps the lifecycle allows, or hidden from it.
LEMMA StoreStepOfNodes ==
    ASSUME StoreTypeOK, FinishedIsQuiescent, FinishedIsQuiescent', StoreTypeOK',
           [StoreNext]_storeVars
    PROVE  [Nodes!Next]_(<<node, edges, run = "finished">>)
<1> USE DEF StoreTypeOK
<1>1. CASE Start
  BY <1>1 DEF Start
<1>2. CASE Resume
  <2>1. CASE run = "finished"
    BY <1>2, <2>1, FinishedIsSealed DEF StoreNext
  <2>2. CASE run # "finished"
    BY <1>2, <2>2 DEF Resume, NodeAfterResume, Nodes!Next, Nodes!Interrupt
  <2> QED
    BY <2>1, <2>2
<1>3. ASSUME NEW S \in SUBSET ReadyTasks, MarkRunning(S)
      PROVE  Nodes!Next
  <2>1. S \in SUBSET Tasks /\ \A t \in S : node[t] = "pending"
    BY DEF ReadyTasks, InState
  <2>2. run # "finished"
    BY <1>3, <2>1 DEF MarkRunning, FinishedIsQuiescent, Live
  <2>3. \A t \in S : Nodes!Startable(t)
    BY DEF ReadyTasks, InState, Existing, Nodes!Startable
  <2>4. node' = [t \in Tasks |-> IF t \in S THEN "running" ELSE node[t]]
    BY <1>3, <2>1 DEF MarkRunning
  <2>5. UNCHANGED <<edges, run>>
    BY <1>3 DEF MarkRunning
  <2>6. Nodes!Begin(S)
    BY <2>2, <2>3, <2>4, <2>5 DEF Nodes!Begin
  <2> QED
    BY <2>1, <2>6 DEF Nodes!Next
<1>4. ASSUME NEW t \in Tasks, NEW success \in BOOLEAN, RecordOutcome(t, success)
      PROVE  Nodes!Next
  <2>1. node[t] = "running" /\ run # "finished" /\ UNCHANGED <<edges, run>>
    BY <1>4 DEF RecordOutcome, CanRecord, FinishedIsQuiescent, Live
  <2>2. Nodes!End(t)
    BY <1>4, <2>1 DEF RecordOutcome, Nodes!End
  <2> QED
    BY <2>2 DEF Nodes!Next
<1>5. ASSUME NEW t \in Tasks, RecordExternalEvent(t)
      PROVE  UNCHANGED <<node, edges, run>>
  BY <1>5 DEF RecordExternalEvent
<1>6. ASSUME NEW p \in Patch, NEW i \in Nat, ApplyPatch(p, i)
      PROVE  Nodes!Next
  <2>1. /\ run = "open" /\ WellFormed(p) /\ node' = NodeAfter(p)
        /\ edges' = edges \cup p.connect /\ ~HasCycle(edges')
    BY <1>6 DEF ApplyPatch, Admissible, WellFormed
  <2>2. DOMAIN node' = Tasks /\ \A t \in Tasks : Nodes!Planned(node[t], node'[t])
    BY <2>1, PatchPlans
  <2>3. ~ \E S \in SUBSET Tasks : Nodes!Circular(S)'
    <3>1. ASSUME NEW S \in SUBSET Tasks, S # {}, \A t \in S : \E u \in S : <<t, u>> \in edges'
          PROVE  FALSE
      BY <2>1, <3>1, CycleFound
    <3> QED
      BY <3>1 DEF Nodes!Circular
  <2>4. run' = "finished" => \A t \in Tasks : node'[t] \in Nodes!Ended \cup {"absent"}
    BY DEF FinishedIsQuiescent, Live, NodeState, Nodes!Ended
  <2>5. Nodes!Replan
    BY <2>1, <2>2, <2>3, <2>4 DEF Nodes!Replan
  <2> QED
    BY <2>5 DEF Nodes!Next
<1>7. CASE UNCHANGED storeVars
  BY <1>7 DEF storeVars
<1> QED
  BY <1>1, <1>2, <1>3, <1>4, <1>5, <1>6, <1>7 DEF StoreNext

\* However many calls overlap, crash and replay, whatever the planner answers: the
\* nodes and edges of a run move as NodeLifecycle allows (store.py:74-198).
THEOREM NodesKeepLifecycle == Spec => KeepsNodeLifecycle
<1>1. Init => Nodes!Init
  BY DEF Init, StoreInit, Nodes!Init
<1>2. /\ TypeOK /\ TypeOK' /\ FinishedIsQuiescent /\ FinishedIsQuiescent' /\ [Next]_vars
      => [Nodes!Next]_(<<node, edges, run = "finished">>)
  BY NextIsAnyStep, StepIsStoreStep, StoreStepOfNodes DEF TypeOK
<1> QED
  BY <1>1, <1>2, TypeCorrect, AlwaysQuiescent, PTL
     DEF Spec, KeepsNodeLifecycle, Nodes!Spec, Nodes!nodeVars

-----------------------------------------------------------------------------
(***************************************************************************)
(* Workers are at-least-once, results exactly-once (store.py:118-125).     *)
(***************************************************************************)

\* An entry that is no outcome of t leaves the outcomes of t as they are.
LEMMA QuietEntry ==
    ASSUME StoreTypeOK, NEW t \in Tasks, NEW kind, NEW tasks, NEW trigger,
           Log(kind, tasks, trigger),
           kind \in {"task_succeeded", "task_failed"} => tasks # {t}
    PROVE  Outcomes(t)' = Outcomes(t)
<1> DEFINE e == [kind |-> kind, tasks |-> tasks, trigger |-> trigger]
<1>1. /\ Len(journal) \in Nat /\ DOMAIN journal = 1..Len(journal)
      /\ journal' = Append(journal, e)
  BY LenProperties DEF StoreTypeOK, Log
<1>2. DOMAIN journal' = 1..(Len(journal) + 1)
  BY <1>1
<1>3. \A i \in DOMAIN journal : journal'[i] = journal[i]
  BY <1>1
<1>4. journal'[Len(journal) + 1] = e
  BY <1>1
<1>5. ~(e.kind \in {"task_succeeded", "task_failed"} /\ e.tasks = {t})
  OBVIOUS
<1> QED
  BY <1>1, <1>2, <1>3, <1>4, <1>5 DEF Outcomes

\* An outcome of t is one more.
LEMMA OutcomeEntry ==
    ASSUME StoreTypeOK, NEW t \in Tasks, NEW kind \in {"task_succeeded", "task_failed"},
           Log(kind, {t}, 0)
    PROVE  Outcomes(t)' = Outcomes(t) \cup {Len(journal) + 1}
<1> DEFINE e == [kind |-> kind, tasks |-> {t}, trigger |-> 0]
<1>1. /\ Len(journal) \in Nat /\ DOMAIN journal = 1..Len(journal)
      /\ journal' = Append(journal, e)
  BY LenProperties DEF StoreTypeOK, Log
<1>2. DOMAIN journal' = 1..(Len(journal) + 1)
  BY <1>1
<1>3. \A i \in DOMAIN journal : journal'[i] = journal[i]
  BY <1>1
<1>4. journal'[Len(journal) + 1] = e
  BY <1>1
<1> QED
  BY <1>1, <1>2, <1>3, <1>4 DEF Outcomes

\* A patch neither gives a task a result nor takes it away.
LEMMA PatchKeepsResults ==
    ASSUME StoreTypeOK, NEW p \in Patch, NEW i \in Nat, ApplyPatch(p, i), NEW t \in Tasks
    PROVE  node'[t] \in {"succeeded", "failed"} <=> node[t] \in {"succeeded", "failed"}
<1>1. CASE node[t] \in {"succeeded", "failed"}
  <2>1. ApplyPatch(p, i) => StoreNext
    BY DEF StoreNext
  <2> QED
    BY <1>1, <2>1, TerminalKept DEF Terminal
<1>2. CASE node[t] \notin {"succeeded", "failed"}
  <2>1. Written(p)[t] \notin {"succeeded", "failed"}
    BY <1>2 DEF Written
  <2> QED
    BY <1>2, <2>1 DEF ApplyPatch, NodeAfter
<1> QED
  BY <1>1, <1>2

\* Row and event of an outcome are one transaction, taken from running only, so
\* the journal holds one outcome of a task that has a result and none of another.
LEMMA OneOutcomePreserved ==
    ASSUME StoreTypeOK, OneOutcomePerTask, [StoreNext]_storeVars
    PROVE  OneOutcomePerTask'
<1> DEFINE Result == {"succeeded", "failed"}
           Same(t) == /\ Outcomes(t)' = Outcomes(t)
                      /\ node'[t] \in Result <=> node[t] \in Result
<1> USE DEF StoreTypeOK
<1>1. ASSUME NEW t \in Tasks, Same(t)
      PROVE  /\ Cardinality(Outcomes(t)') <= 1
             /\ Outcomes(t)' # {} <=> node'[t] \in Result
  BY <1>1 DEF OneOutcomePerTask
<1>2. (\A t \in Tasks : Same(t)) => OneOutcomePerTask'
  BY <1>1 DEF OneOutcomePerTask
<1>3. CASE Start
  BY <1>2, <1>3, QuietEntry DEF Start
<1>4. CASE Resume
  <2>1. \A t \in Tasks : node'[t] \in Result <=> node[t] \in Result
    BY <1>4 DEF Resume, NodeAfterResume
  <2> QED
    BY <1>2, <1>4, <2>1, QuietEntry DEF Resume
<1>5. ASSUME NEW S \in SUBSET ReadyTasks, MarkRunning(S)
      PROVE  OneOutcomePerTask'
  <2>1. \A t \in Tasks : node'[t] \in Result <=> node[t] \in Result
    BY <1>5 DEF MarkRunning
  <2> QED
    BY <1>2, <1>5, <2>1, QuietEntry DEF MarkRunning
<1>6. ASSUME NEW u \in Tasks, NEW success \in BOOLEAN, RecordOutcome(u, success)
      PROVE  OneOutcomePerTask'
  <2> DEFINE kind == IF success THEN "task_succeeded" ELSE "task_failed"
  <2>1. Log(kind, {u}, 0) /\ kind \in {"task_succeeded", "task_failed"}
    BY <1>6 DEF RecordOutcome
  <2>2. ASSUME NEW t \in Tasks, t # u
        PROVE  Same(t)
    <3>1. Outcomes(t)' = Outcomes(t)
      BY <2>1, <2>2, QuietEntry
    <3>2. node'[t] = node[t]
      BY <1>6, <2>2 DEF RecordOutcome
    <3> QED
      BY <3>1, <3>2
  <2>3. Outcomes(u) = {}
    BY <1>6 DEF RecordOutcome, CanRecord, OneOutcomePerTask
  <2>4. Outcomes(u)' = {Len(journal) + 1}
    BY <2>1, <2>3, OutcomeEntry
  <2>5. Cardinality(Outcomes(u)') = 1
    BY <2>4, FS_Singleton
  <2>6. node'[u] \in Result
    BY <1>6 DEF RecordOutcome
  <2>7. ASSUME NEW t \in Tasks
        PROVE  /\ Cardinality(Outcomes(t)') <= 1
               /\ Outcomes(t)' # {} <=> node'[t] \in Result
    <3>1. CASE t = u
      <4>1. Outcomes(t)' = Outcomes(u)' /\ node'[t] = node'[u]
        BY <3>1 DEF Outcomes
      <4> QED
        BY <2>4, <2>5, <2>6, <4>1
    <3>2. CASE t # u
      BY <1>1, <2>2, <3>2
    <3> QED
      BY <3>1, <3>2
  <2> QED
    BY <2>7 DEF OneOutcomePerTask
<1>7. ASSUME NEW u \in Tasks, RecordExternalEvent(u)
      PROVE  OneOutcomePerTask'
  BY <1>2, <1>7, QuietEntry DEF RecordExternalEvent
<1>8. ASSUME NEW p \in Patch, NEW i \in Nat, ApplyPatch(p, i)
      PROVE  OneOutcomePerTask'
  BY <1>2, <1>8, QuietEntry, PatchKeepsResults DEF ApplyPatch
<1>9. CASE UNCHANGED storeVars
  BY <1>2, <1>9 DEF storeVars, Outcomes
<1> QED
  BY <1>3, <1>4, <1>5, <1>6, <1>7, <1>8, <1>9 DEF StoreNext

\* However often a task is executed, by however many overlapping calls, the
\* journal has one outcome of it when its row has a result, and none otherwise.
THEOREM OutcomesOnce == Spec => []OneOutcomePerTask
<1>1. Init => OneOutcomePerTask
  <2> SUFFICES ASSUME Init
               PROVE  OneOutcomePerTask
    OBVIOUS
  <2>1. \A t \in Tasks : Outcomes(t) = {} /\ node[t] = "absent"
    BY DEF Init, StoreInit, Outcomes
  <2> QED
    BY <2>1, FS_EmptySet DEF OneOutcomePerTask
<1>2. TypeOK /\ OneOutcomePerTask /\ [Next]_vars => OneOutcomePerTask'
  BY NextIsAnyStep, StepIsStoreStep, OneOutcomePreserved DEF TypeOK
<1> QED
  BY <1>1, <1>2, TypeCorrect, PTL DEF Spec

-----------------------------------------------------------------------------
(***************************************************************************)
(* "Stable ordering makes the journal replayable" (core.py:137-138): what  *)
(* the journal tells is what the tables hold, as long as no patch that     *)
(* leaves the run open names a task in two of cancel, wait and resume.     *)
(***************************************************************************)
Orderly(p) == p.finish \/ (p.cancel \cap (p.wait \cup p.resume) = {} /\ p.wait \cap p.resume = {})

\* StatesAfter, of an entry whose patch is p.
After(s, event, p) ==
    CASE event.kind = "run_resumed" ->
             [t \in Tasks |-> IF s[t] = "running" THEN "pending" ELSE s[t]]
      [] event.kind = "task_started" ->
             [t \in Tasks |-> IF t \in event.tasks THEN "running" ELSE s[t]]
      [] event.kind = "task_succeeded" ->
             [t \in Tasks |-> IF t \in event.tasks THEN "succeeded" ELSE s[t]]
      [] event.kind = "task_failed" ->
             [t \in Tasks |-> IF t \in event.tasks THEN "failed" ELSE s[t]]
      [] event.kind = "graph_patched" ->
             [t \in Tasks |-> IF t \in event.tasks THEN "cancelled"
                              ELSE IF t \in p.wait THEN "waiting"
                              ELSE IF t \in p.add \cup p.resume THEN "pending"
                              ELSE s[t]]
      [] OTHER -> s

\* r replays the entries of the journal j one by one, their patches being P.
Replays(r, j, P) ==
    r = [k \in 0..Len(j) |->
            IF k = 0 THEN [t \in Tasks |-> "absent"]
            ELSE After(r[k - 1], j[k], P[j[k].trigger])]

\* The journal can be replayed to the tables, and every patch it needs is kept.
Replayable ==
    /\ \E r : Replays(r, journal, patches) /\ r[Len(journal)] = node
    /\ \A i \in DOMAIN journal :
           journal[i].kind = "graph_patched" => journal[i].trigger \in DOMAIN patches

\* A set of numbers has a least one.
LEMMA LeastNumber ==
    ASSUME NEW T \in SUBSET Nat, T # {}
    PROVE  \E n \in T : \A m \in T : n <= m
<1>1. PICK n \in T : \A m \in T : <<m, n>> \notin OpToRel(<, Nat)
  BY NatLessThanWellFounded, WFMin
<1>2. \A m \in T : ~(m < n)
  BY <1>1 DEF OpToRel
<1> QED
  BY <1>2

\* Replaying twice gives the same.
LEMMA OneReplay ==
    ASSUME NEW j, Len(j) \in Nat, NEW P, NEW r, NEW q, Replays(r, j, P), Replays(q, j, P)
    PROVE  r[Len(j)] = q[Len(j)]
<1> DEFINE Apart == {k \in 0..Len(j) : r[k] # q[k]}
<1>1. ASSUME Apart # {}
      PROVE  FALSE
  <2>1. Apart \in SUBSET Nat
    OBVIOUS
  <2>2. PICK k \in Apart : \A m \in Apart : k <= m
    <3> HIDE DEF Apart
    <3> QED
      BY <1>1, <2>1, LeastNumber
  <2>3. k \in 0..Len(j) /\ k # 0
    BY DEF Replays
  <2>4. k - 1 \in 0..Len(j) /\ k - 1 \notin Apart
    <3>1. k - 1 \in 0..Len(j) /\ ~(k <= k - 1)
      BY <2>3
    <3> HIDE DEF Apart
    <3> QED
      BY <2>2, <3>1
  <2>5. r[k - 1] = q[k - 1]
    BY <2>4
  <2>6. r[k] = q[k]
    BY <2>3, <2>5 DEF Replays
  <2> QED
    BY <2>6
<1> QED
  BY <1>1

\* So a journal that can be replayed to the tables tells their state.
LEMMA ReplayableTells ==
    ASSUME StoreTypeOK, Replayable
    PROVE  JournalTellsState
<1> DEFINE r[k \in 0..Len(journal)] ==
               IF k = 0 THEN [t \in Tasks |-> "absent"]
               ELSE StatesAfter(r[k - 1], journal[k])
<1>1. Len(journal) \in Nat
  BY LenProperties DEF StoreTypeOK
<1>2. PICK q : Replays(q, journal, patches) /\ q[Len(journal)] = node
  BY DEF Replayable
<1>3. \A s, event : StatesAfter(s, event) = After(s, event, patches[event.trigger])
  BY DEF StatesAfter, After
<1>4. q = [k \in 0..Len(journal) |->
              IF k = 0 THEN [t \in Tasks |-> "absent"]
              ELSE StatesAfter(q[k - 1], journal[k])]
  BY <1>2, <1>3 DEF Replays
<1>5. r = [k \in 0..Len(journal) |->
              IF k = 0 THEN [t \in Tasks |-> "absent"]
              ELSE StatesAfter(r[k - 1], journal[k])]
  BY <1>4
<1>6. r[Len(journal)] = node
  <2> HIDE DEF r
  <2>1. Replays(r, journal, patches)
    BY <1>3, <1>5 DEF Replays
  <2> QED
    BY <1>1, <1>2, <2>1, OneReplay
<1> QED
  BY <1>6 DEF JournalTellsState

\* An entry that tells what its transaction does to the nodes can be replayed.
LEMMA EntryReplays ==
    ASSUME StoreTypeOK, Replayable,
           NEW kind, NEW tasks, NEW trigger, Log(kind, tasks, trigger),
           \A i \in DOMAIN patches : i \in DOMAIN patches' /\ patches'[i] = patches[i],
           kind = "graph_patched" => trigger \in DOMAIN patches',
           node' = After(node, [kind |-> kind, tasks |-> tasks, trigger |-> trigger],
                         patches'[trigger])
    PROVE  Replayable'
<1> DEFINE e == [kind |-> kind, tasks |-> tasks, trigger |-> trigger]
           n == Len(journal)
<1>1. /\ n \in Nat /\ DOMAIN journal = 1..n
      /\ journal' = Append(journal, e)
  BY LenProperties DEF StoreTypeOK, Log
<1>2. /\ DOMAIN journal' = 1..(n + 1) /\ Len(journal') = n + 1 /\ journal'[n + 1] = e
      /\ \A i \in 1..n : journal'[i] = journal[i]
  BY <1>1
<1>3. PICK r : Replays(r, journal, patches) /\ r[n] = node
  BY DEF Replayable
<1>4. \A s, event, p, q : event.kind # "graph_patched" => After(s, event, p) = After(s, event, q)
  BY DEF After
<1>5. \A i \in 1..n : \A s : After(s, journal'[i], patches'[journal'[i].trigger])
                             = After(s, journal[i], patches[journal[i].trigger])
  BY <1>1, <1>2, <1>4 DEF Replayable
<1> DEFINE q == [k \in 0..(n + 1) |-> IF k = n + 1 THEN node' ELSE r[k]]
<1>6. /\ r[0] = [t \in Tasks |-> "absent"]
      /\ \A k \in 1..n : r[k] = After(r[k - 1], journal[k], patches[journal[k].trigger])
  <2>1. 0 \in 0..n /\ \A k \in 1..n : k \in 0..n /\ k # 0
    BY <1>1
  <2>2. r = [k \in 0..n |-> IF k = 0 THEN [t \in Tasks |-> "absent"]
                            ELSE After(r[k - 1], journal[k], patches[journal[k].trigger])]
    BY <1>3 DEF Replays
  <2> HIDE DEF n, e
  <2> QED
    BY <2>1, <2>2
<1>7. /\ q[n] = node /\ q[n + 1] = node' /\ q[0] = [t \in Tasks |-> "absent"]
      /\ \A k \in 0..n : q[k] = r[k]
  <2>1. n \in 0..(n + 1) /\ n # n + 1 /\ n + 1 \in 0..(n + 1) /\ 0 \in 0..(n + 1) /\ 0 # n + 1
        /\ \A k \in 0..n : k \in 0..(n + 1) /\ k # n + 1
    <3>1. n \in Nat
      BY <1>1
    <3> HIDE DEF n, e, q
    <3> QED
      BY <3>1
  <2> HIDE DEF n, e
  <2> QED
    BY <1>3, <1>6, <2>1
<1>8. ASSUME NEW k \in 0..(n + 1), k # 0
      PROVE  q[k] = After(q[k - 1], journal'[k], patches'[journal'[k].trigger])
  <2>1. CASE k = n + 1
    <3>1. k - 1 = n /\ journal'[k] = e /\ e.trigger = trigger
      BY <1>1, <1>2, <2>1
    <3> HIDE DEF q, e
    <3>2. node' = After(node, e, patches'[trigger])
      BY DEF e
    <3> QED
      BY <1>7, <2>1, <3>1, <3>2
  <2>2. CASE k # n + 1
    <3>1. k \in 1..n /\ k - 1 \in 0..n
      BY <1>1, <1>8, <2>2
    <3> HIDE DEF q, e, n
    <3> QED
      BY <1>5, <1>6, <1>7, <3>1
  <2> QED
    BY <2>1, <2>2
<1>9. Replays(q, journal', patches')
  <2>1. q = [k \in 0..(n + 1) |-> q[k]]
    OBVIOUS
  <2> HIDE DEF q
  <2> QED
    BY <1>2, <1>7, <1>8, <2>1 DEF Replays
<1>10. \A i \in DOMAIN journal' :
           journal'[i].kind = "graph_patched" => journal'[i].trigger \in DOMAIN patches'
  <2>1. e.kind = kind /\ e.trigger = trigger
    OBVIOUS
  <2> HIDE DEF e, q
  <2> QED
    BY <1>1, <1>2, <2>1 DEF Replayable
<1> HIDE DEF q, e
<1> QED
  BY <1>2, <1>7, <1>9, <1>10 DEF Replayable

\* A patch that is orderly is told by its entry.
LEMMA OrderlyPatchReplays ==
    ASSUME StoreTypeOK, Replayable, NEW p \in Patch, Orderly(p), NEW i \in Nat, ApplyPatch(p, i)
    PROVE  Replayable'
<1> DEFINE e == [kind |-> "graph_patched", tasks |-> p.cancel \cup Leftovers(p), trigger |-> i]
<1>1. patches'[i] = p /\ i \in DOMAIN patches'
      /\ \A k \in DOMAIN patches : k \in DOMAIN patches' /\ patches'[k] = patches[k]
  BY DEF ApplyPatch, AlreadyPatched
<1>2. p.cancel \cap p.add = {}
  BY DEF ApplyPatch, Admissible, WellFormed, Cancellable, Existing
<1>3. ASSUME NEW t \in Tasks
      PROVE  node'[t] = IF t \in p.cancel \cup Leftovers(p) THEN "cancelled"
                        ELSE IF t \in p.wait THEN "waiting"
                        ELSE IF t \in p.add \cup p.resume THEN "pending"
                        ELSE node[t]
  <2>1. node'[t] = IF t \in Leftovers(p) THEN "cancelled" ELSE Written(p)[t]
    BY DEF ApplyPatch, NodeAfter
  <2>2. Written(p)[t] = IF t \in p.resume THEN "pending"
                        ELSE IF t \in p.wait THEN "waiting"
                        ELSE IF t \in p.cancel THEN "cancelled"
                        ELSE IF t \in p.add THEN "pending"
                        ELSE node[t]
    BY DEF Written
  <2>3. p.finish => (t \in Leftovers(p) <=> Written(p)[t] \in Live)
    BY DEF Leftovers
  <2> QED
    BY <2>1, <2>2, <2>3, <1>2 DEF Orderly, Live
<1>4. node' = After(node, e, p)
  <2>1. node' = [t \in Tasks |-> IF t \in p.cancel \cup Leftovers(p) THEN "cancelled"
                                 ELSE IF t \in p.wait THEN "waiting"
                                 ELSE IF t \in p.add \cup p.resume THEN "pending"
                                 ELSE node[t]]
    <3>1. DOMAIN node' = Tasks /\ node' = [t \in Tasks |-> node'[t]]
      BY DEF ApplyPatch, NodeAfter
    <3> QED
      BY <1>3, <3>1
  <2> QED
    BY <2>1 DEF After
<1>5. Log("graph_patched", p.cancel \cup Leftovers(p), i)
  BY DEF ApplyPatch
<1> QED
  BY <1>1, <1>4, <1>5, EntryReplays

\* So is every other transaction.
LEMMA OtherEntriesReplay ==
    ASSUME StoreTypeOK, Replayable,
           \/ Start \/ Resume
           \/ \E S \in SUBSET ReadyTasks : MarkRunning(S)
           \/ \E t \in Tasks, success \in BOOLEAN : RecordOutcome(t, success)
           \/ \E t \in Tasks : RecordExternalEvent(t)
           \/ UNCHANGED storeVars
    PROVE  Replayable'
<1> DEFINE entry(kind, tasks) == [kind |-> kind, tasks |-> tasks, trigger |-> 0]
<1>1. ASSUME NEW kind, NEW tasks, Log(kind, tasks, 0), UNCHANGED patches,
             kind # "graph_patched", node' = After(node, entry(kind, tasks), patches[0])
      PROVE  Replayable'
  BY <1>1, EntryReplays
<1>2. CASE Start
  <2>1. node' = After(node, entry("run_started", {}), patches[0])
    BY <1>2 DEF Start, After
  <2> QED
    BY <1>1, <1>2, <2>1 DEF Start
<1>3. CASE Resume
  <2>1. node' = After(node, entry("run_resumed", {}), patches[0])
    BY <1>3 DEF Resume, NodeAfterResume, After
  <2> QED
    BY <1>1, <1>3, <2>1 DEF Resume
<1>4. ASSUME NEW S \in SUBSET ReadyTasks, MarkRunning(S)
      PROVE  Replayable'
  <2>1. \A t \in S : node[t] = "pending"
    BY DEF ReadyTasks, InState
  <2>2. node' = [t \in Tasks |-> IF t \in S THEN "running" ELSE node[t]]
    BY <1>4, <2>1 DEF MarkRunning
  <2>3. node' = After(node, entry("task_started", S), patches[0])
    BY <2>2 DEF After
  <2> QED
    BY <1>1, <1>4, <2>3 DEF MarkRunning
<1>5. ASSUME NEW t \in Tasks, NEW success \in BOOLEAN, RecordOutcome(t, success)
      PROVE  Replayable'
  <2> DEFINE kind == IF success THEN "task_succeeded" ELSE "task_failed"
  <2>1. node' = [u \in Tasks |-> IF u \in {t}
                                 THEN IF success THEN "succeeded" ELSE "failed" ELSE node[u]]
    BY <1>5 DEF RecordOutcome, StoreTypeOK
  <2>2. node' = After(node, entry(kind, {t}), patches[0])
    BY <2>1 DEF After
  <2>3. Log(kind, {t}, 0) /\ UNCHANGED patches /\ kind # "graph_patched"
    BY <1>5 DEF RecordOutcome
  <2> HIDE DEF kind, entry
  <2> QED
    BY <1>1, <2>2, <2>3
<1>6. ASSUME NEW t \in Tasks, RecordExternalEvent(t)
      PROVE  Replayable'
  <2>1. node' = After(node, entry("external", {t}), patches[0])
    BY <1>6 DEF RecordExternalEvent, After
  <2> QED
    BY <1>1, <1>6, <2>1 DEF RecordExternalEvent
<1>7. CASE UNCHANGED storeVars
  BY <1>7 DEF storeVars, Replayable
<1> QED
  BY <1>2, <1>3, <1>4, <1>5, <1>6, <1>7

\* The patches a step commits are the planner's.
LEMMA NextPatches ==
    ASSUME TypeOK, [Next]_vars
    PROVE  \/ Start \/ Resume
           \/ \E S \in SUBSET ReadyTasks : MarkRunning(S)
           \/ \E t \in Tasks, success \in BOOLEAN : RecordOutcome(t, success)
           \/ \E p \in Patches, i \in Nat : ApplyPatch(p, i)
           \/ UNCHANGED storeVars
<1>1. ASSUME NEW e \in Executors, NEW l \in Limits, RunFresh(e, l) \/ RunResumed(e, l)
      PROVE  Start \/ Resume
  BY <1>1 DEF RunFresh, RunResumed
<1>2. ASSUME NEW e \in Executors, NEW p \in Patches, PlannerTurn(e, p)
      PROVE  UNCHANGED storeVars \/ \E i \in Nat : ApplyPatch(p, i)
  <2>1. current[e] \in Nat
    BY DEF TypeOK
  <2> QED
    BY <1>2, <2>1 DEF PlannerTurn, Replan, Plan, PatchRefused, Commits
<1>3. ASSUME NEW e \in Executors, Fill(e)
      PROVE  UNCHANGED storeVars \/ \E S \in SUBSET ReadyTasks : MarkRunning(S)
  <2>1. Launch(e) \subseteq ReadyTasks
    BY DEF Launch, FirstById
  <2> QED
    BY <1>3, <2>1 DEF Fill
<1>4. ASSUME NEW e \in Executors, LoopStep(e)
      PROVE  UNCHANGED storeVars \/ \E t \in Tasks, success \in BOOLEAN : RecordOutcome(t, success)
  <2>1. ASSUME NEW t \in todo[e], Record(e, t)
        PROVE  \E u \in Tasks, success \in BOOLEAN : RecordOutcome(u, success)
    <3>1. t \in Tasks /\ (future[e][t] = "ok") \in BOOLEAN
      BY DEF TypeOK
    <3> QED
      BY <2>1, <3>1 DEF Record
  <2> QED
    BY <1>4, <2>1 DEF LoopStep, ReplayNext, ReplayEnds, Wake, EndBatch, Discard, OutcomeRefused
<1>5. ASSUME NEW e \in Executors, NEW t \in Tasks,
             CallCancelled(e) \/ WorkerEnds(e, t) \/ WorkerStops(e, t)
      PROVE  UNCHANGED storeVars
  BY <1>5 DEF CallCancelled, WorkerEnds, WorkerStops, SetFuture
<1>6. CASE Crash \/ UNCHANGED vars
  BY <1>6 DEF Crash, vars
<1>7. ASSUME NEW e \in Executors, CallCancelled(e)
      PROVE  UNCHANGED storeVars
  BY <1>7 DEF CallCancelled
<1> QED
  BY <1>1, <1>2, <1>3, <1>4, <1>5, <1>6, <1>7 DEF Next, ExecutorStep

\* The journal alone, replayed event by event, gives the states of the nodes,
\* over crashes and overlapping calls, for every planner whose patches are orderly.
THEOREM JournalTells ==
    ASSUME \A p \in Patches : Orderly(p)
    PROVE  Spec => []JournalTellsState
<1>1. Init => Replayable
  <2> SUFFICES ASSUME Init
               PROVE  Replayable
    OBVIOUS
  <2> DEFINE absent == [t \in Tasks |-> "absent"]
             r == [k \in 0..0 |-> absent]
  <2>1. journal = << >> /\ node = absent /\ Len(journal) = 0
    BY DEF Init, StoreInit
  <2>2. Replays(r, journal, patches)
    BY <2>1 DEF Replays
  <2> QED
    BY <2>1, <2>2 DEF Replayable
<1>2. TypeOK /\ Replayable /\ [Next]_vars => Replayable'
  <2> SUFFICES ASSUME TypeOK, Replayable, [Next]_vars
               PROVE  Replayable'
    OBVIOUS
  <2>1. StoreTypeOK
    BY DEF TypeOK
  <2>2. ASSUME NEW p \in Patches, NEW i \in Nat, ApplyPatch(p, i)
        PROVE  Replayable'
    BY <2>1, <2>2, PatchesAssumption, OrderlyPatchReplays
  <2> QED
    BY <2>1, <2>2, NextPatches, OtherEntriesReplay
<1>3. TypeOK /\ Replayable => JournalTellsState
  BY ReplayableTells DEF TypeOK
<1> QED
  BY <1>1, <1>2, <1>3, TypeCorrect, PTL DEF Spec

-----------------------------------------------------------------------------
(***************************************************************************)
(* No task waits for itself: among pending tasks some can start, or some   *)
(* hang on a task the planner or a failure holds.                          *)
(***************************************************************************)

\* Finitely many tasks that all have a predecessor among themselves contain a
\* cycle: take the fewest such tasks, then each has a successor among them as well.
LEMMA PredecessorsCycle ==
    ASSUME NEW E, NEW P, IsFiniteSet(P), P # {}, \A t \in P : \E q \in P : <<q, t>> \in E
    PROVE  HasCycle(E)
<1> DEFINE Back(M) == M # {} /\ \A t \in M : \E q \in M : <<q, t>> \in E
           Sizes == {n \in Nat : \E M \in SUBSET P : Back(M) /\ Cardinality(M) = n}
<1>1. \A M \in SUBSET P : IsFiniteSet(M) /\ Cardinality(M) \in Nat
  BY FS_Subset, FS_CardinalityType
<1>2. Sizes \in SUBSET Nat /\ Sizes # {}
  <2>1. Back(P) /\ P \in SUBSET P
    OBVIOUS
  <2> QED
    BY <1>1, <2>1
<1>3. PICK n \in Sizes : \A m \in Sizes : n <= m
  <2> HIDE DEF Sizes
  <2> QED
    BY <1>2, LeastNumber
<1>4. PICK M \in SUBSET P : Back(M) /\ Cardinality(M) = n
  BY <1>3
<1>5. ASSUME NEW t \in M, \A u \in M : <<t, u>> \notin E
      PROVE  FALSE
  <2> DEFINE R == M \ {t}
  <2>1. Back(R)
    <3>1. PICK q \in M : <<q, t>> \in E
      BY <1>4
    <3>2. q \in R
      BY <1>5, <3>1
    <3>3. ASSUME NEW u \in R
          PROVE  \E r \in R : <<r, u>> \in E
      <4>1. PICK r \in M : <<r, u>> \in E
        BY <1>4
      <4> QED
        BY <1>5, <4>1
    <3> QED
      BY <3>2, <3>3
  <2>2. Cardinality(R) = n - 1 /\ n \in Nat
    BY <1>1, <1>4, FS_RemoveElement
  <2>3. R \in SUBSET P /\ Cardinality(R) \in Nat
    BY <1>1
  <2>4. n - 1 \in Sizes
    <3> HIDE DEF R, Back
    <3> QED
      BY <2>1, <2>2, <2>3
  <2> HIDE DEF Sizes
  <2> QED
    BY <1>3, <2>2, <2>4
<1> HIDE DEF Sizes
<1> QED
  BY <1>4, <1>5, CycleFound

Acyclic == ~HasCycle(edges)

\* apply_patch admits no patch that closes a cycle; nothing else adds an edge.
LEMMA AcyclicPreserved ==
    ASSUME Acyclic, [StoreNext]_storeVars
    PROVE  Acyclic'
<1>1. ASSUME NEW p \in Patch, NEW i \in Nat, ApplyPatch(p, i)
      PROVE  Acyclic'
  BY <1>1 DEF ApplyPatch, Admissible, WellFormed, Acyclic
<1>2. ASSUME UNCHANGED edges
      PROVE  Acyclic'
  BY <1>2 DEF Acyclic
<1> QED
  BY <1>1, <1>2 DEF StoreNext, Start, Resume, MarkRunning, RecordOutcome, RecordExternalEvent,
                    storeVars

\* Any pending tasks at all: one of them is ready, or needs an existing task that
\* is not among them and has not succeeded.
NoneWaitsForItself ==
    \A P \in SUBSET InState("pending") :
        P # {} => \E t \in P :
            \/ t \in ReadyTasks
            \/ \E q \in Existing \ P : <<q, t>> \in edges /\ node[q] # "succeeded"

\* However patches of overlapping calls interleave, they never make tasks wait for
\* one another: what is pending can start, or what it waits for is running,
\* waiting for an event, or over without success (store.py:86-95, 150-170).
THEOREM NoTaskWaitsForItself == Spec => []NoneWaitsForItself
<1>1. Init => Acyclic
  BY DEF Init, StoreInit, Acyclic, HasCycle
<1>2. TypeOK /\ Acyclic /\ [Next]_vars => Acyclic'
  BY NextIsAnyStep, StepIsStoreStep, AcyclicPreserved
<1>3. Acyclic => NoneWaitsForItself
  <2> SUFFICES ASSUME Acyclic, NEW P \in SUBSET InState("pending"), P # {},
                      \A t \in P :
                          /\ t \notin ReadyTasks
                          /\ \A q \in Existing \ P : ~(<<q, t>> \in edges /\ node[q] # "succeeded")
               PROVE  FALSE
    BY DEF NoneWaitsForItself
  <2>1. IsFiniteSet(P) /\ \A t \in P : t \in InState("pending") /\ node[t] = "pending"
    <3>1. P \subseteq Tasks
      BY DEF InState
    <3> QED
      BY <3>1, TasksAssumption, FS_Subset DEF InState
  <2>2. ASSUME NEW t \in P
        PROVE  \E q \in P : <<q, t>> \in edges
    BY <2>1 DEF ReadyTasks
  <2> QED
    BY <2>1, <2>2, PredecessorsCycle DEF Acyclic
<1> QED
  BY <1>1, <1>2, <1>3, TypeCorrect, PTL DEF Spec

=============================================================================
