----------------------------- MODULE BridgeProofs -----------------------------
(***************************************************************************)
(* What holds of bridge, remote agent and overlapping calls of run()       *)
(* together, for any number of calls, dispatches and tasks of the graph.   *)
(* Bridge and executors share the store only: each step of the one is a    *)
(* transaction to the other, so what CallerProofs and LiveGraphProofs say  *)
(* of any planner and of any transaction holds here too.                   *)
(***************************************************************************)
EXTENDS A2ABridge, CallerProofs

\* The last update names the end of the task, or a state that was not one.
Followed(told, is) == told \in Agent!Open \/ (told \in Agent!Final /\ told = is)

\* A call of dispatch_waiting() that is under way found the node parked; one
\* that is over has resumed it, unless somebody else had; it records that the task
\* has ended, and names that end or a state before it; and what it was sent is at
\* hand for as long as the process lives.
Dispatched(c) ==
    /\ at[c] # "new" => node[remote] # "absent"
    /\ at[c] = "over" => node[remote] # "waiting"
    /\ at[c] \in {"subscribed", "yielding", "recorded"} => task[c] # "absent"
    /\ at[c] \in {"yielding", "recorded"} => Followed(seen[c], task[c])
    /\ at[c] = "recorded" => task[c] \in Agent!Final /\ event[c] # 0
    /\ at[c] \in {"recorded", "over"} => died \/ result # Nobody

\* The join is executed with the result at hand; it is stopped, and fails, only
\* after its outcome or cancellation has been recorded.
AtWork(e) ==
    /\ future[e][remote] # "none" => node[remote] # "absent"
    /\ future[e][remote] = "working" => died \/ result # Nobody
    /\ future[e][remote] \in {"stopping", "error", "cancelled"} => died \/ node[remote] \in Terminal

BridgeInv ==
    /\ BridgeTypeOK /\ Blank /\ FinishedIsQuiescent /\ SlotsInv
    /\ edges = {}
    /\ node[remote] \notin {"absent", "waiting", "cancelled"} => died \/ result # Nobody
    /\ node[remote] = "failed" => died
    /\ \A c \in Calls : Dispatched(c)
    /\ \A e \in Executors : AtWork(e)

-----------------------------------------------------------------------------
(* Every step is one of the executors, or a transaction of the bridge. *)

\* The patches of the bridge and of the planner that uses it.
LEMMA BridgePatches ==
    /\ Resumed \in Patch /\ CancelAndFinish \in Patch
    /\ Parked \in Patch /\ Joined \in Patch
    /\ \A e \in Executors : JoinProposal(e) \in {Parked, Joined}
BY RemoteAssumption DEF Patch, Only, Resumed, CancelAndFinish, Parked, Joined, JoinProposal

\* The bridge leaves the calls of run() alone, the executors leave the bridge alone.
LEMMA BridgeStepIsStep ==
    ASSUME BridgeTypeOK, [BridgeNext]_bridgeVars
    PROVE  [AnyStep]_vars \/ ([StoreNext]_storeVars /\ UNCHANGED execVars)
<1>1. TypeOK /\ \A c \in Calls : event[c] \in Nat
  <2>1. TypeOK /\ Len(journal) \in Nat
    BY LenProperties DEF BridgeTypeOK, TypeOK, StoreTypeOK
  <2> QED
    BY <2>1 DEF BridgeTypeOK
<1>2. ASSUME NEW c \in Calls, Completed(c) \/ ResumeNode(c)
      PROVE  [StoreNext]_storeVars /\ UNCHANGED execVars
  BY <1>1, <1>2, RemoteAssumption, BridgePatches DEF Completed, ResumeNode, StoreNext
<1>3. ASSUME NEW c \in Calls,
             \/ Dispatch(c) \/ Started(c) \/ Yield(c) \/ SleepOn(c)
             \/ RemoteAccepts(c) \/ RemoteEnds(c) \/ Lost(c)
      PROVE  UNCHANGED vars
  BY <1>3 DEF Dispatch, Started, Yield, SleepOn, RemoteAccepts, RemoteEnds, Lost
<1>4. CASE Decide \/ Told \/ CancelNode
  <2>1. Decision \subseteq Nat
    BY <1>1, LenProperties DEF TypeOK, StoreTypeOK, Decision
  <2> QED
    BY <1>4, <2>1, RemoteAssumption, BridgePatches DEF Decide, Told, CancelNode, StoreNext
<1>5. CASE Tell
  BY <1>5 DEF Tell
<1>6. ASSUME NEW e \in Executors, GraphStep(e)
      PROVE  AnyStep
  BY <1>6, RemoteAssumption, BridgePatches DEF GraphStep, ResultSkill, AnyStep, CallStep
<1>7. CASE ProcessDies
  BY <1>7 DEF ProcessDies, AnyStep
<1>8. CASE UNCHANGED bridgeVars
  BY <1>8 DEF bridgeVars
<1> QED
  BY <1>2, <1>3, <1>4, <1>5, <1>6, <1>7, <1>8 DEF BridgeNext, BridgeStep

\* So the graph keeps its types, and what any planner keeps of it.
LEMMA GraphKept ==
    ASSUME BridgeInv, [BridgeNext]_bridgeVars
    PROVE  /\ TypeOK' /\ Blank' /\ FinishedIsQuiescent' /\ SlotsInv'
           /\ [StoreNext]_storeVars
           /\ Len(journal) \in Nat /\ Len(journal') \in {Len(journal), Len(journal) + 1}
<1>1. BridgeTypeOK /\ TypeOK /\ StoreTypeOK /\ Blank /\ FinishedIsQuiescent /\ SlotsInv
  BY DEF BridgeInv, BridgeTypeOK, TypeOK
<1>2. [StoreNext]_storeVars
  BY <1>1, BridgeStepIsStep, StepIsStoreStep
<1>3. Blank' /\ FinishedIsQuiescent' /\ StoreTypeOK'
  BY <1>1, <1>2, BlankPreserved, QuiescencePreserved, StoreTypePreserved
<1>4. ASSUME [AnyStep]_vars
      PROVE  TypeOK' /\ SlotsInv'
  BY <1>1, <1>4, TypeNext, SlotsPreserved
<1>5. ASSUME UNCHANGED execVars
      PROVE  TypeOK' /\ SlotsInv'
  <2>1. TypeOK'
    BY <1>1, <1>3, <1>5 DEF TypeOK, execVars
  <2>2. SlotsInv'
    BY <1>1, <1>5, SlotsOfOthers DEF SlotsInv, execVars
  <2> QED
    BY <2>1, <2>2
<1>6. Len(journal) \in Nat /\ Len(journal') \in {Len(journal), Len(journal) + 1}
  <2>1. ASSUME NEW kind, NEW tasks, NEW trigger, Log(kind, tasks, trigger)
        PROVE  Len(journal') = Len(journal) + 1
    BY <1>1, <2>1 DEF Log, StoreTypeOK
  <2>2. \/ UNCHANGED journal
        \/ \E kind, tasks, trigger : Log(kind, tasks, trigger)
    BY <1>2 DEF StoreNext, Start, Resume, MarkRunning, RecordOutcome, RecordExternalEvent,
                ApplyPatch, storeVars
  <2> QED
    BY <1>1, <2>1, <2>2, LenProperties DEF StoreTypeOK
<1> QED
  BY <1>1, <1>2, <1>3, <1>4, <1>5, <1>6, BridgeStepIsStep


-----------------------------------------------------------------------------
(* What a step does to the node. *)

\* The planner parks the node where there is none, or finishes the run.
LEMMA PlannedNode ==
    ASSUME BridgeInv, NEW e \in Executors, Commits(JoinProposal(e), current[e])
    PROVE  /\ edges' = {}
           /\ \/ node'[remote] = node[remote]
              \/ node[remote] = "absent" /\ node'[remote] = "waiting"
              \/ node[remote] \in Live /\ node'[remote] = "cancelled"
<1>1. StoreTypeOK /\ edges = {}
  BY DEF BridgeInv, BridgeTypeOK, TypeOK
<1>2. CASE UNCHANGED storeVars
  BY <1>1, <1>2 DEF storeVars
<1>3. CASE ApplyPatch(Parked, current[e])
  <2>1. node[remote] = "absent" /\ edges' = {}
    BY <1>1, <1>3, RemoteAssumption DEF ApplyPatch, Admissible, WellFormed, Existing, Parked, Only
  <2>2. node'[remote] = "waiting"
    BY <1>3, RemoteAssumption DEF ApplyPatch, NodeAfter, Leftovers, Written, Parked, Only
  <2> QED
    BY <2>1, <2>2
<1>4. CASE ApplyPatch(Joined, current[e])
  <2>1. edges' = {}
    BY <1>1, <1>4 DEF ApplyPatch, Joined, Only
  <2>2. node'[remote] = IF node[remote] \in Live THEN "cancelled" ELSE node[remote]
    BY <1>4, RemoteAssumption DEF ApplyPatch, NodeAfter, Leftovers, Written, Joined, Only
  <2> QED
    BY <2>1, <2>2
<1> QED
  BY <1>2, <1>3, <1>4, BridgePatches DEF Commits

\* The bridge cancels the node with the run.
LEMMA CancelledNode ==
    ASSUME BridgeInv, NEW i, ApplyPatch(CancelAndFinish, i)
    PROVE  edges' = {} /\ node[remote] \in Live /\ node'[remote] = "cancelled"
<1>1. node[remote] \in Live /\ edges' = {}
  BY RemoteAssumption
     DEF ApplyPatch, Admissible, WellFormed, Cancellable, Live, CancelAndFinish, Only, BridgeInv
<1>2. node'[remote] = "cancelled"
  BY RemoteAssumption DEF ApplyPatch, NodeAfter, Leftovers, Written, Live, CancelAndFinish, Only
<1> QED
  BY <1>1, <1>2

\* The bridge resumes the node.
LEMMA ResumedNode ==
    ASSUME BridgeInv, NEW i, ApplyPatch(Resumed, i)
    PROVE  edges' = {} /\ node'[remote] = "pending"
<1>1. edges' = {}
  BY DEF ApplyPatch, Resumed, Only, BridgeInv
<1>2. node'[remote] = "pending"
  BY RemoteAssumption DEF ApplyPatch, NodeAfter, Leftovers, Written, Resumed, Only
<1> QED
  BY <1>1, <1>2

\* Whatever a step does, the node moves in one of these ways.
Moves ==
    \/ node'[remote] = node[remote]
    \/ node[remote] = "absent" /\ node'[remote] = "waiting"
    \/ node[remote] = "waiting" /\ node'[remote] = "pending" /\ \E c \in Calls : at[c] = "recorded"
    \/ node[remote] = "pending" /\ node'[remote] = "running"
    \/ node[remote] = "running" /\ node'[remote] \in {"pending", "succeeded"}
    \/ /\ node[remote] = "running" /\ node'[remote] = "failed"
       /\ \E e \in Executors : future[e][remote] = "error"
    \/ node[remote] \in Live /\ node'[remote] = "cancelled"

\* A call that records the join as failed found its coroutine ended in an error.
LEMMA RecordedNode ==
    ASSUME BridgeInv, NEW e \in Executors, NEW t \in todo[e], Record(e, t)
    PROVE  edges' = {} /\ Moves
<1>1. TypeOK /\ SlotsInv /\ t \in Tasks
  BY DEF BridgeInv, BridgeTypeOK, TypeOK
<1>2. future[e][t] \in {"ok", "error"}
  BY <1>1 DEF Record, Pop, Discarded, SlotsInv, Slots, Done
<1>3. node[t] = "running" /\ node'[t] = IF future[e][t] = "ok" THEN "succeeded" ELSE "failed"
  BY <1>1 DEF Record, RecordOutcome, CanRecord, TypeOK, StoreTypeOK
<1>4. t # remote => node'[remote] = node[remote]
  BY <1>1, RemoteAssumption DEF Record, RecordOutcome, TypeOK, StoreTypeOK
<1>5. edges' = {}
  BY DEF Record, RecordOutcome, BridgeInv
<1> QED
  BY <1>2, <1>3, <1>4, <1>5 DEF Moves

\* Every step of bridge and graph moves the node so, and draws no edge.
LEMMA NodeMoves ==
    ASSUME BridgeInv, [BridgeNext]_bridgeVars
    PROVE  edges' = {} /\ Moves
<1>1. ASSUME UNCHANGED <<node, edges>>
      PROVE  edges' = {} /\ Moves
  BY <1>1 DEF Moves, BridgeInv
<1>2. ASSUME NEW c \in Calls, ResumeNode(c)
      PROVE  edges' = {} /\ Moves
  <2>1. CASE Resumes(c)
    BY <1>2, <2>1, ResumedNode DEF ResumeNode, Resumes, Moves
  <2>2. CASE ~Resumes(c)
    BY <1>1, <1>2, <2>2 DEF ResumeNode, storeVars
  <2> QED
    BY <2>1, <2>2
<1>3. ASSUME NEW c \in Calls,
             \/ Completed(c) \/ Dispatch(c) \/ Started(c) \/ Yield(c) \/ SleepOn(c) \/ RemoteAccepts(c)
             \/ RemoteEnds(c) \/ Lost(c)
      PROVE  edges' = {} /\ Moves
  BY <1>1, <1>3 DEF Completed, Dispatch, Started, Yield, SleepOn, RemoteAccepts, RemoteEnds, Lost,
                    RecordExternalEvent, vars, storeVars
<1>4. CASE CancelNode
  <2>1. CASE UNCHANGED storeVars
    BY <1>1, <2>1 DEF storeVars
  <2>2. CASE \E i \in Decision : ApplyPatch(CancelAndFinish, i)
    BY <2>2, CancelledNode DEF Moves
  <2> QED
    BY <1>4, <2>1, <2>2 DEF CancelNode
<1>5. CASE Decide \/ Tell \/ Told \/ ProcessDies \/ UNCHANGED bridgeVars
  BY <1>1, <1>5 DEF Decide, Tell, Told, ProcessDies, Crash, RecordExternalEvent,
                    bridgeVars, vars, storeVars
<1>6. ASSUME NEW e \in Executors, GraphStep(e)
      PROVE  edges' = {} /\ Moves
  <2>1. TypeOK /\ StoreTypeOK /\ Blank /\ edges = {}
    BY DEF BridgeInv, BridgeTypeOK, TypeOK
  <2>2. ASSUME NEW l \in Limits, RunFresh(e, l) \/ RunResumed(e, l)
        PROVE  edges' = {} /\ Moves
    BY <2>1, <2>2, RemoteAssumption
       DEF RunFresh, RunResumed, Start, Resume, NodeAfterResume, Moves
  <2>3. CASE Fill(e)
    <3>1. CASE UNCHANGED storeVars
      BY <1>1, <3>1 DEF storeVars
    <3>2. CASE MarkRunning(Launch(e))
      BY <2>1, <3>2, RemoteAssumption DEF MarkRunning, Moves
    <3> QED
      BY <2>3, <3>1, <3>2 DEF Fill
  <2>4. ASSUME NEW t \in todo[e], Record(e, t)
        PROVE  edges' = {} /\ Moves
    BY <2>4, RecordedNode
  <2>5. CASE LoopStep(e)
    BY <1>1, <2>4, <2>5 DEF LoopStep, ReplayNext, ReplayEnds, Wake, EndBatch, Discard,
                            OutcomeRefused, storeVars
  <2>6. CASE PlannerTurn(e, JoinProposal(e))
    BY <1>1, <2>6, PlannedNode DEF PlannerTurn, Replan, Plan, PatchRefused, Moves, storeVars
  <2>7. CASE ResultSkill(e) \/ WorkerStops(e, remote)
    BY <1>1, <2>7 DEF ResultSkill, WorkerEnds, WorkerStops, SetFuture, storeVars
  <2> QED
    BY <1>6, <2>2, <2>3, <2>5, <2>6, <2>7 DEF GraphStep
<1> QED
  BY <1>2, <1>3, <1>4, <1>5, <1>6 DEF BridgeNext, BridgeStep


-----------------------------------------------------------------------------
(* What a step does to the calls of dispatch_waiting() and to the remote. *)

\* A result is lost with the process only, and an end of the remote is final.
LEMMA ResultKept ==
    ASSUME BridgeInv, [BridgeNext]_bridgeVars
    PROVE  /\ died => died'
           /\ result # Nobody => died' \/ result' # Nobody
           /\ \A c \in Calls : task[c] \in Agent!Final => task'[c] = task[c]
           /\ \A c \in Calls : event[c] # 0 => event'[c] # 0
           /\ \A c \in Calls : task[c] # "absent" => task'[c] # "absent"
<1>1. task \in [Calls -> Agent!TaskState \cup {"absent"}] /\ DOMAIN event = Calls
  BY DEF BridgeInv, BridgeTypeOK
<1>2. ASSUME NEW c \in Calls, Completed(c)
      PROVE  /\ UNCHANGED <<died, task>> /\ result' # Nobody
             /\ \A d \in Calls : event[d] # 0 => event'[d] # 0
  <2>1. Len(journal') = Len(journal) + 1 /\ Len(journal) \in Nat
    BY <1>2 DEF Completed, RecordExternalEvent, Log, BridgeInv, BridgeTypeOK, TypeOK, StoreTypeOK
  <2>2. UNCHANGED <<died, task>> /\ result' = c /\ event' = [event EXCEPT ![c] = Len(journal')]
    BY <1>2 DEF Completed, KeepsResult
  <2> QED
    BY <1>1, <2>1, <2>2, CallsAssumption
<1>3. ASSUME NEW c \in Calls,
             \/ ResumeNode(c) \/ Dispatch(c) \/ Started(c) \/ Yield(c) \/ SleepOn(c) \/ Lost(c)
             \/ RemoteAccepts(c) \/ RemoteEnds(c)
      PROVE  UNCHANGED <<died, result, event>>
  BY <1>3 DEF ResumeNode, Dispatch, Started, Yield, SleepOn, Lost, RemoteAccepts, RemoteEnds
<1>4. ASSUME NEW c \in Calls, RemoteAccepts(c) \/ RemoteEnds(c)
      PROVE  \A d \in Calls : /\ task[d] \in Agent!Final => task'[d] = task[d]
                              /\ task[d] # "absent" => task'[d] # "absent"
  BY <1>1, <1>4 DEF RemoteAccepts, RemoteEnds, Agent!Submit, Agent!End, Agent!Final, Agent!Open
<1>5. ASSUME NEW c \in Calls,
             \/ ResumeNode(c) \/ Dispatch(c) \/ Started(c)
             \/ Yield(c) \/ SleepOn(c) \/ Lost(c)
      PROVE  UNCHANGED task
  BY <1>5 DEF ResumeNode, Dispatch, Started, Yield, SleepOn, Lost
<1>6. CASE Told
  <2>1. \A c \in Calls : /\ task[c] \in Agent!Final => task'[c] = task[c]
                         /\ task[c] # "absent" => task'[c] # "absent"
    BY <1>1, <1>6 DEF Told, Agent!Open
  <2> QED
    BY <1>6, <2>1 DEF Told
<1>7. CASE Decide \/ CancelNode \/ Tell
  BY <1>7 DEF Decide, CancelNode, Tell
<1>8. CASE ProcessDies
  BY <1>8 DEF ProcessDies
<1>9. ASSUME NEW e \in Executors, GraphStep(e)
      PROVE  UNCHANGED remoteVars
  BY <1>9 DEF GraphStep
<1>10. CASE UNCHANGED remoteVars \/ UNCHANGED bridgeVars
  BY <1>10 DEF remoteVars, bridgeVars
<1> QED
  BY <1>2, <1>3, <1>4, <1>5, <1>6, <1>7, <1>8, <1>9, <1>10 DEF BridgeNext, BridgeStep, remoteVars

\* A call that stays where it is is sent nothing.
LEMMA SeenKept ==
    ASSUME BridgeInv, [BridgeNext]_bridgeVars, NEW c \in Calls,
           at[c] \in {"yielding", "recorded"}, at'[c] = at[c]
    PROVE  seen'[c] = seen[c]
<1>1. DOMAIN at = Calls /\ DOMAIN seen = Calls
  BY DEF BridgeInv, BridgeTypeOK
<1>2. ASSUME NEW d \in Calls, Yield(d) \/ Lost(d)
      PROVE  seen'[c] = seen[c]
  BY <1>1, <1>2 DEF Yield, Lost, Go
<1>3. ASSUME NEW d \in Calls,
             \/ Dispatch(d) \/ Started(d) \/ SleepOn(d) \/ Completed(d) \/ ResumeNode(d)
             \/ RemoteAccepts(d) \/ RemoteEnds(d)
      PROVE  UNCHANGED seen
  BY <1>3 DEF Dispatch, Started, SleepOn, Completed, ResumeNode, RemoteAccepts, RemoteEnds
<1>4. CASE Decide \/ CancelNode \/ Tell \/ Told
  BY <1>4 DEF Decide, CancelNode, Tell, Told
<1>5. CASE ProcessDies
  BY <1>5 DEF ProcessDies
<1>6. CASE (\E e \in Executors : GraphStep(e)) \/ UNCHANGED bridgeVars
  BY <1>6 DEF GraphStep, remoteVars, bridgeVars
<1> QED
  BY <1>2, <1>3, <1>4, <1>5, <1>6 DEF BridgeNext, BridgeStep

\* Each call of dispatch_waiting() keeps what is said of it.
LEMMA DispatchedNext ==
    ASSUME BridgeInv, [BridgeNext]_bridgeVars, NEW c \in Calls
    PROVE  Dispatched(c)'
<1>1. /\ node[remote] # "absent" => node'[remote] # "absent"
      /\ node'[remote] = "waiting" => node[remote] \in {"absent", "waiting"}
  BY NodeMoves DEF Moves
<1>2. Dispatched(c) /\ DOMAIN at = Calls /\ DOMAIN event = Calls
  BY DEF BridgeInv, BridgeTypeOK
<1>3. ASSUME at'[c] = at[c]
      PROVE  Dispatched(c)'
  <2>1. /\ task[c] \in Agent!Final => task'[c] \in Agent!Final
        /\ event[c] # 0 => event'[c] # 0
        /\ died \/ result # Nobody => died' \/ result' # Nobody
        /\ task[c] # "absent" => task'[c] # "absent"
        /\ task[c] \in Agent!Final => task'[c] = task[c]
    BY ResultKept
  <2>2. at[c] \in {"yielding", "recorded"} => seen'[c] = seen[c]
    BY <1>3, SeenKept
  <2>3. Followed(seen[c], task[c]) => \/ seen[c] \in Agent!Open
                                      \/ seen[c] \in Agent!Final /\ seen[c] = task'[c]
    BY <2>1 DEF Followed
  <2> QED
    BY <1>1, <1>2, <1>3, <2>1, <2>2, <2>3 DEF Dispatched, Followed, Agent!Final, Agent!Open
<1>4. ASSUME NEW d \in Calls,
             \/ Dispatch(d) \/ Started(d) \/ Yield(d) \/ SleepOn(d)
             \/ Completed(d) \/ ResumeNode(d) \/ Lost(d),
             d # c
      PROVE  at'[c] = at[c]
  BY <1>2, <1>4 DEF Dispatch, Started, Yield, SleepOn, Completed, ResumeNode, Lost, Go
<1>5. CASE Dispatch(c) \/ Lost(c)
  <2>1. node[remote] # "absent" /\ at'[c] \in {"starting", "lost"}
    BY <1>2, <1>5 DEF Dispatch, Lost, Go, Dispatched
  <2> QED
    BY <1>1, <2>1 DEF Dispatched
<1>11. CASE Started(c) \/ SleepOn(c)
  <2>1. node[remote] # "absent" /\ at'[c] = "subscribed" /\ task'[c] # "absent"
    BY <1>2, <1>11 DEF Started, SleepOn, Go, Dispatched
  <2> QED
    BY <1>1, <2>1 DEF Dispatched
<1>12. CASE Yield(c)
  <2>1. /\ node[remote] # "absent" /\ task[c] # "absent" /\ at'[c] = "yielding"
        /\ task' = task /\ seen'[c] = task[c]
    BY <1>2, <1>12 DEF Yield, Go, Dispatched, BridgeInv, BridgeTypeOK
  <2>2. task[c] \in Agent!TaskState
    BY <2>1 DEF BridgeInv, BridgeTypeOK
  <2>3. Followed(seen'[c], task'[c])
    BY <2>1, <2>2 DEF Followed, Agent!Open
  <2> QED
    BY <1>1, <2>1, <2>3 DEF Dispatched, Followed, Agent!Open, Agent!Final
<1>6. CASE Completed(c)
  <2>1. /\ at[c] = "yielding" /\ at'[c] = "recorded" /\ task[c] \in Agent!Final
        /\ UNCHANGED <<task, seen>> /\ result' = c /\ event'[c] = Len(journal')
    BY <1>2, <1>6 DEF Completed, SubscriptionEnds, KeepsResult, Go
  <2>2. Len(journal') # 0
    BY <1>6 DEF Completed, RecordExternalEvent, Log, BridgeInv, BridgeTypeOK, TypeOK, StoreTypeOK
  <2> QED
    BY <1>1, <1>2, <2>1, <2>2, CallsAssumption DEF Dispatched, Followed, Agent!Final, Agent!Open
<1>7. CASE ResumeNode(c)
  <2>1. at[c] = "recorded" /\ at'[c] = "over" /\ UNCHANGED <<result, died>>
    BY <1>2, <1>7 DEF ResumeNode, Go
  <2>2. node'[remote] # "waiting"
    <3>1. CASE Resumes(c)
      BY <1>7, <3>1, ResumedNode DEF ResumeNode
    <3>2. CASE ~Resumes(c)
      BY <1>7, <3>2 DEF ResumeNode, Resumes, storeVars
    <3> QED
      BY <3>1, <3>2
  <2> QED
    BY <1>1, <1>2, <2>1, <2>2 DEF Dispatched
<1>8. CASE ProcessDies
  <2>1. at'[c] = IF at[c] = "new" THEN "new" ELSE "lost"
    BY <1>8 DEF ProcessDies
  <2> QED
    BY <1>1, <1>2, <2>1 DEF Dispatched
<1>9. CASE Decide \/ CancelNode \/ Tell \/ Told \/ (\E d \in Calls : RemoteAccepts(d) \/ RemoteEnds(d))
  BY <1>3, <1>9 DEF Decide, CancelNode, Tell, Told, RemoteAccepts, RemoteEnds
<1>10. CASE (\E e \in Executors : GraphStep(e)) \/ UNCHANGED bridgeVars
  BY <1>3, <1>10 DEF GraphStep, remoteVars, bridgeVars
<1> QED
  BY <1>3, <1>4, <1>5, <1>6, <1>7, <1>8, <1>9, <1>10, <1>11, <1>12 DEF BridgeNext, BridgeStep

-----------------------------------------------------------------------------
(* What a step does to the coroutines that join the result. *)

\* The steps of a call but the launch, and the end of its coroutine.
FutureMoves(e) ==
    \/ future'[e][remote] \in {future[e][remote], "none"}
    \/ node[remote] = "pending" /\ node'[remote] = "running" /\ future'[e][remote] = "working"
    \/ future[e][remote] = "working" /\ future'[e][remote] = "ok"
    \/ future[e][remote] = "working" /\ future'[e][remote] = "error" /\ result = Nobody
    \/ future[e][remote] = "working" /\ future'[e][remote] = "stopping" /\ node'[remote] \in Terminal
    \/ future[e][remote] = "stopping" /\ future'[e][remote] \in {"cancelled", "error"}

\* Only the call itself and its coroutines move them.
LEMMA FutureMoved ==
    ASSUME BridgeInv, [BridgeNext]_bridgeVars, NEW e \in Executors
    PROVE  FutureMoves(e)
<1>1. TypeOK /\ AtWork(e) /\ FinishedIsQuiescent /\ remote \in Tasks
  BY RemoteAssumption DEF BridgeInv, BridgeTypeOK
<1>2. ASSUME NEW c \in Calls,
             \/ Dispatch(c) \/ BridgeStep(c) \/ RemoteAccepts(c)
             \/ RemoteEnds(c) \/ Lost(c)
      PROVE  UNCHANGED future
  BY <1>2 DEF Dispatch, BridgeStep, Started, Yield, SleepOn, Completed, ResumeNode, RemoteAccepts, RemoteEnds,
              Lost, vars, execVars
<1>3. CASE Decide \/ CancelNode \/ Tell \/ Told \/ UNCHANGED bridgeVars
  BY <1>3 DEF Decide, CancelNode, Tell, Told, bridgeVars, vars, execVars, FutureMoves
<1>4. CASE ProcessDies
  BY <1>1, <1>4 DEF ProcessDies, Crash, vars, execVars, FutureMoves
<1>5. ASSUME NEW f \in Executors, GraphStep(f), f # e
      PROVE  future'[e] = future[e]
  <2>1. ASSUME NEW t \in todo[f], Pop(f, t)
        PROVE  future'[e] = future[e]
    BY <1>1, <1>5, <2>1 DEF Pop, TypeOK
  <2>2. CASE LoopStep(f)
    BY <1>1, <1>5, <2>1, <2>2
       DEF LoopStep, ReplayNext, ReplayEnds, Wake, EndBatch, Stopping, Discard, Record,
           OutcomeRefused, TypeOK
  <2>3. CASE PlannerTurn(f, JoinProposal(f)) \/ Fill(f)
    BY <1>1, <1>5, <2>3
       DEF PlannerTurn, Replan, Plan, PatchRefused, Stopping, Fill, TypeOK
  <2>4. CASE ResultSkill(f) \/ WorkerStops(f, remote)
    BY <1>1, <1>5, <2>4 DEF ResultSkill, WorkerEnds, WorkerStops, SetFuture, TypeOK
  <2>5. ASSUME NEW l \in Limits, RunFresh(f, l) \/ RunResumed(f, l)
        PROVE  future'[e] = future[e]
    BY <2>5 DEF RunFresh, RunResumed, Begin
  <2> QED
    BY <1>5, <2>2, <2>3, <2>4, <2>5 DEF GraphStep
<1>6. CASE GraphStep(e)
  <2>1. CASE Fill(e)
    <3>1. remote \in Launch(e) => node[remote] = "pending"
      BY DEF Launch, FirstById, ReadyTasks, InState
    <3>2. future'[e][remote] = IF remote \in Launch(e) THEN "working" ELSE future[e][remote]
      BY <1>1, <2>1 DEF Fill, TypeOK
    <3>3. remote \in Launch(e) => node'[remote] = "running"
      BY <1>1, <2>1, <3>1 DEF Fill, MarkRunning
    <3> QED
      BY <3>1, <3>2, <3>3 DEF FutureMoves
  <2>2. CASE PlannerTurn(e, JoinProposal(e))
    <3>1. \/ UNCHANGED future
          \/ future' = Stopping(e, {t \in Tasks : node'[t] = "cancelled"})
      BY <2>2 DEF PlannerTurn, Replan, Plan, PatchRefused
    <3>2. CASE UNCHANGED future
      BY <3>2 DEF FutureMoves
    <3>3. CASE future' = Stopping(e, {t \in Tasks : node'[t] = "cancelled"})
      BY <1>1, <3>3 DEF Stopping, TypeOK, FutureMoves, Terminal
    <3> QED
      BY <3>1, <3>2, <3>3
  <2>3. CASE EndBatch(e)
    <3>1. CASE run = "finished"
      <4>1. future[e][remote] = "working" => node[remote] \in Terminal
        BY <1>1, <3>1
           DEF AtWork, FinishedIsQuiescent, Live, Terminal, TypeOK, StoreTypeOK, NodeState
      <4>2. future'[e][remote] = IF future[e][remote] = "working" THEN "stopping"
                                 ELSE future[e][remote]
        BY <1>1, <2>3, <3>1 DEF EndBatch, Stopping, TypeOK
      <4> QED
        BY <2>3, <4>1, <4>2 DEF EndBatch, storeVars, FutureMoves
    <3>2. CASE run # "finished"
      BY <2>3, <3>2 DEF EndBatch, FutureMoves
    <3> QED
      BY <3>1, <3>2
  <2>4. ASSUME NEW t \in todo[e], Pop(e, t)
        PROVE  FutureMoves(e)
    BY <1>1, <2>4 DEF Pop, TypeOK, FutureMoves
  <2>5. CASE LoopStep(e)
    BY <2>3, <2>4, <2>5
       DEF LoopStep, ReplayNext, ReplayEnds, Wake, Discard, Record, OutcomeRefused, FutureMoves
  <2>6. CASE ResultSkill(e) \/ WorkerStops(e, remote)
    BY <1>1, <2>6 DEF ResultSkill, WorkerEnds, WorkerStops, SetFuture, TypeOK, FutureMoves
  <2>7. ASSUME NEW l \in Limits, RunFresh(e, l) \/ RunResumed(e, l)
        PROVE  FutureMoves(e)
    BY <2>7 DEF RunFresh, RunResumed, Begin, FutureMoves
  <2> QED
    BY <1>6, <2>1, <2>2, <2>5, <2>6, <2>7 DEF GraphStep
<1>7. ASSUME UNCHANGED future \/ future'[e] = future[e]
      PROVE  FutureMoves(e)
  BY <1>7 DEF FutureMoves
<1> QED
  BY <1>2, <1>3, <1>4, <1>5, <1>6, <1>7 DEF BridgeNext

\* So they keep what is said of them.
LEMMA AtWorkNext ==
    ASSUME BridgeInv, [BridgeNext]_bridgeVars, NEW e \in Executors
    PROVE  AtWork(e)'
<1>1. AtWork(e) /\ remote \in Tasks
  BY RemoteAssumption DEF BridgeInv
<1>2. /\ node[remote] # "absent" => node'[remote] # "absent"
      /\ died => died'
      /\ died \/ result # Nobody => died' \/ result' # Nobody
  BY NodeMoves, ResultKept DEF Moves
<1>3. node[remote] \in Terminal => node'[remote] \in Terminal
  <2>1. [StoreNext]_storeVars /\ StoreTypeOK
    BY GraphKept DEF BridgeInv, BridgeTypeOK, TypeOK
  <2> QED
    BY <1>1, <2>1, TerminalKept
<1>4. node[remote] = "pending" => died \/ result # Nobody
  BY DEF BridgeInv
<1>5. FutureMoves(e)
  BY FutureMoved
<1>6. future'[e][remote] # "none" => node'[remote] # "absent"
  BY <1>1, <1>2, <1>5 DEF FutureMoves, AtWork
<1>7. future'[e][remote] = "working" => died' \/ result' # Nobody
  BY <1>1, <1>2, <1>4, <1>5 DEF FutureMoves, AtWork
<1>8. future'[e][remote] \in {"stopping", "error", "cancelled"} => died' \/ node'[remote] \in Terminal
  BY <1>1, <1>2, <1>3, <1>5 DEF FutureMoves, AtWork
<1> QED
  BY <1>6, <1>7, <1>8 DEF AtWork, Terminal


-----------------------------------------------------------------------------
(* The invariant, and what follows from it. *)

\* The types of the variables of bridge and remote.
LEMMA BridgeTypeNext ==
    ASSUME BridgeInv, [BridgeNext]_bridgeVars
    PROVE  BridgeTypeOK'
<1>1. TypeOK' /\ Len(journal) \in Nat /\ Len(journal') \in {Len(journal), Len(journal) + 1}
  BY GraphKept
<1>2. BridgeTypeOK
  BY DEF BridgeInv
<1>3. event \in [Calls -> 0..Len(journal')]
  BY <1>1, <1>2 DEF BridgeTypeOK
<1>4. ASSUME UNCHANGED remoteVars
      PROVE  BridgeTypeOK'
  BY <1>1, <1>2, <1>3, <1>4 DEF BridgeTypeOK, remoteVars, Agent!TaskState
<1> USE DEF BridgeTypeOK, Go
<1>5. ASSUME NEW c \in Calls,
             Dispatch(c) \/ Started(c) \/ SleepOn(c) \/ Lost(c) \/ ResumeNode(c)
      PROVE  BridgeTypeOK'
  BY <1>1, <1>2, <1>3, <1>5 DEF Dispatch, Started, SleepOn, Lost, ResumeNode, Agent!TaskState
<1>12. ASSUME NEW c \in Calls, Yield(c)
      PROVE  BridgeTypeOK'
  <2>1. task[c] \in Agent!TaskState
    BY <1>12 DEF BridgeInv, Dispatched, Yield
  <2> QED
    BY <1>1, <1>2, <1>3, <1>12, <2>1 DEF Yield, Agent!TaskState
<1>6. ASSUME NEW c \in Calls, RemoteAccepts(c) \/ RemoteEnds(c)
      PROVE  BridgeTypeOK'
  <2>1. task' \in [Calls -> Agent!TaskState \cup {"absent"}]
    BY <1>2, <1>6
       DEF RemoteAccepts, RemoteEnds, Agent!Submit, Agent!End, Agent!TaskState, Agent!Final
  <2> QED
    BY <1>1, <1>2, <1>3, <1>6, <2>1 DEF RemoteAccepts, RemoteEnds, Agent!TaskState
<1>7. ASSUME NEW c \in Calls, Completed(c)
      PROVE  BridgeTypeOK'
  <2>1. event' \in [Calls -> 0..Len(journal')]
    <3>1. Len(journal') \in 0..Len(journal')
      BY <1>1
    <3> QED
      BY <1>3, <1>7, <3>1 DEF Completed
  <2> QED
    BY <1>1, <1>2, <1>7, <2>1 DEF Completed, KeepsResult, Agent!TaskState
<1>8. CASE Decide \/ CancelNode \/ Tell
  BY <1>1, <1>2, <1>3, <1>8 DEF Decide, CancelNode, Tell, Agent!TaskState
<1>9. CASE Told
  <2>1. task' \in [Calls -> Agent!TaskState \cup {"absent"}]
    BY <1>2, <1>9 DEF Told, Agent!TaskState, Agent!Open
  <2> QED
    BY <1>1, <1>2, <1>3, <1>9, <2>1 DEF Told, Agent!TaskState
<1>10. CASE ProcessDies
  BY <1>1, <1>2, <1>3, <1>10 DEF ProcessDies, Agent!TaskState
<1>11. CASE (\E e \in Executors : GraphStep(e)) \/ UNCHANGED bridgeVars
  BY <1>4, <1>11 DEF GraphStep, bridgeVars
<1> QED
  BY <1>5, <1>6, <1>7, <1>8, <1>9, <1>10, <1>11, <1>12 DEF BridgeNext, BridgeStep

\* Before anything happens.
LEMMA BridgeInvInit == BridgeInit => BridgeInv
<1> SUFFICES ASSUME BridgeInit
             PROVE  BridgeInv
  OBVIOUS
<1>1. TypeOK /\ SlotsInv
  BY TypeInit, SlotsInit DEF BridgeInit
<1>2. /\ run = "absent" /\ journal = << >> /\ edges = {} /\ Len(journal) = 0
      /\ \A t \in Tasks : node[t] = "absent"
  BY DEF BridgeInit, Init, StoreInit
<1>3. BridgeTypeOK
  <2>1. event \in [Calls -> 0..Len(journal)]
    BY <1>2 DEF BridgeInit
  <2>2. task \in [Calls -> Agent!TaskState \cup {"absent"}]
    BY DEF BridgeInit, Agent!Init
  <2> QED
    BY <1>1, <2>1, <2>2 DEF BridgeInit, BridgeTypeOK
<1>4. \A e \in Executors : future[e][remote] = "none"
  BY RemoteAssumption DEF BridgeInit, Init
<1> QED
  BY <1>1, <1>2, <1>3, <1>4, RemoteAssumption
     DEF BridgeInit, BridgeInv, Blank, FinishedIsQuiescent, Dispatched, AtWork

\* And after every step.
LEMMA BridgeInvNext ==
    ASSUME BridgeInv, [BridgeNext]_bridgeVars
    PROVE  BridgeInv'
<1>1. BridgeTypeOK' /\ Blank' /\ FinishedIsQuiescent' /\ SlotsInv' /\ edges' = {}
  BY BridgeTypeNext, GraphKept, NodeMoves
<1>2. (\A c \in Calls : Dispatched(c)') /\ (\A e \in Executors : AtWork(e)')
  BY DispatchedNext, AtWorkNext
<1>3. node'[remote] \notin {"absent", "waiting", "cancelled"} => died' \/ result' # Nobody
  <2>1. died \/ result # Nobody => died' \/ result' # Nobody
    BY ResultKept
  <2>2. ASSUME NEW c \in Calls, at[c] = "recorded"
        PROVE  died \/ result # Nobody
    BY <2>2 DEF BridgeInv, Dispatched
  <2>3. node[remote] \notin {"absent", "waiting", "cancelled"} => died \/ result # Nobody
    BY DEF BridgeInv
  <2> QED
    BY <2>1, <2>2, <2>3, NodeMoves DEF Moves
<1>4. node'[remote] = "failed" => died'
  <2>1. node[remote] = "failed" => died
    BY DEF BridgeInv
  <2>2. ASSUME NEW e \in Executors, future[e][remote] = "error", node[remote] = "running"
        PROVE  died
    BY <2>2 DEF BridgeInv, AtWork, Terminal
  <2> QED
    BY <2>1, <2>2, NodeMoves, ResultKept DEF Moves
<1> QED
  BY <1>1, <1>2, <1>3, <1>4 DEF BridgeInv

\* The invariant of bridge, remote and graph.
THEOREM BridgeInvariance == BridgeSpec => []BridgeInv
BY BridgeInvInit, BridgeInvNext, PTL DEF BridgeSpec

\* Every variable of bridge, remote and graph keeps its type.
THEOREM BridgeTypes == BridgeSpec => []BridgeTypeOK
<1>1. BridgeInv => BridgeTypeOK
  BY DEF BridgeInv
<1> QED
  BY <1>1, BridgeInvariance, PTL

\* What a call decides on the state it reads is never refused: the node it finds
\* waiting can be resumed, whoever else acted meanwhile (official.py:122-127).
THEOREM ResumptionsFit == BridgeSpec => []ResumptionFits
<1>1. BridgeInv => ResumptionFits
  <2> SUFFICES ASSUME BridgeInv, node[remote] = "waiting"
               PROVE  Admissible(Resumed)
    BY DEF ResumptionFits, Resumes
  <2>1. run = "open"
    BY RemoteAssumption
       DEF BridgeInv, BridgeTypeOK, TypeOK, StoreTypeOK, Blank, FinishedIsQuiescent, Live
  <2>2. ~HasCycle(edges \cup Resumed.connect)
    BY DEF HasCycle, BridgeInv, Resumed, Only
  <2>3. remote \in Existing /\ remote \in InState("waiting")
    BY RemoteAssumption DEF Existing, InState
  <2> QED
    BY <2>1, <2>2, <2>3 DEF Admissible, WellFormed, Resumed, Only
<1> QED
  BY <1>1, BridgeInvariance, PTL

\* A call of dispatch_waiting() that returns leaves nothing waiting, whatever
\* became of the remote task (official.py:113, 118-127).
THEOREM SubscriptionsDoResume == BridgeSpec => []SubscriptionsResume
<1>1. BridgeInv => SubscriptionsResume
  BY DEF BridgeInv, Dispatched, SubscriptionsResume
<1> QED
  BY <1>1, BridgeInvariance, PTL

\* The node fails for want of what its call has kept only where the process has
\* died since it was parked: nothing else loses what wait() returned, which is the
\* last update, if not always that of the end (official.py:82-84, 121-123, 130).
THEOREM ResultsSurvive == BridgeSpec => []ResultsSurviveButCrashes
<1>1. BridgeInv => ResultsSurviveButCrashes
  BY DEF BridgeInv, ResultsSurviveButCrashes
<1> QED
  BY <1>1, BridgeInvariance, PTL

\* A waiting node is set to work only when a task sent for it has ended and the
\* journal has the entry of it, which names that end or a state before it
\* (official.py:82-84, 118-127).
THEOREM ResumedByAnEnd == BridgeSpec => ResumedForAnEnd
<1> DEFINE ForAnEnd == \E c \in Calls :
               /\ task[c] \in Agent!Final /\ event[c] # 0
               /\ seen[c] \in Agent!Open \cup {task[c]}
<1>1. BridgeInv /\ [BridgeNext]_bridgeVars =>
          [node[remote] = "waiting" /\ node'[remote] = "pending" => ForAnEnd]_bridgeVars
  <2> SUFFICES ASSUME BridgeInv, [BridgeNext]_bridgeVars,
                      node[remote] = "waiting", node'[remote] = "pending"
               PROVE  ForAnEnd
    OBVIOUS
  <2>1. PICK c \in Calls : at[c] = "recorded"
    BY NodeMoves DEF Moves
  <2> QED
    BY <2>1 DEF BridgeInv, Dispatched, Followed
<1> QED
  BY <1>1, BridgeInvariance, PTL DEF BridgeSpec, ResumedForAnEnd

=============================================================================
