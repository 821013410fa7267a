------------------------------ MODULE A2ABridge ------------------------------
(***************************************************************************)
(* A graph with a node whose work is done by a remote A2A agent:           *)
(* A2AGraphBridge (s13code/core/a2a_adapter/official.py) between the       *)
(* executors of LiveGraph and a server that keeps TaskLifecycle, used as   *)
(* core/a2a_adapter/tests/test_hardening.py uses it.  The first call of    *)
(* run() parks the node; dispatch_waiting() has the remote task done and   *)
(* resumes the node; a later call of run() joins the result; and meanwhile *)
(* somebody may cancel node and remote task.                               *)
(*                                                                         *)
(* An element of Calls is one call of dispatch_waiting() and also the task *)
(* it makes the remote do: nothing keeps a node from being dispatched      *)
(* twice.  Bridge and executors share a process, the remote has its own.   *)
(***************************************************************************)
EXTENDS LiveGraph

CONSTANTS
    remote,   \* the node
    Calls,    \* the calls of dispatch_waiting()
    Nobody    \* no call

ASSUME RemoteAssumption == remote \in Tasks
ASSUME CallsAssumption  == Nobody \notin Calls

VARIABLES
    at,         \* where each call stands; "lost" when its connection failed or its process died
    task,       \* external: the state of the remote task of each call
    seen,       \* the state in the last update sent to each call; its journal entry names it
    event,      \* the journal entry in which each call has recorded the end of its task
    remoteId,   \* remote_ids: the call whose task is known as the node's
    result,     \* results: the call whose last update is kept as the node's result
    canceller,  \* where the one who cancels stands
    died        \* the process has died with calls under way or results in memory

remoteVars == <<at, task, seen, event, remoteId, result, canceller, died>>
bridgeVars == <<vars, remoteVars>>

Agent == INSTANCE TaskLifecycle WITH Ids <- Calls, state <- task

\* The values of every variable of bridge, remote and graph.
BridgeTypeOK ==
    /\ TypeOK
    /\ at \in [Calls -> {"new", "starting", "subscribed", "yielding", "recorded", "over", "lost"}]
    /\ task \in [Calls -> Agent!TaskState \cup {"absent"}]
    /\ seen \in [Calls -> Agent!TaskState \cup {"none"}]
    /\ event \in [Calls -> 0..Len(journal)]
    /\ {remoteId, result} \subseteq Calls \cup {Nobody}
    /\ canceller \in {"idle", "decided", "cancelled", "telling", "over"} /\ died \in BOOLEAN

BridgeInit ==
    /\ Init /\ Agent!Init
    /\ at = [c \in Calls |-> "new"] /\ event = [c \in Calls |-> 0]
    /\ seen = [c \in Calls |-> "none"]
    /\ remoteId = Nobody /\ result = Nobody
    /\ canceller = "idle" /\ died = FALSE

Go(c, where) == at' = [at EXCEPT ![c] = where]

-----------------------------------------------------------------------------
(* dispatch_waiting(). *)

Dispatch(c) ==
    /\ at[c] = "new" /\ node[remote] = "waiting"
    /\ Go(c, "starting")
    /\ UNCHANGED <<vars, task, seen, event, remoteId, result, canceller, died>>

\* The remote accepts the task and ends it in its own time; when it begins, no
\* one here takes notice.
RemoteAccepts(c) ==
    /\ at[c] = "starting" /\ Agent!Submit(c)
    /\ UNCHANGED <<vars, at, seen, event, remoteId, result, canceller, died>>

RemoteEnds(c) ==
    /\ Agent!End(c)
    /\ UNCHANGED <<vars, at, seen, event, remoteId, result, canceller, died>>

\* start() answers with the task, which may have ended already.
Started(c) ==
    /\ at[c] = "starting" /\ task[c] # "absent"
    /\ Go(c, "subscribed") /\ remoteId' = c
    /\ UNCHANGED <<vars, task, seen, event, result, canceller, died>>

\* Mutant: any status update ends the subscription.
SubscriptionEndsAtOnce(c) == seen[c] # "none"

SubscriptionEnds(c) == task[c] \in Agent!Final

\* SubscribeToTask sends the task as it is, and looks at it again only when the
\* update has been taken: a task that ends in between is not sent once more.
Yield(c) ==
    /\ at[c] = "subscribed"
    /\ Go(c, "yielding") /\ seen' = [seen EXCEPT ![c] = task[c]]
    /\ UNCHANGED <<vars, task, event, remoteId, result, canceller, died>>

SleepOn(c) ==
    /\ at[c] = "yielding" /\ ~SubscriptionEnds(c)
    /\ Go(c, "subscribed")
    /\ UNCHANGED <<vars, task, seen, event, remoteId, result, canceller, died>>

\* Mutant: the result is kept by whoever reads the event, not here.
KeepsNoResult(c) == result

KeepsResult(c) == c

\* wait() returns the last update, which need not be that of the end; it is
\* journalled before anything is done about it.
Completed(c) ==
    /\ at[c] = "yielding" /\ SubscriptionEnds(c)
    /\ result' = KeepsResult(c)
    /\ RecordExternalEvent(remote)
    /\ event' = [event EXCEPT ![c] = Len(journal')]
    /\ Go(c, "recorded")
    /\ UNCHANGED <<execVars, task, seen, remoteId, canceller, died>>

Only    == [add |-> {}, connect |-> {}, cancel |-> {}, wait |-> {}, resume |-> {}, finish |-> FALSE]
Resumed == [Only EXCEPT !.resume = {remote}]

\* Mutants: the state of the node is not read again; failures do not count.
ResumesAlways(c)    == TRUE
ResumesOnSuccess(c) == node[remote] = "waiting" /\ seen[c] = "completed"

Resumes(c) == node[remote] = "waiting"

ResumeNode(c) ==
    /\ at[c] = "recorded"
    /\ IF Resumes(c) THEN ApplyPatch(Resumed, event[c]) ELSE UNCHANGED storeVars
    /\ Go(c, "over")
    /\ UNCHANGED <<execVars, task, seen, event, remoteId, result, canceller, died>>

\* The connection breaks, or whoever awaits the call is cancelled.
Lost(c) ==
    /\ at[c] \in {"starting", "subscribed", "yielding"}
    /\ Go(c, "lost") /\ seen' = [seen EXCEPT ![c] = "none"]
    /\ UNCHANGED <<vars, task, event, remoteId, result, canceller, died>>

-----------------------------------------------------------------------------
(* Somebody records a decision, cancels the node and finishes the run, and *)
(* tells the remote: cancel_node().                                        *)

Decide ==
    /\ canceller = "idle" /\ RecordExternalEvent(remote) /\ canceller' = "decided"
    /\ UNCHANGED <<execVars, at, task, seen, event, remoteId, result, died>>

CancelAndFinish == [Only EXCEPT !.cancel = {remote}, !.finish = TRUE]

\* Of the events only this decision and the ends of calls are external.
Decision ==
    {i \in DOMAIN journal : journal[i].kind = "external" /\ \A c \in Calls : event[c] # i}

CancelNode ==
    /\ canceller = "decided"
    /\ \E i \in Decision :
        IF Admissible(CancelAndFinish)
        THEN ApplyPatch(CancelAndFinish, i) /\ canceller' = "cancelled"
        ELSE UNCHANGED storeVars /\ canceller' = "over"
    /\ UNCHANGED <<execVars, at, task, seen, event, remoteId, result, died>>

\* A KeyError while the bridge does not know the remote task yet.
Tell ==
    /\ canceller = "cancelled"
    /\ canceller' = IF remoteId = Nobody THEN "over" ELSE "telling"
    /\ UNCHANGED <<vars, at, task, seen, event, remoteId, result, died>>

\* CancelTask leaves a task that has ended as it is.
Told ==
    /\ canceller = "telling" /\ canceller' = "over"
    /\ task' = [task EXCEPT ![remoteId] = IF @ \in Agent!Open THEN "canceled" ELSE @]
    /\ RecordExternalEvent(remote)
    /\ UNCHANGED <<execVars, at, seen, event, remoteId, result, died>>

-----------------------------------------------------------------------------
(* The executors: the planner of the test, and result_skill(). *)

Parked == [Only EXCEPT !.add = {remote}, !.wait = {remote}]
Joined == [Only EXCEPT !.finish = TRUE]

JoinProposal(e) == IF journal[current[e]].kind = "run_started" THEN Parked ELSE Joined

\* result_skill() finds what dispatch_waiting() has kept, or raises.
ResultSkill(e) ==
    WorkerEnds(e, remote) /\ (future'[e][remote] = "ok" <=> result # Nobody)

GraphStep(e) ==
    /\ \/ \E l \in Limits : RunFresh(e, l) \/ RunResumed(e, l)
       \/ Fill(e) \/ LoopStep(e) \/ PlannerTurn(e, JoinProposal(e))
       \/ ResultSkill(e) \/ WorkerStops(e, remote)
    /\ UNCHANGED remoteVars

\* Only the store survives, and the remote.
ProcessDies ==
    /\ ~died   \* bound: once
    /\ Crash \/ (Active = {} /\ UNCHANGED vars)
    /\ at' = [c \in Calls |-> IF at[c] = "new" THEN "new" ELSE "lost"]
    /\ remoteId' = Nobody /\ result' = Nobody /\ died' = TRUE
    /\ canceller' = IF canceller = "idle" THEN "idle" ELSE "over"
    /\ seen' = [c \in Calls |-> "none"]
    /\ UNCHANGED <<task, event>>

BridgeStep(c) == Started(c) \/ Yield(c) \/ SleepOn(c) \/ Completed(c) \/ ResumeNode(c)

BridgeNext ==
    \/ \E c \in Calls : Dispatch(c) \/ BridgeStep(c) \/ RemoteAccepts(c) \/ RemoteEnds(c) \/ Lost(c)
    \/ Decide \/ CancelNode \/ Tell \/ Told
    \/ \E e \in Executors : GraphStep(e)
    \/ ProcessDies

BridgeSpec == BridgeInit /\ [][BridgeNext]_bridgeVars

-----------------------------------------------------------------------------
\* A waiting node is set to work only when a task that was sent for it has ended
\* and the journal has the entry of it, which names that end, or, where the task
\* ended behind the last update, a state before it (official.py:82-84, 118-127).
ResumedForAnEnd ==
    [][node[remote] = "waiting" /\ node'[remote] = "pending" =>
           \E c \in Calls :
               /\ task[c] \in Agent!Final /\ event[c] # 0
               /\ seen[c] \in Agent!Open \cup {task[c]}]_bridgeVars

\* The node finds what its call has kept, and fails for want of it only where the
\* process has died since it was parked (official.py:121-123, 130); that what was
\* kept is the end of the task, artifacts and all, is not said.
ResultsSurviveButCrashes == node[remote] = "failed" => died

\* What a call decides on the state it reads is never refused, whoever cancelled
\* the node, finished the run or dispatched it too while it awaited the remote.
ResumptionFits ==
    \A c \in Calls : at[c] = "recorded" /\ Resumes(c) => Admissible(Resumed)

\* "remote subscriptions resume deliberately waiting nodes" (official.py:113):
\* whatever became of the remote task, a call that returns leaves nothing waiting.
SubscriptionsResume == \A c \in Calls : at[c] = "over" => node[remote] # "waiting"

=============================================================================
