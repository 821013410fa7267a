------------------------------ MODULE LiveGraph ------------------------------
(***************************************************************************)
(* LiveGraphExecutor.run (s13code/core/live_graph/core.py) over the        *)
(* durable graph of GraphStore: one run id, any number of calls of run()   *)
(* one after the other or, when MaxActive > 1, at the same time.           *)
(*                                                                         *)
(* An element of Executors is one call of run(); its local variables are   *)
(*                                                                         *)
(*   pc[e]        where the call stands (see Location)                     *)
(*   limit[e]     max_completed, Unlimited standing for None               *)
(*   queue[e]     the events _replay_pending_planner_events still iterates *)
(*   current[e]   the event whose patch the planner is preparing           *)
(*   todo[e]      the completed futures of this batch not yet looked at    *)
(*   executed[e]  the ids appended to executed                             *)
(*   future[e]    the asyncio task of each entry of in_flight; "none" for  *)
(*                a task that has none.  The code adds a second entry for  *)
(*                a task whose first is in flight when another call's      *)
(*                resume() has made it runnable (MaxActive > 1); here the  *)
(*                second takes the place of the first                      *)
(*                                                                         *)
(* A step of the executor spans at most one transaction of the store: a    *)
(* crash can fall between two, and the store is shared between threads.    *)
(* The planner is an arbitrary choice from Patches, made while the call    *)
(* awaits planner.plan, and a worker ends whenever and however it likes.   *)
(***************************************************************************)
EXTENDS GraphStore

CONSTANTS
    Executors,     \* the calls of run(), each made at most once
    MaxWorkers,    \* max_workers
    Limits,        \* the values of max_completed callers use
    Unlimited,     \* max_completed=None
    MaxActive      \* how many calls may be under way at the same time

ASSUME WorkersAssumption == MaxWorkers \in Nat \ {0}     \* __init__ refuses less
ASSUME LimitsAssumption  == Unlimited \notin Nat /\ Limits \subseteq Nat \cup {Unlimited}
ASSUME ActiveAssumption  == MaxActive \in Nat

VARIABLES pc, limit, queue, current, todo, executed, future

execVars == <<pc, limit, queue, current, todo, executed, future>>
vars     == <<storeVars, execVars>>

Location    == {"new", "replay", "replan", "fill", "wait", "drain", "plan",
                "returned", "raised", "crashed"}
FutureState == {"none", "working", "ok", "error", "stopping", "cancelled"}
Done        == {"ok", "error", "cancelled"}
Over        == {"new", "returned", "raised", "crashed"}

\* The values of every variable of store and calls.
TypeOK ==
    /\ StoreTypeOK
    /\ pc \in [Executors -> Location]
    /\ limit \in [Executors -> Nat \cup {Unlimited}]
    /\ queue \in [Executors -> SUBSET Nat]
    /\ current \in [Executors -> Nat]
    /\ todo \in [Executors -> SUBSET Tasks]
    /\ executed \in [Executors -> SUBSET Tasks]
    /\ future \in [Executors -> [Tasks -> FutureState]]

Init ==
    /\ StoreInit
    /\ pc = [e \in Executors |-> "new"]
    /\ limit = [e \in Executors |-> Unlimited]
    /\ queue = [e \in Executors |-> {}]
    /\ current = [e \in Executors |-> 0]
    /\ todo = [e \in Executors |-> {}]
    /\ executed = [e \in Executors |-> {}]
    /\ future = [e \in Executors |-> [t \in Tasks |-> "none"]]

Active == {e \in Executors : pc[e] \notin Over}
InFlight(e) == {t \in Tasks : future[e][t] # "none"}

Goto(e, where) == pc' = [pc EXCEPT ![e] = where]

\* An exception leaves run(); nothing cancels what is still in in_flight.
Raise(e) == Goto(e, "raised")

-----------------------------------------------------------------------------
(* run(): start or resume, and the events whose patch was never committed. *)

\* pending_planner_events() is read once, in the same segment as this.
Begin(e, l) ==
    /\ pc[e] = "new"
    /\ Cardinality(Active) < MaxActive
    /\ limit' = [limit EXCEPT ![e] = l]
    /\ Goto(e, "replay")
    /\ UNCHANGED <<current, todo, executed, future>>

\* The runtime mints a fresh run id unless it resumes.
RunFresh(e, l) ==
    /\ Start
    /\ queue' = [queue EXCEPT ![e] = {1}]
    /\ Begin(e, l)

\* Mutant: a resumed call that replays nothing.
RunResumedWithoutReplay(e, l) ==
    /\ Resume
    /\ queue' = [queue EXCEPT ![e] = {}]
    /\ Begin(e, l)

RunResumed(e, l) ==
    /\ Resume
    /\ queue' = [queue EXCEPT ![e] = PendingPlannerEvents]
    /\ Begin(e, l)

ReplayNext(e, i) ==
    /\ pc[e] = "replay"
    /\ run # "finished" /\ IsFirst(i, queue[e])
    /\ current' = [current EXCEPT ![e] = i]
    /\ queue' = [queue EXCEPT ![e] = @ \ {i}]
    /\ Goto(e, "replan")
    /\ UNCHANGED <<storeVars, limit, todo, executed, future>>

ReplayEnds(e) ==
    /\ pc[e] = "replay"
    /\ run = "finished" \/ queue[e] = {}
    /\ Goto(e, "fill")
    /\ UNCHANGED <<storeVars, limit, queue, current, todo, executed, future>>

-----------------------------------------------------------------------------
(* _plan(): the planner has answered with p, apply_patch takes it or not.  *)

Commits(p, i) == \/ AlreadyPatched(i) /\ UNCHANGED storeVars
                 \/ ApplyPatch(p, i)
Refused(p, i) == ~AlreadyPatched(i) /\ ~Admissible(p)

Replan(e, p) ==
    /\ pc[e] = "replan"
    /\ Commits(p, current[e])
    /\ Goto(e, "replay")
    /\ UNCHANGED <<limit, queue, current, todo, executed, future>>

\* Mutant: graph cancellation that never reaches the coroutines.
StoppingNothing(e, S) == future

\* _cancel_graph_cancelled_tasks: cancel() is a no-op on a future that is done.
Stopping(e, S) ==
    [future EXCEPT ![e] =
        [t \in Tasks |-> IF t \in S /\ @[t] = "working" THEN "stopping" ELSE @[t]]]

\* Mutant: run() returns as soon as the graph is finished.
NextInBatchOrFinished(e, count) ==
    IF run' = "finished" \/ (limit[e] # Unlimited /\ count >= limit[e])
    THEN "returned" ELSE "drain"

\* The max_completed return, or the next future of the batch.
NextInBatch(e, count) ==
    IF limit[e] # Unlimited /\ count >= limit[e] THEN "returned" ELSE "drain"

Plan(e, p) ==
    /\ pc[e] = "plan"
    /\ Commits(p, current[e])
    /\ future' = Stopping(e, {t \in Tasks : node'[t] = "cancelled"})
    /\ Goto(e, NextInBatch(e, Cardinality(executed[e])))
    /\ UNCHANGED <<limit, queue, current, todo, executed>>

PatchRefused(e, p) ==
    /\ pc[e] \in {"replan", "plan"}
    /\ Refused(p, current[e])
    /\ Raise(e)
    /\ UNCHANGED <<storeVars, limit, queue, current, todo, executed, future>>

-----------------------------------------------------------------------------
(* The scheduling loop. *)

\* Mutant: the slots of cancelled coroutines are free before they have ended.
CapacityByState(e) ==
    LET free == MaxWorkers - Cardinality(InState("running"))
        left == limit[e] - Cardinality(executed[e]) - Cardinality(InState("running"))
    IN  IF limit[e] = Unlimited \/ free <= left THEN free ELSE left

Capacity(e) ==
    LET free == MaxWorkers - Cardinality(InFlight(e))
        left == limit[e] - Cardinality(executed[e]) - Cardinality(InFlight(e))
    IN  IF limit[e] = Unlimited \/ free <= left THEN free ELSE left

Launch(e) == IF run = "finished" THEN {} ELSE FirstById(ReadyTasks, Capacity(e))

\* Mutant: an idle loop that waits for work instead of returning.
FillForever(e) ==
    /\ pc[e] = "fill"
    /\ IF Launch(e) = {} THEN UNCHANGED storeVars ELSE MarkRunning(Launch(e))
    /\ future' = [future EXCEPT ![e] =
                      [t \in Tasks |-> IF t \in Launch(e) THEN "working" ELSE @[t]]]
    /\ Goto(e, "wait")
    /\ UNCHANGED <<limit, queue, current, todo, executed>>

\* Fill the free slots; with nothing in flight afterwards run() returns.
Fill(e) ==
    /\ pc[e] = "fill"
    /\ IF Launch(e) = {} THEN UNCHANGED storeVars ELSE MarkRunning(Launch(e))
    /\ future' = [future EXCEPT ![e] =
                      [t \in Tasks |-> IF t \in Launch(e) THEN "working" ELSE @[t]]]
    /\ Goto(e, IF InFlight(e) \cup Launch(e) = {} THEN "returned" ELSE "wait")
    /\ UNCHANGED <<limit, queue, current, todo, executed>>

\* asyncio.wait(FIRST_COMPLETED) returns every future that is done by then.
Wake(e) ==
    /\ pc[e] = "wait"
    /\ LET batch == {t \in Tasks : future[e][t] \in Done} IN
           batch # {} /\ todo' = [todo EXCEPT ![e] = batch]
    /\ Goto(e, "drain")
    /\ UNCHANGED <<storeVars, limit, queue, current, executed, future>>

\* sorted(done, key=id), one after the other.
Pop(e, t) ==
    /\ pc[e] = "drain" /\ IsFirst(t, todo[e])
    /\ todo' = [todo EXCEPT ![e] = @ \ {t}]
    /\ future' = [future EXCEPT ![e][t] = "none"]

\* A cancelled coroutine, or a late result of a task the graph has cancelled.
Discarded(e, t) == future[e][t] = "cancelled" \/ node[t] = "cancelled"

Discard(e, t) ==
    /\ Pop(e, t)
    /\ Discarded(e, t)
    /\ UNCHANGED <<storeVars, pc, limit, queue, current, executed>>

Record(e, t) ==
    /\ Pop(e, t)
    /\ ~Discarded(e, t)
    /\ RecordOutcome(t, future[e][t] = "ok")
    /\ executed' = [executed EXCEPT ![e] = @ \cup {t}]
    /\ current' = [current EXCEPT ![e] = Len(journal')]
    /\ Goto(e, IF run = "finished"
               THEN NextInBatch(e, Cardinality(executed[e] \cup {t})) ELSE "plan")
    /\ UNCHANGED <<limit, queue>>

OutcomeRefused(e, t) ==
    /\ Pop(e, t)
    /\ ~Discarded(e, t) /\ ~CanRecord(t)
    /\ Raise(e)
    /\ UNCHANGED <<storeVars, limit, queue, current, executed>>

\* The batch is drained; a finished run cancels every coroutine it still has.
EndBatch(e) ==
    /\ pc[e] = "drain" /\ todo[e] = {}
    /\ future' = IF run = "finished" THEN Stopping(e, Tasks) ELSE future
    /\ Goto(e, "fill")
    /\ UNCHANGED <<storeVars, limit, queue, current, todo, executed>>

-----------------------------------------------------------------------------
(* The coroutines of _execute, and the death of the process. *)

SetFuture(e, t, state) ==
    /\ future' = [future EXCEPT ![e][t] = state]
    /\ UNCHANGED <<storeVars, pc, limit, queue, current, todo, executed>>

\* A skill returns, or raises: an unknown skill is a failure as well.
WorkerEnds(e, t) ==
    future[e][t] = "working" /\ \E r \in {"ok", "error"} : SetFuture(e, t, r)

\* CancelledError reaches the skill; its clean-up may turn it into an error.
WorkerStops(e, t) ==
    future[e][t] = "stopping" /\ \E r \in {"cancelled", "error"} : SetFuture(e, t, r)

\* Whoever awaits run() is cancelled (tasks/cancel of an A2A task, a closed
\* stream): CancelledError leaves run() at an await, and its coroutines work on.
CallCancelled(e) ==
    /\ pc[e] \in {"replan", "plan", "wait"}
    /\ Raise(e)
    /\ UNCHANGED <<storeVars, limit, queue, current, todo, executed, future>>

\* Only the store survives.
Crash ==
    /\ Active # {}
    /\ pc' = [e \in Executors |-> IF e \in Active THEN "crashed" ELSE pc[e]]
    /\ future' = [e \in Executors |-> [t \in Tasks |-> "none"]]
    /\ UNCHANGED <<storeVars, limit, queue, current, todo, executed>>

-----------------------------------------------------------------------------
LoopStep(e) ==
    \/ \E i \in queue[e] : ReplayNext(e, i)
    \/ ReplayEnds(e) \/ Wake(e) \/ EndBatch(e)
    \/ \E t \in todo[e] : Discard(e, t) \/ Record(e, t) \/ OutcomeRefused(e, t)

PlannerTurn(e, p) == Replan(e, p) \/ Plan(e, p) \/ PatchRefused(e, p)

ExecutorStep(e) == Fill(e) \/ LoopStep(e) \/ \E p \in Patches : PlannerTurn(e, p)

Next ==
    \/ \E e \in Executors, l \in Limits : RunFresh(e, l) \/ RunResumed(e, l)
    \/ \E e \in Executors : ExecutorStep(e) \/ CallCancelled(e)
    \/ \E e \in Executors, t \in Tasks : WorkerEnds(e, t) \/ WorkerStops(e, t)
    \/ Crash

Spec == Init /\ [][Next]_vars

\* The event loop keeps turning and cancellation is delivered; a worker need
\* not end, callers need not call and the process need not crash.
EventLoopFairness ==
    /\ \A e \in Executors : WF_vars(ExecutorStep(e))
    /\ \A e \in Executors, t \in Tasks : WF_vars(WorkerStops(e, t))

\* Every skill the runtime registers bounds its own waiting, so workers end.
WorkerFairness == \A e \in Executors, t \in Tasks : WF_vars(WorkerEnds(e, t))

FairSpec     == Spec /\ EventLoopFairness /\ WorkerFairness
StubbornSpec == Spec /\ EventLoopFairness

-----------------------------------------------------------------------------
(* Properties that hold however many calls of run() overlap. *)

\* Whoever watches nodes and edges sees the promise of NodeLifecycle kept: a task
\* starts when its parents have succeeded, ends once whatever replay, late result
\* or second call says, and starts over only by resume() (store.py:74-81, 97-105,
\* 118-125, 157-166); dependencies stay acyclic; and a finished graph takes no more,
\* whoever still holds a planner answer from before it finished (store.py:142-143).
Nodes == INSTANCE NodeLifecycle WITH
             state <- node, needs <- edges, sealed <- run = "finished"

KeepsNodeLifecycle == Nodes!Spec

Outcomes(t) ==
    {i \in DOMAIN journal :
        journal[i].kind \in {"task_succeeded", "task_failed"} /\ journal[i].tasks = {t}}

\* Workers are at-least-once, results exactly-once: however often a task is
\* executed, the journal holds at most one outcome of it, and holds one exactly
\* when the node carries that result (store.py:118-125).
OneOutcomePerTask ==
    \A t \in Tasks :
        /\ Cardinality(Outcomes(t)) <= 1
        /\ Outcomes(t) # {} <=> node[t] \in {"succeeded", "failed"}

\* The node states one journal entry leaves behind, given those before it.
StatesAfter(s, event) ==
    CASE event.kind = "run_resumed" ->
             [t \in Tasks |-> IF s[t] = "running" THEN "pending" ELSE s[t]]
      [] event.kind = "task_started" ->
             [t \in Tasks |-> IF t \in event.tasks THEN "running" ELSE s[t]]
      [] event.kind = "task_succeeded" ->
             [t \in Tasks |-> IF t \in event.tasks THEN "succeeded" ELSE s[t]]
      [] event.kind = "task_failed" ->
             [t \in Tasks |-> IF t \in event.tasks THEN "failed" ELSE s[t]]
      [] event.kind = "graph_patched" ->
             LET p == patches[event.trigger] IN
             [t \in Tasks |-> IF t \in event.tasks THEN "cancelled"
                              ELSE IF t \in p.wait THEN "waiting"
                              ELSE IF t \in p.add \cup p.resume THEN "pending"
                              ELSE s[t]]
      [] OTHER -> s

\* "Stable ordering makes the journal replayable" (core.py:137-138): the
\* journal alone, event by event, gives the materialised states of the nodes.
JournalTellsState ==
    LET replayed[k \in 0..Len(journal)] ==
            IF k = 0 THEN [t \in Tasks |-> "absent"]
            ELSE StatesAfter(replayed[k - 1], journal[k])
    IN  replayed[Len(journal)] = node

-----------------------------------------------------------------------------
(* Properties of calls of run() that do not overlap (MaxActive = 1). *)

\* A task recorded as running is being run, by the call under way: resume()
\* and the crash lose none and strand none (store.py:74-81, core.py:100-102).
RunningIsOwned ==
    \A e \in Active, t \in Tasks :
        node[t] = "running" => /\ pc[e] \in {"fill", "wait", "drain", "plan"}
                               /\ future[e][t] \in {"working", "ok", "error"}

\* Once the call is back at its loop or asleep, no coroutine works on for a task
\* the graph has cancelled (core.py:157-159, 167-168, 180-195).
CancellationReachesWorkers ==
    \A e \in Active, t \in Tasks :
        pc[e] \in {"fill", "wait"} /\ future[e][t] = "working" => node[t] = "running"

\* An outcome is planned before the next is recorded, so a crash leaves at most
\* one planner decision to replay (core.py:109-112, 155-158).
OneUnplannedOutcome == Cardinality(PendingPlannerEvents) <= 1

\* "The optional test stop never leaves an unjournalled coroutine behind"
\* (core.py:162-165); nor does any other way of returning.
ReturnsLeaveNothingBehind ==
    \A e \in Executors : pc[e] = "returned" => InFlight(e) = {}

\* Bounded parallel work (core.py:1), in one call, with the slots of cancelled
\* coroutines taken until they have ended; and never past max_completed.
SlotsRespected ==
    \A e \in Active :
        /\ Cardinality(InFlight(e)) <= MaxWorkers
        /\ limit[e] # Unlimited =>
               Cardinality(executed[e]) + Cardinality(InFlight(e)) <= limit[e]

\* "Run until finished, externally waiting, or the optional test stop" (core.py:98):
\* a call without that stop returns from an open run only when no outcome is left
\* to plan, nothing runs and nothing is ready; and tasks it leaves pending need one
\* that waits for an event, or one that has failed or was cancelled.
StopsForACause ==
    [][\A e \in Executors :
           pc[e] = "fill" /\ pc'[e] = "returned" /\ limit[e] = Unlimited /\ run = "open" =>
               /\ PendingPlannerEvents = {} /\ InState("running") = {} /\ ReadyTasks = {}
               /\ InState("pending") # {} =>
                      InState("waiting") \cup InState("failed") \cup InState("cancelled") # {}]_vars

-----------------------------------------------------------------------------
(* What the documentation says and overlapping or aborted calls break. *)

\* "bounded parallel work" (core.py:1): no more than max_workers coroutines at
\* work for a run that one caller at a time drives.
BoundedParallelWork ==
    Cardinality({c \in Executors \X Tasks : future[c[1]][c[2]] = "working"}) <= MaxWorkers

-----------------------------------------------------------------------------
(* Liveness. *)

\* Every call of run() ends, whatever the planner answers and the workers do.
RunReturns == \A e \in Executors : pc[e] \notin Over ~> pc[e] \in Over

\* A finished run releases its caller even though a worker would never end.
FinishReleases ==
    \A e \in Executors : run = "finished" /\ pc[e] \notin Over ~> pc[e] \in Over

=============================================================================
