# A TLA+ model of S13Code

S13Code runs a user's request as a *live task graph*: a planner looks at each
outcome and patches the graph, a scheduler runs whatever has become ready, and
everything is journalled in SQLite so that a run can be resumed after a crash.
Around it are a scoped memory of facts and documents, a chunker that cuts the
documents, and an Agent2Agent (A2A) server and client side. This directory holds
TLA+ modules of the parts whose correctness depends on order, failure and
concurrency, TLC runs that check them on small instances, and TLAPS proofs of
the main safety results for every instance. Paths below are relative to
`src/s13code/`.

## The system

| Component | State it keeps | Operations | Interacts by |
|---|---|---|---|
| Graph store, `core/live_graph/store.py` | SQLite tables runs, nodes, edges, events, patches | start, resume, ready, mark_running, record_outcome, pending_planner_events, apply_patch, record_external_event | one transaction per mutator; called by executor, runtime, bridge |
| Executor, `core/live_graph/core.py` | per call of `run()`: in_flight, executed, the current batch | run, _execute, _plan, _replay_pending_planner_events, cancellation | awaits planner and workers; many calls may share one store |
| Runtime and its planner, `runtime.py` | the stored request context | run, plan, one function per skill | builds planner and skills, calls the executor |
| LLM planner, `planner.py` | last_selection | plan | awaits a model, falls back to the runtime's planner |
| Memory, `core/memory/store.py`, `vector_index.py` | records, documents, one SQLite connection; a FAISS index and its ids, in memory and in two files | write, ingest_document, recall, _ensure_vector_index, persist | called by skills and routes in the same process; asks a local embedder |
| Chunking, `core/memory/chunking.py` | none; a cursor and the chunks while it runs | semantic_chunks, _structural_end | called by index_document; asks a topic segmenter (a language model) |
| A2A task server, `core/a2a_adapter/server.py` | task rows, push ledger; jobs in memory | send, stream_updates, get, cancel, start, close, _notify | HTTP and gRPC requests; awaits `S13Runtime.run`; posts callbacks |
| Official gRPC service, `core/a2a_adapter/official.py` | push configurations | the RPCs | calls the task server |
| Graph bridge, `core/a2a_adapter/official.py` | remote ids and results, in memory | dispatch_waiting, result_skill, cancel_node | subscribes to a remote task, patches the graph through the store |
| Client, trust, schema, tools, gateway, routes, cli | none | stateless | input and output |

What is hard here, and what correctness means for each part:

- **Store.** A patch is validated against one state and applied in the same
  transaction, but it was *composed* from an older snapshot. Outcomes are
  recorded exactly once although workers are at-least-once; finishing is a
  durable boundary; the journal can be replayed.
- **Executor.** Coroutines end in any order, several in one turn, some after
  the graph has cancelled them; the process may die between recording an outcome
  and planning it; `run()` may be left by an exception; `POST
  /runs/{id}/resume` may start a second call beside the first. Tasks must not be
  lost, stranded or left working, the worker limit must hold, `run()` must end.
- **Planner of the runtime.** It sees one outcome at a time and must propose
  each task once, the answer last, and always a way on.
- **A2A server.** Requests, jobs, cancellation and callback posts interleave and
  the process restarts: an end is final, nothing open is forgotten, every end is
  reported.
- **Bridge.** A node waits for a remote task; the subscription, a cancellation, a
  second dispatch, a resume and a crash meet at it. It must be resumed after an
  end and for nothing else, by every subscription that ends, with what the
  subscription brought.
- **Memory.** The embedder may fail between two statements of a write, and a
  failing write leaves its transaction open for the next caller to commit: no
  half of a document and no half of a correction may become visible or durable.
  The index is a cache in memory and in two files, which must stay true to the
  records over crashes and changes of model.
- **Chunking.** Three rules of structure and a segmenter that may answer
  anything, a place inside a word too, move the cursor: nothing may be lost or
  repeated, the loop must end, the budget must hold, tables should stay whole.

## The modules

| Module | Models | Built on |
|---|---|---|
| `NodeLifecycle` | abstract: what a live graph promises of its nodes and edges | |
| `GraphStore` | the tables and every mutator of the graph store | |
| `LiveGraph` | any number of calls of `LiveGraphExecutor.run` on one run id | `GraphStore`; refines `NodeLifecycle` |
| `RunPlanner` | `S13Runtime.run` with its DeterministicPlanner, all nine modes | `LiveGraph` |
| `TaskLifecycle` | abstract: what the A2A adapter promises of a task | |
| `A2ATasks` | the A2A task server | refines `TaskLifecycle` |
| `A2ABridge` | the graph bridge between a graph and a remote agent | composes `LiveGraph` and `TaskLifecycle` |
| `DocumentVersions` | abstract: what the memory promises of an indexed source | |
| `MemoryStore` | the memory, its transactions and its vector index | refines `DocumentVersions` |
| `SemanticChunks` | the boundary loop of `semantic_chunks` | |
| `MCLiveGraph`, `MCRunPlanner`, `MCA2ATasks`, `MCA2ABridge`, `MCMemoryStore`, `MCSemanticChunks` | instances for TLC | the modules they are named after |
| `GraphStoreProofs`, `LiveGraphProofs`, `CallerProofs` | theorems about the store, about any calls of `run()`, and about calls that follow one another | one another, in this order |
| `RunPlannerProofs`, `BridgeProofs` | theorems about requests and about the bridge | `CallerProofs` |
| `A2AProofs`, `MemoryProofs`, `SemanticChunksProofs` | theorems | the modules they are named after |

**GraphStore.** `run`, `node`, `edges`, `patches` are the tables, `journal` the
events with one entry per transaction. Task ids are numbers because the code
orders by id. Each operator is one mutator: `ApplyPatch` holds the whole of
`apply_patch`, from the trigger that was already answered through the
validation (`Admissible`) to the writes in their order (`Written`, where the
last UPDATE wins) and the sweep of `finish` (`Leftovers`). Results, inputs,
skills and reasons are left out. The planner's patch list is the constant
`Patches`.

**LiveGraph.** `pc[e]` is the await or the transaction boundary a call stands
at: `replay`/`replan` for the recovery loop, `fill`, `wait`, `drain` and `plan`
for the scheduling loop. One action spans at most one transaction, since the
process can die between two. `future[e][t]` is the asyncio task of an in_flight
entry: `working`, `stopping` (cancel() was called), or done. `Plan` and
`Replan` commit what the planner answered *at the time it answers*, from an
arbitrary choice: every stale proposal is among them. `CallCancelled` is the
CancelledError of an awaiting caller, `Crash` the death of the process.
`KeepsNodeLifecycle` maps `node`, `edges` and `run = "finished"` to `NodeLifecycle`,
in which a task starts only when what it needs has succeeded, ends once, starts
over only after an interruption, and no dependency is taken back or closes a
circle. One thing is left out: when calls overlap, a resume may requeue a
task whose coroutine a call still has in flight, and that call then puts a
second asyncio task beside the first; here the second takes its place.

**RunPlanner.** The patches are computed from the graph (`PatchFor` follows the
rules of `plan()` in their order), so nothing is arbitrary but the outcomes of
the skills, the length of a list of like tasks (`found`, 0 to 2: the cities or
urls the prompt names, or the files or pages a discovery finds) and the prompt,
which is its mode and whether it asks to remember something. A comparison may
name no city ("population of ,", `runtime.py:65`): then nothing is planned for
it. The deterministic planner never gives up the loop, so its snapshot is current
when its patch is applied. `blind` records that the answer worker, whose first
segment runs in the turn it is launched, found the row of
`remember` without a result.

**A2ATasks.** `state`, `kind`, `hook`, `ledger` are the database, `request`,
`job`, `push` the coroutines. A Task object is saved in every segment that
changes it, so memory and row are one variable. `Post`/`Answered` separate the
arrival of a callback from its answer. `known` and `last` are what clients and
callback endpoint have learned; only a task whose id is known can be cancelled,
which is why a synchronous message cannot be. `Abandon` is a dropped stream or
gRPC call, `DropCancel` a gRPC `CancelTask` whose client gives up while the end is
being posted: no handler catches its CancelledError, and the end is neither
delivered nor tried again (`dropped`). `KeepsLifecycle` is `TaskLifecycle` with a
streamed task mapped to an absent one: for streamed tasks the promise fails (run `overwritten`).

**A2ABridge.** The executors are those of `LiveGraph`, with the planner and the
skill of the repository's own use of the bridge (`tests/test_hardening.py`): park
one node, join its result. The remote is an instance of `TaskLifecycle`, external
to the code. A call of `dispatch_waiting` is followed from await to await: the
read of the waiting node, the start, the subscription, and the patch that resumes
the node after reading its state again. The subscription sends the task (`Yield`),
is suspended there, and only then looks at it again (`SleepOn`, or the end): a task
that ends in between is not sent once more, so the last update (`seen`), which
`Completed` keeps as the result and journals in one segment, may be of a task that
was still working and has no artifacts. The bridge marks no node as dispatched,
so two calls may serve one node. Somebody who cancels the node, finishes the run
and tells the remote takes one step per transaction or await.

**MemoryStore.** `db` is what the one connection sees, `disk` what is committed;
they differ while a transaction is open, and a crash sets `db` back to `disk`. A
call is one step up to the commit, because the calls are synchronous and share
the connection; failures of the embedder are the second disjunct of each step.
A `Write` that fails leaves its rows in the open transaction, an `Ingest` that
fails rolls back, and with it whatever was open before. `Ensure` and `SaveIds`
are the rebuild of the index and its two files with a crash between them,
`Search` the query and the lazy re-embedding, row by row, of what another model
embedded; a recall may be of facts or of chunks only. `Open` may start the process
with another model. `_document_id` hashes the uri and `str(value or "")` of each
level of the scope, so scopes that differ in None and "" share their ids: `Rendered`
says which. Everything said of documents is said of what such an id stands for,
`KeepsVersions` included, which maps the committed tables to `DocumentVersions`, in
which a source changes only by a whole replacement.

**SemanticChunks.** A text is a sequence of pieces, each a word or a part of one,
known by what comes before it: a piece that begins a line as a heading mark, a
fence, a table row below another line or below a blank one, or as other text; a
piece that begins a word within its line; and one that goes on with a word.
`IsStructuralEnd` has the rules of `_structural_end` in their order: the last
heading of the block, an unclosed fence, the table the budget ends in, including
what `rfind() = -1` does to the walk back over a table. `WholeBlock` and
`SplitBlock` are the two ends of a turn; a segmenter's answer begins at any piece
but the block's first, inside a word too, as `endswith` and `rfind` ask for no
boundary (lines 216-219), and what begins there is read as a line. The guard
`block_end <= pending_start`
(line 191) can never be true, `_structural_end` returning only cuts past the
start; `BlockEnd` keeps it as the code has it.

## What the runs check

| Run | Question | Expectation |
|---|---|---|
| `sequential` | calls of `run()` one after the other, through crashes, exceptions, cancelled callers and test stops: `RunningIsOwned`, `CancellationReachesWorkers`, `OneUnplannedOutcome`, `ReturnsLeaveNothingBehind`, `SlotsRespected`; a call without a test stop returns from an open run only when nothing is left to plan, running or ready, and what it leaves pending hangs on a task that waits, failed or was cancelled (`StopsForACause`); and a finished run returns although no worker ends of its own accord (`FinishReleases`) | pass |
| `overlapping` | what the store guarantees when two calls overlap: `OneOutcomePerTask`, `JournalTellsState`, `FinishedIsQuiescent`; nodes and edges implement `NodeLifecycle` (`KeepsNodeLifecycle`); and both calls return if workers end (`RunReturns`) | pass |
| `orphans` | bounded parallel work of a run that one caller at a time drives | violated |
| `requests` | for all 18 kinds of prompt: patches are never refused (`NeverRefused`), the answer comes after its evidence (`EvidenceBeforeAnswer`), success alone stalls no run but a comparison of nothing and a birthday nobody asked to remember (`StallsNeedAFailure`), and a fact to remember is swept away only by an answer that ran too early (`FactLostOnlyToHaste`) | pass |
| `stalls` | run() stops only when finished or waiting | violated |
| `inbox` | A2A tasks of every kind: `OpenTasksAreOwned`, `DeliveredIsNotResent`, `EndIsReported`, `OutcomeIsNotReplaced`; tasks that are not streamed implement `TaskLifecycle` (`KeepsLifecycle`); every task ends, over restarts (`TasksEnd`) | pass |
| `overwritten` | a canceled task stays canceled | violated |
| `bridge` | a waiting node is resumed only after its task has ended, in the name of that end or of a state before it (`ResumedForAnEnd`), by every subscription that ends (`SubscriptionsResume`), with a patch that still fits (`ResumptionFits`), and what its call has kept is lost in a crash only (`ResultsSurviveButCrashes`) | pass |
| `memory` | `DocumentsWhole` and `OneSuccessor`, in what is read and in what is committed; `IndexIsOfIds`; and the committed documents implement `DocumentVersions` (`KeepsVersions`) | pass |
| `embedder` | a query is compared with vectors of its own model only | violated |
| `chunks` | `NothingLostOrRepeated`, `TurnsAdvance`, `WithinBudget`, `TextBeforeTableProtectsIt`, and no deadlock: the loop ends at the end of the text | pass |
| `tables` | a table the budget has room for is not cut | violated |

### Bounds

- `LiveGraph`: three tasks, two of them a frontier of which one may be decided
  away and one expanded from, two calls, two workers. The patches cover every
  field of a GraphPatch (add, connect, cancel, wait, resume, finish) and, as
  they may be proposed at any time, repeated ids, unknown ids, dead nodes and
  finished runs. Two calls suffice for a crash and a resume, or for an overlap;
  `Limits` tests `max_completed` below the number of tasks. The state space is
  finite because every task ends once and every call begins once.
- `RunPlanner`: sixteen task ids, lists of up to two (`Finds`), two workers, two
  calls, 1.3 million states; `stalls` compares two. With two
  members a list has a first to land and a last, one that succeeds and one that
  fails; the planner's rules quantify over lists and never count.
- `A2ATasks`: one task of any kind with three attempts and two crashes.
  `MaxCrashes` is the only counter that needed a bound. Two attempts make a
  retry, the third a retry that is not the last. Tasks meet only in the process
  they share; the theorems settle every number of them.
- `A2ABridge`: one node, two calls of `dispatch_waiting`, two calls of `run()`,
  one canceller, and a process that dies once, at any point (5.9 million
  states). Two dispatches of one node are the only way two subscriptions meet;
  nodes share nothing but the transactions of the store.
- `MemoryStore`: a project, a user in it and a user named "" in it, who both read
  the project's records and the last of whom shares its document ids, one uri
  indexed in all three, texts of one and of two chunks, two models whose vectors
  differ in length, four record ids and one crash (3.2 million states). Four ids
  hold two versions of a document beside a fact and its correction. `embedder`
  uses two models of equal length, where faiss does not object.
- `SemanticChunks`: every well-formed text of up to six pieces, with and without
  a final newline, a budget of three and a floor of two words, so that a
  text has up to six blocks, a block may be split or not, and a word may be cut
  into several (2.3 million states); `tables` needs only four pieces within a
  budget of four words.

### Fairness

`EventLoopFairness`: the loop of each call keeps turning and a cancelled
coroutine gets its CancelledError; asyncio schedules ready callbacks in order.
`WorkerFairness`: workers end; every registered skill calls only HTTP clients
with timeouts or local code. `StubbornSpec` leaves that out. Nobody is obliged
to call `run()`, to cancel or to crash. `A2ATasks!FairSpec` adds that a dead
server is started again; `MaxCrashes` keeps it from dying for ever.
The runs of planner, bridge, memory and chunks check safety only and assume no
fairness. That the chunking loop ends is safety here: every turn uses up some of
the text (`TurnsAdvance`) and no turn is stuck (deadlock is checked in `chunks`, where a
finished text stutters). Elsewhere deadlock is not checked: a run that has been
driven to its end, a task that has ended and a store nobody calls stop.

## Where code and documentation disagree

Each of these is a run that TLC finds violated:

1. `orphans`: "bounded parallel work" (`core/live_graph/core.py:1`). When an
   exception leaves `run()` nothing cancels its coroutines: a patch the store
   refuses (line 201; an LLM planner's answer is only checked for syntax), or the
   cancellation of whoever awaits it (line 136; `tasks/cancel` reaches it
   through the A2A job). They work on beside those of the next call.
2. `stalls`: "no ready local work is either a genuinely finished run or a
   deliberately waiting graph" (`core/live_graph/core.py:132`). With one failed
   search of a comparison, `distill` waits for a failed parent for ever
   (`runtime.py:193`). The same happens to `distill` after a failed `recall` of an
   indexed file, to `validate` after a failed `distill`, to a failed fetch, to a
   birthday request without "remember", and to a comparison that names no city;
   `StallsNeedAFailure` shows that without a failure only the last two stall.
3. `overwritten`: a task cancelled while `message/stream` awaits its handler is
   set to completed by it (`core/a2a_adapter/server.py:239`).
4. `embedder`: "never compare incompatible vectors"
   (`core/memory/store.py:253-255`). The index is rebuilt only when its ids differ
   from the current records (line 121); a process started with another embedding
   model and the same records searches the vectors of the old one, and where the
   lengths differ faiss refuses every query.
5. `tables`: "avoid cutting Markdown's indivisible structures at a word budget"
   (`core/memory/chunking.py:129`). A text that ends in a table, without a final
   newline, is cut before the table although all of it is within the budget, and
   the table then row by row (line 145).

Met while modelling, and described without a run of their own:

- "Only nodes interrupted while running are returned to pending"
  (`core/live_graph/core.py:100`). The resume route (`routes.py:65`) does not
  know whether the run is live and requeues tasks at work. Outcomes stay
  exactly-once (`overlapping`); work is done twice and the slower call dies of
  GraphMutationError.
- With `S13_MAX_WORKERS=1`, or after a crash before `remember` ended, the answer
  runs first, reads the empty result of `remember`, fails (`runtime.py:252`), and
  the finish cancels `remember`. It is the exception `blind` of
  `FactLostOnlyToHaste`.
- The bridge is called a "durable graph seam"
  (`core/a2a_adapter/official.py:113`); its results and remote ids are in memory
  only, so a crash between the resumption and the join makes the node fail
  (`died` in `ResultsSurviveButCrashes`), and `cancel_node` raises KeyError
  before the remote has answered (`Tell`). The end of a remote task may not be sent
  at all (`official.py:82-84`, above); the node is then resumed with a result that
  says "working" and has no artifacts.
- A fact that is half-written may be indexed and then lost in a crash: the file of
  the index then holds a vector no record has, and `IndexIsOfIds` excepts it.
  Readers may notice. Index and ids differ in length or order, so that
  `self.ids[position]` (`vector_index.py`) may raise IndexError or give one record
  the score of another, until the ids change and the index is built again.
- A scope with None and one with "" at the same level, which the HTTP body admits,
  have the same document ids (`store.py:131-135`), and the supersession of lines
  156-157 is not filtered by scope: a new content of a uri in one takes the
  document away from the other.
- A cancelled task whose request is still retrying to announce it may post
  "working" after "canceled" (`server.py:170`), which `OutcomeIsNotReplaced` names;
  and the end of a task whose gRPC `CancelTask` was dropped may never be posted
  (`official.py:74-77`), which `EndIsReported` excepts.
- A segmenter's answer of a few characters is a suffix: the loop then takes a turn,
  and a call of a language model, for each few characters (`chunking.py:216-230`).

## What is proved

Everything below holds for every value of the constants, from the named
assumptions of the modules.

**Graph store and executors**, for every set of tasks, every planner, every
bound and any number of overlapping calls (`TasksAssumption`: ids are numbers,
finitely many; `PatchesAssumption`, `WorkersAssumption`, `LimitsAssumption`,
`ActiveAssumption`):

- `TypeCorrect`: `Spec => []TypeOK`.
- `StepIsStoreStep`: a step of the executors is a store operation or leaves
  the store alone. It reduces the following results to facts about
  `StoreNext`, proved once for whoever holds the store.
- `AlwaysQuiescent`: `Spec => []FinishedIsQuiescent`. The invariant is inductive
  with the types: in a finished run nothing is pending, so `MarkRunning` and
  `Resume` change nothing, and `ApplyPatch` is refused.
- `NodesKeepLifecycle`: `Spec => KeepsNodeLifecycle`, the refinement of
  `NodeLifecycle`. Every transaction maps to a step of it or, an external event or
  a journal entry of `start()`, to a stutter (`StoreStepOfNodes`); quiescence gives that
  a sealed graph launches and records nothing. `OutcomesAreFinal` and
  `FinishSeals` state two of its consequences directly: no outcome or
  cancellation is ever overwritten, and a finished run's nodes, edges and patches
  stay as they are.
- `NoTaskWaitsForItself`: of any set of pending tasks, one is ready or needs an
  unsuccessful task outside the set (`NoneWaitsForItself`). That the edges have no
  cycle is inductive, `apply_patch` admitting none. Without induction, the
  consequence is drawn from a smallest counterexample: the fewest tasks that
  all have a predecessor among themselves also all have a successor, which
  `_has_cycle` would have found (`PredecessorsCycle`).
- `OutcomesOnce`: `Spec => []OneOutcomePerTask`. An entry of the journal that is
  no outcome of a task leaves its outcomes alone, a patch neither gives nor
  takes a result, and an outcome is recorded of a running task only, which by
  the invariant has none.
- `JournalTells`: `Spec => []JournalTellsState`, for planners whose patches are
  `Orderly`: none names a task in two of cancel, wait and resume and leaves the
  run open. Without that it is false (`store.py:176`: the later UPDATE revives a
  task the same transaction journals as cancelled); the patches of every run are
  orderly, and so are those of the runtime's planner. The replay is a recursive
  function, about which nothing can be proved by induction here; the proof
  shows that the replay of a prefix does not depend on what follows (`OneReplay`,
  by the least position at which two replays would differ) and extends it by one
  entry.

**Calls of `run()`** (`CallerProofs`). The lemmas are about `AnyStep`, a step of
calls whose planner may answer any `Patch` at all, so that they serve every
planner: the arbitrary one of `LiveGraph`, the runtime's and the bridge's.

- `SlotsAreRespected`, `NothingLeftBehind`: `[]SlotsRespected` and
  `[]ReturnsLeaveNothingBehind`, however many calls overlap. The invariant
  `SlotsInv` counts in_flight and executed of each call against its limits and
  knows that a call stopped by `max_completed` has nothing left in flight.
- `RunningStaysInHands`: `[]RunningIsInHands`, what is left of owning the running
  tasks when calls overlap: while one is under way, every task recorded as
  running has a coroutine somewhere in the process, at work or with its outcome
  unread. It need not be in a call that will record it: the call may have raised.
- `RunningHasAnOwner`, `CancellationArrives`, `OneDecisionToReplay`:
  `[]RunningIsOwned`, `[]CancellationReachesWorkers`, `[]OneUnplannedOutcome`, under
  the hypothesis `MaxActive <= 1`. It is needed: a second call under way requeues
  what the first is running. `AloneInv` says of the one call under way that what
  no patch has answered is in its replay queue or its hands (`Unplanned`), and
  that what the rows call running is what it has at work (`Owned`).
- `CallsStopForACause`: `StopsForACause`, under the same hypothesis. With nothing
  in flight nothing runs (`Owned`) and nothing is owed (`Unplanned`); free slots and
  nothing launched mean nothing ready (`NothingToLaunch`); and then
  `NoTaskWaitsForItself` has somebody to blame for what is pending.

**The runtime's planner**, for every prompt, any number of workers and of resumed
calls (`RequestsAssumption`; `PlannerTasksAssumption`: its ids are ids of the
store). `PlannerTypes` holds however calls overlap; the others assume
`MaxActive <= 1`, which is how the runtime calls `run()` for an id it has just
made. None of the properties is inductive. Their invariant is `Ground` (types,
`SlotsInv`, `AloneInv`, quiescence) with `RunInv`:

- `Tells`: an outcome in the journal is the state of its node; `Asks`: what a
  call plans is such an outcome, of an open run.
- `Shape(S, W, X)`: the tasks X of the graph are exactly those that the
  *settled* outcomes S, of which W succeeded, call for (`Due`); the answer is
  there when they call for it (`AnswerDue`), and only with everything else settled
  (`Evidence`). Settled are the results whose event a patch has answered: the
  one that is not (`Owed`, at most one by `AloneInv`) is what the planner is about
  to see. `OutcomeSound` shows for each mode and each task that the rule of
  `plan()` for that outcome restores `Shape` (`Sound`).
- `Linked`: edges follow `Feeds`, which goes one way, so that no patch can close a
  cycle; `Heard`: an answer under way has heard of the fact, or is `blind`.

From it: `PlannerIsNeverRefused` (`[]NeverRefused`), `AnswerHasItsEvidence`
(`[]EvidenceBeforeAnswer`), `OnlyHasteLosesTheFact` (`[]FactLostOnlyToHaste`) and,
for calls without `max_completed` as the runtime makes them, `OnlyFailureStalls`
(`[]StallsNeedAFailure`): a call that returns from an open run has nothing running,
ready or unanswered (`Stuck`), so every pending task has a parent short of
success; without a failure `Feeds` leaves nothing pending, and then `Shape` would
have the answer in the graph, unless the request has nothing to compare or no
fact to remind of.

**The bridge**, for every number of calls, dispatches and tasks
(`RemoteAssumption`). A step of the bridge is a transaction to the executors and
the other way round, so the lemmas about `AnyStep` and `StoreNext` are used as
they are. `BridgeInv` says where a dispatch can stand given the row of the node, and
that what it was sent last is the end of its task or a state before it
(`Dispatched`), and that wherever the node has been resumed, what a call has kept
is at hand or the process has died (`AtWork`). From it `BridgeTypes`, `ResumptionsFit`,
`SubscriptionsDoResume` and `ResultsSurvive`; `ResumedByAnEnd` is the action
property `ResumedForAnEnd`.

**A2A server**, for every set and mix of tasks, every number of attempts and of
crashes (`KindsAssumption`, `AttemptsAssumption`, `CrashesAssumption`). None of
the properties is inductive; they rest on one invariant, `Inv`, which says of
each task where its coroutines can stand together (`Positions`: a job and a
working request never coexist, whoever reports has a terminal state, a dead
server has neither), which update each of them posts (`Posts`, `Silence`), and
more of slow tasks (`SlowTask`: an end in flight is the current state, and the
receiver's last outcome is the task's). `SameInv` settles the tasks a step does
not touch, so each action has one lemma about the one task it is for.

- `TypeCorrect`: `Spec => []TypeOK`. It needs `Posts`: an update in flight has
  attempts left, or counting the attempt would pass `push_attempts`.
- `Ownership`, `NoResend`: `[]OpenTasksAreOwned` and `[]DeliveredIsNotResent`.
- `OneOutcome`: `OutcomeIsNotReplaced`.
- `EndsAreReported`: `[]EndIsReported`. `Accounted` strengthens it from ends whose
  coroutines are gone to ends at large: delivered, attempted `push_attempts`
  times, or being posted by somebody, unless its cancellation was dropped.
- `TasksKeepLifecycle`: `Spec => KeepsLifecycle`, the refinement of
  `TaskLifecycle`: a step for a task that is not streamed maps to one of the
  lifecycle or a stutter, and a step for a streamed one to a stutter.
- `WorkRunsOut`: what `TasksEnd` owes to the code and not to fairness. The rank of
  a task adds up where its request and job stand, its state and the attempts its
  updates have left. It is a natural number, never more than
  6 * `push_attempts` + 7, falls with every step but a crash and a restart, and
  changes for one task at a time (`StepFalls`); an open task at which nothing is
  at work was abandoned. So no schedule keeps a task busy for ever: fairness is
  left with nothing but that a step which can be taken is taken.

**Memory**, for every set of scopes, uris, texts and models, any number of
records and crashes (`ReadableAssumption`, `RenderedAssumption`, `SizeAssumption`,
`ModelAssumption`, `BoundsAssumption`). `Inv` says that what the connection sees and
what is committed are each `Sound` (typed, every document whole, every correction
chained to its one successor), and that they `Agree` on documents. The second half is
needed: an open transaction is committed by whoever comes next, and it is only
because `ingest_document` rolls back what it began that nobody commits half a
document. `MemoryTypeCorrect`, `DocumentsStayWhole` and `CorrectionsAreKept`
follow from it; `VersionsKept` is the refinement `MemorySpec => KeepsVersions`, in
which every commit of an ingestion maps to `Replace` and all else stutters.
`IndexAnswersToIds` proves `IndexIsOfIds` from `IndexInv`: the vectors in memory and
in the file are each of one model; an index read back was written whole or is
empty (`InMemory`); the ids of the file, where a restart would trust them, have
their vectors (`Trusted`, of what is seen *and* of what is committed, since a
crash turns the one into the other); and an open transaction has added a record
that can be indexed, so that the ids cannot look up to date while it lasts
(`OpenTransaction`).

**Chunking**, for every text, budget and floor and whatever the segmenter
answers (`TextsAssumption`, `MaxWordsAssumption`, `FloorAssumption`): `CutWithinBudget`
shows that a structural end lies in the block, past its start, not past the
budget and not inside a word; with it `Inv`, the conjunction of types and
properties, is inductive and gives `ChunksTypeCorrect`, `NothingLost`, `LoopEnds` and `BudgetKept`.
`TablesProtected` proves `TextBeforeTableProtectsIt`: the last line that begins in the
block before a cut between two rows is a row, or the block began with one
(`RowBeforeCut`); the walk back over the rows then has a first row, which is where
the block is cut, unless the text itself begins with one (`CutsProtectTables`).

Every invariant and action property of the passing runs is a theorem. Only
model-checked are the liveness properties `FinishReleases`, `RunReturns` and
`TasksEnd` (ENABLED and fairness are outside the prover), and the five
disagreements, which are counterexamples. The prover checks no proof by
induction over data, so what `_has_cycle` and the replay compute is stated without
recursion (`HasCycle`) or proved through least positions (`OneReplay`).

## Plan

1. `LlmPlanner`: arbitrary syntactically valid patches with the fallback, and
   what a cancel and a resume of one id in one patch does (`store.py:176`).

## Not modelled

- **Data no property tells apart**: results, texts, ranking, full-text search,
  prompts, policy, the reports of `run()`, what a chunk records beside its
  extent, `prepare_markdown`, recalls that include superseded records.
- **Of modelled components**: the table of push configurations (put, get, list,
  delete of single rows that nothing reads); expiry of memories (`valid_to` is
  never set); an index file torn in the middle of being written; indented lines; a
  line of # signs alone, which takes the line below for its title; and, as said
  above, a second coroutine for one task within one call of `run()`.
- **Stateless code**: signature and schema checks, clients, generic gRPC binding,
  tools, gateway, HTTP routes, generated protobuf code, embeddings (of which
  `MemoryStore` keeps the model's name, vector length and failures).
- **The wall clock**: timeouts are nondeterministic choices.
