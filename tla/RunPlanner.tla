----------------------------- MODULE RunPlanner -----------------------------
(***************************************************************************)
(* One request through S13Runtime.run (s13code/runtime.py): the planner of *)
(* the runtime, DeterministicPlanner, drives the executors of LiveGraph.   *)
(*                                                                         *)
(* The prompt decides the mode and whether the user asked to remember      *)
(* something; it is stored with the run, so a resumed call decides the     *)
(* same.  The task ids of the planner are numbered in alphabetical order,  *)
(* the order of ORDER BY id.  A list of like tasks has at most two members *)
(* ("fetch_1", "fetch_2"), enough for one to succeed and one to fail, and  *)
(* a comparison whose prompt names no city ("population of ,") has none.   *)
(***************************************************************************)
EXTENDS LiveGraph

CONSTANTS
    Requests,   \* the [mode, explicit] pairs of the prompts under study
    Finds       \* how many cities, urls, files or pages there may be of a list

answer         == 1
distill        == 2
index_file     == 7
list_directory == 8
read_file      == 9
recall         == 10
remember       == 11
reminder       == 12
search         == 13
validate       == 16

FetchTasks  == {3, 4}      \* fetch_1, fetch_2
IndexTasks  == {5, 6}      \* index_1, index_2
SearchTasks == {14, 15}    \* search_1, search_2

PlannerTasks == {answer, distill, index_file, list_directory, read_file, recall, remember,
                 reminder, search, validate} \cup FetchTasks \cup IndexTasks \cup SearchTasks

Modes == {"memory", "read_file", "index_directory", "index_file", "birthday_reminder",
          "fetch", "search_fetch", "parallel_search", "structured_population"}
Request == [mode : Modes, explicit : BOOLEAN]

ASSUME RequestsAssumption     == Requests \subseteq Request
ASSUME FindsAssumption        == Finds \subseteq 0..2
ASSUME PlannerTasksAssumption == PlannerTasks \subseteq Tasks

VARIABLES
    request,   \* runs.context_json
    found,     \* how many urls or cities the prompt names, or files or pages are discovered
    blind      \* the answer worker has read "remember" before it had a result

plannerVars == <<vars, request, found, blind>>

\* The values of every variable of runtime and calls.
PlannerTypeOK ==
    /\ TypeOK
    /\ request \in Requests /\ found \in Finds /\ blind \in BOOLEAN
    /\ request.mode = "fetch" => found > 0

PlannerInit ==
    /\ Init
    /\ request \in Requests /\ found \in Finds /\ blind = FALSE
    /\ request.mode = "fetch" => found > 0

-----------------------------------------------------------------------------
(* The patches of DeterministicPlanner. *)

Nothing == [add |-> {}, connect |-> {}, cancel |-> {}, wait |-> {}, resume |-> {},
            finish |-> FALSE]
Finish  == [Nothing EXCEPT !.finish = TRUE]

AddAfter(new, parents) == [Nothing EXCEPT !.add = new, !.connect = parents \X new]

\* Mutant: an answer planned twice.
AnswerPatchAgain == AddAfter({answer}, InState("succeeded"))

\* answer_patch(): after whatever has succeeded by now, and only once.
AnswerPatch ==
    IF node[answer] # "absent" THEN Nothing
    ELSE AddAfter({answer}, InState("succeeded"))

\* The first so many of a list of tasks, one for each thing found.
Discovered(tasks) == FirstById(tasks, found)

\* _work_intent(): the first frontier of each mode.
Frontier ==
    CASE request.mode \in {"memory", "birthday_reminder"} -> {recall}
      [] request.mode = "read_file"       -> {read_file}
      [] request.mode = "index_directory" -> {list_directory}
      [] request.mode = "index_file"      -> {index_file}
      [] request.mode = "fetch"           -> Discovered(FetchTasks)
      [] request.mode = "search_fetch"    -> {search}
      [] OTHER                            -> Discovered(SearchTasks)

FirstPatch == AddAfter(Frontier \cup (IF request.explicit THEN {remember} ELSE {}), {})

\* Mutants: a discovery that found nothing is expanded all the same, or ends the run.
ExpandOverAny(tasks, parent) == AddAfter(Discovered(tasks), {parent})
ExpandOrFinish(tasks, parent) ==
    IF found = 0 THEN Finish ELSE AddAfter(Discovered(tasks), {parent})

\* Every hit of a search has a url to fetch (tools.py:103).
ExpandOver(tasks, parent) ==
    IF found = 0 THEN AnswerPatch ELSE AddAfter(Discovered(tasks), {parent})

\* Mutant: cancelled and running tasks alike do not hold the next step back.
LandedOrRunning(W) == W # {} /\ \A t \in W : node[t] \in Terminal \cup {"running"}

Landed(W) == W # {} /\ \A t \in W : node[t] \in Terminal

Research == Existing \cap (FetchTasks \cup SearchTasks)

\* Every search (or else every fetch) is a parent, whatever became of it.
DistillParents ==
    IF Existing \cap SearchTasks # {} THEN Existing \cap SearchTasks
    ELSE Existing \cap FetchTasks

DistillPatch(parents) ==
    IF node[distill] = "absent" THEN AddAfter({distill}, parents) ELSE AnswerPatch

\* plan() for the outcome of task t, in the order of its rules.
PatchFor(t, succeeded) ==
    CASE t = answer -> Finish
      [] t = index_file /\ succeeded -> AddAfter({recall}, {index_file})
      [] t = remember /\ succeeded /\ request.mode = "birthday_reminder" ->
             AddAfter({reminder}, {remember})
      [] t \in {reminder, read_file, validate} -> AnswerPatch
      [] t = list_directory /\ succeeded -> ExpandOver(IndexTasks, list_directory)
      [] t = search /\ succeeded -> ExpandOver(FetchTasks, search)
      [] t \in IndexTasks /\ Landed(Existing \cap IndexTasks) -> AnswerPatch
      [] t = recall /\ request.mode = "memory" -> AnswerPatch
      [] t = recall /\ request.mode = "index_file" -> DistillPatch({recall})
      [] t = distill /\ request.mode # "structured_population" -> AnswerPatch
      [] t = distill /\ request.mode = "structured_population" ->
             AddAfter({validate}, {distill})
      [] t \in FetchTasks \cup SearchTasks /\ Landed(Research) ->
             DistillPatch(DistillParents)
      [] t \in {index_file, remember, list_directory, search} /\ ~succeeded
             /\ Landed(Existing \ {answer}) -> AnswerPatch
      [] OTHER -> Nothing

\* plan(): the snapshot is taken and answered without giving up the loop.
Proposal(e) ==
    LET event == journal[current[e]] IN
    IF event.kind = "run_started" THEN FirstPatch
    ELSE PatchFor(CHOOSE t \in event.tasks : TRUE, event.kind = "task_succeeded")

-----------------------------------------------------------------------------
PlannedStep(e) == PlannerTurn(e, Proposal(e)) /\ UNCHANGED <<request, found, blind>>

\* The coroutine of answer() runs to its first await before any other of this
\* fill: it reads the result of "remember", which may still be None.
LaunchStep(e) ==
    /\ Fill(e)
    /\ blind' = IF answer \in Launch(e)
                THEN node'[remember] \in {"pending", "running"} ELSE blind
    /\ UNCHANGED <<request, found>>

OtherStep(e) == LoopStep(e) /\ UNCHANGED <<request, found, blind>>

RuntimeStep(e) == PlannedStep(e) \/ LaunchStep(e) \/ OtherStep(e)

\* None.get("fact") raises: an answer that found no result there is a failure.
SkillEnds(e, t) ==
    /\ WorkerEnds(e, t)
    /\ t = answer /\ blind => future'[e][t] = "error"
    /\ UNCHANGED <<request, found, blind>>

Requested(e) ==
    /\ \E l \in Limits : RunFresh(e, l) \/ RunResumed(e, l)
    /\ UNCHANGED <<request, found, blind>>

SkillStops(e, t) == WorkerStops(e, t) /\ UNCHANGED <<request, found, blind>>

\* The planner of the runtime never suspends: run() has no other await.
RequestCancelled(e) ==
    pc[e] = "wait" /\ CallCancelled(e) /\ UNCHANGED <<request, found, blind>>

PlannerNext ==
    \/ \E e \in Executors : Requested(e) \/ RuntimeStep(e) \/ RequestCancelled(e)
    \/ \E e \in Executors, t \in Tasks : SkillEnds(e, t) \/ SkillStops(e, t)
    \/ Crash /\ UNCHANGED <<request, found, blind>>

PlannerSpec == PlannerInit /\ [][PlannerNext]_plannerVars

-----------------------------------------------------------------------------
\* The store never refuses what the deterministic planner proposes, nor what it
\* proposes again for an event replayed after a crash (store.py:139-175).
NeverRefused ==
    \A e \in Executors :
        pc[e] \in {"replan", "plan"} => ~Refused(Proposal(e), current[e])

\* The answer is composed from evidence that has landed: once it is planned, no
\* discovery, retrieval or synthesis is still to come (runtime.py:139-213).
EvidenceBeforeAnswer ==
    node[answer] # "absent" =>
        LET aside == IF request.mode = "birthday_reminder" THEN {remember, recall}
                     ELSE {remember}
        IN  \A t \in Existing \ ({answer} \cup aside) : node[t] \in Terminal

\* Requests for which there is a way on whatever fails.
Steady ==
    \/ request.mode \in {"memory", "read_file"}
    \/ request.mode = "index_directory" /\ ~request.explicit

\* A comparison of nothing: its prompt names no city (runtime.py:63-70).
NothingToCompare == request.mode \in {"parallel_search", "structured_population"} /\ found = 0

\* run() may return an unfinished graph only where a task has failed, nothing
\* asked for the reminder's fact, or a comparison names no city, for which no
\* task is planned: otherwise success stalls no run, and nothing stalls a memory
\* question, a file read or a directory to index (runtime.py:63-70, 139-213).
StallsNeedAFailure ==
    \A e \in Executors :
        pc[e] = "returned" /\ run = "open" =>
            \/ InState("failed") # {} /\ ~Steady
            \/ request.mode = "birthday_reminder" /\ ~request.explicit
            \/ NothingToCompare

\* "No ready local work is either a genuinely finished run or a deliberately
\* waiting graph" (core.py:132-133).
StopsFinishedOrWaiting ==
    \A e \in Executors :
        pc[e] = "returned" => run = "finished" \/ InState("waiting") # {}

\* What the user asked to have remembered is given up only by an answer that was
\* started too early to hear of it ("explicit fact is durable", runtime.py:152,
\* 247-252): no other way of ending a run sweeps it away.
FactLostOnlyToHaste ==
    run = "finished" /\ request.explicit => node[remember] # "cancelled" \/ blind

=============================================================================
