--------------------------- MODULE RunPlannerProofs ---------------------------
(***************************************************************************)
(* What holds of every request the planner of the runtime may be given,    *)
(* for any number of workers and of resumed calls, as long as one call     *)
(* follows the other.  The store never refuses one of its patches, the     *)
(* answer waits for its evidence, only failures and requests that ask for  *)
(* nothing stall a run, and only haste loses the fact to remember.         *)
(***************************************************************************)
EXTENDS RunPlanner, CallerProofs

-----------------------------------------------------------------------------
(* The planner as one of the planners of CallerProofs. *)

\* The ids it uses are ids of the store.
LEMMA PlannersTasks ==
    /\ {answer, distill, index_file, list_directory, read_file, recall, remember, reminder,
        search, validate} \subseteq Tasks
    /\ FetchTasks \subseteq Tasks /\ IndexTasks \subseteq Tasks /\ SearchTasks \subseteq Tasks
BY PlannerTasksAssumption DEF PlannerTasks

\* New tasks, and edges to them, are a patch.
LEMMA AddAfterTyped ==
    ASSUME NEW N, NEW Q, N \subseteq Tasks, Q \subseteq Tasks
    PROVE  /\ AddAfter(N, Q) \in Patch
           /\ AddAfter(N, Q).add = N /\ AddAfter(N, Q).connect = Q \X N
           /\ AddAfter(N, Q).cancel = {} /\ AddAfter(N, Q).wait = {}
           /\ AddAfter(N, Q).resume = {} /\ AddAfter(N, Q).finish = FALSE
BY DEF AddAfter, Nothing, Patch

\* An empty patch and the end of the run are as well.
LEMMA PlainPatches ==
    /\ Nothing \in Patch /\ Nothing = AddAfter({}, {})
    /\ Finish \in Patch /\ Finish.add = {} /\ Finish.connect = {} /\ Finish.cancel = {}
    /\ Finish.wait = {} /\ Finish.resume = {} /\ Finish.finish = TRUE
<1>1. {} \X {} = {}
  OBVIOUS
<1>2. AddAfter({}, {}) = [Nothing EXCEPT !.add = {}, !.connect = {}]
  BY <1>1 DEF AddAfter
<1>3. Nothing \in Patch /\ Nothing = AddAfter({}, {})
  BY <1>2 DEF Nothing, Patch
<1> QED
  BY <1>3 DEF Nothing, Finish, Patch

\* Whatever the planner is asked, it answers with a patch.
LEMMA PatchForTyped ==
    ASSUME NEW t, NEW ok
    PROVE  PatchFor(t, ok) \in Patch
<1>1. AnswerPatch \in Patch
  <2>1. {answer} \subseteq Tasks /\ InState("succeeded") \subseteq Tasks
    BY PlannersTasks DEF InState
  <2>2. AddAfter({answer}, InState("succeeded")) \in Patch
    BY <2>1, AddAfterTyped
  <2> QED
    BY <2>2, PlainPatches DEF AnswerPatch
<1>2. ASSUME NEW Q \in SUBSET Tasks
      PROVE  DistillPatch(Q) \in Patch
  <2>1. {distill} \subseteq Tasks
    BY PlannersTasks
  <2>2. AddAfter({distill}, Q) \in Patch
    BY <2>1, AddAfterTyped
  <2> QED
    BY <1>1, <2>2 DEF DistillPatch
<1>3. ASSUME NEW N \in SUBSET Tasks, NEW q \in Tasks
      PROVE  ExpandOver(N, q) \in Patch
  <2>1. Discovered(N) \subseteq Tasks
    BY DEF Discovered, FirstById
  <2>2. {q} \subseteq Tasks
    OBVIOUS
  <2>3. AddAfter(Discovered(N), {q}) \in Patch
    BY <2>1, <2>2, AddAfterTyped
  <2> QED
    BY <1>1, <2>3 DEF ExpandOver
<1>4. DistillParents \subseteq Tasks /\ {recall} \subseteq Tasks
  BY PlannersTasks DEF DistillParents, Existing
<1>5. /\ AddAfter({recall}, {index_file}) \in Patch
      /\ AddAfter({reminder}, {remember}) \in Patch
      /\ AddAfter({validate}, {distill}) \in Patch
  <2>1. /\ {recall} \subseteq Tasks /\ {index_file} \subseteq Tasks /\ {reminder} \subseteq Tasks
        /\ {remember} \subseteq Tasks /\ {validate} \subseteq Tasks /\ {distill} \subseteq Tasks
    BY PlannersTasks
  <2> QED
    BY <2>1, AddAfterTyped
<1>6. /\ ExpandOver(IndexTasks, list_directory) \in Patch
      /\ ExpandOver(FetchTasks, search) \in Patch
  BY <1>3, PlannersTasks
<1>7. DistillPatch({recall}) \in Patch /\ DistillPatch(DistillParents) \in Patch
  BY <1>2, <1>4
<1> QED
  BY <1>1, <1>5, <1>6, <1>7, PlainPatches DEF PatchFor

\* Its first patch adds the frontier of the mode.
LEMMA FirstPatchTyped ==
    ASSUME request \in Request
    PROVE  /\ Frontier \cup (IF request.explicit THEN {remember} ELSE {}) \subseteq Tasks
           /\ FirstPatch \in Patch
<1> DEFINE F == Frontier \cup (IF request.explicit THEN {remember} ELSE {})
<1>1. F \subseteq Tasks
  <2>1. {recall} \subseteq Tasks /\ {read_file} \subseteq Tasks /\ {list_directory} \subseteq Tasks
        /\ {index_file} \subseteq Tasks /\ {search} \subseteq Tasks /\ {remember} \subseteq Tasks
    BY PlannersTasks
  <2>2. Frontier \subseteq Tasks
    BY <2>1, PlannersTasks DEF Frontier, Discovered, FirstById
  <2> QED
    BY <2>1, <2>2
<1>2. {} \subseteq Tasks /\ FirstPatch = AddAfter(F, {})
  BY DEF FirstPatch
<1>3. FirstPatch \in Patch
  <2> HIDE DEF F
  <2> QED
    BY <1>1, <1>2, AddAfterTyped
<1> QED
  BY <1>1, <1>3

\* Hence a step of a request is a step of calls, workers and process.
LEMMA PlannerStepIsAnyStep ==
    ASSUME request \in Request, [PlannerNext]_plannerVars
    PROVE  [AnyStep]_vars
<1>1. ASSUME NEW e \in Executors
      PROVE  Proposal(e) \in Patch
  BY PatchForTyped, FirstPatchTyped DEF Proposal
<1>2. ASSUME NEW e \in Executors, RuntimeStep(e)
      PROVE  CallStep(e)
  BY <1>1, <1>2 DEF RuntimeStep, PlannedStep, LaunchStep, OtherStep, CallStep
<1> QED
  BY <1>2 DEF PlannerNext, Requested, RequestCancelled, SkillEnds, SkillStops, AnyStep,
              plannerVars

\* The variables of the planner itself.
LEMMA RequestKept ==
    ASSUME [PlannerNext]_plannerVars
    PROVE  /\ request' = request /\ found' = found
           /\ blind \in BOOLEAN => blind' \in BOOLEAN
<1>1. ASSUME NEW e \in Executors, Requested(e) \/ RuntimeStep(e) \/ RequestCancelled(e)
      PROVE  /\ request' = request /\ found' = found
             /\ blind \in BOOLEAN => blind' \in BOOLEAN
  <2>1. CASE Requested(e)
    BY <2>1 DEF Requested
  <2>2. CASE PlannedStep(e)
    BY <2>2 DEF PlannedStep
  <2>3. CASE LaunchStep(e)
    <3>1. request' = request /\ found' = found
      BY <2>3 DEF LaunchStep
    <3>2. CASE answer \in Launch(e)
      <4>1. blind' = (node'[remember] \in {"pending", "running"})
        BY <2>3, <3>2 DEF LaunchStep
      <4> QED
        BY <3>1, <4>1
    <3>3. CASE answer \notin Launch(e)
      BY <2>3, <3>1, <3>3 DEF LaunchStep
    <3> QED
      BY <3>2, <3>3
  <2>4. CASE OtherStep(e)
    BY <2>4 DEF OtherStep
  <2>5. CASE RequestCancelled(e)
    BY <2>5 DEF RequestCancelled
  <2> QED
    BY <1>1, <2>1, <2>2, <2>3, <2>4, <2>5 DEF RuntimeStep
<1>2. ASSUME NEW e \in Executors, NEW t \in Tasks, SkillEnds(e, t) \/ SkillStops(e, t)
      PROVE  UNCHANGED <<request, found, blind>>
  <2>1. CASE SkillEnds(e, t)
    <3> HIDE DEF WorkerEnds
    <3> QED
      BY <2>1 DEF SkillEnds
  <2>2. CASE SkillStops(e, t)
    BY <2>2 DEF SkillStops
  <2> QED
    BY <1>2, <2>1, <2>2
<1> QED
  BY <1>1, <1>2 DEF PlannerNext, plannerVars

\* Every variable keeps its type in every step of a request.
THEOREM PlannerTypes == PlannerSpec => []PlannerTypeOK
<1>1. PlannerInit => PlannerTypeOK
  BY TypeInit DEF PlannerInit, PlannerTypeOK
<1>2. PlannerTypeOK /\ [PlannerNext]_plannerVars => PlannerTypeOK'
  <2> SUFFICES ASSUME PlannerTypeOK, [PlannerNext]_plannerVars
               PROVE  PlannerTypeOK'
    OBVIOUS
  <2>1. request \in Request
    BY RequestsAssumption DEF PlannerTypeOK
  <2>2. TypeOK'
    BY <2>1, PlannerStepIsAnyStep, TypeNext DEF PlannerTypeOK
  <2> QED
    BY <2>2, RequestKept DEF PlannerTypeOK
<1> QED
  BY <1>1, <1>2, PTL DEF PlannerSpec

-----------------------------------------------------------------------------
(* What CallerProofs shows of every planner, for requests that run one call *)
(* at a time: the runtime awaits run() and shares its run id with no one.   *)

Ground == PlannerTypeOK /\ Blank /\ FinishedIsQuiescent /\ SlotsInv /\ AloneInv

\* Every step of a request keeps it.
LEMMA GroundPreserved ==
    ASSUME MaxActive <= 1, Ground, [PlannerNext]_plannerVars
    PROVE  Ground' /\ [AnyStep]_vars /\ [StoreNext]_storeVars
<1>1. request \in Request /\ TypeOK /\ StoreTypeOK
  BY RequestsAssumption DEF Ground, PlannerTypeOK, TypeOK
<1>2. [AnyStep]_vars
  BY <1>1, PlannerStepIsAnyStep
<1>3. TypeOK'
  BY <1>1, <1>2, TypeNext
<1>4. PlannerTypeOK'
  BY <1>3, RequestKept DEF Ground, PlannerTypeOK
<1>5. [StoreNext]_storeVars
  BY <1>1, <1>2, StepIsStoreStep
<1>6. Blank' /\ FinishedIsQuiescent'
  BY <1>1, <1>5, BlankPreserved, QuiescencePreserved DEF Ground
<1>7. SlotsInv'
  BY <1>1, <1>2, <1>3, SlotsPreserved DEF Ground
<1>8. AloneInv'
  <2>1. Known
    BY <1>1, <1>3 DEF Known, Ground
  <2> QED
    BY <1>2, <2>1, AlonePreserved
<1> QED
  BY <1>2, <1>4, <1>5, <1>6, <1>7, <1>8 DEF Ground

\* And every request begins with it.
LEMMA GroundInit == PlannerInit => Ground
<1> SUFFICES ASSUME PlannerInit
             PROVE  Ground
  OBVIOUS
<1>1. Init /\ PlannerTypeOK
  BY TypeInit DEF PlannerInit, PlannerTypeOK
<1>2. Blank /\ FinishedIsQuiescent
  BY <1>1 DEF Init, StoreInit, Blank, FinishedIsQuiescent
<1> QED
  BY <1>1, <1>2, SlotsInit, AloneInit DEF Ground

-----------------------------------------------------------------------------
(***************************************************************************)
(* What the planner owes to the outcomes it has answered.  S is the set of *)
(* settled tasks, those whose outcome a committed patch has answered; W    *)
(* are those of them that succeeded; X are the tasks of the graph.         *)
(***************************************************************************)
First == Frontier \cup (IF request.explicit THEN {remember} ELSE {})

Pages(X) == X \cap (FetchTasks \cup SearchTasks)

Researches == request.mode \in {"fetch", "search_fetch", "parallel_search", "structured_population"}

\* The tasks short of the answer that the settled ones have called for.
Due(c, S, W, X) ==
    \/ c \in First
    \/ c = recall /\ request.mode = "index_file" /\ index_file \in W
    \/ c = distill /\ request.mode = "index_file" /\ recall \in S
    \/ c = reminder /\ request.mode = "birthday_reminder" /\ remember \in W
    \/ c \in Discovered(IndexTasks) /\ request.mode = "index_directory" /\ list_directory \in W
    \/ c \in Discovered(FetchTasks) /\ request.mode = "search_fetch" /\ search \in W
    \/ c = distill /\ Researches /\ Pages(X) # {} /\ Pages(X) \subseteq S
    \/ c = validate /\ request.mode = "structured_population" /\ distill \in S

\* What calls for the answer itself; a run that only waits owes none yet.
AnswerDue(S, W, X) ==
    \/ request.mode = "memory" /\ recall \in S
    \/ request.mode = "read_file" /\ read_file \in S
    \/ request.mode = "index_directory" /\ list_directory \in W /\ X \cap IndexTasks \subseteq S
    \/ request.mode = "index_directory" /\ ~request.explicit /\ list_directory \in S \ W
    \/ request.mode = "search_fetch" /\ search \in W /\ found = 0
    \/ request.mode \in {"index_file", "fetch", "search_fetch", "parallel_search"} /\ distill \in S
    \/ request.mode = "structured_population" /\ validate \in S
    \/ request.mode = "birthday_reminder" /\ reminder \in S

\* The one task of a mode that the answer does not wait for.
Beside == IF request.mode = "birthday_reminder" THEN recall ELSE remember

\* Exactly what is due is in the graph, and an answer only with its evidence.
Expected(S, W, X) == \A c \in Tasks \ {answer} : c \in X <=> Due(c, S, W, X)
Evidence(S, X)    == answer \in X => X \ {answer, Beside} \subseteq S

Shape(S, W, X) ==
    /\ Expected(S, W, X)
    /\ AnswerDue(S, W, X) => answer \in X
    /\ Evidence(S, X)
    /\ answer \notin S

\* Which task may be a parent of which.
Feeds(q, c) ==
    \/ c = answer /\ q # answer
    \/ c = recall /\ q = index_file
    \/ c = distill /\ q \in {recall} \cup FetchTasks \cup SearchTasks
    \/ c = reminder /\ q = remember
    \/ c \in IndexTasks /\ q = list_directory
    \/ c \in FetchTasks /\ q = search
    \/ c = validate /\ q = distill

\* The tasks with a result.
Results == {t \in Tasks : node[t] \in {"succeeded", "failed"}}
Wins    == InState("succeeded")

\* A patch that adds what is due once every result is settled, and only that.
Sound(p) ==
    /\ p.cancel = {} /\ p.wait = {} /\ p.resume = {} /\ p.finish = FALSE
    /\ p.add \subseteq Tasks /\ p.add \cap Existing = {}
    /\ \A c \in p.connect : /\ c[1] \in Existing /\ c[2] \in p.add /\ Feeds(c[1], c[2])
                            /\ c[2] = answer => node[c[1]] = "succeeded"
    /\ Shape(Results, Wins, Existing \cup p.add)

\* The outcome of t is the only one not answered yet.
Landing(t) ==
    /\ request \in Request /\ found \in 0..2
    /\ node \in [Tasks -> {"absent", "pending", "running", "succeeded", "failed"}]
    /\ t \in Results
    /\ Shape(Results \ {t}, Wins \ {t}, Existing)

-----------------------------------------------------------------------------
(* The rules of plan(), one outcome at a time. *)

\* The lists of what was discovered.
LEMMA DiscoveredTasks ==
    ASSUME found \in 0..2
    PROVE  /\ Discovered(IndexTasks) \subseteq IndexTasks
           /\ Discovered(FetchTasks) \subseteq FetchTasks
           /\ Discovered(SearchTasks) \subseteq SearchTasks
           /\ found # 0 => /\ Discovered(IndexTasks) # {} /\ Discovered(FetchTasks) # {}
                          /\ Discovered(SearchTasks) # {}
           /\ found = 0 => Discovered(IndexTasks) = {} /\ Discovered(FetchTasks) = {}
<1>1. ASSUME NEW T, NEW n \in T, T \subseteq Nat, \A m \in T : n <= m, found # 0
      PROVE  Discovered(T) # {}
  <2>1. \A u \in T : ~(u < n)
    <3>1. ASSUME NEW u \in T
          PROVE  ~(u < n)
      <4>1. u \in Nat /\ n \in Nat /\ n <= u
        BY <1>1
      <4> QED
        BY <4>1
    <3> QED
      BY <3>1
  <2>2. Cardinality({u \in T : u < n}) < found
    <3>1. {u \in T : u < n} = {}
      BY <2>1
    <3>2. Cardinality({u \in T : u < n}) = 0
      BY <3>1, FS_EmptySet
    <3> QED
      BY <1>1, <3>2
  <2> QED
    BY <1>1, <2>2 DEF Discovered, FirstById
<1>2. found # 0 => Discovered(IndexTasks) # {}
  <2>1. 5 \in IndexTasks /\ IndexTasks \subseteq Nat /\ \A m \in IndexTasks : 5 <= m
    BY DEF IndexTasks
  <2> QED
    BY <1>1, <2>1
<1>3. found # 0 => Discovered(FetchTasks) # {}
  <2>1. 3 \in FetchTasks /\ FetchTasks \subseteq Nat /\ \A m \in FetchTasks : 3 <= m
    BY DEF FetchTasks
  <2> QED
    BY <1>1, <2>1
<1>8. found # 0 => Discovered(SearchTasks) # {}
  <2>1. 14 \in SearchTasks /\ SearchTasks \subseteq Nat /\ \A m \in SearchTasks : 14 <= m
    BY DEF SearchTasks
  <2> QED
    BY <1>1, <2>1
<1>4. ASSUME NEW T, T \subseteq Nat, IsFiniteSet(T), found = 0
      PROVE  Discovered(T) = {}
  <2>1. IsFiniteSet(Discovered(T)) /\ Cardinality(Discovered(T)) <= 0
    <3>1. 0 \in Int /\ Discovered(T) = FirstById(T, 0)
      BY <1>4 DEF Discovered
    <3>2. Cardinality(FirstById(T, 0)) <= IF 0 < 0 THEN 0 ELSE 0
      BY <1>4, <3>1, FirstByIdBound
    <3>3. IsFiniteSet(FirstById(T, 0))
      BY <1>4, <3>1, FirstByIdBound
    <3> QED
      BY <3>1, <3>2, <3>3
  <2>2. Cardinality(Discovered(T)) \in Nat
    BY <2>1, FS_CardinalityType
  <2>3. Cardinality(Discovered(T)) = 0
    BY <2>1, <2>2
  <2> QED
    BY <2>1, <2>3, FS_EmptySet
<1>5. /\ IndexTasks \subseteq Nat /\ IsFiniteSet(IndexTasks)
      /\ FetchTasks \subseteq Nat /\ IsFiniteSet(FetchTasks)
  BY PlannersTasks, TasksAssumption, FS_Subset
<1>6. found = 0 => Discovered(IndexTasks) = {} /\ Discovered(FetchTasks) = {}
  BY <1>4, <1>5
<1>7. /\ Discovered(IndexTasks) \subseteq IndexTasks /\ Discovered(FetchTasks) \subseteq FetchTasks
      /\ Discovered(SearchTasks) \subseteq SearchTasks
  BY DEF Discovered, FirstById
<1> QED
  BY <1>2, <1>3, <1>6, <1>7, <1>8

\* New tasks with parents in the graph, when they are what is due.
LEMMA AddSound ==
    ASSUME NEW N, NEW Q, N \subseteq Tasks, Q \subseteq Existing, N \cap Existing = {},
           \A q \in Q, c \in N : Feeds(q, c) /\ (c = answer => node[q] = "succeeded"),
           Shape(Results, Wins, Existing \cup N)
    PROVE  Sound(AddAfter(N, Q))
<1>1. Q \subseteq Tasks
  BY DEF Existing
<1>2. /\ AddAfter(N, Q).add = N /\ AddAfter(N, Q).connect = Q \X N
      /\ AddAfter(N, Q).cancel = {} /\ AddAfter(N, Q).wait = {}
      /\ AddAfter(N, Q).resume = {} /\ AddAfter(N, Q).finish = FALSE
  BY DEF AddAfter, Nothing
<1>3. \A c \in Q \X N : c[1] \in Q /\ c[2] \in N
  OBVIOUS
<1> QED
  BY <1>2, <1>3 DEF Sound

\* Nothing new, when nothing is due.
LEMMA NothingSound ==
    ASSUME Shape(Results, Wins, Existing)
    PROVE  Sound(Nothing)
<1>1. Existing \cup {} = Existing /\ {} \subseteq Tasks
  OBVIOUS
<1>2. Sound(AddAfter({}, {}))
  BY <1>1, AddSound
<1> QED
  BY <1>2, PlainPatches

\* The answer, once everything it waits for has landed.
LEMMA AnswerSound ==
    ASSUME Expected(Results, Wins, Existing), answer \notin Results,
           Existing \ {answer, Beside} \subseteq Results
    PROVE  Sound(AnswerPatch)
<1>1. CASE answer \in Existing
  <2>1. Shape(Results, Wins, Existing)
    BY <1>1 DEF Shape, Evidence
  <2> QED
    BY <1>1, <2>1, NothingSound DEF AnswerPatch, Existing
<1>2. CASE answer \notin Existing
  <2> DEFINE X == Existing \cup {answer}
  <2>1. answer \notin FetchTasks \cup SearchTasks
    BY DEF answer, FetchTasks, SearchTasks
  <2>2. Pages(X) = Pages(Existing)
    BY <2>1 DEF Pages
  <2>3. Expected(Results, Wins, X)
    BY <2>2 DEF Expected, Due
  <2>4. Shape(Results, Wins, X)
    BY <2>3 DEF Shape, Evidence
  <2>5. InState("succeeded") \subseteq Existing
    BY DEF InState, Existing
  <2>6. \A q \in InState("succeeded"), c \in {answer} :
            Feeds(q, c) /\ (c = answer => node[q] = "succeeded")
    BY DEF Feeds, InState, Results
  <2>7. {answer} \subseteq Tasks /\ {answer} \cap Existing = {}
    BY <1>2, PlannersTasks
  <2>8. Sound(AddAfter({answer}, InState("succeeded")))
    BY <2>4, <2>5, <2>6, <2>7, AddSound
  <2>9. node[answer] = "absent"
    BY <1>2, PlannersTasks DEF Existing
  <2> QED
    BY <2>8, <2>9 DEF AnswerPatch
<1> QED
  BY <1>1, <1>2

\* Before t is answered, the answer may be there only if it waits for t not at all.
LEMMA LandingFacts ==
    ASSUME NEW t, Landing(t)
    PROVE  /\ request \in Request /\ found \in 0..2
           /\ t \in Results /\ Results \subseteq Existing /\ Wins \subseteq Results
           /\ Existing \subseteq Tasks /\ answer \notin Results \ {t}
           /\ t \notin {answer, Beside} => answer \notin Existing
           /\ t # answer => Due(t, Results \ {t}, Wins \ {t}, Existing)
           /\ \A c \in Tasks \ {answer} :
                  c \in Existing <=> Due(c, Results \ {t}, Wins \ {t}, Existing)
           /\ answer \in Existing => Existing \ {answer, Beside} \subseteq Results \ {t}
           /\ AnswerDue(Results \ {t}, Wins \ {t}, Existing) => answer \in Existing
<1>1. /\ request \in Request /\ found \in 0..2 /\ t \in Results
      /\ Shape(Results \ {t}, Wins \ {t}, Existing)
  BY DEF Landing
<1>2. Results \subseteq Existing /\ Wins \subseteq Results /\ Existing \subseteq Tasks
  BY DEF Results, Existing, Wins, InState
<1>3. \A c \in Tasks \ {answer} :
          c \in Existing <=> Due(c, Results \ {t}, Wins \ {t}, Existing)
  BY <1>1 DEF Shape, Expected
<1>4. answer \in Existing => Existing \ {answer, Beside} \subseteq Results \ {t}
  BY <1>1 DEF Shape, Evidence
<1>5. /\ AnswerDue(Results \ {t}, Wins \ {t}, Existing) => answer \in Existing
      /\ answer \notin Results \ {t}
  BY <1>1 DEF Shape
<1>6. t # answer => Due(t, Results \ {t}, Wins \ {t}, Existing)
  BY <1>1, <1>2, <1>3
<1>7. t \notin {answer, Beside} => answer \notin Existing
  BY <1>1, <1>2, <1>4
<1> QED
  BY <1>1, <1>2, <1>3, <1>4, <1>5, <1>6, <1>7

\* Before t is answered, what is there is what was due.
LEMMA LandingDue ==
    ASSUME NEW t, Landing(t), NEW c \in Tasks \ {answer}
    PROVE  c \in Existing <=> Due(c, Results \ {t}, Wins \ {t}, Existing)
BY LandingFacts

\* Nothing is planned for an outcome that calls for nothing.
LEMMA QuietSound ==
    ASSUME NEW t, Landing(t), t # answer, Expected(Results, Wins, Existing),
           AnswerDue(Results, Wins, Existing) => answer \in Existing
    PROVE  Sound(Nothing)
<1>1. Shape(Results, Wins, Existing)
  BY LandingFacts DEF Shape, Evidence
<1> QED
  BY <1>1, NothingSound

\* The answer is planned for the last outcome it waits for, or was long ago.
LEMMA LastSound ==
    ASSUME NEW t, Landing(t), t # answer, Expected(Results, Wins, Existing),
           Existing \ {answer, Beside} \subseteq Results
    PROVE  Sound(AnswerPatch)
BY LandingFacts, AnswerSound

\* New tasks are planned for an outcome that calls for them.
LEMMA GrowSound ==
    ASSUME NEW t, Landing(t), t \notin {answer, Beside},
           NEW N, NEW Q, N \subseteq Tasks \ {answer}, Q \subseteq Existing, N \cap Existing = {},
           \A q \in Q, c \in N : Feeds(q, c),
           Expected(Results, Wins, Existing \cup N), ~AnswerDue(Results, Wins, Existing \cup N)
    PROVE  Sound(AddAfter(N, Q))
<1>1. answer \notin Existing \cup N /\ answer \notin Results
  BY LandingFacts
<1>2. Shape(Results, Wins, Existing \cup N)
  BY <1>1 DEF Shape, Evidence
<1> QED
  BY <1>2, AddSound

\* A memory question is answered from what recall finds.
LEMMA MemoryMode ==
    ASSUME request.mode = "memory", NEW c, NEW S, NEW W, NEW X
    PROVE  Due(c, S, W, X) <=>
                \/ c = recall
                \/ request.explicit /\ c = remember
<1>1. c \in First <=> c = recall \/ (request.explicit /\ c = remember)
  BY DEF First, Frontier
<1> QED
  BY <1>1 DEF Due, Researches

\* So its evidence is all there once that retrieval has ended.
LEMMA MemoryAnswer ==
    ASSUME request.mode = "memory", NEW S, NEW W, NEW X
    PROVE  AnswerDue(S, W, X) <=>
                \/ recall \in S
BY DEF AnswerDue

\* A file read is answered from the file.
LEMMA ReadFileMode ==
    ASSUME request.mode = "read_file", NEW c, NEW S, NEW W, NEW X
    PROVE  Due(c, S, W, X) <=>
                \/ c = read_file
                \/ request.explicit /\ c = remember
<1>1. c \in First <=> c = read_file \/ (request.explicit /\ c = remember)
  BY DEF First, Frontier
<1> QED
  BY <1>1 DEF Due, Researches

\* Its evidence is what was read.
LEMMA ReadFileAnswer ==
    ASSUME request.mode = "read_file", NEW S, NEW W, NEW X
    PROVE  AnswerDue(S, W, X) <=>
                \/ read_file \in S
BY DEF AnswerDue

\* Of a directory every file found is indexed.
LEMMA IndexDirectoryMode ==
    ASSUME request.mode = "index_directory", NEW c, NEW S, NEW W, NEW X
    PROVE  Due(c, S, W, X) <=>
                \/ c = list_directory
                \/ request.explicit /\ c = remember
                \/ c \in Discovered(IndexTasks) /\ list_directory \in W
<1>1. c \in First <=> c = list_directory \/ (request.explicit /\ c = remember)
  BY DEF First, Frontier
<1> QED
  BY <1>1 DEF Due, Researches

\* Its answer reports on all of them, or on the listing that failed.
LEMMA IndexDirectoryAnswer ==
    ASSUME request.mode = "index_directory", NEW S, NEW W, NEW X
    PROVE  AnswerDue(S, W, X) <=>
                \/ list_directory \in W /\ X \cap IndexTasks \subseteq S
                \/ ~request.explicit /\ list_directory \in S \ W
BY DEF AnswerDue

\* A file is indexed, searched and summed up.
LEMMA IndexFileMode ==
    ASSUME request.mode = "index_file", NEW c, NEW S, NEW W, NEW X
    PROVE  Due(c, S, W, X) <=>
                \/ c = index_file
                \/ request.explicit /\ c = remember
                \/ c = recall /\ index_file \in W
                \/ c = distill /\ recall \in S
<1>1. c \in First <=> c = index_file \/ (request.explicit /\ c = remember)
  BY DEF First, Frontier
<1> QED
  BY <1>1 DEF Due, Researches

\* Its answer waits for the summary.
LEMMA IndexFileAnswer ==
    ASSUME request.mode = "index_file", NEW S, NEW W, NEW X
    PROVE  AnswerDue(S, W, X) <=>
                \/ distill \in S
BY DEF AnswerDue

\* A reminder waits for the fact it is about.
LEMMA BirthdayMode ==
    ASSUME request.mode = "birthday_reminder", NEW c, NEW S, NEW W, NEW X
    PROVE  Due(c, S, W, X) <=>
                \/ c = recall
                \/ request.explicit /\ c = remember
                \/ c = reminder /\ remember \in W
<1>1. c \in First <=> c = recall \/ (request.explicit /\ c = remember)
  BY DEF First, Frontier
<1> QED
  BY <1>1 DEF Due, Researches

\* Its answer waits for the reminder, and for nothing else.
LEMMA BirthdayAnswer ==
    ASSUME request.mode = "birthday_reminder", NEW S, NEW W, NEW X
    PROVE  AnswerDue(S, W, X) <=>
                \/ reminder \in S
BY DEF AnswerDue

\* Given pages are fetched and summed up.
LEMMA FetchMode ==
    ASSUME request.mode = "fetch", NEW c, NEW S, NEW W, NEW X
    PROVE  Due(c, S, W, X) <=>
                \/ c \in Discovered(FetchTasks)
                \/ request.explicit /\ c = remember
                \/ c = distill /\ Pages(X) # {} /\ Pages(X) \subseteq S
<1>1. c \in First <=> c \in Discovered(FetchTasks) \/ (request.explicit /\ c = remember)
  BY DEF First, Frontier
<1> QED
  BY <1>1 DEF Due, Researches

\* The answer waits for that summary.
LEMMA FetchAnswer ==
    ASSUME request.mode = "fetch", NEW S, NEW W, NEW X
    PROVE  AnswerDue(S, W, X) <=>
                \/ distill \in S
BY DEF AnswerDue

\* A search names the pages to fetch.
LEMMA SearchFetchMode ==
    ASSUME request.mode = "search_fetch", NEW c, NEW S, NEW W, NEW X
    PROVE  Due(c, S, W, X) <=>
                \/ c = search
                \/ request.explicit /\ c = remember
                \/ c \in Discovered(FetchTasks) /\ search \in W
                \/ c = distill /\ Pages(X) # {} /\ Pages(X) \subseteq S
<1>1. c \in First <=> c = search \/ (request.explicit /\ c = remember)
  BY DEF First, Frontier
<1> QED
  BY <1>1 DEF Due, Researches

\* Here too, unless the search has found nothing.
LEMMA SearchFetchAnswer ==
    ASSUME request.mode = "search_fetch", NEW S, NEW W, NEW X
    PROVE  AnswerDue(S, W, X) <=>
                \/ search \in W /\ found = 0
                \/ distill \in S
BY DEF AnswerDue

\* Searches side by side are summed up.
LEMMA ParallelSearchMode ==
    ASSUME request.mode = "parallel_search", NEW c, NEW S, NEW W, NEW X
    PROVE  Due(c, S, W, X) <=>
                \/ c \in Discovered(SearchTasks)
                \/ request.explicit /\ c = remember
                \/ c = distill /\ Pages(X) # {} /\ Pages(X) \subseteq S
<1>1. c \in First <=> c \in Discovered(SearchTasks) \/ (request.explicit /\ c = remember)
  BY DEF First, Frontier
<1> QED
  BY <1>1 DEF Due, Researches

\* The answer waits for that summary as well.
LEMMA ParallelSearchAnswer ==
    ASSUME request.mode = "parallel_search", NEW S, NEW W, NEW X
    PROVE  AnswerDue(S, W, X) <=>
                \/ distill \in S
BY DEF AnswerDue

\* And their summary may have to be validated.
LEMMA StructuredMode ==
    ASSUME request.mode = "structured_population", NEW c, NEW S, NEW W, NEW X
    PROVE  Due(c, S, W, X) <=>
                \/ c \in Discovered(SearchTasks)
                \/ request.explicit /\ c = remember
                \/ c = distill /\ Pages(X) # {} /\ Pages(X) \subseteq S
                \/ c = validate /\ distill \in S
<1>1. c \in First <=> c \in Discovered(SearchTasks) \/ (request.explicit /\ c = remember)
  BY DEF First, Frontier
<1> QED
  BY <1>1 DEF Due, Researches

\* Then the answer waits for the validation.
LEMMA StructuredAnswer ==
    ASSUME request.mode = "structured_population", NEW S, NEW W, NEW X
    PROVE  AnswerDue(S, W, X) <=>
                \/ validate \in S
BY DEF AnswerDue

-----------------------------------------------------------------------------
\* plan(), outcome by outcome.
LEMMA Rules ==
    ASSUME NEW ok \in BOOLEAN
    PROVE  /\ PatchFor(answer, ok) = Finish
           /\ PatchFor(index_file, TRUE) = AddAfter({recall}, {index_file})
           /\ PatchFor(remember, TRUE) = IF request.mode = "birthday_reminder"
                                         THEN AddAfter({reminder}, {remember}) ELSE Nothing
           /\ PatchFor(list_directory, TRUE) = ExpandOver(IndexTasks, list_directory)
           /\ PatchFor(search, TRUE) = ExpandOver(FetchTasks, search)
           /\ \A t \in {reminder, read_file, validate} : PatchFor(t, ok) = AnswerPatch
           /\ \A t \in {index_file, remember, list_directory, search} :
                  PatchFor(t, FALSE) = IF Landed(Existing \ {answer}) THEN AnswerPatch ELSE Nothing
           /\ \A t \in IndexTasks :
                  PatchFor(t, ok) = IF Landed(Existing \cap IndexTasks) THEN AnswerPatch ELSE Nothing
           /\ PatchFor(recall, ok) = IF request.mode = "memory" THEN AnswerPatch
                                     ELSE IF request.mode = "index_file" THEN DistillPatch({recall})
                                     ELSE Nothing
           /\ PatchFor(distill, ok) = IF request.mode # "structured_population" THEN AnswerPatch
                                      ELSE AddAfter({validate}, {distill})
           /\ \A t \in FetchTasks \cup SearchTasks :
                  PatchFor(t, ok) = IF Landed(Research) THEN DistillPatch(DistillParents)
                                    ELSE Nothing
<1> USE DEF answer, distill, index_file, list_directory, read_file, recall, remember, reminder,
            search, validate, FetchTasks, IndexTasks, SearchTasks
<1>1. PatchFor(answer, ok) = Finish
  BY DEF PatchFor
<1>2. PatchFor(index_file, TRUE) = AddAfter({recall}, {index_file})
  BY DEF PatchFor
<1>3. PatchFor(remember, TRUE) = IF request.mode = "birthday_reminder"
                                 THEN AddAfter({reminder}, {remember}) ELSE Nothing
  BY DEF PatchFor
<1>4. PatchFor(list_directory, TRUE) = ExpandOver(IndexTasks, list_directory)
  BY DEF PatchFor
<1>5. PatchFor(search, TRUE) = ExpandOver(FetchTasks, search)
  BY DEF PatchFor
<1>6. \A t \in {reminder, read_file, validate} : PatchFor(t, ok) = AnswerPatch
  BY DEF PatchFor
<1>7. \A t \in {index_file, remember, list_directory, search} :
          PatchFor(t, FALSE) = IF Landed(Existing \ {answer}) THEN AnswerPatch ELSE Nothing
  BY DEF PatchFor
<1>8. \A t \in IndexTasks :
          PatchFor(t, ok) = IF Landed(Existing \cap IndexTasks) THEN AnswerPatch ELSE Nothing
  BY DEF PatchFor
<1>9. PatchFor(recall, ok) = IF request.mode = "memory" THEN AnswerPatch
                             ELSE IF request.mode = "index_file" THEN DistillPatch({recall})
                             ELSE Nothing
  BY DEF PatchFor
<1>10. PatchFor(distill, ok) = IF request.mode # "structured_population" THEN AnswerPatch
                               ELSE AddAfter({validate}, {distill})
  BY DEF PatchFor
<1>11. \A t \in FetchTasks \cup SearchTasks :
           PatchFor(t, ok) = IF Landed(Research) THEN DistillPatch(DistillParents) ELSE Nothing
  BY DEF PatchFor
<1> QED
  BY <1>1, <1>2, <1>3, <1>4, <1>5, <1>6, <1>7, <1>8, <1>9, <1>10, <1>11

\* In a graph without cancellations, what has landed has a result.
LEMMA LandedResults ==
    ASSUME NEW t, Landing(t), NEW Y \in SUBSET Existing
    PROVE  Landed(Y) <=> Y # {} /\ Y \subseteq Results
<1>1. \A u \in Y : node[u] \in Terminal <=> u \in Results
  BY DEF Landing, Existing, Results, Terminal
<1> QED
  BY <1>1 DEF Landed

\* A failure that calls for nothing may be the last outcome the answer waits for.
LEMMA FailureSound ==
    ASSUME NEW t, Landing(t), t # answer, Expected(Results, Wins, Existing),
           \/ AnswerDue(Results, Wins, Existing) => answer \in Existing
           \/ Existing \ {answer} \subseteq Results
    PROVE  Sound(IF Landed(Existing \ {answer}) THEN AnswerPatch ELSE Nothing)
<1>1. Landed(Existing \ {answer}) <=> Existing \ {answer} \subseteq Results
  <2>1. t \in Existing \ {answer}
    BY LandingFacts
  <2> QED
    BY <2>1, LandedResults
<1>2. CASE Existing \ {answer} \subseteq Results
  BY <1>1, <1>2, LastSound
<1>3. CASE ~(Existing \ {answer} \subseteq Results)
  BY <1>1, <1>3, QuietSound
<1> QED
  BY <1>2, <1>3

\* The fact to remember: beside the work, but for the reminder.
LEMMA RememberLands ==
    ASSUME Landing(remember), request.mode # "birthday_reminder", NEW ok \in BOOLEAN
    PROVE  Sound(PatchFor(remember, ok))
<1> USE DEF answer, distill, index_file, list_directory, read_file, recall, remember, reminder,
            search, validate
<1>1. remember \notin FetchTasks \cup SearchTasks \cup IndexTasks
  BY DEF FetchTasks, SearchTasks, IndexTasks
<1>2. Pages(Existing) \subseteq Results <=> Pages(Existing) \subseteq Results \ {remember}
  BY <1>1 DEF Pages
<1>3. Existing \cap IndexTasks \subseteq Results
          <=> Existing \cap IndexTasks \subseteq Results \ {remember}
  BY <1>1
<1>4. ASSUME NEW c
      PROVE  Due(c, Results, Wins, Existing)
                 <=> Due(c, Results \ {remember}, Wins \ {remember}, Existing)
  BY <1>2 DEF Due
<1>5. AnswerDue(Results, Wins, Existing)
          <=> AnswerDue(Results \ {remember}, Wins \ {remember}, Existing)
  BY <1>3 DEF AnswerDue
<1>6. /\ Expected(Results, Wins, Existing)
      /\ AnswerDue(Results, Wins, Existing) => answer \in Existing
  BY <1>4, <1>5, LandingFacts DEF Expected
<1>7. CASE ok = TRUE
  <2>1. PatchFor(remember, TRUE) = Nothing
    BY Rules
  <2>2. Sound(Nothing)
    BY <1>6, QuietSound
  <2> QED
    BY <1>7, <2>1, <2>2
<1>8. CASE ok = FALSE
  <2>1. PatchFor(remember, FALSE) = IF Landed(Existing \ {answer}) THEN AnswerPatch ELSE Nothing
    BY Rules
  <2>2. Sound(IF Landed(Existing \ {answer}) THEN AnswerPatch ELSE Nothing)
    BY <1>6, FailureSound
  <2> QED
    BY <1>8, <2>1, <2>2
<1> QED
  BY <1>7, <1>8

\* Memory questions (runtime.py:180-185).
LEMMA MemoryLands ==
    ASSUME NEW t, Landing(t), request.mode = "memory", t # answer, NEW ok \in BOOLEAN
    PROVE  Sound(PatchFor(t, ok))
<1> USE DEF answer, distill, index_file, list_directory, read_file, recall, remember, reminder,
            search, validate
<1>1. t \in {recall, remember}
  BY LandingFacts, MemoryMode
<1>2. CASE t = recall
  <2>1. PatchFor(t, ok) = AnswerPatch
    BY <1>2, Rules
  <2>2. Existing \ {answer, Beside} \subseteq Results
    BY <1>2, LandingFacts, MemoryMode DEF Beside
  <2>3. Expected(Results, Wins, Existing)
    BY LandingFacts, MemoryMode DEF Expected
  <2> QED
    BY <2>1, <2>2, <2>3, LastSound
<1>3. CASE t = remember
  BY <1>3, RememberLands
<1> QED
  BY <1>1, <1>2, <1>3

\* Reads of a file (runtime.py:157-158).
LEMMA ReadFileLands ==
    ASSUME NEW t, Landing(t), request.mode = "read_file", t # answer, NEW ok \in BOOLEAN
    PROVE  Sound(PatchFor(t, ok))
<1> USE DEF answer, distill, index_file, list_directory, read_file, recall, remember, reminder,
            search, validate
<1>1. t \in {read_file, remember}
  BY LandingFacts, ReadFileMode
<1>2. CASE t = read_file
  <2>1. PatchFor(t, ok) = AnswerPatch
    BY <1>2, Rules
  <2>2. Existing \ {answer, Beside} \subseteq Results
    BY <1>2, LandingFacts, ReadFileMode DEF Beside
  <2>3. Expected(Results, Wins, Existing)
    BY LandingFacts, ReadFileMode DEF Expected
  <2> QED
    BY <2>1, <2>2, <2>3, LastSound
<1>3. CASE t = remember
  BY <1>3, RememberLands
<1> QED
  BY <1>1, <1>2, <1>3

\* Directories to index: the listing.
LEMMA ListingLands ==
    ASSUME Landing(list_directory), request.mode = "index_directory",
           NEW ok \in BOOLEAN, ok <=> list_directory \in Wins
    PROVE  Sound(PatchFor(list_directory, ok))
<1> DEFINE X == Existing
           N == Discovered(IndexTasks)
<1>1. \A c \in Tasks \ {answer} : c \in X <=> c = list_directory \/ (request.explicit /\ c = remember)
  <2> DEFINE S == Results \ {list_directory}
             W == Wins \ {list_directory}
  <2>1. \A c \in Tasks \ {answer} : c \in X <=> Due(c, S, W, X)
    BY LandingFacts
  <2>2. list_directory \notin W
    OBVIOUS
  <2> HIDE DEF S, W
  <2> QED
    BY <2>1, <2>2, IndexDirectoryMode
<1> USE DEF answer, distill, index_file, list_directory, read_file, recall, remember, reminder,
            search, validate
<1>2. \A c, Y : Due(c, Results, Wins, Y) <=>
                    \/ c = list_directory \/ (request.explicit /\ c = remember)
                    \/ c \in N /\ list_directory \in Wins
  BY IndexDirectoryMode
<1>3. \A Y : AnswerDue(Results, Wins, Y) <=>
                 \/ list_directory \in Wins /\ Y \cap IndexTasks \subseteq Results
                 \/ ~request.explicit /\ list_directory \in Results \ Wins
  BY IndexDirectoryAnswer
<1>4. /\ N \subseteq IndexTasks /\ (found = 0 => N = {}) /\ (found # 0 => N # {})
      /\ IndexTasks \subseteq Tasks /\ IndexTasks \cap {list_directory, remember, answer} = {}
  <2>1. IndexTasks \cap {list_directory, remember, answer} = {}
    BY DEF IndexTasks
  <2> QED
    BY <2>1, LandingFacts, DiscoveredTasks, PlannersTasks
<1>5. /\ X \subseteq Tasks /\ answer \notin X /\ Results \subseteq X /\ list_directory \in Results
      /\ {list_directory, remember} \subseteq Tasks
  <2>1. list_directory \notin {answer, Beside}
    BY DEF Beside
  <2> QED
    BY <2>1, LandingFacts, PlannersTasks
<1>6. X \subseteq {list_directory, remember} /\ X \cap IndexTasks = {}
  BY <1>1, <1>4, <1>5
<1> HIDE DEF N, X
<1>7. CASE ok = TRUE /\ found = 0
  <2>1. PatchFor(list_directory, TRUE) = AnswerPatch
    BY <1>7, Rules DEF ExpandOver
  <2>2. Existing \ {answer, Beside} \subseteq Results
    BY <1>5, <1>6 DEF Beside, X
  <2>3. Expected(Results, Wins, Existing)
    BY <1>1, <1>2, <1>4, <1>7 DEF Expected, X
  <2>4. Sound(AnswerPatch)
    BY <2>2, <2>3, LastSound
  <2> QED
    BY <1>7, <2>1, <2>4
<1>8. CASE ok = TRUE /\ found # 0
  <2>1. PatchFor(list_directory, TRUE) = AddAfter(N, {list_directory})
    BY <1>8, Rules DEF ExpandOver, N
  <2>2. N \subseteq Tasks \ {answer} /\ N \cap X = {} /\ list_directory \in Wins
    BY <1>4, <1>6, <1>8
  <2>3. Expected(Results, Wins, X \cup N)
    BY <1>1, <1>2, <2>2 DEF Expected
  <2>4. ~AnswerDue(Results, Wins, X \cup N)
    <3>1. ~((X \cup N) \cap IndexTasks \subseteq Results)
      BY <1>4, <1>5, <1>8, <2>2
    <3> QED
      BY <1>3, <2>2, <3>1
  <2>5. \A q \in {list_directory}, c \in N : Feeds(q, c)
    BY <1>4 DEF Feeds
  <2>6. list_directory \notin {answer, Beside} /\ {list_directory} \subseteq X
    BY <1>5 DEF Beside
  <2>7. Sound(AddAfter(N, {list_directory}))
    BY <2>2, <2>3, <2>4, <2>5, <2>6, GrowSound DEF X
  <2> QED
    BY <1>8, <2>1, <2>7
<1>9. CASE ok = FALSE
  <2>1. PatchFor(list_directory, FALSE)
            = IF Landed(Existing \ {answer}) THEN AnswerPatch ELSE Nothing
    BY Rules
  <2>2. list_directory \notin Wins
    BY <1>9
  <2>3. Expected(Results, Wins, Existing)
    BY <1>1, <1>2, <2>2 DEF Expected, X
  <2>4. AnswerDue(Results, Wins, Existing) => Existing \ {answer} \subseteq Results
    <3>1. AnswerDue(Results, Wins, X) => ~request.explicit
      BY <1>3, <2>2
    <3>2. ~request.explicit => remember \notin X
      BY <1>1, <1>5
    <3> QED
      BY <1>5, <1>6, <3>1, <3>2 DEF X
  <2>5. Sound(IF Landed(Existing \ {answer}) THEN AnswerPatch ELSE Nothing)
    BY <2>3, <2>4, FailureSound
  <2> QED
    BY <1>9, <2>1, <2>5
<1> QED
  BY <1>7, <1>8, <1>9

\* Directories to index: the files (runtime.py:159-171).
LEMMA IndexDirectoryLands ==
    ASSUME NEW t, Landing(t), request.mode = "index_directory", t # answer,
           NEW ok \in BOOLEAN, ok <=> t \in Wins
    PROVE  Sound(PatchFor(t, ok))
<1> USE DEF answer, distill, index_file, list_directory, read_file, recall, remember, reminder,
            search, validate
<1> DEFINE X == Existing
           N == Discovered(IndexTasks)
<1>1. \A c \in Tasks \ {answer} : c \in X <=>
          \/ c = list_directory \/ (request.explicit /\ c = remember)
          \/ c \in N /\ list_directory \in Wins \ {t}
  BY LandingDue, IndexDirectoryMode
<1>2. \A c, Y : Due(c, Results, Wins, Y) <=>
                    \/ c = list_directory \/ (request.explicit /\ c = remember)
                    \/ c \in N /\ list_directory \in Wins
  BY IndexDirectoryMode
<1>3. AnswerDue(Results, Wins, X) <=>
          \/ list_directory \in Wins /\ X \cap IndexTasks \subseteq Results
          \/ ~request.explicit /\ list_directory \in Results \ Wins
  BY IndexDirectoryAnswer
<1>4. N \subseteq IndexTasks /\ list_directory \notin IndexTasks /\ remember \notin IndexTasks
  <2>1. found \in 0..2
    BY DEF Landing
  <2> QED
    BY <2>1, DiscoveredTasks DEF IndexTasks
<1>5. t \in X /\ t \in Tasks /\ X \subseteq Tasks /\ Wins \subseteq Results /\ t \in Results
  BY LandingFacts
<1> HIDE DEF N, X
<1>6. t \in {list_directory, remember} \cup IndexTasks
  BY <1>1, <1>4, <1>5
<1>7. CASE t = list_directory
  BY <1>7, ListingLands
<1>8. CASE t = remember
  BY <1>8, RememberLands
<1>9. CASE t \in IndexTasks
  <2>1. list_directory \in Wins
    BY <1>1, <1>4, <1>5, <1>9
  <2>2. t # list_directory
    BY <1>4, <1>9
  <2>3. Expected(Results, Wins, Existing)
    BY <1>1, <1>2, <2>2 DEF Expected, X
  <2>4. PatchFor(t, ok) = IF Landed(Existing \cap IndexTasks) THEN AnswerPatch ELSE Nothing
    BY <1>9, Rules
  <2>5. Landed(X \cap IndexTasks) <=> X \cap IndexTasks \subseteq Results
    <3>1. t \in X \cap IndexTasks
      BY <1>5, <1>9
    <3> QED
      BY <3>1, LandedResults DEF X
  <2>6. CASE X \cap IndexTasks \subseteq Results
    <3>1. X \ {answer, remember} \subseteq Results
      BY <1>1, <1>4, <1>5, <2>1, <2>6
    <3>2. Sound(AnswerPatch)
      BY <2>2, <2>3, <3>1, LastSound DEF X, Beside
    <3> QED
      BY <2>4, <2>5, <2>6, <3>2 DEF X
  <2>7. CASE ~(X \cap IndexTasks \subseteq Results)
    <3>1. ~AnswerDue(Results, Wins, X)
      BY <1>3, <2>1, <2>7
    <3>2. Sound(Nothing)
      BY <2>3, <3>1, QuietSound DEF X
    <3> QED
      BY <2>4, <2>5, <2>7, <3>2 DEF X
  <2> QED
    BY <2>6, <2>7
<1> QED
  BY <1>6, <1>7, <1>8, <1>9

\* A file to index (runtime.py:146-149, 180-187).
LEMMA IndexFileLands ==
    ASSUME NEW t, Landing(t), request.mode = "index_file", t # answer,
           NEW ok \in BOOLEAN, ok <=> t \in Wins
    PROVE  Sound(PatchFor(t, ok))
<1> USE DEF answer, distill, index_file, list_directory, read_file, recall, remember, reminder,
            search, validate
<1> DEFINE X == Existing
<1>1. \A c \in Tasks \ {answer} : c \in X <=>
          \/ c = index_file \/ (request.explicit /\ c = remember)
          \/ c = recall /\ index_file \in Wins \ {t}
          \/ c = distill /\ recall \in Results \ {t}
  BY LandingDue, IndexFileMode
<1>2. \A c, Y : Due(c, Results, Wins, Y) <=>
                    \/ c = index_file \/ (request.explicit /\ c = remember)
                    \/ c = recall /\ index_file \in Wins
                    \/ c = distill /\ recall \in Results
  BY IndexFileMode
<1>3. \A Y : AnswerDue(Results, Wins, Y) <=> distill \in Results
  BY IndexFileAnswer
<1>4. /\ t \in X /\ X \subseteq Tasks /\ Wins \subseteq Results /\ t \in Results /\ Results \subseteq X
      /\ distill \in Results \ {t} => answer \in X
      /\ {index_file, recall, distill} \subseteq Tasks
      /\ t # remember => answer \notin X
  <2>1. AnswerDue(Results \ {t}, Wins \ {t}, X) => answer \in X
    BY LandingFacts
  <2>2. distill \in Results \ {t} => AnswerDue(Results \ {t}, Wins \ {t}, X)
    BY IndexFileAnswer
  <2>3. t # remember => answer \notin X
    BY LandingFacts DEF Beside
  <2> QED
    BY <2>1, <2>2, <2>3, LandingFacts, PlannersTasks
<1> HIDE DEF X
<1>5. t \in {index_file, recall, distill, remember}
  BY <1>1, <1>4
<1>6. CASE t = index_file /\ ok = TRUE
  <2>1. PatchFor(t, ok) = AddAfter({recall}, {index_file})
    BY <1>6, Rules
  <2>2. recall \notin X /\ index_file \in Wins
    BY <1>1, <1>4, <1>6
  <2>3. Expected(Results, Wins, X \cup {recall})
    BY <1>1, <1>2, <1>4, <1>6, <2>2 DEF Expected
  <2>4. ~AnswerDue(Results, Wins, X \cup {recall})
    BY <1>1, <1>3, <1>4, <2>2
  <2>5. Feeds(index_file, recall) /\ index_file \notin {answer, Beside}
    BY DEF Feeds, Beside
  <2>6. Sound(AddAfter({recall}, {index_file}))
    BY <1>4, <1>6, <2>2, <2>3, <2>4, <2>5, GrowSound DEF X
  <2> QED
    BY <2>1, <2>6
<1>7. CASE t = index_file /\ ok = FALSE
  <2>1. PatchFor(t, ok) = IF Landed(Existing \ {answer}) THEN AnswerPatch ELSE Nothing
    BY <1>7, Rules
  <2>2. Expected(Results, Wins, X)
    BY <1>1, <1>2, <1>4, <1>7 DEF Expected
  <2>3. AnswerDue(Results, Wins, X) => answer \in X
    BY <1>3, <1>4, <1>7
  <2>4. Sound(IF Landed(Existing \ {answer}) THEN AnswerPatch ELSE Nothing)
    BY <2>2, <2>3, <1>7, FailureSound DEF X
  <2> QED
    BY <2>1, <2>4
<1>8. CASE t = recall
  <2>1. distill \notin X /\ index_file \in Wins
    BY <1>1, <1>4, <1>8
  <2>2. PatchFor(t, ok) = AddAfter({distill}, {recall})
    <3>1. node[distill] = "absent"
      BY <1>4, <2>1 DEF X, Existing
    <3> QED
      BY <1>8, <3>1, Rules DEF DistillPatch
  <2>3. Expected(Results, Wins, X \cup {distill})
    BY <1>1, <1>2, <1>4, <1>8, <2>1 DEF Expected
  <2>4. ~AnswerDue(Results, Wins, X \cup {distill})
    BY <1>3, <1>4, <2>1
  <2>5. Feeds(recall, distill) /\ recall \notin {answer, Beside}
    BY DEF Feeds, Beside
  <2>6. Sound(AddAfter({distill}, {recall}))
    BY <1>4, <1>8, <2>1, <2>3, <2>4, <2>5, GrowSound DEF X
  <2> QED
    BY <2>2, <2>6
<1>9. CASE t = distill
  <2>1. PatchFor(t, ok) = AnswerPatch
    BY <1>9, Rules
  <2>2. Expected(Results, Wins, X)
    BY <1>1, <1>2, <1>9 DEF Expected
  <2>3. X \ {answer, remember} \subseteq Results
    BY <1>1, <1>4, <1>9
  <2>4. Sound(AnswerPatch)
    BY <2>2, <2>3, <1>9, LastSound DEF X, Beside
  <2> QED
    BY <2>1, <2>4
<1>10. CASE t = remember
  BY <1>10, RememberLands
<1> QED
  BY <1>5, <1>6, <1>7, <1>8, <1>9, <1>10

\* A reminder of a birthday (runtime.py:150-156).
LEMMA BirthdayLands ==
    ASSUME NEW t, Landing(t), request.mode = "birthday_reminder", t # answer,
           NEW ok \in BOOLEAN, ok <=> t \in Wins
    PROVE  Sound(PatchFor(t, ok))
<1> USE DEF answer, distill, index_file, list_directory, read_file, recall, remember, reminder,
            search, validate
<1> DEFINE X == Existing
<1>1. \A c \in Tasks \ {answer} : c \in X <=>
          \/ c = recall \/ (request.explicit /\ c = remember)
          \/ c = reminder /\ remember \in Wins \ {t}
  BY LandingDue, BirthdayMode
<1>2. \A c, Y : Due(c, Results, Wins, Y) <=>
                    \/ c = recall \/ (request.explicit /\ c = remember)
                    \/ c = reminder /\ remember \in Wins
  BY BirthdayMode
<1>3. \A Y : AnswerDue(Results, Wins, Y) <=> reminder \in Results
  BY BirthdayAnswer
<1>4. /\ t \in X /\ X \subseteq Tasks /\ Wins \subseteq Results /\ t \in Results /\ Results \subseteq X
      /\ reminder \in Results \ {t} => answer \in X
      /\ {recall, remember, reminder} \subseteq Tasks
      /\ t # recall => answer \notin X
  <2>1. AnswerDue(Results \ {t}, Wins \ {t}, X) => answer \in X
    BY LandingFacts
  <2>2. reminder \in Results \ {t} => AnswerDue(Results \ {t}, Wins \ {t}, X)
    BY BirthdayAnswer
  <2>3. t # recall => answer \notin X
    BY LandingFacts DEF Beside
  <2> QED
    BY <2>1, <2>2, <2>3, LandingFacts, PlannersTasks
<1> HIDE DEF X
<1>5. t \in {recall, remember, reminder}
  BY <1>1, <1>4
<1>6. CASE t = recall
  <2>1. PatchFor(t, ok) = Nothing
    BY <1>6, Rules
  <2>2. Expected(Results, Wins, X)
    BY <1>1, <1>2, <1>6 DEF Expected
  <2>3. AnswerDue(Results, Wins, X) => answer \in X
    BY <1>3, <1>4, <1>6
  <2>4. Sound(Nothing)
    BY <2>2, <2>3, QuietSound DEF X
  <2> QED
    BY <2>1, <2>4
<1>7. CASE t = remember /\ ok = TRUE
  <2>1. PatchFor(t, ok) = AddAfter({reminder}, {remember})
    BY <1>7, Rules
  <2>2. reminder \notin X /\ remember \in Wins
    BY <1>1, <1>4, <1>7
  <2>3. Expected(Results, Wins, X \cup {reminder})
    BY <1>1, <1>2, <1>4, <1>7, <2>2 DEF Expected
  <2>4. ~AnswerDue(Results, Wins, X \cup {reminder})
    BY <1>3, <1>4, <2>2
  <2>5. Feeds(remember, reminder) /\ remember \notin {answer, Beside}
    BY DEF Feeds, Beside
  <2>6. Sound(AddAfter({reminder}, {remember}))
    BY <1>4, <1>7, <2>2, <2>3, <2>4, <2>5, GrowSound DEF X
  <2> QED
    BY <2>1, <2>6
<1>8. CASE t = remember /\ ok = FALSE
  <2>1. PatchFor(t, ok) = IF Landed(Existing \ {answer}) THEN AnswerPatch ELSE Nothing
    BY <1>8, Rules
  <2>2. Expected(Results, Wins, X)
    BY <1>1, <1>2, <1>4, <1>8 DEF Expected
  <2>3. AnswerDue(Results, Wins, X) => answer \in X
    BY <1>3, <1>4, <1>8
  <2>4. Sound(IF Landed(Existing \ {answer}) THEN AnswerPatch ELSE Nothing)
    BY <2>2, <2>3, <1>8, FailureSound DEF X
  <2> QED
    BY <2>1, <2>4
<1>9. CASE t = reminder
  <2>1. PatchFor(t, ok) = AnswerPatch
    BY <1>9, Rules
  <2>2. Expected(Results, Wins, X)
    BY <1>1, <1>2, <1>9 DEF Expected
  <2>3. X \ {answer, recall} \subseteq Results
    BY <1>1, <1>4, <1>9
  <2>4. Sound(AnswerPatch)
    BY <2>2, <2>3, <1>9, LastSound DEF X, Beside
  <2> QED
    BY <2>1, <2>4
<1> QED
  BY <1>5, <1>6, <1>7, <1>8, <1>9

\* Pages, from a search or fetched, of any mode that sums them up
\* (runtime.py:188-199): the last one calls for their summary.
LEMMA PageLands ==
    ASSUME NEW t \in FetchTasks \cup SearchTasks, Landing(t), Researches, NEW ok \in BOOLEAN
    PROVE  Sound(PatchFor(t, ok))
<1> USE DEF answer, distill, index_file, list_directory, read_file, recall, remember, reminder,
            search, validate
<1> DEFINE X == Existing
           R == Results \ {t}
           W == Wins \ {t}
<1>1. t \notin {answer, distill, index_file, list_directory, read_file, recall, remember, reminder,
                search, validate} \cup IndexTasks
  BY DEF FetchTasks, SearchTasks, IndexTasks
<1>2. /\ t \in X /\ X \subseteq Tasks /\ t \in Results /\ Results \subseteq X
      /\ \A c \in Tasks \ {answer} : c \in X <=> Due(c, R, W, X)
      /\ AnswerDue(R, W, X) => answer \in X
      /\ answer \notin X
  BY <1>1, LandingFacts DEF Beside
<1>3. t \in Pages(X) /\ ~(Pages(X) \subseteq R) /\ Research = Pages(X)
  BY <1>2 DEF Pages, Research
<1>4. distill \notin First /\ request.mode # "index_file" /\ found \in 0..2
  BY DEF Researches, First, Frontier, Discovered, FirstById, Landing, SearchTasks, FetchTasks
<1>5. distill \notin X /\ distill \in Tasks /\ distill # answer
  <2>1. distill \notin Discovered(IndexTasks) \cup Discovered(FetchTasks)
    BY <1>4, DiscoveredTasks DEF IndexTasks, FetchTasks
  <2>2. ~Due(distill, R, W, X)
    BY <1>3, <1>4, <2>1 DEF Due
  <2> QED
    BY <1>2, <2>2, PlannersTasks
<1>6. ASSUME NEW c, c # distill, NEW Y
      PROVE  Due(c, R, W, X) <=> Due(c, Results, Wins, Y)
  BY <1>1, <1>6 DEF Due
<1>7. ASSUME NEW Y, Y \in {X, X \cup {distill}}
      PROVE  ~AnswerDue(Results, Wins, Y)
  <2>1. ~AnswerDue(R, W, X) /\ distill \notin Results
    BY <1>2, <1>5
  <2> QED
    BY <1>1, <2>1 DEF AnswerDue, Researches
<1>8. PatchFor(t, ok) = IF Landed(Research) THEN AddAfter({distill}, DistillParents) ELSE Nothing
  <2>1. node[distill] = "absent"
    BY <1>5 DEF Existing
  <2> QED
    BY <2>1, Rules DEF DistillPatch
<1>9. Landed(Research) <=> Pages(X) \subseteq Results
  <2>1. Research \in SUBSET Existing /\ Research # {}
    BY <1>3 DEF Pages
  <2> QED
    BY <1>3, <2>1, LandedResults
<1>10. CASE Pages(X) \subseteq Results
  <2>1. Pages(X \cup {distill}) = Pages(X)
    BY DEF Pages, FetchTasks, SearchTasks
  <2>2. Due(distill, Results, Wins, X \cup {distill})
    BY <1>3, <1>10, <2>1 DEF Due
  <2>3. Expected(Results, Wins, X \cup {distill})
    <3>1. ASSUME NEW c \in Tasks \ {answer}
          PROVE  c \in X \cup {distill} <=> Due(c, Results, Wins, X \cup {distill})
      <4>1. CASE c = distill
        BY <2>2, <4>1
      <4>2. CASE c # distill
        <5>1. c \in X <=> Due(c, R, W, X)
          BY <1>2
        <5>2. Due(c, R, W, X) <=> Due(c, Results, Wins, X \cup {distill})
          BY <1>6, <4>2
        <5> QED
          BY <4>2, <5>1, <5>2
      <4> QED
        BY <4>1, <4>2
    <3> QED
      BY <3>1 DEF Expected
  <2>4. ~AnswerDue(Results, Wins, X \cup {distill})
    BY <1>7
  <2>5. DistillParents \subseteq X /\ DistillParents \subseteq FetchTasks \cup SearchTasks
    BY DEF DistillParents
  <2>6. \A q \in DistillParents, c \in {distill} : Feeds(q, c)
    BY <2>5 DEF Feeds
  <2>7. t \notin {answer, Beside}
    BY <1>1 DEF Beside
  <2>8. {distill} \subseteq Tasks \ {answer} /\ {distill} \cap X = {}
    BY <1>5
  <2>9. Sound(AddAfter({distill}, DistillParents))
    BY <2>3, <2>4, <2>5, <2>6, <2>7, <2>8, GrowSound
  <2> QED
    BY <1>8, <1>9, <1>10, <2>9
<1>11. CASE ~(Pages(X) \subseteq Results)
  <2>1. Expected(Results, Wins, X)
    <3>1. ASSUME NEW c \in Tasks \ {answer}
          PROVE  c \in X <=> Due(c, Results, Wins, X)
      <4>1. CASE c = distill
        <5>1. distill \notin Discovered(IndexTasks) \cup Discovered(FetchTasks)
          BY <1>4, DiscoveredTasks DEF IndexTasks, FetchTasks
        <5>2. ~Due(distill, Results, Wins, X)
          BY <1>4, <1>11, <5>1 DEF Due
        <5> QED
          BY <1>5, <4>1, <5>2
      <4>2. CASE c # distill
        BY <1>2, <1>6, <4>2
      <4> QED
        BY <4>1, <4>2
    <3> QED
      BY <3>1 DEF Expected
  <2>2. Sound(Nothing)
    BY <1>1, <1>7, <2>1, QuietSound
  <2> QED
    BY <1>8, <1>9, <1>11, <2>2
<1> QED
  BY <1>10, <1>11

\* Pages to fetch, or searches side by side, and then an answer.
LEMMA PagesLands ==
    ASSUME NEW t, Landing(t), request.mode \in {"fetch", "parallel_search"}, t # answer,
           NEW ok \in BOOLEAN
    PROVE  Sound(PatchFor(t, ok))
<1> USE DEF answer, distill, index_file, list_directory, read_file, recall, remember, reminder,
            search, validate
<1> DEFINE X == Existing
           F == IF request.mode = "fetch" THEN Discovered(FetchTasks) ELSE Discovered(SearchTasks)
<1>1. \A c \in Tasks \ {answer} : c \in X <=>
          \/ c \in F \/ (request.explicit /\ c = remember)
          \/ c = distill /\ Pages(X) # {} /\ Pages(X) \subseteq Results \ {t}
  <2>1. CASE request.mode = "fetch"
    BY <2>1, LandingDue, FetchMode
  <2>2. CASE request.mode = "parallel_search"
    BY <2>2, LandingDue, ParallelSearchMode
  <2> QED
    BY <2>1, <2>2
<1>2. \A c, Y : Due(c, Results, Wins, Y) <=>
                    \/ c \in F \/ (request.explicit /\ c = remember)
                    \/ c = distill /\ Pages(Y) # {} /\ Pages(Y) \subseteq Results
  <2>1. CASE request.mode = "fetch"
    BY <2>1, FetchMode
  <2>2. CASE request.mode = "parallel_search"
    BY <2>2, ParallelSearchMode
  <2> QED
    BY <2>1, <2>2
<1>3. t \in X /\ X \subseteq Tasks /\ t \in Results /\ F \subseteq FetchTasks \cup SearchTasks
  BY LandingFacts, DiscoveredTasks
<1>4. distill \notin FetchTasks \cup SearchTasks /\ X \cap F \subseteq Pages(X)
  BY <1>3 DEF FetchTasks, SearchTasks, Pages
<1> HIDE DEF X, F
<1>5. t \in FetchTasks \cup SearchTasks \cup {distill, remember}
  BY <1>1, <1>3
<1>6. CASE t \in FetchTasks \cup SearchTasks
  BY <1>6, PageLands DEF Researches
<1>7. CASE t = distill
  <2>1. PatchFor(t, ok) = AnswerPatch
    BY <1>7, Rules
  <2>2. Pages(X) # {} /\ Pages(X) \subseteq Results \ {t}
    BY <1>1, <1>3, <1>4, <1>7
  <2>3. Expected(Results, Wins, X)
    BY <1>1, <1>2, <2>2 DEF Expected
  <2>4. X \ {answer, remember} \subseteq Results
    BY <1>1, <1>3, <1>4, <1>7, <2>2
  <2>5. Sound(AnswerPatch)
    BY <2>3, <2>4, <1>7, LastSound DEF X, Beside
  <2> QED
    BY <2>1, <2>5
<1>8. CASE t = remember
  BY <1>8, RememberLands
<1> QED
  BY <1>5, <1>6, <1>7, <1>8

\* A search whose hits are fetched (runtime.py:172-179).
LEMMA SearchFetchLands ==
    ASSUME NEW t, Landing(t), request.mode = "search_fetch", t # answer,
           NEW ok \in BOOLEAN, ok <=> t \in Wins
    PROVE  Sound(PatchFor(t, ok))
<1> USE DEF answer, distill, index_file, list_directory, read_file, recall, remember, reminder,
            search, validate
<1> DEFINE X == Existing
           N == Discovered(FetchTasks)
<1>1. \A c \in Tasks \ {answer} : c \in X <=>
          \/ c = search \/ (request.explicit /\ c = remember)
          \/ c \in N /\ search \in Wins \ {t}
          \/ c = distill /\ Pages(X) # {} /\ Pages(X) \subseteq Results \ {t}
  <2> DEFINE S == Results \ {t}
             W == Wins \ {t}
  <2>1. \A c \in Tasks \ {answer} : c \in X <=> Due(c, S, W, X)
    BY LandingFacts
  <2> HIDE DEF S, W, X
  <2>2. \A c \in Tasks \ {answer} : Due(c, S, W, X) <=>
            \/ c = search \/ (request.explicit /\ c = remember)
            \/ c \in N /\ search \in W
            \/ c = distill /\ Pages(X) # {} /\ Pages(X) \subseteq S
    BY SearchFetchMode
  <2> QED
    BY <2>1, <2>2 DEF S, W
<1>2. \A c, Y : Due(c, Results, Wins, Y) <=>
                    \/ c = search \/ (request.explicit /\ c = remember)
                    \/ c \in N /\ search \in Wins
                    \/ c = distill /\ Pages(Y) # {} /\ Pages(Y) \subseteq Results
  BY SearchFetchMode
<1>3. \A Y : AnswerDue(Results, Wins, Y) <=>
                 (search \in Wins /\ found = 0) \/ distill \in Results
  BY SearchFetchAnswer
<1>4. /\ t \in X /\ X \subseteq Tasks /\ Wins \subseteq Results /\ t \in Results /\ Results \subseteq X
      /\ distill \in Results \ {t} => answer \in X
      /\ {search, distill} \subseteq Tasks /\ FetchTasks \subseteq Tasks
      /\ t # remember => answer \notin X
  <2>1. AnswerDue(Results \ {t}, Wins \ {t}, X) => answer \in X
    BY LandingFacts
  <2>2. distill \in Results \ {t} => AnswerDue(Results \ {t}, Wins \ {t}, X)
    BY SearchFetchAnswer
  <2>3. t # remember => answer \notin X
    BY LandingFacts DEF Beside
  <2> QED
    BY <2>1, <2>2, <2>3, LandingFacts, PlannersTasks
<1>5. /\ N \subseteq FetchTasks /\ (found = 0 => N = {}) /\ (found # 0 => N # {})
  <2>1. found \in 0..2
    BY DEF Landing
  <2> QED
    BY <2>1, DiscoveredTasks
<1>6. FetchTasks \cap {answer, distill, remember, search} = {}
  BY DEF FetchTasks
<1>7. \A Y : Y \subseteq {answer, distill, remember, search} \cup FetchTasks =>
                 Pages(Y) = Y \cap FetchTasks
  BY DEF Pages, FetchTasks, SearchTasks
<1>8. X \subseteq {answer, distill, remember, search} \cup FetchTasks /\ Pages(X) = X \cap FetchTasks
  BY <1>1, <1>4, <1>5, <1>7
<1> HIDE DEF X, N
<1>9. t \in FetchTasks \cup {search, distill, remember}
  BY <1>1, <1>4, <1>5
<1>10. CASE t \in FetchTasks
  BY <1>10, PageLands DEF Researches
<1>11. ASSUME t = search
       PROVE  Pages(X) = {} /\ distill \notin X /\ search \in X
  <2>1. Pages(X) = {}
    BY <1>1, <1>4, <1>5, <1>6, <1>8, <1>11
  <2> QED
    BY <1>1, <1>4, <1>11, <2>1
<1>12. CASE t = search /\ ok = TRUE /\ found = 0
  <2>1. PatchFor(t, ok) = AnswerPatch
    BY <1>12, Rules DEF ExpandOver
  <2>2. Expected(Results, Wins, X)
    BY <1>1, <1>2, <1>5, <1>11, <1>12 DEF Expected
  <2>3. X \ {answer, remember} \subseteq Results
    BY <1>4, <1>8, <1>11, <1>12
  <2>4. Sound(AnswerPatch)
    BY <2>2, <2>3, <1>12, LastSound DEF X, Beside
  <2> QED
    BY <2>1, <2>4
<1>13. CASE t = search /\ ok = TRUE /\ found # 0
  <2>1. PatchFor(t, ok) = AddAfter(N, {search})
    BY <1>13, Rules DEF ExpandOver, N
  <2>2. N \cap X = {} /\ N \subseteq Tasks \ {answer} /\ search \in Wins
    BY <1>4, <1>5, <1>6, <1>8, <1>11, <1>13
  <2>3. Pages(X \cup N) = N
    <3>1. X \cup N \subseteq {answer, distill, remember, search} \cup FetchTasks
      BY <1>5, <1>8
    <3>2. Pages(X \cup N) = (X \cup N) \cap FetchTasks
      BY <1>7, <3>1
    <3>3. X \cap FetchTasks = {}
      BY <1>8, <1>11, <1>13
    <3> QED
      BY <1>5, <3>2, <3>3
  <2>4. N # {} /\ ~(N \subseteq Results)
    BY <1>4, <1>5, <1>13, <2>2
  <2>5. Expected(Results, Wins, X \cup N)
    BY <1>1, <1>2, <1>11, <1>13, <2>2, <2>3, <2>4 DEF Expected
  <2>6. ~AnswerDue(Results, Wins, X \cup N)
    BY <1>3, <1>4, <1>11, <1>13
  <2>7. \A q \in {search}, c \in N : Feeds(q, c)
    BY <1>5 DEF Feeds
  <2>8. search \notin {answer, Beside} /\ {search} \subseteq X
    BY <1>11, <1>13 DEF Beside
  <2>9. Sound(AddAfter(N, {search}))
    BY <1>13, <2>2, <2>5, <2>6, <2>7, <2>8, GrowSound DEF X
  <2> QED
    BY <2>1, <2>9
<1>14. CASE t = search /\ ok = FALSE
  <2>1. PatchFor(t, ok) = IF Landed(Existing \ {answer}) THEN AnswerPatch ELSE Nothing
    BY <1>14, Rules
  <2>2. search \notin Wins
    BY <1>14
  <2>3. Expected(Results, Wins, X)
    BY <1>1, <1>2, <1>11, <1>14, <2>2 DEF Expected
  <2>4. AnswerDue(Results, Wins, X) => answer \in X
    BY <1>3, <1>4, <1>11, <1>14, <2>2
  <2>5. Sound(IF Landed(Existing \ {answer}) THEN AnswerPatch ELSE Nothing)
    BY <2>3, <2>4, <1>14, FailureSound DEF X
  <2> QED
    BY <2>1, <2>5
<1>15. CASE t = distill
  <2>1. PatchFor(t, ok) = AnswerPatch
    BY <1>15, Rules
  <2>2. Pages(X) # {} /\ Pages(X) \subseteq Results \ {t} /\ search \in Wins
    <3>1. Pages(X) # {} /\ Pages(X) \subseteq Results \ {t}
      <4>1. distill \in X /\ distill \in Tasks \ {answer} /\ distill \notin N
        BY <1>4, <1>5, <1>6, <1>15
      <4> QED
        BY <1>1, <4>1
    <3>2. PICK q \in X : q \in FetchTasks
      BY <1>8, <3>1
    <3> QED
      BY <1>1, <1>4, <1>6, <3>1, <3>2
  <2>3. Expected(Results, Wins, X)
    BY <1>1, <1>2, <1>15, <2>2 DEF Expected
  <2>4. X \ {answer, remember} \subseteq Results
    BY <1>4, <1>8, <1>15, <2>2
  <2>5. Sound(AnswerPatch)
    BY <2>3, <2>4, <1>15, LastSound DEF X, Beside
  <2> QED
    BY <2>1, <2>5
<1>16. CASE t = remember
  BY <1>16, RememberLands
<1> QED
  BY <1>9, <1>10, <1>12, <1>13, <1>14, <1>15, <1>16

\* Searches whose summary is validated (runtime.py:200-204).
LEMMA StructuredLands ==
    ASSUME NEW t, Landing(t), request.mode = "structured_population", t # answer,
           NEW ok \in BOOLEAN
    PROVE  Sound(PatchFor(t, ok))
<1> USE DEF answer, distill, index_file, list_directory, read_file, recall, remember, reminder,
            search, validate
<1> DEFINE X == Existing
<1>1. \A c \in Tasks \ {answer} : c \in X <=>
          \/ c \in Discovered(SearchTasks) \/ (request.explicit /\ c = remember)
          \/ c = distill /\ Pages(X) # {} /\ Pages(X) \subseteq Results \ {t}
          \/ c = validate /\ distill \in Results \ {t}
  <2> DEFINE S == Results \ {t}
             W == Wins \ {t}
  <2>1. \A c \in Tasks \ {answer} : c \in X <=> Due(c, S, W, X)
    BY LandingFacts
  <2> HIDE DEF S, W, X
  <2>2. \A c \in Tasks \ {answer} : Due(c, S, W, X) <=>
            \/ c \in Discovered(SearchTasks) \/ (request.explicit /\ c = remember)
            \/ c = distill /\ Pages(X) # {} /\ Pages(X) \subseteq S
            \/ c = validate /\ distill \in S
    BY StructuredMode
  <2> QED
    BY <2>1, <2>2 DEF S, W
<1>2. \A c, Y : Due(c, Results, Wins, Y) <=>
                    \/ c \in Discovered(SearchTasks) \/ (request.explicit /\ c = remember)
                    \/ c = distill /\ Pages(Y) # {} /\ Pages(Y) \subseteq Results
                    \/ c = validate /\ distill \in Results
  BY StructuredMode
<1>3. \A Y : AnswerDue(Results, Wins, Y) <=> validate \in Results
  BY StructuredAnswer
<1>4. t \in X /\ X \subseteq Tasks /\ t \in Results /\ Results \subseteq X
      /\ {distill, validate} \subseteq Tasks /\ Discovered(SearchTasks) \subseteq SearchTasks
  BY LandingFacts, PlannersTasks, DiscoveredTasks
<1>5. SearchTasks \cap {distill, validate, answer, remember} = {} /\ X \cap SearchTasks \subseteq Pages(X)
  BY DEF SearchTasks, Pages
<1>6. Pages(X \cup {validate}) = Pages(X)
  BY DEF Pages, FetchTasks, SearchTasks
<1> HIDE DEF X
<1>7. t \in SearchTasks \cup {distill, validate, remember}
  BY <1>1, <1>4
<1>8. CASE t \in SearchTasks
  BY <1>8, PageLands DEF Researches
<1>9. CASE t = distill
  <2>1. PatchFor(t, ok) = AddAfter({validate}, {distill})
    BY <1>9, Rules
  <2>2. validate \notin X /\ Pages(X) # {} /\ Pages(X) \subseteq Results
    BY <1>1, <1>4, <1>5, <1>9
  <2>3. Expected(Results, Wins, X \cup {validate})
    BY <1>1, <1>2, <1>4, <1>6, <1>9, <2>2 DEF Expected
  <2>4. ~AnswerDue(Results, Wins, X \cup {validate})
    BY <1>3, <1>4, <2>2
  <2>5. Feeds(distill, validate) /\ distill \notin {answer, Beside}
    BY DEF Feeds, Beside
  <2>6. Sound(AddAfter({validate}, {distill}))
    BY <1>4, <1>9, <2>2, <2>3, <2>4, <2>5, GrowSound DEF X
  <2> QED
    BY <2>1, <2>6
<1>10. CASE t = validate
  <2>1. PatchFor(t, ok) = AnswerPatch
    BY <1>10, Rules
  <2>2. distill \in Results /\ distill \in X
    BY <1>1, <1>4, <1>5, <1>10
  <2>3. Pages(X) # {} /\ Pages(X) \subseteq Results \ {t}
    BY <1>1, <1>4, <1>5, <2>2
  <2>4. Expected(Results, Wins, X)
    BY <1>1, <1>2, <1>10, <2>2, <2>3 DEF Expected
  <2>5. X \ {answer, remember} \subseteq Results
    BY <1>1, <1>4, <1>5, <1>10, <2>2, <2>3
  <2>6. Sound(AnswerPatch)
    BY <2>4, <2>5, <1>10, LastSound DEF X, Beside
  <2> QED
    BY <2>1, <2>6
<1>11. CASE t = remember
  BY <1>11, RememberLands
<1> QED
  BY <1>7, <1>8, <1>9, <1>10, <1>11

\* Whatever lands, the planner adds what is due then, and no more.
LEMMA OutcomeSound ==
    ASSUME NEW t, Landing(t), t # answer, NEW ok \in BOOLEAN, ok <=> t \in Wins
    PROVE  Sound(PatchFor(t, ok))
<1>1. request.mode \in Modes
  BY DEF Landing, Request
<1> QED
  BY <1>1, MemoryLands, ReadFileLands, IndexDirectoryLands, IndexFileLands, BirthdayLands,
     PagesLands, SearchFetchLands, StructuredLands DEF Modes

\* Before anything is planned, the first frontier is what is due.
LEMMA FirstSound ==
    ASSUME request \in Request, Existing = {}
    PROVE  Sound(FirstPatch)
<1> USE DEF answer, distill, index_file, list_directory, read_file, recall, remember, reminder,
            search, validate
<1>1. Results = {} /\ Wins = {}
  BY DEF Results, Wins, InState, Existing
<1>2. First \subseteq Tasks /\ FirstPatch = AddAfter(First, {})
  BY FirstPatchTyped DEF First, FirstPatch
<1>3. answer \notin First
  BY DEF First, Frontier, Discovered, FirstById, FetchTasks, SearchTasks
<1>4. Expected({}, {}, {} \cup First)
  <2>1. ~(Pages({} \cup First) # {} /\ Pages({} \cup First) \subseteq {})
    OBVIOUS
  <2>2. \A c : Due(c, {}, {}, {} \cup First) <=> c \in First
    BY <2>1 DEF Due
  <2> QED
    BY <2>2 DEF Expected
<1>5. ~AnswerDue({}, {}, {} \cup First)
  BY DEF AnswerDue
<1>6. Shape(Results, Wins, Existing \cup First)
  BY <1>1, <1>3, <1>4, <1>5 DEF Shape, Evidence
<1>7. Sound(AddAfter(First, {}))
  BY <1>2, <1>6, AddSound
<1> QED
  BY <1>2, <1>7

\* Who feeds whom goes one way, whatever the graph.
LEMMA FeedsAcyclic ==
    ASSUME NEW E, \A c \in E : Feeds(c[1], c[2])
    PROVE  ~HasCycle(E)
<1> SUFFICES ASSUME NEW S \in SUBSET {c[1] : c \in E}, S # {},
                    \A t \in S : \E u \in S : <<t, u>> \in E
             PROVE  FALSE
  BY DEF HasCycle
<1> USE DEF answer, distill, index_file, list_directory, read_file, recall, remember, reminder,
            search, validate
<1>1. \A t \in S : \E u \in S : Feeds(t, u)
  OBVIOUS
<1>2. /\ FetchTasks \cap (IndexTasks \cup SearchTasks) = {} /\ IndexTasks \cap SearchTasks = {}
      /\ \A t \in FetchTasks \cup IndexTasks \cup SearchTasks :
             t \notin {answer, distill, index_file, list_directory, read_file, recall, remember,
                       reminder, search, validate}
  BY DEF FetchTasks, IndexTasks, SearchTasks
<1>3. answer \notin S
  BY <1>1, <1>2 DEF Feeds
<1>4. validate \notin S /\ reminder \notin S /\ \A t \in IndexTasks : t \notin S
  BY <1>1, <1>2, <1>3 DEF Feeds
<1>5. distill \notin S
  BY <1>1, <1>2, <1>3, <1>4 DEF Feeds
<1>6. recall \notin S /\ \A t \in FetchTasks : t \notin S
  BY <1>1, <1>2, <1>3, <1>5 DEF Feeds
<1> QED
  BY <1>1, <1>2, <1>3, <1>4, <1>5, <1>6 DEF Feeds

\* The graph so far, as the planner has built it.
Linked ==
    /\ edges \subseteq Existing \X Existing
    /\ \A c \in edges : Feeds(c[1], c[2]) /\ (c[2] = answer => node[c[1]] = "succeeded")

\* The store takes a patch of the planner.
LEMMA SoundAdmissible ==
    ASSUME run = "open", Linked, NEW p, Sound(p)
    PROVE  Admissible(p)
<1>1. \A c \in p.connect : c[1] \in Existing /\ c[2] \in p.add /\ c[1] # c[2]
  <2>1. p.add \cap Existing = {}
    BY DEF Sound
  <2> QED
    BY <2>1 DEF Sound
<1>2. ~HasCycle(edges \cup p.connect)
  BY FeedsAcyclic DEF Linked, Sound
<1> QED
  BY <1>1, <1>2 DEF Admissible, WellFormed, Sound

\* And the end it asks for.
LEMMA FinishAdmissible ==
    ASSUME run = "open", Linked
    PROVE  Admissible(Finish)
<1>1. ~HasCycle(edges \cup {})
  BY FeedsAcyclic DEF Linked
<1> QED
  BY <1>1, PlainPatches DEF Admissible, WellFormed

-----------------------------------------------------------------------------
(***************************************************************************)
(* The invariant of a request.  What the journal tells is so; what the     *)
(* graph holds is what the answered outcomes call for; and the answer is   *)
(* under way only after hearing of the fact to remember, or blindly.       *)
(***************************************************************************)
PlannerEvents == {i \in DOMAIN journal : journal[i].kind \in PlannerKinds}

Tells(i) ==
    \/ i = 1 /\ journal[i].kind = "run_started"
    \/ \E t \in Tasks :
        /\ journal[i].tasks = {t}
        /\ \/ journal[i].kind = "task_succeeded" /\ node[t] = "succeeded"
           \/ journal[i].kind = "task_failed" /\ node[t] = "failed"

\* What a call is about to plan is an event, of a run that is open.
Asks(e) ==
    /\ queue[e] \subseteq PlannerEvents
    /\ pc[e] \in {"replan", "plan"} => current[e] \in PlannerEvents /\ run = "open"
    /\ pc[e] # "new" => run # "absent"

EventsInv ==
    /\ \A i \in PlannerEvents : Tells(i)
    /\ DOMAIN patches \subseteq DOMAIN journal
    /\ \A e \in Executors : Asks(e)

\* The outcomes, and the start of the run, that no patch has answered.
Owed      == {t \in Tasks : \E i \in PendingPlannerEvents : journal[i].tasks = {t}}
StartOwed == \E i \in PendingPlannerEvents : journal[i].kind = "run_started"

Planned == IF StartOwed THEN Existing = {}
           ELSE Shape(Results \ Owed, Wins \ Owed, Existing)

Heard ==
    node[answer] \in {"running", "succeeded", "failed"} /\ request.explicit =>
        blind \/ node[remember] \in {"succeeded", "failed"}

PlanInv ==
    /\ node \in [Tasks -> {"absent", "pending", "running", "succeeded", "failed"}]
    /\ Planned /\ Linked /\ Heard

RunInv ==
    /\ EventsInv
    /\ run = "open" => PlanInv
    /\ run = "absent" => edges = {}
    /\ FactLostOnlyToHaste

\* What the planner proposes for the one event it has not answered.
LEMMA ProposalSound ==
    ASSUME Ground, RunInv, NEW e \in Executors, pc[e] \in {"replan", "plan"},
           ~AlreadyPatched(current[e])
    PROVE  /\ run = "open" /\ PlanInv /\ PendingPlannerEvents = {current[e]}
           /\ \/ Sound(Proposal(e))
              \/ Proposal(e) = Finish /\ node[answer] \in {"succeeded", "failed"}
<1> DEFINE i == current[e]
<1>1. run = "open" /\ PlanInv /\ i \in PlannerEvents /\ Tells(i)
  BY DEF RunInv, EventsInv, Asks
<1>2. PendingPlannerEvents = {i}
  <2>1. i \in PendingPlannerEvents
    BY <1>1 DEF PendingPlannerEvents, PlannerEvents, AlreadyPatched
  <2> QED
    BY <2>1 DEF Ground, AloneInv, AtMostOne
<1>3. request \in Request /\ found \in 0..2
  BY RequestsAssumption, FindsAssumption DEF Ground, PlannerTypeOK
<1>4. CASE journal[i].kind = "run_started"
  <2>1. Existing = {}
    BY <1>1, <1>2, <1>4 DEF PlanInv, Planned, StartOwed
  <2>2. Proposal(e) = FirstPatch
    BY <1>4 DEF Proposal
  <2> QED
    BY <1>1, <1>2, <1>3, <2>1, <2>2, FirstSound
<1>5. CASE journal[i].kind # "run_started"
  <2>1. PICK t \in Tasks :
            /\ journal[i].tasks = {t}
            /\ \/ journal[i].kind = "task_succeeded" /\ node[t] = "succeeded"
               \/ journal[i].kind = "task_failed" /\ node[t] = "failed"
    BY <1>1, <1>5 DEF Tells
  <2>2. Owed = {t} /\ ~StartOwed
    BY <1>2, <1>5, <2>1 DEF Owed, StartOwed
  <2>3. Landing(t)
    BY <1>1, <1>3, <2>1, <2>2 DEF Landing, PlanInv, Planned, Results
  <2> DEFINE ok == journal[i].kind = "task_succeeded"
  <2>4. Proposal(e) = PatchFor(t, ok)
    <3>1. (CHOOSE u \in journal[i].tasks : TRUE) = t
      BY <2>1
    <3> QED
      BY <1>5, <3>1 DEF Proposal
  <2>5. ok \in BOOLEAN /\ (ok <=> t \in Wins)
    BY <2>1 DEF Wins, InState
  <2> HIDE DEF ok
  <2>6. CASE t = answer
    BY <1>1, <1>2, <2>1, <2>4, <2>5, <2>6, Rules
  <2>7. CASE t # answer
    BY <1>1, <1>2, <2>3, <2>4, <2>5, <2>7, OutcomeSound
  <2> QED
    BY <2>6, <2>7
<1> QED
  BY <1>4, <1>5

\* The store never refuses it.
LEMMA ProposalTaken ==
    ASSUME Ground, RunInv
    PROVE  NeverRefused
<1> SUFFICES ASSUME NEW e \in Executors, pc[e] \in {"replan", "plan"},
                    ~AlreadyPatched(current[e])
             PROVE  Admissible(Proposal(e))
  BY DEF NeverRefused, Refused
<1> QED
  BY ProposalSound, SoundAdmissible, FinishAdmissible DEF PlanInv

-----------------------------------------------------------------------------
(* Each step keeps the invariant: first, what the journal tells. *)

\* A new entry of the journal leaves the others as they are.
LEMMA EntryEvents ==
    ASSUME StoreTypeOK, NEW kind, NEW tasks, NEW trigger, Log(kind, tasks, trigger)
    PROVE  /\ Len(journal') \notin DOMAIN journal
           /\ DOMAIN journal' = DOMAIN journal \cup {Len(journal')}
           /\ \A i \in DOMAIN journal : journal'[i] = journal[i]
           /\ journal'[Len(journal')] = [kind |-> kind, tasks |-> tasks, trigger |-> trigger]
           /\ PlannerEvents \subseteq PlannerEvents'
           /\ PlannerEvents' \subseteq
                  PlannerEvents \cup (IF kind \in PlannerKinds THEN {Len(journal')} ELSE {})
           /\ kind \in PlannerKinds => Len(journal') \in PlannerEvents'
<1> DEFINE ev == [kind |-> kind, tasks |-> tasks, trigger |-> trigger]
<1>1. /\ Len(journal) \in Nat /\ DOMAIN journal = 1..Len(journal)
      /\ journal' = Append(journal, ev)
  BY LenProperties DEF StoreTypeOK, Log
<1>2. /\ DOMAIN journal' = 1..(Len(journal) + 1) /\ Len(journal') = Len(journal) + 1
      /\ journal'[Len(journal) + 1] = ev
      /\ \A i \in DOMAIN journal : journal'[i] = journal[i]
  BY <1>1
<1>3. ev.kind = kind
  OBVIOUS
<1> HIDE DEF ev
<1>4. /\ Len(journal') \notin DOMAIN journal
      /\ DOMAIN journal' = DOMAIN journal \cup {Len(journal')}
  BY <1>1, <1>2
<1> QED
  BY <1>2, <1>3, <1>4 DEF PlannerEvents, ev

\* What an outcome tells stays so.
LEMMA TellsKept ==
    ASSUME StoreTypeOK, [StoreNext]_storeVars, NEW i, Tells(i), journal'[i] = journal[i]
    PROVE  Tells(i)'
<1>1. \A t \in Tasks : node[t] \in {"succeeded", "failed"} => node'[t] = node[t]
  BY TerminalKept DEF Terminal
<1> QED
  BY <1>1 DEF Tells

\* A call that does not move, while the journal grows, asks what it asked.
LEMMA AsksKept ==
    ASSUME NEW e \in Executors, Asks(e), pc[e] \notin {"replan", "plan"},
           pc'[e] = pc[e], queue'[e] = queue[e], PlannerEvents \subseteq PlannerEvents',
           run # "absent" => run' # "absent"
    PROVE  Asks(e)'
BY DEF Asks

\* An entry the planner does not answer, and whatever it says of the graph.
LEMMA QuietEvents ==
    ASSUME TypeOK, EventsInv, [StoreNext]_storeVars, run # "absent" => run' # "absent",
           NEW kind, NEW tasks, NEW trigger, Log(kind, tasks, trigger), kind \notin PlannerKinds,
           DOMAIN patches' \subseteq DOMAIN journal,
           \A e \in Executors : Asks(e)'
    PROVE  EventsInv'
<1>1. StoreTypeOK
  BY DEF TypeOK
<1>2. /\ DOMAIN journal \subseteq DOMAIN journal' /\ PlannerEvents' \subseteq PlannerEvents
      /\ \A i \in DOMAIN journal : journal'[i] = journal[i]
  BY <1>1, EntryEvents
<1>3. \A i \in PlannerEvents' : Tells(i)'
  <2>1. \A i \in PlannerEvents : Tells(i) /\ journal'[i] = journal[i]
    BY <1>2 DEF EventsInv, PlannerEvents
  <2> QED
    BY <1>1, <1>2, <2>1, TellsKept
<1> QED
  BY <1>2, <1>3 DEF EventsInv

\* A step of calls, workers or process that leaves the store alone, and asks
\* nothing new.
Idle ==
    /\ UNCHANGED <<storeVars, request, found>>
    /\ \A e \in Executors :
        /\ queue'[e] \subseteq queue[e]
        /\ pc'[e] \in {"replan", "plan"} => pc'[e] = pc[e] /\ current'[e] = current[e]
        /\ pc[e] = "new" => pc'[e] = "new"

\* Such a step changes nothing that the journal tells or a call asks.
LEMMA IdleEvents ==
    ASSUME EventsInv, Idle
    PROVE  EventsInv'
<1>1. PlannerEvents' = PlannerEvents /\ UNCHANGED <<run, node, journal, patches>>
  BY DEF Idle, storeVars, PlannerEvents
<1>2. \A i : Tells(i)' <=> Tells(i)
  BY <1>1 DEF Tells
<1>3. \A e \in Executors : Asks(e)'
  BY <1>1 DEF EventsInv, Asks, Idle
<1> QED
  BY <1>1, <1>2, <1>3 DEF EventsInv

\* Then what the graph holds: its shape is about settled tasks, wins and tasks alone.
LEMMA ShapeKept ==
    ASSUME request' = request, found' = found, NEW S, NEW W, NEW X,
           (Results \ Owed)' = S, (Wins \ Owed)' = W, Existing' = X
    PROVE  Shape(Results \ Owed, Wins \ Owed, Existing)' <=> Shape(S, W, X)
BY DEF Shape, Expected, Evidence, Due, AnswerDue, Beside, First, Frontier, Pages, Researches,
       Discovered

\* An entry the planner does not answer, of a step that settles nothing.
LEMMA QuietOwed ==
    ASSUME StoreTypeOK, NEW kind, NEW tasks, NEW trigger,
           Log(kind, tasks, trigger), kind \notin PlannerKinds, UNCHANGED patches
    PROVE  Owed' = Owed /\ (StartOwed' <=> StartOwed)
<1>1. PendingPlannerEvents' = PendingPlannerEvents
  BY QuietPending
<1>2. \A i \in PendingPlannerEvents : journal'[i] = journal[i]
  BY EntryEvents DEF PendingPlannerEvents
<1> QED
  BY <1>1, <1>2 DEF Owed, StartOwed

\* Planned is about these alone.
LEMMA PlannedKept ==
    ASSUME Planned, request' = request, found' = found, Owed' = Owed, StartOwed' <=> StartOwed,
           Results' = Results, Wins' = Wins, Existing' = Existing
    PROVE  Planned'
<1>1. CASE StartOwed
  BY <1>1 DEF Planned
<1>2. CASE ~StartOwed
  <2>1. Shape(Results \ Owed, Wins \ Owed, Existing)
    BY <1>2 DEF Planned
  <2>2. Shape(Results \ Owed, Wins \ Owed, Existing)'
    BY <2>1, ShapeKept
  <2> QED
    BY <1>2, <2>2 DEF Planned
<1> QED
  BY <1>1, <1>2

\* Nothing of the graph changes.
LEMMA PlanKept ==
    ASSUME PlanInv, UNCHANGED <<storeVars, request, found, blind>>
    PROVE  PlanInv'
<1>1. UNCHANGED <<node, edges, journal, patches>>
  BY DEF storeVars
<1>2. /\ Results' = Results /\ Wins' = Wins /\ Existing' = Existing
      /\ PendingPlannerEvents' = PendingPlannerEvents
  BY <1>1 DEF Results, Wins, InState, Existing, PendingPlannerEvents
<1>3. Owed' = Owed /\ (StartOwed' <=> StartOwed)
  BY <1>1, <1>2 DEF Owed, StartOwed
<1>4. Planned'
  BY <1>2, <1>3, PlannedKept DEF PlanInv
<1> QED
  BY <1>1, <1>2, <1>4 DEF PlanInv, Linked, Heard

\* An idle step keeps the invariant.
LEMMA IdleStep ==
    ASSUME RunInv, Idle, blind' = blind
    PROVE  RunInv'
<1>1. UNCHANGED <<run, node, edges>> /\ UNCHANGED <<storeVars, request, found, blind>>
  BY DEF Idle, storeVars
<1>2. EventsInv'
  BY IdleEvents DEF RunInv
<1>3. run' = "open" => PlanInv'
  BY <1>1, PlanKept DEF RunInv
<1> QED
  BY <1>1, <1>2, <1>3 DEF RunInv, FactLostOnlyToHaste

\* An event of the replay queue is asked about next.
LEMMA ReplayStep ==
    ASSUME Ground, RunInv, NEW e \in Executors, NEW i \in queue[e], ReplayNext(e, i),
           UNCHANGED <<request, found, blind>>
    PROVE  RunInv'
<1>1. /\ UNCHANGED <<storeVars, request, found, blind>> /\ UNCHANGED <<run, node, edges, journal, patches>>
      /\ pc[e] = "replay" /\ run # "finished"
  BY DEF ReplayNext, storeVars
<1>2. PlannerEvents' = PlannerEvents /\ \A k : Tells(k)' <=> Tells(k)
  BY <1>1 DEF PlannerEvents, Tells
<1>3. ASSUME NEW f \in Executors
      PROVE  Asks(f)'
  <2>1. Asks(f) /\ run \in {"absent", "open", "finished"}
    BY DEF RunInv, EventsInv, Ground, PlannerTypeOK, TypeOK, StoreTypeOK
  <2>2. CASE f = e
    <3>1. i \in PlannerEvents /\ run = "open"
      BY <1>1, <2>1, <2>2 DEF Asks
    <3>2. queue'[e] \subseteq queue[e] /\ current'[e] = i /\ pc'[e] = "replan"
      BY DEF ReplayNext, Goto, Ground, PlannerTypeOK, TypeOK
    <3> QED
      BY <1>1, <1>2, <2>1, <2>2, <3>1, <3>2 DEF Asks
  <2>3. CASE f # e
    <3>1. queue'[f] = queue[f] /\ current'[f] = current[f] /\ pc'[f] = pc[f]
      BY <2>3 DEF ReplayNext, Goto, Ground, PlannerTypeOK, TypeOK
    <3> QED
      BY <1>1, <1>2, <2>1, <3>1 DEF Asks
  <2> QED
    BY <2>2, <2>3
<1>4. EventsInv'
  BY <1>1, <1>2, <1>3 DEF RunInv, EventsInv
<1>5. run' = "open" => PlanInv'
  BY <1>1, PlanKept DEF RunInv
<1> QED
  BY <1>1, <1>4, <1>5 DEF RunInv, FactLostOnlyToHaste

\* Of calls that follow one another, only the one under way is asking.
LEMMA OthersIdle ==
    ASSUME AloneInv, NEW e \in Executors, NEW f \in Executors, f # e,
           e \in Active \/ Active = {}
    PROVE  pc[f] \notin {"replan", "plan"}
BY DEF AloneInv, AtMostOne, Active, Over

\* The first call of a run: nothing is planned yet but the frontier.
LEMMA FreshStep ==
    ASSUME Ground, RunInv, NEW e \in Executors, NEW l \in Limits, RunFresh(e, l),
           Active = {}, [StoreNext]_storeVars, UNCHANGED <<request, found, blind>>
    PROVE  RunInv'
<1>1. /\ run = "absent" /\ journal = << >> /\ edges = {} /\ run' = "open"
      /\ \A t \in Tasks : node[t] = "absent"
      /\ Log("run_started", {}, 0) /\ UNCHANGED <<node, edges, patches>>
  BY DEF RunFresh, Start, Ground, Blank, RunInv
<1>2. StoreTypeOK /\ TypeOK
  BY DEF Ground, PlannerTypeOK, TypeOK
<1>3. Len(journal') = 1 /\ DOMAIN journal = {}
  BY <1>1, <1>2, LenProperties DEF Log
<1>4. /\ DOMAIN journal' = {1} /\ PlannerEvents' = {1} /\ journal'[1].kind = "run_started"
  <2>1. PlannerEvents = {}
    BY <1>3 DEF PlannerEvents
  <2> QED
    BY <1>1, <1>2, <1>3, <2>1, EntryEvents DEF PlannerKinds
<1>5. DOMAIN patches' = {}
  BY <1>1, <1>3 DEF RunInv, EventsInv
<1>6. ASSUME NEW f \in Executors
      PROVE  Asks(f)'
  <2>1. Asks(f) /\ PlannerEvents \subseteq PlannerEvents'
    BY <1>3 DEF RunInv, EventsInv, PlannerEvents
  <2>2. CASE f = e
    <3>1. queue'[e] = {1} /\ pc'[e] = "replay"
      BY DEF RunFresh, Begin, Goto, Ground, PlannerTypeOK, TypeOK
    <3> QED
      BY <1>1, <1>4, <2>2, <3>1 DEF Asks
  <2>3. CASE f # e
    <3>1. queue'[f] = queue[f] /\ pc'[f] = pc[f]
      BY <2>3 DEF RunFresh, Begin, Goto, Ground, PlannerTypeOK, TypeOK
    <3>2. pc[f] \notin {"replan", "plan"}
      BY <2>3, OthersIdle DEF Ground
    <3> QED
      BY <1>1, <2>1, <3>1, <3>2, AsksKept
  <2> QED
    BY <2>2, <2>3
<1>7. EventsInv'
  <2>1. Tells(1)'
    BY <1>4 DEF Tells
  <2> QED
    BY <1>4, <1>5, <1>6, <2>1 DEF EventsInv
<1>8. PlanInv'
  <2>1. Existing' = {}
    BY <1>1 DEF Existing
  <2>2. StartOwed'
    <3>1. 1 \in PendingPlannerEvents'
      BY <1>4, <1>5 DEF PendingPlannerEvents, PlannerKinds
    <3> QED
      BY <1>4, <3>1 DEF StartOwed
  <2>3. node' \in [Tasks -> {"absent", "pending", "running", "succeeded", "failed"}]
    BY <1>1, <1>2 DEF StoreTypeOK
  <2>4. Heard'
    BY <1>1, PlannersTasks DEF Heard
  <2> QED
    BY <1>1, <2>1, <2>2, <2>3, <2>4 DEF PlanInv, Planned, Linked
<1> QED
  BY <1>1, <1>7, <1>8 DEF RunInv, FactLostOnlyToHaste

\* A resumed call: what ran is to run again, and what is unanswered is asked again.
LEMMA ResumedStep ==
    ASSUME Ground, RunInv, NEW e \in Executors, NEW l \in Limits, RunResumed(e, l),
           Active = {}, [StoreNext]_storeVars, UNCHANGED <<request, found, blind>>
    PROVE  RunInv'
<1>1. /\ run # "absent" /\ node' = NodeAfterResume /\ Log("run_resumed", {}, 0)
      /\ UNCHANGED <<run, edges, patches>>
  BY DEF RunResumed, Resume
<1>2. StoreTypeOK /\ TypeOK
  BY DEF Ground, PlannerTypeOK, TypeOK
<1>3. "run_resumed" \notin PlannerKinds
  BY DEF PlannerKinds
<1>4. PlannerEvents \subseteq PlannerEvents'
  BY <1>1, <1>2, EntryEvents
<1>5. ASSUME NEW f \in Executors
      PROVE  Asks(f)'
  <2>1. Asks(f)
    BY DEF RunInv, EventsInv
  <2>2. CASE f = e
    <3>1. queue'[e] = PendingPlannerEvents /\ pc'[e] = "replay"
      BY DEF RunResumed, Begin, Goto, Ground, PlannerTypeOK, TypeOK
    <3>2. PendingPlannerEvents \subseteq PlannerEvents
      BY DEF PendingPlannerEvents, PlannerEvents
    <3> QED
      BY <1>1, <1>4, <2>2, <3>1, <3>2 DEF Asks
  <2>3. CASE f # e
    <3>1. queue'[f] = queue[f] /\ pc'[f] = pc[f]
      BY <2>3 DEF RunResumed, Begin, Goto, Ground, PlannerTypeOK, TypeOK
    <3>2. pc[f] \notin {"replan", "plan"}
      BY <2>3, OthersIdle DEF Ground
    <3> QED
      BY <1>1, <1>4, <2>1, <3>1, <3>2, AsksKept
  <2> QED
    BY <2>2, <2>3
<1>6. EventsInv'
  <2>1. DOMAIN patches' \subseteq DOMAIN journal
    BY <1>1 DEF RunInv, EventsInv
  <2> QED
    BY <1>1, <1>2, <1>3, <1>5, <2>1, QuietEvents DEF RunInv
<1>7. \A t \in Tasks : node'[t] = IF node[t] = "running" THEN "pending" ELSE node[t]
  BY <1>1 DEF NodeAfterResume
<1>8. ASSUME run = "open"
      PROVE  PlanInv'
  <2>1. PlanInv
    BY <1>8 DEF RunInv
  <2>2. Results' = Results /\ Wins' = Wins /\ Existing' = Existing
    BY <1>7 DEF Results, Wins, InState, Existing
  <2>3. Owed' = Owed /\ (StartOwed' <=> StartOwed)
    BY <1>1, <1>2, <1>3, QuietOwed
  <2>4. Planned'
    BY <2>1, <2>2, <2>3, PlannedKept DEF PlanInv
  <2>5. node' \in [Tasks -> {"absent", "pending", "running", "succeeded", "failed"}]
    BY <1>1, <2>1 DEF NodeAfterResume, PlanInv
  <2>6. Linked'
    <3>1. \A q \in Existing : node[q] = "succeeded" => node'[q] = "succeeded"
      BY <1>7 DEF Existing
    <3> QED
      BY <1>1, <2>1, <2>2, <3>1 DEF PlanInv, Linked
  <2>7. Heard'
    BY <1>7, <2>1, PlannersTasks DEF PlanInv, Heard
  <2> QED
    BY <2>4, <2>5, <2>6, <2>7 DEF PlanInv
<1>9. FactLostOnlyToHaste'
  <2>1. node'[remember] = "cancelled" => node[remember] = "cancelled"
    BY <1>7, PlannersTasks
  <2> QED
    BY <1>1, <2>1 DEF RunInv, FactLostOnlyToHaste
<1> QED
  BY <1>1, <1>6, <1>8, <1>9 DEF RunInv

\* Ready tasks start; the answer hears of the fact to remember, or is blind.
LEMMA LaunchedStep ==
    ASSUME Ground, RunInv, NEW e \in Executors, LaunchStep(e), [StoreNext]_storeVars
    PROVE  RunInv'
<1>1. /\ Fill(e) /\ UNCHANGED <<request, found>>
      /\ answer \notin Launch(e) => blind' = blind
      /\ answer \in Launch(e) => blind' = (node'[remember] \in {"pending", "running"})
  BY DEF LaunchStep
<1>2. StoreTypeOK /\ TypeOK
  BY DEF Ground, PlannerTypeOK, TypeOK
<1>3. ASSUME NEW f \in Executors
      PROVE  /\ queue'[f] = queue[f] /\ (pc'[f] \notin {"replan", "plan"} \/ pc'[f] = pc[f])
             /\ current'[f] = current[f] /\ (pc[f] = "new" => pc'[f] = "new")
             /\ f = e => pc[f] = "fill" /\ pc'[f] \in {"returned", "wait"}
             /\ f # e => pc'[f] = pc[f] /\ pc[f] \notin {"replan", "plan"}
  <2>1. pc[e] = "fill" /\ e \in Active
    BY <1>1 DEF Fill, Active, Over
  <2>2. f # e => pc[f] \notin {"replan", "plan"}
    BY <2>1, OthersIdle DEF Ground
  <2> QED
    BY <1>1, <1>2, <2>1, <2>2 DEF Fill, Goto, TypeOK
<1>4. CASE Launch(e) = {}
  <2>1. Idle /\ blind' = blind
    <3>1. UNCHANGED storeVars /\ UNCHANGED queue /\ UNCHANGED current
      BY <1>1, <1>4 DEF Fill
    <3> QED
      BY <1>1, <1>3, <1>4, <3>1 DEF Idle
  <2> QED
    BY <2>1, IdleStep
<1>5. CASE Launch(e) # {}
  <2>1. /\ MarkRunning(Launch(e)) /\ Launch(e) \subseteq InState("pending") /\ run # "finished"
        /\ Log("task_started", Launch(e), 0) /\ UNCHANGED <<run, edges, patches>>
    BY <1>1, <1>5 DEF Fill, MarkRunning, Launch, FirstById, ReadyTasks
  <2>2. run = "open"
    <3>1. run # "absent"
      BY <1>3 DEF RunInv, EventsInv, Asks
    <3> QED
      BY <1>2, <2>1, <3>1 DEF StoreTypeOK
  <2>3. PlanInv
    BY <2>2 DEF RunInv
  <2>4. \A t \in Tasks : node'[t] = IF t \in Launch(e) THEN "running" ELSE node[t]
    BY <2>1 DEF MarkRunning, InState
  <2>5. \A t \in Launch(e) : t \in Tasks /\ node[t] = "pending"
    BY <2>1 DEF InState
  <2>6. "task_started" \notin PlannerKinds
    BY DEF PlannerKinds
  <2>7. ASSUME NEW f \in Executors
        PROVE  Asks(f)'
    <3>1. Asks(f) /\ PlannerEvents \subseteq PlannerEvents'
      BY <1>2, <2>1, EntryEvents DEF RunInv, EventsInv
    <3>2. queue'[f] = queue[f]
      BY <1>1 DEF Fill
    <3> QED
      BY <1>3, <2>1, <2>2, <3>1, <3>2 DEF Asks
  <2>8. EventsInv'
    <3>1. DOMAIN patches' \subseteq DOMAIN journal
      BY <2>1 DEF RunInv, EventsInv
    <3> QED
      BY <1>2, <2>1, <2>2, <2>6, <2>7, <3>1, QuietEvents DEF RunInv
  <2>9. Results' = Results /\ Wins' = Wins /\ Existing' = Existing
    BY <2>4, <2>5 DEF Results, Wins, InState, Existing
  <2>10. Owed' = Owed /\ (StartOwed' <=> StartOwed)
    BY <1>2, <2>1, <2>6, QuietOwed
  <2>11. Planned'
    BY <1>1, <2>3, <2>9, <2>10, PlannedKept DEF PlanInv
  <2>12. node' \in [Tasks -> {"absent", "pending", "running", "succeeded", "failed"}]
    BY <2>1, <2>3 DEF MarkRunning, PlanInv
  <2>13. Linked'
    <3>1. \A q \in Existing : node[q] = "succeeded" => node'[q] = "succeeded"
      BY <2>4, <2>5 DEF Existing
    <3> QED
      BY <2>1, <2>3, <2>9, <3>1 DEF PlanInv, Linked
  <2>14. Heard'
    <3>1. answer \in Tasks /\ remember \in Tasks /\ answer # remember
      BY PlannersTasks DEF answer, remember
    <3>2. CASE answer \in Launch(e)
      <4>1. answer \in Existing
        BY <2>5, <3>1, <3>2 DEF Existing
      <4>2. request.explicit => remember \in Existing
        <5>1. Expected(Results \ Owed, Wins \ Owed, Existing)
          BY <2>3, <4>1 DEF PlanInv, Planned, Shape
        <5> QED
          BY <3>1, <5>1 DEF Expected, Due, First
      <4>3. request.explicit => node'[remember] \in {"pending", "running", "succeeded", "failed"}
        BY <2>3, <2>4, <3>1, <4>2 DEF PlanInv, Existing
      <4> QED
        BY <1>1, <3>2, <4>3 DEF Heard
    <3>3. CASE answer \notin Launch(e)
      <4>1. node'[answer] = node[answer] /\ blind' = blind
        BY <1>1, <2>4, <3>1, <3>3
      <4>2. node[remember] \in {"succeeded", "failed"} => node'[remember] = node[remember]
        BY <2>4, <2>5, <3>1
      <4> QED
        BY <1>1, <2>3, <4>1, <4>2 DEF PlanInv, Heard
    <3> QED
      BY <3>2, <3>3
  <2>15. FactLostOnlyToHaste'
    BY <2>1 DEF FactLostOnlyToHaste
  <2> QED
    BY <2>1, <2>2, <2>8, <2>11, <2>12, <2>13, <2>14, <2>15 DEF RunInv, PlanInv
<1> QED
  BY <1>4, <1>5

\* An outcome is recorded: the only one unanswered, and nothing else is new.
LEMMA RecordedStep ==
    ASSUME Ground, RunInv, NEW e \in Executors, NEW t \in todo[e], Record(e, t),
           [StoreNext]_storeVars, UNCHANGED <<request, found, blind>>
    PROVE  RunInv'
<1>0. PICK n : n = Len(journal')
  OBVIOUS
<1>1. StoreTypeOK /\ TypeOK
  BY DEF Ground, PlannerTypeOK, TypeOK
<1>2. PICK ok \in BOOLEAN : RecordOutcome(t, ok)
  BY DEF Record
<1> DEFINE kind == IF ok THEN "task_succeeded" ELSE "task_failed"
<1>3. /\ t \in Tasks /\ node[t] = "running" /\ pc[e] = "drain" /\ e \in Active
      /\ Log(kind, {t}, 0) /\ UNCHANGED <<run, edges, patches>>
      /\ node' = [node EXCEPT ![t] = IF ok THEN "succeeded" ELSE "failed"]
  BY <1>1, <1>2 DEF Record, Pop, RecordOutcome, CanRecord, Active, Over, TypeOK
<1>4. run = "open"
  <2>1. run # "finished"
    BY <1>3 DEF Ground, FinishedIsQuiescent, Live
  <2>2. run # "absent"
    BY <1>3 DEF RunInv, EventsInv, Asks
  <2> QED
    BY <1>1, <2>1, <2>2 DEF StoreTypeOK
<1>5. PlanInv
  BY <1>4 DEF RunInv
<1>6. PendingPlannerEvents = {}
  BY <1>3, <1>4 DEF Ground, AloneInv, Unplanned
<1>7. kind \in PlannerKinds
  BY DEF PlannerKinds
<1>8. /\ n \notin DOMAIN journal /\ DOMAIN journal' = DOMAIN journal \cup {n}
      /\ \A i \in DOMAIN journal : journal'[i] = journal[i]
      /\ journal'[n] = [kind |-> kind, tasks |-> {t}, trigger |-> 0]
      /\ PlannerEvents \subseteq PlannerEvents' /\ PlannerEvents' \subseteq PlannerEvents \cup {n}
      /\ n \in PlannerEvents'
  <2> HIDE DEF kind
  <2> QED
    BY <1>0, <1>1, <1>3, <1>7, EntryEvents
<1>9. journal'[n].kind = kind /\ journal'[n].tasks = {t}
  <2> HIDE DEF kind
  <2> QED
    BY <1>8
<1>10. PendingPlannerEvents' = {n}
  <2>1. PendingPlannerEvents' \subseteq {n}
    <3> HIDE DEF kind
    <3> QED
      BY <1>0, <1>1, <1>3, <1>6, PlannerEntryPends
  <2>2. n \notin DOMAIN patches'
    BY <1>3, <1>8 DEF RunInv, EventsInv
  <2>3. n \in PendingPlannerEvents'
    BY <1>8, <2>2 DEF PendingPlannerEvents, PlannerEvents
  <2> QED
    BY <2>1, <2>3
<1>11. /\ node'[t] = IF ok THEN "succeeded" ELSE "failed"
       /\ \A u \in Tasks : u # t => node'[u] = node[u]
  BY <1>1, <1>3 DEF StoreTypeOK
<1>12. ASSUME NEW f \in Executors
       PROVE  Asks(f)'
  <2>1. Asks(f)
    BY DEF RunInv, EventsInv
  <2>2. queue'[f] = queue[f]
    BY DEF Record
  <2>3. CASE f = e
    <3>1. pc'[e] = "plan" /\ current'[e] = n
      BY <1>0, <1>1, <1>4 DEF Record, Goto, TypeOK
    <3> QED
      BY <1>3, <1>4, <1>8, <2>1, <2>2, <2>3, <3>1 DEF Asks
  <2>4. CASE f # e
    <3>1. pc'[f] = pc[f] /\ pc[f] \notin {"replan", "plan"}
      BY <1>1, <1>3, <2>4, OthersIdle DEF Record, Goto, TypeOK, Ground
    <3> QED
      BY <1>3, <1>8, <2>1, <2>2, <3>1, AsksKept
  <2> QED
    BY <2>3, <2>4
<1>13. EventsInv'
  <2>1. Tells(n)'
    <3>1. \/ kind = "task_succeeded" /\ node'[t] = "succeeded"
          \/ kind = "task_failed" /\ node'[t] = "failed"
      BY <1>11
    <3> HIDE DEF kind
    <3>2. \/ journal'[n].kind = "task_succeeded" /\ node'[t] = "succeeded"
          \/ journal'[n].kind = "task_failed" /\ node'[t] = "failed"
      BY <1>9, <3>1
    <3> QED
      BY <1>3, <1>9, <3>2 DEF Tells
  <2>2. \A i \in PlannerEvents : Tells(i) /\ journal'[i] = journal[i]
    BY <1>8 DEF RunInv, EventsInv, PlannerEvents
  <2>3. ASSUME NEW i \in PlannerEvents'
        PROVE  Tells(i)'
    <3> HIDE DEF kind
    <3>1. CASE i \in PlannerEvents
      BY <1>1, <2>2, <3>1, TellsKept
    <3>2. CASE i = n
      BY <2>1, <3>2
    <3> QED
      BY <1>8, <3>1, <3>2
  <2>4. DOMAIN patches' \subseteq DOMAIN journal'
    BY <1>3, <1>8 DEF RunInv, EventsInv
  <2> QED
    BY <1>12, <2>3, <2>4 DEF EventsInv
<1>14. PlanInv'
  <2>1. Owed' = {t} /\ ~StartOwed' /\ Owed = {} /\ ~StartOwed
    BY <1>3, <1>6, <1>9, <1>10 DEF Owed, StartOwed
  <2>2. (Results \ Owed)' = Results /\ (Wins \ Owed)' = Wins /\ Existing' = Existing
    BY <1>3, <1>11, <2>1 DEF Results, Wins, InState, Existing
  <2>3. Shape(Results, Wins, Existing)
    <3>1. Results \ Owed = Results /\ Wins \ Owed = Wins
      BY <2>1
    <3> QED
      BY <1>5, <2>1, <3>1 DEF PlanInv, Planned
  <2>4. Planned'
    <3>1. Shape(Results \ Owed, Wins \ Owed, Existing)'
      BY <2>2, <2>3, ShapeKept
    <3> QED
      BY <2>1, <3>1 DEF Planned
  <2>5. node' \in [Tasks -> {"absent", "pending", "running", "succeeded", "failed"}]
    BY <1>3, <1>5 DEF PlanInv
  <2>6. Linked'
    <3>1. \A q \in Existing : node[q] = "succeeded" => node'[q] = "succeeded"
      BY <1>3, <1>11 DEF Existing
    <3> QED
      BY <1>3, <1>5, <2>2, <3>1 DEF PlanInv, Linked
  <2>7. Heard'
    <3>1. answer \in Tasks /\ remember \in Tasks
      BY PlannersTasks
    <3>2. node'[answer] \in {"running", "succeeded", "failed"}
              => node[answer] \in {"running", "succeeded", "failed"}
      BY <1>3, <1>11, <3>1
    <3>3. node[remember] \in {"succeeded", "failed"} => node'[remember] = node[remember]
      BY <1>3, <1>11, <3>1
    <3> QED
      BY <1>5, <3>2, <3>3 DEF PlanInv, Heard
  <2> QED
    BY <2>4, <2>5, <2>6, <2>7 DEF PlanInv
<1> QED
  BY <1>3, <1>4, <1>13, <1>14 DEF RunInv, FactLostOnlyToHaste

\* What a committed patch of what is due leaves behind.
LEMMA SoundCommits ==
    ASSUME StoreTypeOK, NEW p \in Patch, NEW i, Sound(p), ApplyPatch(p, i)
    PROVE  /\ \A t \in Tasks : node'[t] = IF t \in p.add THEN "pending" ELSE node[t]
           /\ run' = run /\ edges' = edges \cup p.connect
           /\ Results' = Results /\ Wins' = Wins /\ Existing' = Existing \cup p.add
<1>1. /\ p.cancel = {} /\ p.wait = {} /\ p.resume = {} /\ p.finish = FALSE
      /\ p.add \subseteq Tasks /\ p.add \cap Existing = {}
  BY DEF Sound
<1>2. node' = NodeAfter(p) /\ edges' = edges \cup p.connect /\ run' = run
  BY <1>1 DEF ApplyPatch
<1>3. \A t \in Tasks : node'[t] = IF t \in p.add THEN "pending" ELSE node[t]
  BY <1>1, <1>2 DEF NodeAfter, Leftovers, Written
<1>4. \A t \in Tasks : t \in p.add => node[t] = "absent"
  BY <1>1 DEF Existing
<1> QED
  BY <1>1, <1>2, <1>3, <1>4 DEF Results, Wins, InState, Existing

\* The planner has answered: what is due is in the graph, or the run is over.
LEMMA CommittedStep ==
    ASSUME Ground, RunInv, NEW e \in Executors, pc[e] \in {"replan", "plan"},
           Proposal(e) \in Patch, Commits(Proposal(e), current[e]),
           pc'[e] \in {"replay", "returned", "drain"},
           \A f \in Executors \ {e} : pc'[f] = pc[f],
           UNCHANGED <<queue, current, request, found, blind>>, [StoreNext]_storeVars
    PROVE  RunInv'
<1>1. StoreTypeOK /\ TypeOK
  BY DEF Ground, PlannerTypeOK, TypeOK
<1>2. \A f \in Executors : pc'[f] \notin {"replan", "plan"} /\ (pc[f] = "new" => pc'[f] = "new")
  <2>1. e \in Active
    BY DEF Active, Over
  <2>2. \A f \in Executors \ {e} : pc[f] \notin {"replan", "plan"}
    BY <2>1, OthersIdle DEF Ground
  <2> QED
    BY <2>2
<1>3. CASE AlreadyPatched(current[e]) /\ UNCHANGED storeVars
  <2>1. Idle
    BY <1>2, <1>3 DEF Idle
  <2> QED
    BY <2>1, IdleStep
<1>4. CASE ApplyPatch(Proposal(e), current[e])
  <2> DEFINE p == Proposal(e)
             i == current[e]
  <2>1. /\ run = "open" /\ PlanInv /\ PendingPlannerEvents = {i}
        /\ \/ Sound(p)
           \/ p = Finish /\ node[answer] \in {"succeeded", "failed"}
    BY <1>4, ProposalSound DEF ApplyPatch
  <2>2. i \in DOMAIN journal /\ DOMAIN patches' = DOMAIN patches \cup {i}
    BY <1>4, <2>1 DEF ApplyPatch, PendingPlannerEvents
  <2>3. Log("graph_patched", p.cancel \cup Leftovers(p), i) /\ "graph_patched" \notin PlannerKinds
    BY <1>4 DEF ApplyPatch, PlannerKinds
  <2>4. run' \in {"open", "finished"} /\ run' = IF p.finish THEN "finished" ELSE "open"
    BY <1>4, <2>1 DEF ApplyPatch
  <2>5. EventsInv'
    <3>1. PlannerEvents \subseteq PlannerEvents'
      BY <1>1, <2>3, EntryEvents
    <3>2. \A f \in Executors : Asks(f)'
      BY <1>2, <2>4, <3>1 DEF RunInv, EventsInv, Asks
    <3>3. DOMAIN patches' \subseteq DOMAIN journal
      BY <2>2 DEF RunInv, EventsInv
    <3> QED
      BY <1>1, <2>3, <2>4, <3>2, <3>3, QuietEvents DEF RunInv
  <2>6. CASE Sound(p)
    <3> HIDE DEF p
    <3>1. /\ \A t \in Tasks : node'[t] = IF t \in p.add THEN "pending" ELSE node[t]
          /\ run' = "open" /\ edges' = edges \cup p.connect
          /\ Results' = Results /\ Wins' = Wins /\ Existing' = Existing \cup p.add
      BY <1>1, <1>4, <2>1, <2>6, SoundCommits DEF p
    <3>2. PendingPlannerEvents' = {}
      BY <1>1, <2>1, CommitAnswers DEF p
    <3>3. Owed' = {} /\ ~StartOwed'
      BY <3>2 DEF Owed, StartOwed
    <3>4. p.add \subseteq Tasks /\ p.add \cap Existing = {}
      BY <2>6 DEF Sound
    <3>5. Planned'
      <4>1. Shape(Results, Wins, Existing \cup p.add)
        BY <2>6 DEF Sound
      <4>2. (Results \ Owed)' = Results /\ (Wins \ Owed)' = Wins
        BY <3>1, <3>3
      <4>3. Shape(Results \ Owed, Wins \ Owed, Existing)'
        BY <3>1, <4>1, <4>2, ShapeKept
      <4> QED
        BY <3>3, <4>3 DEF Planned
    <3>6. node' \in [Tasks -> {"absent", "pending", "running", "succeeded", "failed"}]
      <4>1. node' = [t \in Tasks |-> node'[t]]
        BY <1>4 DEF ApplyPatch, NodeAfter
      <4>2. \A t \in Tasks : node'[t] \in {"absent", "pending", "running", "succeeded", "failed"}
        BY <2>1, <3>1 DEF PlanInv
      <4> QED
        BY <4>1, <4>2
    <3>7. Linked'
      <4>1. \A q \in Existing : q \in Tasks /\ node'[q] = node[q]
        BY <3>1, <3>4 DEF Existing
      <4>2. ASSUME NEW c \in p.connect
            PROVE  /\ c \in Existing' \X Existing' /\ Feeds(c[1], c[2])
                   /\ c[2] = answer => node'[c[1]] = "succeeded"
        <5>1. c \in Tasks \X Tasks
          BY DEF Patch, p
        <5>2. /\ c[1] \in Existing /\ c[2] \in p.add /\ Feeds(c[1], c[2])
              /\ c[2] = answer => node[c[1]] = "succeeded"
          BY <2>6 DEF Sound
        <5> QED
          BY <3>1, <4>1, <5>1, <5>2
      <4>3. ASSUME NEW c \in edges
            PROVE  /\ c \in Existing' \X Existing' /\ Feeds(c[1], c[2])
                   /\ c[2] = answer => node'[c[1]] = "succeeded"
        <5>1. /\ c \in Existing \X Existing /\ Feeds(c[1], c[2])
              /\ c[2] = answer => node[c[1]] = "succeeded"
          BY <2>1 DEF PlanInv, Linked
        <5> QED
          BY <3>1, <4>1, <5>1
      <4> QED
        BY <3>1, <4>2, <4>3 DEF Linked
    <3>8. Heard'
      <4>1. answer \in Tasks /\ remember \in Tasks
        BY PlannersTasks
      <4>2. node'[answer] \in {"running", "succeeded", "failed"} => node'[answer] = node[answer]
        BY <3>1, <4>1
      <4>3. node[remember] \in {"succeeded", "failed"} => node'[remember] = node[remember]
        BY <3>1, <3>4, <4>1 DEF Existing
      <4> QED
        BY <2>1, <4>2, <4>3 DEF PlanInv, Heard
    <3> QED
      BY <2>5, <3>1, <3>5, <3>6, <3>7, <3>8 DEF RunInv, PlanInv, FactLostOnlyToHaste
  <2>7. CASE p = Finish /\ node[answer] \in {"succeeded", "failed"}
    <3>1. run' = "finished"
      BY <2>4, <2>7, PlainPatches
    <3>2. request.explicit => blind \/ node[remember] \in {"succeeded", "failed"}
      BY <2>1, <2>7 DEF PlanInv, Heard
    <3>3. node[remember] \in {"succeeded", "failed"} => node'[remember] = node[remember]
      BY <1>1, PlannersTasks, TerminalKept DEF Terminal
    <3> QED
      BY <2>5, <3>1, <3>2, <3>3 DEF RunInv, FactLostOnlyToHaste
  <2> QED
    BY <2>1, <2>6, <2>7
<1> QED
  BY <1>3, <1>4 DEF Commits

\* The steps of a call that leave the store alone.
LEMMA CallIdles ==
    ASSUME TypeOK, UNCHANGED <<request, found>>, NEW e \in Executors,
           \/ ReplayEnds(e) \/ Wake(e) \/ EndBatch(e) \/ CallCancelled(e)
           \/ \E t \in todo[e] : Discard(e, t) \/ OutcomeRefused(e, t)
           \/ \E p : PatchRefused(e, p)
    PROVE  Idle
<1>1. UNCHANGED <<storeVars, queue, current>>
  BY DEF ReplayEnds, Wake, EndBatch, CallCancelled, Discard, OutcomeRefused, PatchRefused
<1>2. /\ pc[e] # "new" /\ pc'[e] \notin {"replan", "plan"}
      /\ \A f \in Executors \ {e} : pc'[f] = pc[f]
  BY DEF ReplayEnds, Wake, EndBatch, CallCancelled, Discard, OutcomeRefused, PatchRefused, Pop,
         Raise, Goto, TypeOK
<1> QED
  BY <1>1, <1>2 DEF Idle

\* A call begins only while no other is under way.
LEMMA NoneActive ==
    ASSUME MaxActive <= 1, AloneInv, NEW e \in Executors, NEW l, Begin(e, l)
    PROVE  Active = {}
<1> SUFFICES ASSUME NEW f \in Active
             PROVE  FALSE
  OBVIOUS
<1>1. Active = {f}
  BY DEF AloneInv, AtMostOne
<1>2. Cardinality(Active) = 1
  BY <1>1, FS_Singleton
<1> QED
  BY <1>2, ActiveAssumption DEF Begin

\* And every step of a request.
LEMMA RunInvPreserved ==
    ASSUME MaxActive <= 1, Ground, RunInv, [PlannerNext]_plannerVars
    PROVE  RunInv'
<1>1. TypeOK /\ AloneInv /\ [StoreNext]_storeVars /\ request \in Request
  BY GroundPreserved, RequestsAssumption DEF Ground, PlannerTypeOK
<1>2. ASSUME NEW e \in Executors, Requested(e)
      PROVE  RunInv'
  <2>1. PICK l \in Limits : RunFresh(e, l) \/ RunResumed(e, l)
    BY <1>2 DEF Requested
  <2>2. Active = {}
    BY <1>1, <2>1, NoneActive DEF RunFresh, RunResumed
  <2>3. UNCHANGED <<request, found, blind>>
    BY <1>2 DEF Requested
  <2> QED
    BY <1>1, <2>1, <2>2, <2>3, FreshStep, ResumedStep
<1>3. ASSUME NEW e \in Executors, PlannedStep(e)
      PROVE  RunInv'
  <2>1. PlannerTurn(e, Proposal(e)) /\ UNCHANGED <<request, found, blind>>
    BY <1>3 DEF PlannedStep
  <2>2. Proposal(e) \in Patch
    BY <1>1, PatchForTyped, FirstPatchTyped DEF Proposal
  <2>3. CASE Replan(e, Proposal(e))
    <3>1. /\ pc[e] = "replan" /\ Commits(Proposal(e), current[e]) /\ pc'[e] = "replay"
          /\ \A f \in Executors \ {e} : pc'[f] = pc[f]
          /\ UNCHANGED <<queue, current>>
      BY <1>1, <2>3 DEF Replan, Goto, TypeOK
    <3> QED
      BY <1>1, <2>1, <2>2, <3>1, CommittedStep
  <2>4. CASE Plan(e, Proposal(e))
    <3>1. /\ pc[e] = "plan" /\ Commits(Proposal(e), current[e]) /\ pc'[e] \in {"returned", "drain"}
          /\ \A f \in Executors \ {e} : pc'[f] = pc[f]
          /\ UNCHANGED <<queue, current>>
      BY <1>1, <2>4 DEF Plan, NextInBatch, Goto, TypeOK
    <3> QED
      BY <1>1, <2>1, <2>2, <3>1, CommittedStep
  <2>5. CASE PatchRefused(e, Proposal(e))
    BY <1>1, <2>1, <2>5, CallIdles, IdleStep
  <2> QED
    BY <2>1, <2>3, <2>4, <2>5 DEF PlannerTurn
<1>4. ASSUME NEW e \in Executors, OtherStep(e)
      PROVE  RunInv'
  <2>1. LoopStep(e) /\ UNCHANGED <<request, found, blind>>
    BY <1>4 DEF OtherStep
  <2>2. ASSUME NEW i \in queue[e], ReplayNext(e, i)
        PROVE  RunInv'
    BY <2>1, <2>2, ReplayStep
  <2>3. ASSUME NEW t \in todo[e], Record(e, t)
        PROVE  RunInv'
    BY <1>1, <2>1, <2>3, RecordedStep
  <2>4. CASE \/ ReplayEnds(e) \/ Wake(e) \/ EndBatch(e)
             \/ \E t \in todo[e] : Discard(e, t) \/ OutcomeRefused(e, t)
    BY <1>1, <2>1, <2>4, CallIdles, IdleStep
  <2> QED
    BY <2>1, <2>2, <2>3, <2>4 DEF LoopStep
<1>5. ASSUME NEW e \in Executors, RequestCancelled(e)
      PROVE  RunInv'
  BY <1>1, <1>5, CallIdles, IdleStep DEF RequestCancelled
<1>6. ASSUME UNCHANGED storeVars, UNCHANGED <<queue, current>>, UNCHANGED <<request, found, blind>>,
             \A f \in Executors : pc'[f] = pc[f] \/ (pc[f] # "new" /\ pc'[f] = "crashed")
      PROVE  RunInv'
  <2>1. Idle
    BY <1>6 DEF Idle
  <2> QED
    BY <1>6, <2>1, IdleStep
<1>7. ASSUME NEW e \in Executors, NEW t \in Tasks, SkillEnds(e, t) \/ SkillStops(e, t)
      PROVE  RunInv'
  <2>1. UNCHANGED storeVars /\ UNCHANGED <<queue, current>> /\ pc' = pc
    BY <1>7 DEF SkillEnds, SkillStops, WorkerEnds, WorkerStops, SetFuture
  <2>2. UNCHANGED <<request, found, blind>>
    <3> HIDE DEF WorkerEnds, WorkerStops
    <3>1. CASE SkillEnds(e, t)
      BY <3>1 DEF SkillEnds
    <3>2. CASE SkillStops(e, t)
      BY <3>2 DEF SkillStops
    <3> QED
      BY <1>7, <3>1, <3>2
  <2> QED
    BY <1>6, <2>1, <2>2
<1>8. CASE Crash /\ UNCHANGED <<request, found, blind>>
  <2>1. UNCHANGED storeVars /\ UNCHANGED <<queue, current>>
    BY <1>8 DEF Crash
  <2>2. ASSUME NEW f \in Executors
        PROVE  pc'[f] = pc[f] \/ (pc[f] # "new" /\ pc'[f] = "crashed")
    <3>1. pc'[f] = IF f \in Active THEN "crashed" ELSE pc[f]
      BY <1>8 DEF Crash
    <3> QED
      BY <3>1 DEF Active, Over
  <2> QED
    BY <1>6, <1>8, <2>1, <2>2
<1>9. CASE UNCHANGED plannerVars
  <2>1. /\ UNCHANGED storeVars /\ UNCHANGED <<queue, current>> /\ pc' = pc
        /\ UNCHANGED <<request, found, blind>>
    BY <1>9 DEF plannerVars, vars, execVars
  <2> QED
    BY <1>6, <2>1
<1>10. ASSUME NEW e \in Executors, LaunchStep(e)
       PROVE  RunInv'
  BY <1>1, <1>10, LaunchedStep
<1> QED
  BY <1>2, <1>3, <1>4, <1>5, <1>7, <1>8, <1>9, <1>10 DEF PlannerNext, RuntimeStep

\* Before the first call there is nothing to plan.
LEMMA RunInvInit == PlannerInit => RunInv
<1> SUFFICES ASSUME PlannerInit
             PROVE  RunInv
  OBVIOUS
<1>1. /\ run = "absent" /\ edges = {} /\ DOMAIN journal = {} /\ DOMAIN patches = {}
      /\ \A e \in Executors : pc[e] = "new" /\ queue[e] = {}
  BY DEF PlannerInit, Init, StoreInit
<1>2. EventsInv
  BY <1>1 DEF EventsInv, PlannerEvents, Asks
<1> QED
  BY <1>1, <1>2 DEF RunInv, FactLostOnlyToHaste

\* Together they hold throughout.
THEOREM RunAlways ==
    ASSUME MaxActive <= 1
    PROVE  PlannerSpec => [](Ground /\ RunInv)
<1>1. PlannerInit => Ground /\ RunInv
  BY GroundInit, RunInvInit
<1>2. Ground /\ RunInv /\ [PlannerNext]_plannerVars => (Ground /\ RunInv)'
  BY GroundPreserved, RunInvPreserved
<1> QED
  BY <1>1, <1>2, PTL DEF PlannerSpec

\* For every request, whatever has failed and whenever the process has died, the
\* store never refuses a patch of the deterministic planner (store.py:139-175).
THEOREM PlannerIsNeverRefused ==
    ASSUME MaxActive <= 1
    PROVE  PlannerSpec => []NeverRefused
<1>1. Ground /\ RunInv => NeverRefused
  BY ProposalTaken
<1> QED
  BY <1>1, RunAlways, PTL

\* What the user asked to have remembered is lost only to an answer that was
\* started too early to hear of it (runtime.py:152, 247-252).
THEOREM OnlyHasteLosesTheFact ==
    ASSUME MaxActive <= 1
    PROVE  PlannerSpec => []FactLostOnlyToHaste
<1>1. RunInv => FactLostOnlyToHaste
  BY DEF RunInv
<1> QED
  BY <1>1, RunAlways, PTL

\* Once the answer is planned, all its evidence has landed: nothing that was to
\* discover, retrieve or compose it is still to come (runtime.py:139-213).
THEOREM AnswerHasItsEvidence ==
    ASSUME MaxActive <= 1
    PROVE  PlannerSpec => []EvidenceBeforeAnswer
<1>1. Ground /\ RunInv => EvidenceBeforeAnswer
  <2> SUFFICES ASSUME Ground, RunInv, node[answer] # "absent",
                      NEW t \in Existing, t # answer, t # Beside
               PROVE  node[t] \in Terminal
    BY DEF EvidenceBeforeAnswer, Beside
  <2>1. answer \in Tasks /\ t \in Tasks /\ node[t] # "absent"
    BY PlannersTasks DEF Existing
  <2>2. run \in {"absent", "open", "finished"} /\ node[t] \in NodeState \cup {"absent"}
    BY <2>1 DEF Ground, PlannerTypeOK, TypeOK, StoreTypeOK
  <2>3. CASE run = "open"
    <3>1. answer \in Existing /\ Existing # {}
      BY <2>1 DEF Existing
    <3>2. Shape(Results \ Owed, Wins \ Owed, Existing)
      BY <2>3, <3>1 DEF RunInv, PlanInv, Planned
    <3>3. t \in Results \ Owed
      BY <3>1, <3>2 DEF Shape, Evidence
    <3> QED
      BY <3>3 DEF Results, Terminal
  <2>4. CASE run = "finished"
    BY <2>1, <2>2, <2>4 DEF Ground, FinishedIsQuiescent, NodeState, Live, Terminal
  <2>5. CASE run = "absent"
    BY <2>1, <2>5 DEF Ground, Blank
  <2> QED
    BY <2>2, <2>3, <2>4, <2>5
<1> QED
  BY <1>1, RunAlways, PTL

-----------------------------------------------------------------------------
(***************************************************************************)
(* Stalls.  A call without a limit returns from an open run only when no   *)
(* task is running, ready or unanswered.  Then every pending task has a    *)
(* parent short of success, and who feeds whom goes one way: without a     *)
(* failure nothing is pending at all, and all that has succeeded would     *)
(* have called for the answer, unless there was nothing to compare.        *)
(***************************************************************************)
Stuck ==
    /\ request \in Request /\ found \in 0..2 /\ (request.mode = "fetch" => found > 0)
    /\ node \in [Tasks -> {"absent", "pending", "succeeded", "failed"}]
    /\ Shape(Results, Wins, Existing) /\ Linked /\ ReadyTasks = {}

\* Of a stuck graph the answer is no part, and what is pending awaits a parent.
LEMMA StuckFacts ==
    ASSUME Stuck
    PROVE  /\ answer \notin Existing /\ ~AnswerDue(Results, Wins, Existing)
           /\ Existing \subseteq Tasks /\ Wins \subseteq Results /\ Results \subseteq Existing
           /\ \A c \in Tasks \ {answer} : c \in Existing <=> Due(c, Results, Wins, Existing)
           /\ \A t \in Existing \ Results : \E q \in Existing \ Wins : Feeds(q, t)
           /\ InState("failed") = {} => Wins = Results
<1>1. \A t \in Existing \ Results : node[t] = "pending" /\ t \in Tasks
  BY DEF Stuck, Existing, Results
<1>2. ASSUME NEW t \in Existing \ Results
      PROVE  \E q \in Existing : <<q, t>> \in edges /\ node[q] # "succeeded"
  BY <1>1 DEF Stuck, ReadyTasks, InState
<1>3. ASSUME NEW q, NEW t, <<q, t>> \in edges
      PROVE  Feeds(q, t) /\ (t = answer => node[q] = "succeeded")
  BY <1>3 DEF Stuck, Linked
<1>4. answer \notin Existing
  <2> SUFFICES ASSUME answer \in Existing
               PROVE  FALSE
    OBVIOUS
  <2>1. answer \in Existing \ Results
    BY DEF Stuck, Shape
  <2>2. PICK q \in Existing : <<q, answer>> \in edges /\ node[q] # "succeeded"
    BY <1>2, <2>1
  <2> QED
    BY <1>3, <2>2
<1>5. /\ ~AnswerDue(Results, Wins, Existing)
      /\ \A c \in Tasks \ {answer} : c \in Existing <=> Due(c, Results, Wins, Existing)
  BY <1>4 DEF Stuck, Shape, Expected
<1>6. \A t \in Existing \ Results : \E q \in Existing \ Wins : Feeds(q, t)
  BY <1>2, <1>3 DEF Wins, InState
<1>7. /\ Existing \subseteq Tasks /\ Wins \subseteq Results /\ Results \subseteq Existing
      /\ InState("failed") = {} => Wins = Results
  BY DEF Existing, Results, Wins, InState
<1> QED
  BY <1>4, <1>5, <1>6, <1>7

\* Unless a task has failed, nothing is pending in it.
LEMMA NothingPends ==
    ASSUME Stuck, InState("failed") = {}
    PROVE  Existing = Wins /\ Results = Wins
<1> USE DEF answer, distill, index_file, list_directory, read_file, recall, remember, reminder,
            search, validate
<1> DEFINE P == Existing \ Results
<1>1. answer \notin P /\ \A t \in P : \E q \in P : Feeds(q, t)
  BY StuckFacts
<1>2. Existing = Results \cup P /\ Results = Wins
  BY StuckFacts
<1> HIDE DEF P
<1>3. /\ FetchTasks \cap (IndexTasks \cup SearchTasks) = {} /\ IndexTasks \cap SearchTasks = {}
      /\ \A t \in FetchTasks \cup IndexTasks \cup SearchTasks :
             t \notin {answer, distill, index_file, list_directory, read_file, recall, remember,
                       reminder, search, validate}
  BY DEF FetchTasks, IndexTasks, SearchTasks
<1>4. /\ {index_file, remember, list_directory, search} \cap P = {}
      /\ SearchTasks \cap P = {}
  BY <1>1, <1>3 DEF Feeds
<1>5. recall \notin P /\ reminder \notin P /\ IndexTasks \cap P = {} /\ FetchTasks \cap P = {}
  BY <1>1, <1>3, <1>4 DEF Feeds
<1>6. distill \notin P
  BY <1>1, <1>3, <1>4, <1>5 DEF Feeds
<1>7. P = {}
  BY <1>1, <1>3, <1>4, <1>5, <1>6 DEF Feeds
<1> QED
  BY <1>2, <1>7

\* Then only a reminder of a fact nobody asked to remember is missing, or the
\* cities to compare.
LEMMA OnlyReminderStops ==
    ASSUME Stuck, InState("failed") = {}
    PROVE  \/ request.mode = "birthday_reminder" /\ ~request.explicit
           \/ NothingToCompare
<1> DEFINE X == Existing
<1>1. Results = X /\ Wins = X
  BY NothingPends
<1>2. \A c \in Tasks \ {answer} : c \in X <=> Due(c, X, X, X)
  BY <1>1, StuckFacts
<1>3. ~AnswerDue(X, X, X)
  BY <1>1, StuckFacts
<1>4. {distill, index_file, list_directory, read_file, recall, remember, reminder, search, validate}
          \cup FetchTasks \cup SearchTasks \subseteq Tasks \ {answer}
  BY PlannersTasks DEF answer, distill, index_file, list_directory, read_file, recall, remember,
                       reminder, search, validate, FetchTasks, SearchTasks
<1>5. request.mode \in Modes /\ found \in 0..2 /\ (request.mode = "fetch" => found # 0)
  BY DEF Stuck, Request
<1>16. /\ Discovered(FetchTasks) \subseteq FetchTasks /\ Discovered(SearchTasks) \subseteq SearchTasks
       /\ found # 0 => Discovered(FetchTasks) # {} /\ Discovered(SearchTasks) # {}
  BY <1>5, DiscoveredTasks
<1>6. /\ FetchTasks \cap X # {} => Pages(X) # {}
      /\ SearchTasks \cap X # {} => Pages(X) # {}
      /\ Pages(X) \subseteq X
  BY DEF FetchTasks, SearchTasks, Pages
<1> HIDE DEF X
<1>7. CASE request.mode = "memory"
  <2>1. recall \in X
    BY <1>2, <1>4, <1>7, MemoryMode
  <2> QED
    BY <1>3, <1>7, <2>1, MemoryAnswer
<1>8. CASE request.mode = "read_file"
  <2>1. read_file \in X
    BY <1>2, <1>4, <1>8, ReadFileMode
  <2> QED
    BY <1>3, <1>8, <2>1, ReadFileAnswer
<1>9. CASE request.mode = "index_directory"
  <2>1. list_directory \in X
    BY <1>2, <1>4, <1>9, IndexDirectoryMode
  <2> QED
    BY <1>3, <1>9, <2>1, IndexDirectoryAnswer
<1>10. CASE request.mode = "index_file"
  <2>1. index_file \in X
    BY <1>2, <1>4, <1>10, IndexFileMode
  <2>2. recall \in X
    BY <1>2, <1>4, <1>10, <2>1, IndexFileMode
  <2>3. distill \in X
    BY <1>2, <1>4, <1>10, <2>2, IndexFileMode
  <2> QED
    BY <1>3, <1>10, <2>3, IndexFileAnswer
<1>11. CASE request.mode = "birthday_reminder"
  <2> SUFFICES ASSUME request.explicit
               PROVE  FALSE
    BY <1>11
  <2>1. remember \in X
    BY <1>2, <1>4, <1>11, BirthdayMode
  <2>2. reminder \in X
    BY <1>2, <1>4, <1>11, <2>1, BirthdayMode
  <2> QED
    BY <1>3, <1>11, <2>2, BirthdayAnswer
<1>12. CASE request.mode = "fetch"
  <2>1. Discovered(FetchTasks) \subseteq X
    BY <1>2, <1>4, <1>12, <1>16, FetchMode
  <2>2. Pages(X) # {}
    BY <1>5, <1>6, <1>12, <1>16, <2>1
  <2>3. distill \in X
    BY <1>2, <1>4, <1>6, <1>12, <2>2, FetchMode
  <2> QED
    BY <1>3, <1>12, <2>3, FetchAnswer
<1>13. CASE request.mode = "search_fetch"
  <2>1. search \in X
    BY <1>2, <1>4, <1>13, SearchFetchMode
  <2>2. found # 0
    BY <1>3, <1>13, <2>1, SearchFetchAnswer
  <2>3. Discovered(FetchTasks) \subseteq X
    BY <1>2, <1>4, <1>5, <1>13, <2>1, DiscoveredTasks, SearchFetchMode
  <2>4. Pages(X) # {}
    BY <1>5, <1>6, <2>2, <2>3, DiscoveredTasks
  <2>5. distill \in X
    BY <1>2, <1>4, <1>6, <1>13, <2>4, SearchFetchMode
  <2> QED
    BY <1>3, <1>13, <2>5, SearchFetchAnswer
<1>14. CASE request.mode = "parallel_search"
  <2> SUFFICES ASSUME found # 0
               PROVE  FALSE
    BY <1>14 DEF NothingToCompare
  <2>1. Discovered(SearchTasks) \subseteq X
    BY <1>2, <1>4, <1>14, <1>16, ParallelSearchMode
  <2>2. Pages(X) # {}
    BY <1>6, <1>16, <2>1
  <2>3. distill \in X
    BY <1>2, <1>4, <1>6, <1>14, <2>2, ParallelSearchMode
  <2> QED
    BY <1>3, <1>14, <2>3, ParallelSearchAnswer
<1>15. CASE request.mode = "structured_population"
  <2> SUFFICES ASSUME found # 0
               PROVE  FALSE
    BY <1>15 DEF NothingToCompare
  <2>1. Discovered(SearchTasks) \subseteq X
    BY <1>2, <1>4, <1>15, <1>16, StructuredMode
  <2>2. Pages(X) # {}
    BY <1>6, <1>16, <2>1
  <2>3. distill \in X
    BY <1>2, <1>4, <1>6, <1>15, <2>2, StructuredMode
  <2>4. validate \in X
    BY <1>2, <1>4, <1>15, <2>3, StructuredMode
  <2> QED
    BY <1>3, <1>15, <2>4, StructuredAnswer
<1> QED
  BY <1>5, <1>7, <1>8, <1>9, <1>10, <1>11, <1>12, <1>13, <1>14, <1>15 DEF Modes

\* And some requests find a way on whatever has failed.
LEMMA SteadyGoesOn ==
    ASSUME Stuck
    PROVE  ~Steady
<1> USE DEF answer, distill, index_file, list_directory, read_file, recall, remember, reminder,
            search, validate
<1> SUFFICES ASSUME Steady
             PROVE  FALSE
  OBVIOUS
<1> DEFINE X == Existing
<1>1. {recall, index_file, read_file, list_directory} \subseteq Tasks \ {answer} /\ IndexTasks \subseteq Tasks
  BY PlannersTasks
<1>2. CASE request.mode = "memory"
  <2>1. recall \in X /\ index_file \notin X
    BY <1>1, <1>2, StuckFacts, MemoryMode
  <2>2. recall \notin Results
    BY <1>2, StuckFacts, MemoryAnswer
  <2>3. \A q : Feeds(q, recall) => q = index_file
    BY DEF Feeds, IndexTasks, FetchTasks
  <2> QED
    BY <2>1, <2>2, <2>3, StuckFacts
<1>3. CASE request.mode = "read_file"
  <2>1. read_file \in X
    BY <1>1, <1>3, StuckFacts, ReadFileMode
  <2>2. read_file \notin Results
    BY <1>3, StuckFacts, ReadFileAnswer
  <2>3. \A q : ~Feeds(q, read_file)
    BY DEF Feeds, IndexTasks, FetchTasks
  <2> QED
    BY <2>1, <2>2, <2>3, StuckFacts
<1>4. CASE request.mode = "index_directory" /\ ~request.explicit
  <2>1. list_directory \in X
    BY <1>1, <1>4, StuckFacts, IndexDirectoryMode
  <2>2. list_directory \in Results
    <3>1. \A q : ~Feeds(q, list_directory)
      BY DEF Feeds, IndexTasks, FetchTasks
    <3> QED
      BY <2>1, <3>1, StuckFacts
  <2>3. list_directory \in Wins /\ ~(X \cap IndexTasks \subseteq Results)
    BY <1>4, <2>2, StuckFacts, IndexDirectoryAnswer
  <2>4. PICK t \in IndexTasks : t \in X \ Results
    BY <2>3
  <2>5. \A q : Feeds(q, t) => q = list_directory
    BY DEF Feeds, IndexTasks, FetchTasks
  <2> QED
    BY <2>3, <2>4, <2>5, StuckFacts
<1> QED
  BY <1>2, <1>3, <1>4 DEF Steady

\* A call without a limit that returns from an open run is stuck.
LEMMA ReturnsStuck ==
    ASSUME Ground, RunInv, NEW e \in Executors, Fill(e), limit[e] = Unlimited,
           pc'[e] = "returned", run = "open"
    PROVE  Stuck /\ UNCHANGED storeVars
<1>1. TypeOK /\ PlanInv /\ pc[e] = "fill" /\ e \in Active /\ request \in Request
      /\ found \in 0..2 /\ (request.mode = "fetch" => found > 0)
  BY RequestsAssumption, FindsAssumption DEF Ground, PlannerTypeOK, RunInv, Fill, Active, Over
<1>2. InFlight(e) \cup Launch(e) = {}
  <2>1. pc'[e] = IF InFlight(e) \cup Launch(e) = {} THEN "returned" ELSE "wait"
    BY <1>1 DEF Fill, Goto, TypeOK
  <2> QED
    BY <2>1
<1>3. UNCHANGED storeVars
  BY <1>2 DEF Fill
<1>4. Capacity(e) = MaxWorkers /\ MaxWorkers \in Nat \ {0}
  <2>1. Cardinality(InFlight(e)) = 0
    BY <1>2, FS_EmptySet
  <2>2. Capacity(e) = MaxWorkers - Cardinality(InFlight(e))
    BY DEF Capacity
  <2> QED
    BY <2>1, <2>2, WorkersAssumption
<1>5. ReadyTasks = {}
  <2> SUFFICES ASSUME ReadyTasks # {}
               PROVE  FALSE
    OBVIOUS
  <2>1. ReadyTasks \subseteq Nat
    BY TasksAssumption DEF ReadyTasks, InState
  <2>2. PICK n \in ReadyTasks : \A m \in ReadyTasks : n <= m
    BY <2>1, LeastNumber
  <2>3. {u \in ReadyTasks : u < n} = {}
    <3>1. ASSUME NEW u \in ReadyTasks
          PROVE  ~(u < n)
      <4>1. u \in Nat /\ n \in Nat /\ n <= u
        BY <2>1, <2>2
      <4> QED
        BY <4>1
    <3> QED
      BY <3>1
  <2>4. Cardinality({u \in ReadyTasks : u < n}) = 0
    BY <2>3, FS_EmptySet
  <2>5. n \in FirstById(ReadyTasks, Capacity(e))
    BY <1>4, <2>4 DEF FirstById
  <2> QED
    BY <1>2, <2>5 DEF Launch
<1>6. \A t \in Tasks : node[t] # "running"
  <2>1. \A t \in Tasks : future[e][t] = "none"
    BY <1>2 DEF InFlight
  <2>2. Owned(e)
    BY <1>1 DEF Ground, AloneInv
  <2> QED
    BY <1>1, <2>1, <2>2 DEF Owned
<1>7. node \in [Tasks -> {"absent", "pending", "succeeded", "failed"}]
  BY <1>1, <1>6 DEF PlanInv
<1>8. Shape(Results, Wins, Existing)
  <2>1. PendingPlannerEvents = {}
    BY <1>1 DEF Ground, AloneInv, Unplanned
  <2>2. Owed = {} /\ ~StartOwed
    BY <2>1 DEF Owed, StartOwed
  <2>3. Results \ Owed = Results /\ Wins \ Owed = Wins
    BY <2>2
  <2> QED
    BY <1>1, <2>2, <2>3 DEF PlanInv, Planned
<1> QED
  BY <1>1, <1>3, <1>5, <1>7, <1>8 DEF Stuck, PlanInv

\* What calls without a limit leave behind.
StallsInv ==
    /\ \A e \in Executors : limit[e] = Unlimited
    /\ StallsNeedAFailure

\* No step of a request leaves behind anything else.
LEMMA StallsPreserved ==
    ASSUME MaxActive <= 1, Limits \subseteq {Unlimited}, Ground, RunInv, StallsInv,
           [PlannerNext]_plannerVars
    PROVE  StallsInv'
<1>1. /\ TypeOK /\ StoreTypeOK /\ [AnyStep]_vars /\ [StoreNext]_storeVars
      /\ request' = request /\ found' = found
  BY GroundPreserved, RequestKept DEF Ground, PlannerTypeOK, TypeOK
<1>2. ASSUME NEW e \in Executors
      PROVE  limit'[e] = Unlimited
  <2>1. limit[e] = Unlimited
    BY DEF StallsInv
  <2>2. CASE UNCHANGED vars
    BY <2>1, <2>2 DEF vars, execVars
  <2>3. ASSUME NEW f \in Executors, NEW l \in Limits, RunFresh(f, l) \/ RunResumed(f, l)
        PROVE  limit'[e] = Unlimited
    BY <1>1, <2>1, <2>3 DEF RunFresh, RunResumed, Begin, TypeOK
  <2>4. ASSUME NEW f \in Executors, CallStep(f) \/ CallCancelled(f)
        PROVE  limit' = limit
    BY <2>4 DEF CallStep, LoopStep, PlannerTurn, CallCancelled, ReplayNext, ReplayEnds, Replan,
                Plan, PatchRefused, Fill, Wake, EndBatch, Discard, Record, OutcomeRefused
  <2>5. ASSUME NEW f \in Executors, NEW t \in Tasks, WorkerEnds(f, t) \/ WorkerStops(f, t)
        PROVE  limit' = limit
    BY <2>5 DEF WorkerEnds, WorkerStops, SetFuture
  <2>6. CASE Crash
    BY <2>1, <2>6 DEF Crash
  <2> QED
    BY <1>1, <2>1, <2>2, <2>3, <2>4, <2>5, <2>6 DEF AnyStep
<1>3. ASSUME NEW e \in Executors, pc'[e] = "returned", pc[e] # "returned"
      PROVE  Fill(e)
  <2>1. limit[e] = Unlimited
    BY DEF StallsInv
  <2>2. pc' # pc
    BY <1>3
  <2>3. ASSUME NEW f \in Executors, NEW l \in Limits, RunFresh(f, l) \/ RunResumed(f, l)
        PROVE  FALSE
    BY <1>1, <1>3, <2>3 DEF RunFresh, RunResumed, Begin, Goto, TypeOK
  <2>4. ASSUME NEW f \in Executors, CallStep(f) \/ CallCancelled(f)
        PROVE  Fill(e)
    BY <1>1, <1>3, <2>1, <2>4
       DEF CallStep, LoopStep, PlannerTurn, CallCancelled, ReplayNext, ReplayEnds, Replan, Plan,
           NextInBatch, PatchRefused, Fill, Wake, EndBatch, Discard, Record, OutcomeRefused, Pop,
           Goto, Raise, TypeOK
  <2>5. ASSUME NEW f \in Executors, NEW t \in Tasks, WorkerEnds(f, t) \/ WorkerStops(f, t)
        PROVE  FALSE
    BY <2>2, <2>5 DEF WorkerEnds, WorkerStops, SetFuture
  <2>6. CASE Crash
    <3>1. pc'[e] = IF e \in Active THEN "crashed" ELSE pc[e]
      BY <2>6 DEF Crash
    <3> QED
      BY <1>3, <3>1
  <2> QED
    BY <1>1, <2>2, <2>3, <2>4, <2>5, <2>6 DEF AnyStep, vars, execVars
<1>4. ASSUME NEW e \in Executors, pc'[e] = "returned", run' = "open"
      PROVE  \/ InState("failed")' # {} /\ ~Steady'
             \/ request'.mode = "birthday_reminder" /\ ~request'.explicit
             \/ NothingToCompare'
  <2>1. (Steady' <=> Steady) /\ (NothingToCompare' <=> NothingToCompare)
    BY <1>1 DEF Steady, NothingToCompare
  <2>2. CASE pc[e] = "returned"
    <3>1. run = "open"
      <4>1. run # "absent"
        BY <2>2 DEF RunInv, EventsInv, Asks
      <4>2. run # "finished"
        BY <1>1, <1>4, FinishedIsSealed DEF Ground
      <4> QED
        BY <1>1, <4>1, <4>2 DEF StoreTypeOK
    <3>2. \/ InState("failed") # {} /\ ~Steady
          \/ request.mode = "birthday_reminder" /\ ~request.explicit
          \/ NothingToCompare
      BY <2>2, <3>1 DEF StallsInv, StallsNeedAFailure
    <3>3. InState("failed") \subseteq InState("failed")'
      BY <1>1, TerminalKept DEF InState, Terminal
    <3> QED
      BY <1>1, <2>1, <3>2, <3>3
  <2>3. CASE pc[e] # "returned"
    <3>1. Fill(e)
      BY <1>3, <1>4, <2>3
    <3>2. run = "open" /\ limit[e] = Unlimited
      <4>1. run' = run
        BY <3>1 DEF Fill, MarkRunning, storeVars
      <4> QED
        BY <1>4, <4>1 DEF StallsInv
    <3>3. Stuck /\ UNCHANGED storeVars
      BY <1>4, <3>1, <3>2, ReturnsStuck
    <3>4. InState("failed")' = InState("failed")
      BY <3>3 DEF storeVars, InState
    <3> QED
      BY <1>1, <2>1, <3>3, <3>4, OnlyReminderStops, SteadyGoesOn
  <2> QED
    BY <2>2, <2>3
<1> QED
  BY <1>2, <1>4 DEF StallsInv, StallsNeedAFailure

\* The runtime sets no limit (runtime.py:408-413).  So run() returns from an open run
\* only after a failure, for want of a fact nobody asked to remember, or where the
\* prompt of a comparison names no city and nothing is planned (runtime.py:63-70);
\* and what finds a way on whatever fails never stalls (runtime.py:139-213).
THEOREM OnlyFailureStalls ==
    ASSUME MaxActive <= 1, Limits \subseteq {Unlimited}
    PROVE  PlannerSpec => []StallsNeedAFailure
<1>1. PlannerInit => StallsInv
  BY DEF PlannerInit, Init, StallsInv, StallsNeedAFailure
<1>2. Ground /\ RunInv /\ StallsInv /\ [PlannerNext]_plannerVars => StallsInv'
  BY StallsPreserved
<1>3. StallsInv => StallsNeedAFailure
  BY DEF StallsInv
<1> QED
  BY <1>1, <1>2, <1>3, RunAlways, PTL DEF PlannerSpec

=============================================================================
