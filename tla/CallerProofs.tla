----------------------------- MODULE CallerProofs -----------------------------
(***************************************************************************)
(* What holds of the calls of run() themselves, for every set of tasks,    *)
(* every planner and every bound: of each call however many overlap (the   *)
(* slots it takes, what it leaves behind), and of calls that follow one    *)
(* another (who owns the running tasks, how much is left to replan).       *)
(***************************************************************************)
EXTENDS LiveGraphProofs

-----------------------------------------------------------------------------
(* Counting. *)

\* Of any set of numbers, at most k are among its first k.
LEMMA FirstByIdBound ==
    ASSUME NEW S, S \subseteq Nat, IsFiniteSet(S), NEW k \in Int
    PROVE  /\ IsFiniteSet(FirstById(S, k))
           /\ Cardinality(FirstById(S, k)) <= IF k < 0 THEN 0 ELSE k
<1> DEFINE F == FirstById(S, k)
           below(t) == {u \in S : u < t}
           rank == [t \in F |-> Cardinality(below(t))]
<1>1. F \subseteq S
  BY DEF FirstById
<1>2. IsFiniteSet(F) /\ Cardinality(F) \in Nat
  BY <1>1, FS_Subset, FS_CardinalityType
<1>3. ASSUME NEW t \in S
      PROVE  IsFiniteSet(below(t)) /\ Cardinality(below(t)) \in Nat
  <2>1. below(t) \subseteq S
    OBVIOUS
  <2> QED
    BY <2>1, FS_Subset, FS_CardinalityType
<1>4. ASSUME NEW t \in F
      PROVE  rank[t] \in 0 .. k - 1
  <2>1. Cardinality(below(t)) < k
    BY <1>4 DEF FirstById
  <2>2. Cardinality(below(t)) \in Nat
    BY <1>1, <1>3
  <2>3. rank[t] = Cardinality(below(t))
    OBVIOUS
  <2> HIDE DEF rank, below
  <2> QED
    BY <2>1, <2>2, <2>3
<1>5. CASE k <= 0
  <2>1. \A t \in F : FALSE
    <3> HIDE DEF rank, F
    <3> QED
      BY <1>4, <1>5
  <2> QED
    BY <1>2, <1>5, <2>1, FS_EmptySet
<1>6. CASE k > 0
  <2>1. IsFiniteSet(0 .. k - 1) /\ Cardinality(0 .. k - 1) = k
    BY <1>6, FS_Interval
  <2>2. rank \in [F -> 0 .. k - 1]
    BY <1>4
  <2>3. ASSUME NEW t \in F, NEW u \in F, t < u
        PROVE  rank[t] # rank[u]
    <3>1. /\ t \in S /\ u \in S /\ t \in Nat /\ u \in Nat
      BY <1>1
    <3>2. below(t) \cup {t} \subseteq below(u)
      <4>1. \A v \in S : v < t => v < u
        BY <1>1, <2>3, <3>1
      <4> QED
        BY <2>3, <3>1, <4>1
    <3>3. IsFiniteSet(below(t) \cup {t}) /\ Cardinality(below(t) \cup {t}) = Cardinality(below(t)) + 1
      <4>1. t \notin below(t) /\ IsFiniteSet(below(t))
        BY <1>3, <3>1
      <4> HIDE DEF below
      <4> QED
        BY <4>1, FS_AddElement
    <3>4. Cardinality(below(t) \cup {t}) <= Cardinality(below(u))
      BY <1>3, <3>1, <3>2, FS_Subset
    <3>5. rank[t] = Cardinality(below(t)) /\ rank[u] = Cardinality(below(u))
      OBVIOUS
    <3> HIDE DEF rank, below
    <3> QED
      BY <1>3, <3>1, <3>3, <3>4, <3>5
  <2>4. ASSUME k < Cardinality(F)
        PROVE  FALSE
    <3>1. PICK t \in F, u \in F : t # u /\ rank[t] = rank[u]
      <4> HIDE DEF rank, F
      <4> QED
        BY <1>2, <2>1, <2>2, <2>4, FS_PigeonHole
    <3>2. t \in Nat /\ u \in Nat
      BY <1>1
    <3>3. t < u \/ u < t
      BY <3>1, <3>2
    <3> QED
      BY <2>3, <3>1, <3>3
  <2> QED
    BY <1>2, <1>6, <2>4
<1> QED
  BY <1>5, <1>6

\* What a call has in flight or executed can be counted.
LEMMA InFlightFinite ==
    ASSUME TypeOK, NEW e \in Executors
    PROVE  /\ IsFiniteSet(InFlight(e)) /\ Cardinality(InFlight(e)) \in Nat
           /\ IsFiniteSet(executed[e]) /\ Cardinality(executed[e]) \in Nat
<1>1. InFlight(e) \subseteq Tasks /\ executed[e] \subseteq Tasks
  BY DEF InFlight, TypeOK
<1> QED
  BY <1>1, TasksAssumption, FS_Subset, FS_CardinalityType

\* Two sets together are no more than one and the other.
LEMMA AtMostTogether ==
    ASSUME NEW S, NEW T, IsFiniteSet(S), IsFiniteSet(T)
    PROVE  Cardinality(S \cup T) <= Cardinality(S) + Cardinality(T)
<1>1. /\ Cardinality(S \cup T) = Cardinality(S) + Cardinality(T) - Cardinality(S \cap T)
      /\ IsFiniteSet(S \cap T)
  BY FS_Union, FS_Intersection
<1>2. Cardinality(S \cap T) \in Nat /\ Cardinality(S) \in Nat /\ Cardinality(T) \in Nat
  BY <1>1, FS_CardinalityType
<1> QED
  BY <1>1, <1>2

-----------------------------------------------------------------------------
(***************************************************************************)
(* The slots a call takes.  Of each call: before it fills slots it has     *)
(* none; what is left of its batch is still in flight; and what it has in  *)
(* flight and has executed stays within its bounds.                        *)
(***************************************************************************)
Slots(e) ==
    /\ pc[e] \in {"new", "replay", "replan", "returned"} => InFlight(e) = {}
    /\ pc[e] \in {"new", "replay", "replan"} => executed[e] = {}
    /\ pc[e] \in {"drain", "plan"} => \A t \in todo[e] : future[e][t] \in Done
    /\ pc[e] \notin Over =>
        /\ Cardinality(InFlight(e)) <= MaxWorkers
        /\ limit[e] # Unlimited =>
               Cardinality(executed[e]) + Cardinality(InFlight(e)) <= limit[e]

SlotsInv == \A e \in Executors : Slots(e)

\* Whatever happens to other calls.
LEMMA SlotsOfOthers ==
    ASSUME NEW e \in Executors, Slots(e),
           pc'[e] = pc[e], limit'[e] = limit[e], todo'[e] = todo[e],
           executed'[e] = executed[e], future'[e] = future[e]
    PROVE  Slots(e)'
<1>1. InFlight(e)' = InFlight(e)
  BY DEF InFlight
<1> QED
  BY <1>1 DEF Slots

\* A call that starts has nothing in flight.
LEMMA BeginSlots ==
    ASSUME TypeOK, SlotsInv, NEW e \in Executors, NEW l \in Limits, Begin(e, l)
    PROVE  SlotsInv'
<1>1. Slots(e)'
  <2>1. pc'[e] = "replay" /\ InFlight(e)' = {} /\ executed'[e] = {}
    BY DEF Begin, Goto, TypeOK, SlotsInv, Slots, InFlight
  <2>2. limit'[e] \in Nat \cup {Unlimited}
    BY LimitsAssumption DEF Begin, TypeOK
  <2>3. Cardinality({}) = 0 /\ MaxWorkers \in Nat
    BY FS_EmptySet, WorkersAssumption
  <2> QED
    BY <2>1, <2>2, <2>3 DEF Slots
<1>2. ASSUME NEW f \in Executors, f # e
      PROVE  Slots(f)'
  BY <1>2, SlotsOfOthers DEF Begin, Goto, TypeOK, SlotsInv
<1> QED
  BY <1>1, <1>2 DEF SlotsInv

\* Stopping a coroutine does not free its slot.
LEMMA StoppingInFlight ==
    ASSUME TypeOK, NEW e \in Executors, NEW S, future' = Stopping(e, S)
    PROVE  /\ InFlight(e)' = InFlight(e)
           /\ \A f \in Executors \ {e} : future'[f] = future[f]
           /\ \A t \in Tasks : future[e][t] \in Done => future'[e][t] = future[e][t]
<1>1. \A t \in Tasks : future'[e][t] =
          IF t \in S /\ future[e][t] = "working" THEN "stopping" ELSE future[e][t]
  BY DEF Stopping, TypeOK
<1>2. \A t \in Tasks : future'[e][t] # "none" <=> future[e][t] # "none"
  BY <1>1
<1>3. InFlight(e)' = InFlight(e)
  BY <1>2 DEF InFlight
<1> QED
  BY <1>1, <1>3 DEF Stopping, Done, TypeOK

\* A call that has executed as much as it may has nothing left in flight.
LEMMA LimitLeavesNothing ==
    ASSUME TypeOK, TypeOK', NEW e \in Executors,
           limit'[e] # Unlimited, Cardinality(executed'[e]) >= limit'[e],
           Cardinality(executed'[e]) + Cardinality(InFlight(e)') <= limit'[e]
    PROVE  InFlight(e)' = {}
<1>1. limit'[e] \in Nat
  BY DEF TypeOK
<1>2. /\ IsFiniteSet(InFlight(e)') /\ Cardinality(InFlight(e)') \in Nat
      /\ Cardinality(executed'[e]) \in Nat
  <2>1. InFlight(e)' \subseteq Tasks /\ executed'[e] \subseteq Tasks
    BY DEF InFlight, TypeOK
  <2> QED
    BY <2>1, TasksAssumption, FS_Subset, FS_CardinalityType
<1>3. Cardinality(InFlight(e)') = 0
  BY <1>1, <1>2
<1> QED
  BY <1>2, <1>3, FS_EmptySet

\* Filling slots takes the free ones and no more (core.py:113-131).
LEMMA FillSlots ==
    ASSUME TypeOK, SlotsInv, NEW e \in Executors, Fill(e)
    PROVE  SlotsInv'
<1>1. pc[e] = "fill" /\ Slots(e)
  BY DEF Fill, SlotsInv
<1>2. InFlight(e)' = InFlight(e) \cup Launch(e)
  <2>1. Launch(e) \subseteq Tasks
    BY DEF Launch, FirstById, ReadyTasks, InState
  <2>2. \A t \in Tasks : future'[e][t] = IF t \in Launch(e) THEN "working" ELSE future[e][t]
    BY DEF Fill, TypeOK
  <2> QED
    BY <2>1, <2>2 DEF InFlight
<1>3. /\ limit'[e] = limit[e] /\ executed'[e] = executed[e]
      /\ pc'[e] \in {"returned", "wait"}
      /\ pc'[e] = "returned" => InFlight(e) \cup Launch(e) = {}
  BY DEF Fill, Goto, TypeOK
<1>4. ASSUME Launch(e) = {}
      PROVE  Slots(e)'
  <2>1. InFlight(e)' = InFlight(e)
    BY <1>2, <1>4
  <2>2. pc'[e] = "returned" => InFlight(e)' = {}
    BY <1>3, <1>4, <2>1
  <2> QED
    BY <1>1, <1>3, <2>1, <2>2 DEF Slots, Over
<1>5. ASSUME Launch(e) # {}
      PROVE  Slots(e)'
  <2> DEFINE I == Cardinality(InFlight(e))
             X == Cardinality(executed[e])
             L == Cardinality(Launch(e))
             U == Cardinality(InFlight(e)')
             C == Capacity(e)
  <2>1. I \in Nat /\ X \in Nat /\ MaxWorkers \in Nat /\ limit[e] \in Nat \cup {Unlimited}
    BY InFlightFinite, WorkersAssumption DEF TypeOK
  <2>2. limit[e] # Unlimited => limit[e] \in Nat
    BY <2>1
  <2>3. C \in Int /\ C <= MaxWorkers - I /\ (limit[e] # Unlimited => C <= limit[e] - X - I)
    <3>1. MaxWorkers - I \in Int /\ (limit[e] # Unlimited => limit[e] - X - I \in Int)
      BY <2>1, <2>2
    <3>2. C = IF limit[e] = Unlimited \/ MaxWorkers - I <= limit[e] - X - I
              THEN MaxWorkers - I ELSE limit[e] - X - I
      BY DEF Capacity
    <3> HIDE DEF C, I, X
    <3> QED
      BY <2>1, <2>2, <3>1, <3>2
  <2>4. IsFiniteSet(Launch(e)) /\ L <= IF C < 0 THEN 0 ELSE C
    <3>1. Launch(e) = FirstById(ReadyTasks, C)
      BY <1>5 DEF Launch
    <3>2. ReadyTasks \subseteq Nat /\ IsFiniteSet(ReadyTasks)
      <4>1. ReadyTasks \subseteq Tasks
        BY DEF ReadyTasks, InState
      <4> QED
        BY <4>1, TasksAssumption, FS_Subset
    <3> HIDE DEF C
    <3> QED
      BY <2>3, <3>1, <3>2, FirstByIdBound
  <2>5. L \in Nat /\ L # 0
    BY <1>5, <2>4, FS_CardinalityType, FS_EmptySet
  <2>6. U <= I + L
    BY <1>2, <2>4, InFlightFinite, AtMostTogether
  <2>7. U \in Nat
    <3>1. IsFiniteSet(InFlight(e)')
      BY <1>2, <2>4, InFlightFinite, FS_Union
    <3> QED
      BY <3>1, FS_CardinalityType
  <2>8. L <= C
    <3> HIDE DEF C, L
    <3> QED
      BY <2>3, <2>4, <2>5
  <2>9. U <= MaxWorkers /\ (limit[e] # Unlimited => X + U <= limit[e])
    <3> HIDE DEF C, L, U, X, I
    <3> QED
      BY <2>1, <2>2, <2>3, <2>5, <2>6, <2>7, <2>8
  <2>10. pc'[e] = "wait"
    BY <1>3, <1>5
  <2> QED
    BY <1>3, <2>9, <2>10 DEF Slots
<1>6. ASSUME NEW f \in Executors, f # e
      PROVE  Slots(f)'
  BY <1>6, SlotsOfOthers DEF Fill, Goto, TypeOK, SlotsInv
<1> QED
  BY <1>4, <1>5, <1>6 DEF SlotsInv

\* A future taken from the batch is in flight no more; its slot is free.
LEMMA PopInFlight ==
    ASSUME TypeOK, SlotsInv, NEW e \in Executors, NEW t \in todo[e], Pop(e, t)
    PROVE  /\ pc[e] = "drain" /\ t \in InFlight(e)
           /\ InFlight(e)' = InFlight(e) \ {t}
           /\ Cardinality(InFlight(e)') = Cardinality(InFlight(e)) - 1
           /\ \A u \in todo'[e] : future'[e][u] \in Done
           /\ \A f \in Executors \ {e} : future'[f] = future[f] /\ todo'[f] = todo[f]
<1>1. pc[e] = "drain" /\ t \in Tasks /\ future[e][t] \in Done
  BY DEF Pop, SlotsInv, Slots, TypeOK
<1>2. \A u \in Tasks : future'[e][u] = IF u = t THEN "none" ELSE future[e][u]
  BY <1>1 DEF Pop, TypeOK
<1>3. t \in InFlight(e) /\ InFlight(e)' = InFlight(e) \ {t}
  BY <1>1, <1>2 DEF InFlight, Done
<1>4. Cardinality(InFlight(e)') = Cardinality(InFlight(e)) - 1
  BY <1>3, InFlightFinite, FS_RemoveElement
<1>5. todo'[e] = todo[e] \ {t} /\ todo[e] \subseteq Tasks
  BY DEF Pop, TypeOK
<1>6. \A u \in todo'[e] : future'[e][u] \in Done
  BY <1>1, <1>2, <1>5 DEF SlotsInv, Slots
<1> QED
  BY <1>1, <1>3, <1>4, <1>6 DEF Pop, TypeOK

\* So is that of an outcome that is recorded, which is counted instead.
LEMMA RecordSlots ==
    ASSUME TypeOK, TypeOK', SlotsInv, NEW e \in Executors, NEW t \in todo[e], Record(e, t)
    PROVE  SlotsInv'
<1> DEFINE I == Cardinality(InFlight(e))
           X == Cardinality(executed[e])
           J == Cardinality(InFlight(e)')
           Y == Cardinality(executed'[e])
<1>1. Pop(e, t) /\ executed'[e] = executed[e] \cup {t} /\ limit'[e] = limit[e]
  BY DEF Record, TypeOK
<1>2. pc[e] = "drain" /\ J = I - 1 /\ \A u \in todo'[e] : future'[e][u] \in Done
  BY <1>1, PopInFlight
<1>3. I \in Nat /\ X \in Nat
  BY InFlightFinite
<1>4. Y \in Nat /\ Y <= X + 1
  <2>1. Y = IF t \in executed[e] THEN X ELSE X + 1
    BY <1>1, InFlightFinite, FS_AddElement
  <2> HIDE DEF X, Y
  <2> QED
    BY <1>3, <2>1
<1>5. I <= MaxWorkers /\ (limit[e] # Unlimited => X + I <= limit[e])
  BY <1>2 DEF SlotsInv, Slots, Over
<1>6. limit[e] # Unlimited => limit[e] \in Nat
  BY DEF TypeOK
<1>7. J <= MaxWorkers /\ (limit'[e] # Unlimited => Y + J <= limit'[e])
  <2> HIDE DEF I, X, J, Y
  <2> QED
    BY <1>1, <1>2, <1>3, <1>4, <1>5, <1>6, WorkersAssumption
<1>8. pc'[e] \in {"plan", "drain", "returned"}
      /\ (pc'[e] = "returned" => limit[e] # Unlimited /\ Y >= limit[e])
  BY <1>1 DEF Record, Goto, NextInBatch, TypeOK
<1>9. pc'[e] = "returned" => InFlight(e)' = {}
  BY <1>1, <1>7, <1>8, LimitLeavesNothing
<1>10. Slots(e)'
  BY <1>2, <1>7, <1>8, <1>9 DEF Slots
<1>11. ASSUME NEW f \in Executors, f # e
       PROVE  Slots(f)'
  BY <1>1, <1>11, PopInFlight, SlotsOfOthers DEF Record, Goto, TypeOK, SlotsInv
<1> QED
  BY <1>10, <1>11 DEF SlotsInv

\* A patch changes no slot, and the call goes on with its batch or returns.
LEMMA PlanSlots ==
    ASSUME TypeOK, TypeOK', SlotsInv, NEW e \in Executors, NEW p, Plan(e, p)
    PROVE  SlotsInv'
<1>1. /\ pc[e] = "plan" /\ Slots(e) /\ limit'[e] = limit[e]
      /\ executed'[e] = executed[e] /\ todo'[e] = todo[e] /\ todo[e] \subseteq Tasks
  BY DEF Plan, SlotsInv, TypeOK
<1>2. /\ InFlight(e)' = InFlight(e)
      /\ \A f \in Executors \ {e} : future'[f] = future[f]
      /\ \A t \in Tasks : future[e][t] \in Done => future'[e][t] = future[e][t]
  BY StoppingInFlight DEF Plan
<1>3. pc'[e] \in {"drain", "returned"}
      /\ (pc'[e] = "returned" =>
              limit[e] # Unlimited /\ Cardinality(executed[e]) >= limit[e])
  BY DEF Plan, Goto, NextInBatch, TypeOK
<1>4. /\ Cardinality(InFlight(e)') <= MaxWorkers
      /\ limit'[e] # Unlimited =>
             Cardinality(executed'[e]) + Cardinality(InFlight(e)') <= limit'[e]
  BY <1>1, <1>2 DEF Slots, Over
<1>5. pc'[e] = "returned" => InFlight(e)' = {}
  BY <1>1, <1>3, <1>4, LimitLeavesNothing
<1>6. Slots(e)'
  BY <1>1, <1>2, <1>3, <1>4, <1>5 DEF Slots
<1>7. ASSUME NEW f \in Executors, f # e
      PROVE  Slots(f)'
  BY <1>2, <1>7, SlotsOfOthers DEF Plan, Goto, TypeOK, SlotsInv
<1> QED
  BY <1>6, <1>7 DEF SlotsInv

\* The steps of one call.
LEMMA CallSlots ==
    ASSUME TypeOK, TypeOK', SlotsInv, NEW e \in Executors, CallStep(e) \/ CallCancelled(e)
    PROVE  SlotsInv'
<1>1. ASSUME UNCHANGED <<limit, executed, future>>,
             \A f \in Executors \ {e} : pc'[f] = pc[f] /\ todo'[f] = todo[f],
             Slots(e)'
      PROVE  SlotsInv'
  <2>1. ASSUME NEW f \in Executors, f # e
        PROVE  Slots(f)'
    BY <1>1, <2>1, SlotsOfOthers DEF SlotsInv
  <2> QED
    BY <1>1, <2>1 DEF SlotsInv
<1>2. ASSUME UNCHANGED future
      PROVE  InFlight(e)' = InFlight(e)
  BY <1>2 DEF InFlight
<1> USE DEF Goto, TypeOK
<1>3. ASSUME NEW i \in queue[e], ReplayNext(e, i)
      PROVE  SlotsInv'
  BY <1>1, <1>2, <1>3 DEF ReplayNext, SlotsInv, Slots, Over
<1>4. CASE ReplayEnds(e)
  BY <1>1, <1>2, <1>4 DEF ReplayEnds, SlotsInv, Slots, Over
<1>5. ASSUME NEW p \in Patch, Replan(e, p)
      PROVE  SlotsInv'
  BY <1>1, <1>2, <1>5 DEF Replan, SlotsInv, Slots, Over
<1>6. ASSUME NEW p \in Patch, Plan(e, p)
      PROVE  SlotsInv'
  BY <1>6, PlanSlots
<1>7. ASSUME NEW p \in Patch, PatchRefused(e, p)
      PROVE  SlotsInv'
  BY <1>1, <1>2, <1>7 DEF PatchRefused, Raise, SlotsInv, Slots, Over
<1>8. CASE Fill(e)
  BY <1>8, FillSlots
<1>9. CASE Wake(e)
  <2>1. pc[e] = "wait" /\ pc'[e] = "drain" /\ \A t \in todo'[e] : future[e][t] \in Done
    BY <1>9 DEF Wake
  <2>2. UNCHANGED <<limit, executed, future>>
        /\ \A f \in Executors \ {e} : pc'[f] = pc[f] /\ todo'[f] = todo[f]
    BY <1>9 DEF Wake
  <2>3. Slots(e)'
    BY <1>2, <2>1, <2>2 DEF SlotsInv, Slots, Over
  <2> QED
    BY <1>1, <2>2, <2>3
<1>10. CASE EndBatch(e)
  <2>1. /\ InFlight(e)' = InFlight(e)
        /\ \A f \in Executors \ {e} : future'[f] = future[f]
    <3>1. CASE run = "finished"
      BY <1>10, <3>1, StoppingInFlight DEF EndBatch
    <3>2. CASE run # "finished"
      BY <1>2, <1>10, <3>2 DEF EndBatch
    <3> QED
      BY <3>1, <3>2
  <2>2. Slots(e)'
    BY <1>10, <2>1 DEF EndBatch, SlotsInv, Slots, Over
  <2>3. ASSUME NEW f \in Executors, f # e
        PROVE  Slots(f)'
    BY <1>10, <2>1, <2>3, SlotsOfOthers DEF EndBatch, SlotsInv
  <2> QED
    BY <2>2, <2>3 DEF SlotsInv
<1>11. ASSUME NEW t \in todo[e], Discard(e, t) \/ OutcomeRefused(e, t)
       PROVE  SlotsInv'
  <2>1. Pop(e, t) /\ UNCHANGED <<limit, executed>> /\ pc'[e] \in {"drain", "raised"}
        /\ \A f \in Executors \ {e} : pc'[f] = pc[f]
    BY <1>11 DEF Discard, OutcomeRefused, Pop, Raise
  <2>2. Slots(e)'
    <3>1. /\ pc[e] = "drain" /\ Cardinality(InFlight(e)') = Cardinality(InFlight(e)) - 1
          /\ \A u \in todo'[e] : future'[e][u] \in Done
      BY <2>1, PopInFlight
    <3>2. Cardinality(InFlight(e)) \in Nat /\ Cardinality(executed[e]) \in Nat
      BY InFlightFinite
    <3>3. /\ Cardinality(InFlight(e)) <= MaxWorkers
          /\ limit[e] # Unlimited =>
                 limit[e] \in Nat /\ Cardinality(executed[e]) + Cardinality(InFlight(e)) <= limit[e]
      BY <3>1 DEF SlotsInv, Slots, Over
    <3>4. /\ Cardinality(InFlight(e)') <= MaxWorkers
          /\ limit'[e] # Unlimited =>
                 Cardinality(executed'[e]) + Cardinality(InFlight(e)') <= limit'[e]
      BY <2>1, <3>1, <3>2, <3>3, WorkersAssumption
    <3> QED
      BY <2>1, <3>1, <3>4 DEF Slots, Over
  <2>3. ASSUME NEW f \in Executors, f # e
        PROVE  Slots(f)'
    BY <2>1, <2>3, PopInFlight, SlotsOfOthers DEF SlotsInv
  <2> QED
    BY <2>2, <2>3 DEF SlotsInv
<1>12. ASSUME NEW t \in todo[e], Record(e, t)
       PROVE  SlotsInv'
  BY <1>12, RecordSlots
<1>13. CASE CallCancelled(e)
  BY <1>1, <1>2, <1>13 DEF CallCancelled, Raise, SlotsInv, Slots, Over
<1> QED
  BY <1>3, <1>4, <1>5, <1>6, <1>7, <1>8, <1>9, <1>10, <1>11, <1>12, <1>13
     DEF CallStep, LoopStep, PlannerTurn

\* And every step.
LEMMA SlotsPreserved ==
    ASSUME TypeOK, TypeOK', SlotsInv, [AnyStep]_vars
    PROVE  SlotsInv'
<1>1. ASSUME NEW e \in Executors, NEW l \in Limits, RunFresh(e, l) \/ RunResumed(e, l)
      PROVE  SlotsInv'
  BY <1>1, BeginSlots DEF RunFresh, RunResumed
<1>2. ASSUME NEW e \in Executors, CallStep(e) \/ CallCancelled(e)
      PROVE  SlotsInv'
  BY <1>2, CallSlots
<1>3. ASSUME NEW e \in Executors, NEW t \in Tasks, WorkerEnds(e, t) \/ WorkerStops(e, t)
      PROVE  SlotsInv'
  <2>1. UNCHANGED <<pc, limit, todo, executed>>
    BY <1>3 DEF WorkerEnds, WorkerStops, SetFuture
  <2>2. /\ \A f \in Executors \ {e} : future'[f] = future[f]
        /\ \A u \in Tasks : future'[e][u] # "none" <=> future[e][u] # "none"
        /\ \A u \in Tasks : future[e][u] \in Done => future'[e][u] = future[e][u]
    BY <1>3 DEF WorkerEnds, WorkerStops, SetFuture, TypeOK, Done
  <2>3. InFlight(e)' = InFlight(e)
    BY <2>2 DEF InFlight
  <2>4. Slots(e)'
    BY <2>1, <2>2, <2>3 DEF SlotsInv, Slots, TypeOK
  <2>5. ASSUME NEW f \in Executors, f # e
        PROVE  Slots(f)'
    BY <2>1, <2>2, <2>5, SlotsOfOthers DEF SlotsInv
  <2> QED
    BY <2>4, <2>5 DEF SlotsInv
<1>4. CASE Crash
  <2>1. ASSUME NEW e \in Executors
        PROVE  /\ InFlight(e)' = {}
               /\ pc'[e] = "crashed" \/ (pc[e] \in Over /\ pc'[e] = pc[e])
               /\ executed'[e] = executed[e]
    BY <1>4 DEF Crash, InFlight, Active, TypeOK
  <2> QED
    BY <2>1 DEF SlotsInv, Slots, Over
<1>5. CASE UNCHANGED vars
  BY <1>5, SlotsOfOthers DEF vars, execVars, SlotsInv
<1> QED
  BY <1>1, <1>2, <1>3, <1>4, <1>5 DEF AnyStep

\* Before the first call nothing is in flight.
LEMMA SlotsInit == Init => SlotsInv
BY DEF Init, SlotsInv, Slots, InFlight, Over

\* Every call keeps within its slots, for any number of overlapping calls.
THEOREM SlotsAlways == Spec => []SlotsInv
<1>1. TypeOK /\ TypeOK' /\ SlotsInv /\ [Next]_vars => SlotsInv'
  BY NextIsAnyStep, SlotsPreserved
<1> QED
  BY <1>1, SlotsInit, TypeCorrect, PTL DEF Spec

\* What one call has in flight never exceeds its workers, nor, with what it has
\* executed, max_completed, however many calls overlap (core.py:121-124).
THEOREM SlotsAreRespected == Spec => []SlotsRespected
<1>1. SlotsInv => SlotsRespected
  BY DEF SlotsInv, Slots, SlotsRespected, Active
<1> QED
  BY <1>1, SlotsAlways, PTL

\* A call that returns, even from inside a batch, has journalled or discarded
\* every coroutine it started (core.py:128-131, 159-165).
THEOREM NothingLeftBehind == Spec => []ReturnsLeaveNothingBehind
<1>1. SlotsInv => ReturnsLeaveNothingBehind
  BY DEF SlotsInv, Slots, ReturnsLeaveNothingBehind
<1> QED
  BY <1>1, SlotsAlways, PTL

-----------------------------------------------------------------------------
(***************************************************************************)
(* Calls that follow one another: of the call under way, what is pending   *)
(* is what it is about to plan, and what runs is what it has at work.      *)
(***************************************************************************)
Unplanned(e) ==
    /\ pc[e] = "replay" => PendingPlannerEvents \subseteq queue[e]
    /\ pc[e] = "replan" => PendingPlannerEvents \subseteq queue[e] \cup {current[e]}
    /\ pc[e] = "plan"   => PendingPlannerEvents \subseteq {current[e]} \/ run = "finished"
    /\ pc[e] \in {"fill", "wait", "drain"} => PendingPlannerEvents = {} \/ run = "finished"

Owned(e) ==
    /\ pc[e] \in {"replay", "replan"} => \A t \in Tasks : node[t] # "running"
    /\ pc[e] \in {"fill", "wait", "drain", "plan"} =>
        \A t \in Tasks : /\ node[t] = "running" => future[e][t] \in {"working", "ok", "error"}
                         /\ future[e][t] = "working" => node[t] = "running"

AtMostOne(S) == \A x, y \in S : x = y

AloneInv ==
    /\ AtMostOne(Active)
    /\ AtMostOne(PendingPlannerEvents)
    /\ \A e \in Active : Unplanned(e) /\ Owned(e)

\* What the steps rely on beside it.
Known == TypeOK /\ TypeOK' /\ Blank /\ FinishedIsQuiescent /\ SlotsInv /\ AloneInv

\* An entry the planner does not answer leaves what is pending as it is.
LEMMA QuietPending ==
    ASSUME StoreTypeOK, NEW kind, NEW tasks, NEW trigger,
           Log(kind, tasks, trigger), kind \notin PlannerKinds, UNCHANGED patches
    PROVE  PendingPlannerEvents' = PendingPlannerEvents
<1> DEFINE e == [kind |-> kind, tasks |-> tasks, trigger |-> trigger]
<1>1. /\ Len(journal) \in Nat /\ DOMAIN journal = 1..Len(journal)
      /\ journal' = Append(journal, e)
  BY LenProperties DEF StoreTypeOK, Log
<1>2. /\ DOMAIN journal' = 1..(Len(journal) + 1) /\ journal'[Len(journal) + 1] = e
      /\ \A i \in DOMAIN journal : journal'[i] = journal[i]
  BY <1>1
<1>3. e.kind \notin PlannerKinds
  OBVIOUS
<1> QED
  BY <1>1, <1>2, <1>3 DEF PendingPlannerEvents

\* One that it answers is pending next, and no other that was not before.
LEMMA PlannerEntryPends ==
    ASSUME StoreTypeOK, NEW kind, NEW tasks, NEW trigger,
           Log(kind, tasks, trigger), UNCHANGED patches
    PROVE  /\ PendingPlannerEvents' \subseteq PendingPlannerEvents \cup {Len(journal')}
           /\ Len(journal') = Len(journal) + 1 /\ Len(journal) \in Nat
<1> DEFINE e == [kind |-> kind, tasks |-> tasks, trigger |-> trigger]
<1>1. /\ Len(journal) \in Nat /\ DOMAIN journal = 1..Len(journal)
      /\ journal' = Append(journal, e)
  BY LenProperties DEF StoreTypeOK, Log
<1>2. /\ DOMAIN journal' = 1..(Len(journal) + 1) /\ Len(journal') = Len(journal) + 1
      /\ \A i \in DOMAIN journal : journal'[i] = journal[i]
  BY <1>1
<1> QED
  BY <1>1, <1>2 DEF PendingPlannerEvents

\* A patch is committed for its trigger, which is pending no more.
LEMMA CommitAnswers ==
    ASSUME StoreTypeOK, NEW p \in Patch, NEW i, Commits(p, i)
    PROVE  PendingPlannerEvents' \subseteq PendingPlannerEvents \ {i}
<1>1. CASE AlreadyPatched(i) /\ UNCHANGED storeVars
  BY <1>1 DEF AlreadyPatched, PendingPlannerEvents, storeVars
<1>2. CASE ApplyPatch(p, i)
  <2> DEFINE e == [kind |-> "graph_patched", tasks |-> p.cancel \cup Leftovers(p), trigger |-> i]
  <2>1. /\ Len(journal) \in Nat /\ DOMAIN journal = 1..Len(journal)
        /\ journal' = Append(journal, e)
    BY <1>2, LenProperties DEF StoreTypeOK, ApplyPatch, Log
  <2>2. /\ DOMAIN journal' = 1..(Len(journal) + 1) /\ journal'[Len(journal) + 1] = e
        /\ \A k \in DOMAIN journal : journal'[k] = journal[k]
    BY <2>1
  <2>3. DOMAIN patches' = DOMAIN patches \cup {i}
    BY <1>2 DEF ApplyPatch
  <2>4. e.kind \notin PlannerKinds
    BY DEF PlannerKinds
  <2> QED
    BY <2>1, <2>2, <2>3, <2>4 DEF PendingPlannerEvents
<1> QED
  BY <1>1, <1>2 DEF Commits

\* A patch starts nothing, and stops what runs only by cancelling it.
LEMMA CommitRunning ==
    ASSUME StoreTypeOK, NEW p \in Patch, NEW i, Commits(p, i), NEW t \in Tasks
    PROVE  /\ node'[t] = "running" => node[t] = "running"
           /\ node[t] = "running" => node'[t] \in {"running", "cancelled"}
           /\ run = "finished" => run' = "finished"
<1>1. CASE ApplyPatch(p, i)
  <2>1. node[t] = "running" => Written(p)[t] \in {"running", "cancelled"}
    BY <1>1 DEF ApplyPatch, Admissible, WellFormed, Existing, InState, Written
  <2>2. Written(p)[t] = "running" => node[t] = "running"
    BY DEF Written
  <2> QED
    BY <1>1, <2>1, <2>2 DEF ApplyPatch, Admissible, NodeAfter
<1>2. CASE UNCHANGED storeVars
  BY <1>2 DEF storeVars
<1> QED
  BY <1>1, <1>2 DEF Commits

\* A step of the only call under way, seen from that call.
LEMMA OnlyCall ==
    ASSUME NEW e \in Executors, Active \subseteq {e},
           \A f \in Executors \ {e} : pc'[f] = pc[f],
           AtMostOne(PendingPlannerEvents'),
           pc'[e] \notin Over => Unplanned(e)' /\ Owned(e)'
    PROVE  AloneInv'
<1>1. Active' \subseteq {e}
  BY DEF Active
<1>2. \A f \in Active' : f = e /\ pc'[e] \notin Over
  BY <1>1 DEF Active
<1> QED
  BY <1>1, <1>2 DEF AloneInv, AtMostOne

\* A call begins alone, with everything pending in its queue and nothing running.
LEMMA BeginAlone ==
    ASSUME Known, MaxActive <= 1, NEW e \in Executors, NEW l \in Limits,
           RunFresh(e, l) \/ RunResumed(e, l)
    PROVE  AloneInv'
<1> USE DEF Known
<1>1. Begin(e, l) /\ queue'[e] = IF run = "absent" THEN {1} ELSE PendingPlannerEvents
  BY DEF RunFresh, RunResumed, Start, Resume, TypeOK
<1>2. Active = {}
  <2>1. ASSUME NEW f \in Active
        PROVE  FALSE
    <3>1. Active = {f}
      BY DEF AloneInv, AtMostOne
    <3>2. Cardinality(Active) = 1
      BY <3>1, FS_Singleton
    <3> QED
      BY <1>1, <3>2, ActiveAssumption DEF Begin
  <2> QED
    BY <2>1
<1>3. pc'[e] = "replay" /\ \A f \in Executors \ {e} : pc'[f] = pc[f]
  BY <1>1 DEF Begin, Goto, TypeOK
<1>4. /\ PendingPlannerEvents' \subseteq queue'[e]
      /\ AtMostOne(PendingPlannerEvents')
      /\ \A t \in Tasks : node'[t] # "running"
  <2>1. CASE RunFresh(e, l)
    <3>1. run = "absent" /\ journal = << >> /\ \A t \in Tasks : node[t] = "absent"
      BY <2>1 DEF RunFresh, Start, Blank
    <3>2. PendingPlannerEvents = {} /\ Len(journal) = 0
      BY <3>1 DEF PendingPlannerEvents
    <3>3. PendingPlannerEvents' \subseteq {1}
      <4>1. StoreTypeOK /\ Log("run_started", {}, 0) /\ UNCHANGED patches
        BY <2>1 DEF RunFresh, Start, TypeOK
      <4>2. /\ PendingPlannerEvents' \subseteq PendingPlannerEvents \cup {Len(journal')}
            /\ Len(journal') = Len(journal) + 1
        BY <4>1, PlannerEntryPends
      <4> QED
        BY <3>2, <4>2
    <3> QED
      BY <1>1, <2>1, <3>1, <3>3 DEF AtMostOne, RunFresh, Start
  <2>2. CASE RunResumed(e, l)
    <3>1. PendingPlannerEvents' = PendingPlannerEvents
      BY <2>2, QuietPending DEF RunResumed, Resume, PlannerKinds, TypeOK
    <3>2. \A t \in Tasks : node'[t] # "running"
      BY <2>2 DEF RunResumed, Resume, NodeAfterResume
    <3> QED
      BY <1>1, <2>2, <3>1, <3>2 DEF AloneInv, AtMostOne, RunResumed, Resume
  <2> QED
    BY <2>1, <2>2
<1>5. Unplanned(e)' /\ Owned(e)'
  BY <1>3, <1>4 DEF Unplanned, Owned
<1> QED
  BY <1>2, <1>3, <1>4, <1>5, OnlyCall

\* A launched task is the call's own, at once (core.py:125-127).
LEMMA FillAlone ==
    ASSUME Known, NEW e \in Executors, Fill(e)
    PROVE  Unplanned(e)' /\ Owned(e)' /\ PendingPlannerEvents' = PendingPlannerEvents
<1> USE DEF Known
<1>1. pc[e] = "fill" /\ e \in Active /\ pc'[e] \in {"returned", "wait"}
  BY DEF Fill, Goto, Active, Over, TypeOK
<1>2. Unplanned(e) /\ Owned(e)
  BY <1>1 DEF AloneInv
<1>3. PendingPlannerEvents' = PendingPlannerEvents /\ run' = run
  <2>1. CASE UNCHANGED storeVars
    BY <2>1 DEF storeVars, PendingPlannerEvents
  <2>2. CASE MarkRunning(Launch(e))
    BY <2>2, QuietPending DEF MarkRunning, PlannerKinds, TypeOK
  <2> QED
    BY <2>1, <2>2 DEF Fill
<1>4. ASSUME NEW t \in Tasks
      PROVE  /\ future'[e][t] = IF t \in Launch(e) THEN "working" ELSE future[e][t]
             /\ node'[t] = IF t \in Launch(e) THEN "running" ELSE node[t]
  <2>1. t \in Launch(e) => node[t] = "pending"
    BY DEF Launch, FirstById, ReadyTasks, InState
  <2> QED
    BY <2>1 DEF Fill, MarkRunning, storeVars, TypeOK
<1> QED
  BY <1>1, <1>2, <1>3, <1>4 DEF Unplanned, Owned

\* The outcome just recorded is the only one no patch has answered, since the
\* one before it was answered first (core.py:155-158).
LEMMA RecordAlone ==
    ASSUME Known, NEW e \in Executors, NEW t \in todo[e], Record(e, t)
    PROVE  Unplanned(e)' /\ Owned(e)' /\ AtMostOne(PendingPlannerEvents')
<1> USE DEF Known
<1>1. pc[e] = "drain" /\ e \in Active /\ t \in Tasks /\ node[t] = "running"
  BY DEF Record, Pop, RecordOutcome, CanRecord, Active, Over, TypeOK
<1>2. Unplanned(e) /\ Owned(e)
  BY <1>1 DEF AloneInv
<1>3. run # "finished"
  BY <1>1 DEF FinishedIsQuiescent, Live
<1>4. pc'[e] = "plan" /\ current'[e] = Len(journal')
  BY <1>3 DEF Record, Goto, TypeOK
<1>5. PendingPlannerEvents' \subseteq {Len(journal')}
  <2>1. PendingPlannerEvents = {}
    BY <1>1, <1>2, <1>3 DEF Unplanned
  <2>2. StoreTypeOK /\ UNCHANGED patches
    BY DEF Record, RecordOutcome, TypeOK
  <2>3. PICK kind : Log(kind, {t}, 0)
    BY DEF Record, RecordOutcome
  <2> QED
    BY <2>1, <2>2, <2>3, PlannerEntryPends
<1>6. ASSUME NEW u \in Tasks, u # t
      PROVE  node'[u] = node[u] /\ future'[e][u] = future[e][u]
  BY <1>6 DEF Record, Pop, RecordOutcome, TypeOK
<1>7. node'[t] # "running" /\ future'[e][t] = "none"
  <2>1. node'[t] \in {"succeeded", "failed"}
    BY <1>1 DEF Record, RecordOutcome, TypeOK, StoreTypeOK
  <2>2. future'[e][t] = "none"
    BY <1>1 DEF Record, Pop, TypeOK
  <2> QED
    BY <2>1, <2>2
<1>8. Owned(e)'
  BY <1>1, <1>2, <1>4, <1>6, <1>7 DEF Owned
<1> QED
  BY <1>4, <1>5, <1>8 DEF Unplanned, AtMostOne

\* A patch answers the event it was asked for, and what it cancels is stopped.
LEMMA PlanAlone ==
    ASSUME Known, NEW e \in Executors, NEW p \in Patch, Plan(e, p)
    PROVE  Unplanned(e)' /\ Owned(e)' /\ PendingPlannerEvents' \subseteq PendingPlannerEvents
<1> USE DEF Known
<1>1. pc[e] = "plan" /\ e \in Active /\ pc'[e] \in {"returned", "drain"}
  BY DEF Plan, Goto, NextInBatch, Active, Over, TypeOK
<1>2. Unplanned(e) /\ Owned(e)
  BY <1>1 DEF AloneInv
<1>3. PendingPlannerEvents' \subseteq PendingPlannerEvents \ {current[e]}
  BY CommitAnswers DEF Plan, TypeOK
<1>4. run = "finished" => run' = "finished"
  BY DEF Plan, Commits, ApplyPatch, storeVars
<1>5. Unplanned(e)'
  BY <1>1, <1>2, <1>3, <1>4 DEF Unplanned
<1>6. ASSUME NEW t \in Tasks
      PROVE  /\ future'[e][t] = IF node'[t] = "cancelled" /\ future[e][t] = "working"
                                THEN "stopping" ELSE future[e][t]
             /\ node'[t] = "running" => node[t] = "running"
             /\ node[t] = "running" => node'[t] \in {"running", "cancelled"}
  <2>1. Commits(p, current[e]) /\ StoreTypeOK
    BY DEF Plan, TypeOK
  <2> QED
    BY <2>1, CommitRunning DEF Plan, Stopping, TypeOK
<1>7. Owned(e)'
  BY <1>1, <1>2, <1>6 DEF Owned
<1> QED
  BY <1>3, <1>5, <1>7

\* The steps of the call under way.
LEMMA CallAlone ==
    ASSUME Known, NEW e \in Executors, CallStep(e) \/ CallCancelled(e)
    PROVE  AloneInv'
<1> USE DEF Known
<1>1. pc[e] \notin Over
  BY DEF CallStep, LoopStep, PlannerTurn, CallCancelled, ReplayNext, ReplayEnds, Replan, Plan,
         PatchRefused, Fill, Wake, EndBatch, Discard, Record, OutcomeRefused, Pop, Over
<1>2. e \in Active /\ Active \subseteq {e} /\ Unplanned(e) /\ Owned(e)
  BY <1>1 DEF Active, AloneInv, AtMostOne
<1>3. \A f \in Executors \ {e} : pc'[f] = pc[f]
  BY DEF CallStep, LoopStep, PlannerTurn, CallCancelled, ReplayNext, ReplayEnds, Replan, Plan,
         PatchRefused, Fill, Wake, EndBatch, Discard, Record, OutcomeRefused, Goto, Raise, TypeOK
<1>4. ASSUME AtMostOne(PendingPlannerEvents'),
             pc'[e] \notin Over => Unplanned(e)' /\ Owned(e)'
      PROVE  AloneInv'
  BY <1>2, <1>3, <1>4, OnlyCall
<1>5. ASSUME PendingPlannerEvents' \subseteq PendingPlannerEvents
      PROVE  AtMostOne(PendingPlannerEvents')
  BY <1>5 DEF AloneInv, AtMostOne
<1>6. ASSUME UNCHANGED storeVars
      PROVE  PendingPlannerEvents' = PendingPlannerEvents /\ UNCHANGED <<run, node>>
  BY <1>6 DEF storeVars, PendingPlannerEvents
<1>7. ASSUME UNCHANGED storeVars, pc'[e] = "raised"
      PROVE  AloneInv'
  BY <1>4, <1>5, <1>6, <1>7 DEF Over
<1>8. ASSUME NEW i \in queue[e], ReplayNext(e, i)
      PROVE  AloneInv'
  <2>1. /\ pc[e] = "replay" /\ pc'[e] = "replan" /\ UNCHANGED <<storeVars, future>>
        /\ queue'[e] = queue[e] \ {i} /\ current'[e] = i
    BY <1>8 DEF ReplayNext, Goto, TypeOK
  <2>2. Unplanned(e)' /\ Owned(e)'
    BY <1>2, <1>6, <2>1 DEF Unplanned, Owned
  <2> QED
    BY <1>4, <1>5, <1>6, <2>1, <2>2
<1>9. CASE ReplayEnds(e)
  <2>1. /\ pc[e] = "replay" /\ pc'[e] = "fill" /\ UNCHANGED <<storeVars, future>>
        /\ run = "finished" \/ queue[e] = {}
    BY <1>9 DEF ReplayEnds, Goto, TypeOK
  <2>2. Unplanned(e)'
    BY <1>2, <1>6, <2>1 DEF Unplanned
  <2>3. \A t \in Tasks : future[e][t] = "none"
    BY <2>1 DEF SlotsInv, Slots, InFlight
  <2>4. Owned(e)'
    BY <1>2, <1>6, <2>1, <2>3 DEF Owned
  <2> QED
    BY <1>4, <1>5, <1>6, <2>1, <2>2, <2>4
<1>10. ASSUME NEW p \in Patch, Replan(e, p)
       PROVE  AloneInv'
  <2>1. pc[e] = "replan" /\ pc'[e] = "replay" /\ queue'[e] = queue[e] /\ Commits(p, current[e])
    BY <1>10 DEF Replan, Goto, TypeOK
  <2>2. StoreTypeOK
    BY DEF TypeOK
  <2>3. PendingPlannerEvents' \subseteq PendingPlannerEvents \ {current[e]}
    BY <2>1, <2>2, CommitAnswers
  <2>4. \A t \in Tasks : node'[t] = "running" => node[t] = "running"
    BY <2>1, <2>2, CommitRunning
  <2>5. Unplanned(e)' /\ Owned(e)'
    BY <1>2, <2>1, <2>3, <2>4 DEF Unplanned, Owned
  <2> QED
    BY <1>4, <1>5, <2>3, <2>5
<1>11. ASSUME NEW p \in Patch, Plan(e, p)
       PROVE  AloneInv'
  BY <1>4, <1>5, <1>11, PlanAlone
<1>12. ASSUME NEW p \in Patch, PatchRefused(e, p)
       PROVE  AloneInv'
  BY <1>7, <1>12 DEF PatchRefused, Raise, Goto, TypeOK
<1>13. CASE Fill(e)
  BY <1>4, <1>5, <1>13, FillAlone
<1>14. CASE Wake(e)
  <2>1. pc[e] = "wait" /\ pc'[e] = "drain" /\ UNCHANGED <<storeVars, future>>
    BY <1>14 DEF Wake, Goto, TypeOK
  <2>2. Unplanned(e)' /\ Owned(e)'
    BY <1>2, <1>6, <2>1 DEF Unplanned, Owned
  <2> QED
    BY <1>4, <1>5, <1>6, <2>1, <2>2
<1>15. CASE EndBatch(e)
  <2>1. pc[e] = "drain" /\ pc'[e] = "fill" /\ UNCHANGED storeVars
    BY <1>15 DEF EndBatch, Goto, TypeOK
  <2>2. ASSUME NEW t \in Tasks
        PROVE  /\ node[t] = "running" => future'[e][t] \in {"working", "ok", "error"}
               /\ future'[e][t] = "working" => node[t] = "running"
    <3>1. CASE run = "finished"
      <4>1. node[t] # "running"
        BY <3>1 DEF FinishedIsQuiescent, Live
      <4>2. future'[e][t] # "working"
        BY <1>15, <3>1 DEF EndBatch, Stopping, TypeOK
      <4> QED
        BY <4>1, <4>2
    <3>2. CASE run # "finished"
      BY <1>2, <1>15, <2>1, <3>2 DEF EndBatch, Owned
    <3> QED
      BY <3>1, <3>2
  <2>3. Unplanned(e)' /\ Owned(e)'
    BY <1>2, <1>6, <2>1, <2>2 DEF Unplanned, Owned
  <2> QED
    BY <1>4, <1>5, <1>6, <2>1, <2>3
<1>16. ASSUME NEW t \in todo[e], Discard(e, t)
       PROVE  AloneInv'
  <2>1. pc[e] = "drain" /\ pc'[e] = "drain" /\ UNCHANGED storeVars /\ t \in Tasks
    BY <1>16 DEF Discard, Pop, TypeOK
  <2>2. node[t] # "running"
    BY <1>2, <1>16, <2>1 DEF Discard, Discarded, Owned
  <2>3. \A u \in Tasks : future'[e][u] = IF u = t THEN "none" ELSE future[e][u]
    BY <1>16, <2>1 DEF Discard, Pop, TypeOK
  <2>4. Unplanned(e)' /\ Owned(e)'
    BY <1>2, <1>6, <2>1, <2>2, <2>3 DEF Unplanned, Owned
  <2> QED
    BY <1>4, <1>5, <1>6, <2>1, <2>4
<1>17. ASSUME NEW t \in todo[e], Record(e, t)
       PROVE  AloneInv'
  BY <1>4, <1>17, RecordAlone
<1>18. ASSUME NEW t \in todo[e], OutcomeRefused(e, t)
       PROVE  AloneInv'
  BY <1>7, <1>18 DEF OutcomeRefused, Raise, Goto, TypeOK
<1>19. CASE CallCancelled(e)
  BY <1>7, <1>19 DEF CallCancelled, Raise, Goto, TypeOK
<1> QED
  BY <1>8, <1>9, <1>10, <1>11, <1>12, <1>13, <1>14, <1>15, <1>16, <1>17, <1>18, <1>19
     DEF CallStep, LoopStep, PlannerTurn

\* And every step, when calls do not overlap.
LEMMA AlonePreserved ==
    ASSUME Known, MaxActive <= 1, [AnyStep]_vars
    PROVE  AloneInv'
<1> USE DEF Known
<1>1. ASSUME NEW e \in Executors, NEW l \in Limits, RunFresh(e, l) \/ RunResumed(e, l)
      PROVE  AloneInv'
  BY <1>1, BeginAlone
<1>2. ASSUME NEW e \in Executors, CallStep(e) \/ CallCancelled(e)
      PROVE  AloneInv'
  BY <1>2, CallAlone
<1>3. ASSUME NEW e \in Executors, NEW t \in Tasks, WorkerEnds(e, t) \/ WorkerStops(e, t)
      PROVE  AloneInv'
  <2>1. UNCHANGED <<storeVars, pc, queue, current>>
    BY <1>3 DEF WorkerEnds, WorkerStops, SetFuture
  <2>2. Active' = Active /\ PendingPlannerEvents' = PendingPlannerEvents
    BY <2>1 DEF Active, PendingPlannerEvents, storeVars
  <2>3. ASSUME NEW f \in Active
        PROVE  Unplanned(f)' /\ Owned(f)'
    <3>1. Unplanned(f) /\ Owned(f)
      BY DEF AloneInv
    <3>2. Unplanned(f)'
      BY <2>1, <2>2, <3>1 DEF Unplanned, storeVars
    <3>3. ASSUME NEW u \in Tasks
          PROVE  \/ future'[f][u] = future[f][u]
                 \/ future[f][u] = "working" /\ future'[f][u] \in {"ok", "error"}
                 \/ future[f][u] = "stopping" /\ future'[f][u] \in {"cancelled", "error"}
      <4>1. future \in [Executors -> [Tasks -> FutureState]] /\ f \in Executors
        BY DEF TypeOK, Active
      <4>2. CASE WorkerEnds(e, t)
        <5>1. PICK r \in {"ok", "error"} : future' = [future EXCEPT ![e][t] = r]
          BY <4>2 DEF WorkerEnds, SetFuture
        <5>2. future[e][t] = "working"
          BY <4>2 DEF WorkerEnds
        <5> QED
          BY <4>1, <5>1, <5>2
      <4>3. CASE WorkerStops(e, t)
        <5>1. PICK r \in {"cancelled", "error"} : future' = [future EXCEPT ![e][t] = r]
          BY <4>3 DEF WorkerStops, SetFuture
        <5>2. future[e][t] = "stopping"
          BY <4>3 DEF WorkerStops
        <5> QED
          BY <4>1, <5>1, <5>2
      <4> QED
        BY <1>3, <4>2, <4>3
    <3>4. Owned(f)'
      BY <2>1, <3>1, <3>3 DEF Owned, storeVars
    <3> QED
      BY <3>2, <3>4
  <2> QED
    BY <2>2, <2>3 DEF AloneInv
<1>4. CASE Crash
  <2>1. Active' = {}
    BY <1>4 DEF Crash, Active, Over
  <2>2. PendingPlannerEvents' = PendingPlannerEvents
    BY <1>4 DEF Crash, PendingPlannerEvents, storeVars
  <2> QED
    BY <2>1, <2>2 DEF AloneInv, AtMostOne
<1>5. CASE UNCHANGED vars
  BY <1>5 DEF vars, storeVars, execVars, AloneInv, AtMostOne, Active, PendingPlannerEvents,
              Unplanned, Owned
<1> QED
  BY <1>1, <1>2, <1>3, <1>4, <1>5 DEF AnyStep

\* Before the first call nothing is under way and nothing is pending.
LEMMA AloneInit == Init => AloneInv
<1> SUFFICES ASSUME Init
             PROVE  AloneInv
  OBVIOUS
<1>1. Active = {} /\ PendingPlannerEvents = {}
  BY DEF Init, StoreInit, Active, Over, PendingPlannerEvents
<1> QED
  BY <1>1 DEF AloneInv, AtMostOne

\* A run nobody started stays blank, whatever the calls do.
THEOREM AlwaysBlank == Spec => []Blank
<1>1. Init => Blank
  BY DEF Init, StoreInit, Blank
<1>2. TypeOK /\ Blank /\ [Next]_vars => Blank'
  BY NextIsAnyStep, StepIsStoreStep, BlankPreserved DEF TypeOK
<1> QED
  BY <1>1, <1>2, TypeCorrect, PTL DEF Spec

\* Calls that do not overlap know what is pending and own what runs.
THEOREM AloneAlways ==
    ASSUME MaxActive <= 1
    PROVE  Spec => []AloneInv
<1>1. Known /\ [Next]_vars => AloneInv'
  BY NextIsAnyStep, AlonePreserved
<1>2. TypeOK /\ TypeOK' /\ Blank /\ FinishedIsQuiescent /\ SlotsInv /\ AloneInv => Known
  BY DEF Known
<1> QED
  BY <1>1, <1>2, AloneInit, TypeCorrect, AlwaysBlank, AlwaysQuiescent, SlotsAlways, PTL DEF Spec

\* When calls do not overlap, a task recorded as running is at work in the call
\* under way: resume() and the crash strand none (store.py:74-81, core.py:100-102).
THEOREM RunningHasAnOwner ==
    ASSUME MaxActive <= 1
    PROVE  Spec => []RunningIsOwned
<1>1. TypeOK /\ AloneInv => RunningIsOwned
  BY DEF AloneInv, Owned, RunningIsOwned, TypeOK, Location, Active, Over
<1> QED
  BY <1>1, TypeCorrect, AloneAlways, PTL

\* When calls do not overlap, no coroutine of a call at its loop or asleep works
\* on for a task the graph has cancelled (core.py:157-159, 167-168, 180-195).
THEOREM CancellationArrives ==
    ASSUME MaxActive <= 1
    PROVE  Spec => []CancellationReachesWorkers
<1>1. AloneInv => CancellationReachesWorkers
  BY DEF AloneInv, Owned, CancellationReachesWorkers
<1> QED
  BY <1>1, AloneAlways, PTL

\* When calls do not overlap, a crash leaves at most one planner decision to
\* replay, whenever it falls (core.py:109-112, 155-158).
THEOREM OneDecisionToReplay ==
    ASSUME MaxActive <= 1
    PROVE  Spec => []OneUnplannedOutcome
<1>1. AloneInv => OneUnplannedOutcome
  <2> SUFFICES ASSUME AloneInv
               PROVE  OneUnplannedOutcome
    OBVIOUS
  <2>1. CASE PendingPlannerEvents = {}
    BY <2>1, FS_EmptySet DEF OneUnplannedOutcome
  <2>2. CASE PendingPlannerEvents # {}
    <3>1. PICK i \in PendingPlannerEvents : TRUE
      BY <2>2
    <3>2. PendingPlannerEvents = {i}
      BY DEF AloneInv, AtMostOne
    <3> QED
      BY <3>2, FS_Singleton DEF OneUnplannedOutcome
  <2> QED
    BY <2>1, <2>2
<1> QED
  BY <1>1, AloneAlways, PTL

-----------------------------------------------------------------------------
(***************************************************************************)
(* Overlapping calls: what is left of owning the running tasks.            *)
(***************************************************************************)

\* While a call is under way, some call of this process, if not the same one, has
\* a coroutine, or its unread outcome, for every task recorded as running.
RunningIsInHands ==
    Active # {} => \A t \in Tasks :
        node[t] = "running" => \E e \in Executors : future[e][t] \in {"working", "ok", "error"}

\* resume() leaves nothing running; from then on what is launched has a coroutine,
\* and a coroutine is dropped only when its task runs no more.
LEMMA HandsPreserved ==
    ASSUME TypeOK, Blank, FinishedIsQuiescent, RunningIsInHands, [AnyStep]_vars
    PROVE  RunningIsInHands'
<1> USE DEF RunningIsInHands
<1>1. ASSUME NEW e \in Executors, NEW l \in Limits, RunFresh(e, l) \/ RunResumed(e, l)
      PROVE  RunningIsInHands'
  <2>1. \A t \in Tasks : node'[t] # "running"
    BY <1>1 DEF RunFresh, RunResumed, Start, Resume, NodeAfterResume, Blank
  <2> QED
    BY <2>1
<1>2. ASSUME Active # {},
             \A t \in Tasks : node'[t] = "running" =>
                 /\ node[t] = "running"
                 /\ \A f \in Executors : future[f][t] \in {"working", "ok", "error"} =>
                                         future'[f][t] \in {"working", "ok", "error"}
      PROVE  RunningIsInHands'
  <2>1. ASSUME NEW t \in Tasks, node'[t] = "running"
        PROVE  \E e \in Executors : future'[e][t] \in {"working", "ok", "error"}
    <3>1. PICK e \in Executors : future[e][t] \in {"working", "ok", "error"}
      BY <1>2, <2>1
    <3> QED
      BY <1>2, <2>1, <3>1
  <2> QED
    BY <2>1
<1>3. ASSUME NEW e \in Executors, CallStep(e) \/ CallCancelled(e)
      PROVE  e \in Active
  BY <1>3 DEF CallStep, LoopStep, PlannerTurn, CallCancelled, ReplayNext, ReplayEnds, Replan, Plan,
              PatchRefused, Fill, Wake, EndBatch, Discard, Record, OutcomeRefused, Pop, Active, Over
<1>4. ASSUME NEW e \in Executors, Fill(e)
      PROVE  RunningIsInHands'
  <2>1. ASSUME NEW t \in Tasks
        PROVE  /\ node'[t] = "running" => node[t] = "running" \/ t \in Launch(e)
               /\ future'[e][t] = IF t \in Launch(e) THEN "working" ELSE future[e][t]
               /\ \A f \in Executors \ {e} : future'[f][t] = future[f][t]
    BY <1>4 DEF Fill, MarkRunning, storeVars, TypeOK
  <2>2. e \in Active
    BY <1>3, <1>4 DEF CallStep
  <2>3. ASSUME NEW t \in Tasks, node'[t] = "running"
        PROVE  \E f \in Executors : future'[f][t] \in {"working", "ok", "error"}
    <3>1. CASE t \in Launch(e)
      BY <2>1, <3>1
    <3>2. CASE t \notin Launch(e)
      <4>1. PICK f \in Executors : future[f][t] \in {"working", "ok", "error"}
        BY <2>1, <2>2, <2>3, <3>2
      <4> QED
        BY <2>1, <3>2, <4>1
    <3> QED
      BY <3>1, <3>2
  <2> QED
    BY <2>3
<1>5. ASSUME NEW e \in Executors, NEW p \in Patch, Replan(e, p) \/ Plan(e, p)
      PROVE  RunningIsInHands'
  <2>1. e \in Active /\ StoreTypeOK /\ Commits(p, current[e])
    BY <1>3, <1>5 DEF CallStep, PlannerTurn, Replan, Plan, TypeOK
  <2>2. \A t \in Tasks : node'[t] = "running" => node[t] = "running"
    BY <2>1, CommitRunning
  <2>3. ASSUME NEW t \in Tasks, node'[t] = "running", NEW f \in Executors
        PROVE  future'[f][t] = future[f][t]
    BY <1>5, <2>3 DEF Replan, Plan, Stopping, TypeOK
  <2> QED
    BY <1>2, <2>1, <2>2, <2>3
<1>6. ASSUME NEW e \in Executors, CallStep(e), UNCHANGED <<storeVars, future>>
      PROVE  RunningIsInHands'
  BY <1>2, <1>3, <1>6 DEF storeVars
<1>7. CASE \E e \in Executors : EndBatch(e)
  <2>1. PICK e \in Executors : EndBatch(e)
    BY <1>7
  <2>2. e \in Active
    BY <1>3, <2>1 DEF CallStep, LoopStep
  <2>3. UNCHANGED node /\ (run # "finished" => UNCHANGED future)
    BY <2>1 DEF EndBatch, storeVars
  <2>4. run = "finished" => \A t \in Tasks : node[t] # "running"
    BY DEF FinishedIsQuiescent, Live
  <2> QED
    BY <1>2, <2>2, <2>3, <2>4
<1>8. ASSUME NEW e \in Executors, NEW u \in todo[e],
             Discard(e, u) \/ Record(e, u) \/ OutcomeRefused(e, u)
      PROVE  RunningIsInHands'
  <2>1. /\ e \in Active /\ u \in Tasks /\ Pop(e, u)
        /\ \A f \in Executors, t \in Tasks : <<f, t>> # <<e, u>> => future'[f][t] = future[f][t]
    <3>1. CallStep(e) /\ Pop(e, u)
      BY <1>8 DEF CallStep, LoopStep, Discard, Record, OutcomeRefused
    <3>2. u \in Tasks /\ future' = [future EXCEPT ![e][u] = "none"]
      BY <3>1 DEF Pop, TypeOK
    <3> QED
      BY <1>3, <3>1, <3>2 DEF TypeOK
  <2>2. \A t \in Tasks : node'[t] = "running" => node[t] = "running"
    BY <1>8, <2>1 DEF Discard, Record, OutcomeRefused, RecordOutcome, storeVars, TypeOK, StoreTypeOK
  <2>3. \/ future[e][u] = "cancelled"
        \/ node'[u] # "running"
    <3>1. CASE Discard(e, u)
      BY <3>1 DEF Discard, Discarded, storeVars
    <3>2. CASE Record(e, u)
      BY <2>1, <3>2 DEF Record, RecordOutcome, TypeOK, StoreTypeOK
    <3>3. CASE OutcomeRefused(e, u)
      BY <3>3 DEF OutcomeRefused, CanRecord, storeVars
    <3> QED
      BY <1>8, <3>1, <3>2, <3>3
  <2>4. ASSUME NEW t \in Tasks, node'[t] = "running", NEW f \in Executors,
               future[f][t] \in {"working", "ok", "error"}
        PROVE  future'[f][t] \in {"working", "ok", "error"}
    BY <2>1, <2>3, <2>4
  <2> QED
    BY <1>2, <2>1, <2>2, <2>4
<1>9. ASSUME NEW e \in Executors, NEW t \in Tasks, WorkerEnds(e, t) \/ WorkerStops(e, t)
      PROVE  RunningIsInHands'
  <2>1. UNCHANGED <<storeVars, pc>> /\ Active' = Active /\ UNCHANGED node
    BY <1>9 DEF WorkerEnds, WorkerStops, SetFuture, Active, storeVars
  <2>2. \A f \in Executors, u \in Tasks : <<f, u>> # <<e, t>> => future'[f][u] = future[f][u]
    BY <1>9 DEF WorkerEnds, WorkerStops, SetFuture, TypeOK
  <2>3. future[e][t] = "stopping" \/ future'[e][t] \in {"ok", "error"}
    BY <1>9 DEF WorkerEnds, WorkerStops, SetFuture, TypeOK
  <2>4. ASSUME NEW u \in Tasks, NEW f \in Executors, future[f][u] \in {"working", "ok", "error"}
        PROVE  future'[f][u] \in {"working", "ok", "error"}
    BY <2>2, <2>3, <2>4
  <2> QED
    BY <2>1, <2>4
<1>10. CASE Crash
  <2>1. Active' = {}
    BY <1>10 DEF Crash, Active, Over
  <2> QED
    BY <2>1
<1>11. ASSUME UNCHANGED vars
       PROVE  RunningIsInHands'
  BY <1>11 DEF vars, storeVars, execVars, Active
<1>12. ASSUME NEW e \in Executors, CallCancelled(e)
       PROVE  RunningIsInHands'
  BY <1>2, <1>3, <1>12 DEF CallCancelled, storeVars
<1>13. ASSUME NEW e \in Executors, CallStep(e)
       PROVE  RunningIsInHands'
  <2>1. CASE \/ \E i \in queue[e] : ReplayNext(e, i)
             \/ ReplayEnds(e) \/ Wake(e)
             \/ \E p \in Patch : PatchRefused(e, p)
    <3>1. UNCHANGED <<storeVars, future>>
      BY <2>1 DEF ReplayNext, ReplayEnds, Wake, PatchRefused
    <3> QED
      BY <1>6, <1>13, <3>1
  <2> QED
    BY <1>4, <1>5, <1>7, <1>8, <1>13, <2>1 DEF CallStep, LoopStep, PlannerTurn
<1> QED
  BY <1>1, <1>9, <1>10, <1>11, <1>12, <1>13 DEF AnyStep

\* However calls overlap and requeue one another's tasks: while one is under way, no
\* task is recorded as running that no coroutine of the process works on or has
\* finished (store.py:74-81, core.py:100-102, 125-127, 148-165).
THEOREM RunningStaysInHands == Spec => []RunningIsInHands
<1>1. Init => RunningIsInHands
  BY DEF Init, StoreInit, RunningIsInHands
<1>2. TypeOK /\ Blank /\ FinishedIsQuiescent /\ RunningIsInHands /\ [Next]_vars => RunningIsInHands'
  BY NextIsAnyStep, HandsPreserved
<1> QED
  BY <1>1, <1>2, TypeCorrect, AlwaysBlank, AlwaysQuiescent, PTL DEF Spec

-----------------------------------------------------------------------------
(***************************************************************************)
(* Why a call stops.                                                       *)
(***************************************************************************)

\* From its loop a call returns by filling its slots and finding nothing in flight.
LEMMA ReturnFromFill ==
    ASSUME TypeOK, [AnyStep]_vars, NEW e \in Executors, pc[e] = "fill", pc'[e] = "returned"
    PROVE  Fill(e)
<1>1. ASSUME NEW f \in Executors, NEW l \in Limits, RunFresh(f, l) \/ RunResumed(f, l)
      PROVE  FALSE
  BY <1>1 DEF RunFresh, RunResumed, Begin, Goto, TypeOK
<1>2. ASSUME NEW f \in Executors, CallStep(f) \/ CallCancelled(f), ~Fill(f)
      PROVE  pc[f] # "fill" /\ \A g \in Executors \ {f} : pc'[g] = pc[g]
  BY <1>2 DEF CallStep, LoopStep, PlannerTurn, CallCancelled, ReplayNext, ReplayEnds, Replan, Plan,
              PatchRefused, Wake, EndBatch, Discard, Record, OutcomeRefused, Pop, Goto, Raise, TypeOK
<1>3. ASSUME NEW f \in Executors, Fill(f)
      PROVE  f = e
  BY <1>3 DEF Fill, Goto, TypeOK
<1>4. ASSUME \/ Crash \/ UNCHANGED vars
             \/ \E f \in Executors, t \in Tasks : WorkerEnds(f, t) \/ WorkerStops(f, t)
      PROVE  FALSE
  BY <1>4 DEF Crash, WorkerEnds, WorkerStops, SetFuture, vars, execVars
<1> QED
  BY <1>1, <1>2, <1>3, <1>4 DEF AnyStep

\* A call with no test stop that starts nothing although slots are free has
\* nothing to start.
LEMMA NothingToLaunch ==
    ASSUME TypeOK, NEW e \in Executors, run = "open", limit[e] = Unlimited,
           InFlight(e) = {}, Launch(e) = {}
    PROVE  ReadyTasks = {}
<1>1. Capacity(e) = MaxWorkers
  BY WorkersAssumption, FS_EmptySet DEF Capacity
<1> SUFFICES ASSUME ReadyTasks # {}
             PROVE  FALSE
  OBVIOUS
<1>2. ReadyTasks \in SUBSET Nat
  BY TasksAssumption DEF ReadyTasks, InState
<1>3. PICK t \in ReadyTasks : \A u \in ReadyTasks : t <= u
  BY <1>2, LeastNumber
<1>4. {u \in ReadyTasks : u < t} = {}
  <2>1. ASSUME NEW u \in ReadyTasks, u < t
        PROVE  FALSE
    <3>1. t <= u /\ t \in Nat /\ u \in Nat
      BY <1>2, <1>3
    <3> QED
      BY <2>1, <3>1
  <2> QED
    BY <2>1
<1>5. t \in FirstById(ReadyTasks, MaxWorkers)
  BY <1>3, <1>4, WorkersAssumption, FS_EmptySet DEF FirstById
<1> QED
  BY <1>1, <1>5 DEF Launch

\* Pending tasks of which none is ready need one that holds them up.
LEMMA PendingIsHeldUp ==
    ASSUME TypeOK, NoneWaitsForItself, ReadyTasks = {}, InState("running") = {},
           InState("pending") # {}
    PROVE  InState("waiting") \cup InState("failed") \cup InState("cancelled") # {}
<1>1. PICK t \in InState("pending"), q \in Existing \ InState("pending") : node[q] # "succeeded"
  BY DEF NoneWaitsForItself
<1>2. q \in Tasks /\ node[q] \in {"running", "waiting", "failed", "cancelled"}
  BY <1>1 DEF Existing, InState, TypeOK, StoreTypeOK, NodeState
<1> QED
  BY <1>2 DEF InState

\* When calls do not overlap, a call without a test stop returns from an open run
\* only with nothing left to plan, to wait for or to start, and what it leaves
\* pending hangs on a task that waits, has failed or was cancelled (core.py:98-135).
THEOREM CallsStopForACause ==
    ASSUME MaxActive <= 1
    PROVE  Spec => StopsForACause
<1> DEFINE Cause(e) ==
        /\ PendingPlannerEvents = {} /\ InState("running") = {} /\ ReadyTasks = {}
        /\ InState("pending") # {} =>
               InState("waiting") \cup InState("failed") \cup InState("cancelled") # {}
           Stops(e) == pc[e] = "fill" /\ pc'[e] = "returned" /\ limit[e] = Unlimited /\ run = "open"
<1>1. ASSUME TypeOK, AloneInv, NoneWaitsForItself, [Next]_vars, NEW e \in Executors, Stops(e)
      PROVE  Cause(e)
  <2>1. Fill(e)
    BY <1>1, ReturnFromFill, NextIsAnyStep
  <2>2. InFlight(e) = {} /\ Launch(e) = {}
    BY <1>1, <2>1 DEF Fill, Goto, TypeOK
  <2>3. ReadyTasks = {}
    BY <1>1, <2>2, NothingToLaunch
  <2>4. Unplanned(e) /\ Owned(e)
    BY <1>1 DEF AloneInv, Active, Over
  <2>5. PendingPlannerEvents = {}
    BY <1>1, <2>4 DEF Unplanned
  <2>6. InState("running") = {}
    BY <1>1, <2>2, <2>4 DEF Owned, InFlight, InState
  <2> QED
    BY <1>1, <2>3, <2>5, <2>6, PendingIsHeldUp
<1>2. TypeOK /\ AloneInv /\ NoneWaitsForItself /\ [Next]_vars =>
          [\A e \in Executors : Stops(e) => Cause(e)]_vars
  <2> HIDE DEF Stops, Cause
  <2> QED
    BY <1>1
<1> QED
  BY <1>2, TypeCorrect, AloneAlways, NoTaskWaitsForItself, PTL DEF Spec, StopsForACause

=============================================================================
