------------------------------ MODULE A2AProofs ------------------------------
(***************************************************************************)
(* Theorems about A2ATasks, for every set of tasks, every number of        *)
(* attempts and of crashes.                                                *)
(*                                                                         *)
(* The properties are not inductive: they rest on where the coroutines of  *)
(* a task can stand at the same time.  Positions says so for every task,   *)
(* Posts says which update each of them posts, and SlowTask adds what only *)
(* holds of tasks that are worked on by a job from the start; the theorem  *)
(* about the lifecycle needs SyncTask, for plain messages, as well.  The    *)
(* last section ranks the work a task has left, without any fairness.      *)
(***************************************************************************)
EXTENDS A2ATasks, TLAPS

Working == {"accepted", "announcing", "yielded", "handling", "reporting"}

\* Where the request and the job of a task stand, and when they are posting.
Positions(i) ==
    /\ ~up => request[i] = "none" /\ job[i] = "none"
    /\ state[i] = "absent" => request[i] = "none" /\ job[i] = "none"
    /\ request[i] \in Working => job[i] = "none"
    /\ request[i] = "reporting" \/ job[i] = "reporting" => state[i] \in Terminal
    /\ push[i]["request"].phase # "idle" => request[i] \in {"announcing", "reporting"}
    /\ push[i]["job"].phase # "idle" => job[i] = "reporting"

\* OpenTasksAreOwned, of one task.
Owned(i) ==
    up /\ state[i] \in Open =>
        \/ request[i] \in {"accepted", "announcing", "yielded", "handling", "abandoned"}
        \/ job[i] \in {"asleep", "handling"}

\* What each coroutine posts, and that it is still to be delivered.
Posts(i) ==
    /\ push[i]["request"].phase # "idle" => push[i]["request"].event \in {"working", "completed", "failed"}
    /\ push[i]["job"].phase # "idle" => push[i]["job"].event \in {"completed", "failed"}
    /\ push[i]["cancel"].phase # "idle" => push[i]["cancel"].event = "canceled"
    /\ \A w \in Sender : push[i][w].phase # "idle" =>
           /\ ~ledger[i][push[i][w].event].delivered
           /\ ledger[i][push[i][w].event].attempts < PushAttempts

\* Who is posting nothing names no update.
Silence == \A i \in Ids, w \in Sender : push[i][w].phase = "idle" => push[i][w].event = "none"

SlowTask(i) == kind[i] = "slow" =>
    /\ request[i] \notin {"yielded", "handling", "reporting"}
    /\ state[i] = "absent" \/ request[i] = "accepted" =>
           /\ i \notin known /\ last[i] = "none"
           /\ \A w \in Sender : push[i][w].phase = "idle"
    /\ request[i] = "accepted" => state[i] = "submitted"
    /\ request[i] = "announcing" => state[i] \in {"working", "canceled"}
    /\ job[i] = "handling" => state[i] \in Open
    /\ push[i]["request"].phase # "idle" => push[i]["request"].event = "working"
    /\ push[i]["job"].phase # "idle" => push[i]["job"].event = state[i]
    /\ push[i]["cancel"].phase # "idle" => push[i]["cancel"].event = state[i]
    /\ last[i] \in Terminal => state[i] = last[i]

-----------------------------------------------------------------------------
(* Type correctness. *)

\* An update of any sender is well formed.
LEMMA UpdateType ==
    ASSUME NEW s \in TaskState \cup {"none"}, NEW a \in BOOLEAN,
           NEW p \in {"idle", "posting", "answering"}
    PROVE  Update(s, p, a) \in Posting
BY DEF Update, Posting

\* So is the mark of a sender that posts nothing.
LEMMA IdleType == Idle \in Posting
BY UpdateType DEF Idle

\* Replacing one entry of push keeps its type.
LEMMA EntryType ==
    ASSUME TypeOK, NEW i \in Ids, NEW w \in Sender, NEW r \in Posting,
           push' = [push EXCEPT ![i][w] = r]
    PROVE  push' \in [Ids -> [Sender -> Posting]]
BY DEF TypeOK

\* _notify() keeps the type of push.
LEMMA NotifyType ==
    ASSUME TypeOK, NEW i \in Ids, NEW w \in Sender, NEW s \in TaskState, Notify(i, w, s)
    PROVE  push' \in [Ids -> [Sender -> Posting]]
<1>1. Update(s, "posting", FALSE) \in Posting
  BY UpdateType
<1> QED
  BY <1>1 DEF TypeOK, Notify

\* Types are kept, given that an update in flight has attempts left
\* (the count of attempts is what could outgrow its range).
LEMMA TypeStep ==
    ASSUME TypeOK, \A i \in Ids : Posts(i), [Next]_vars
    PROVE  TypeOK'
<1> USE AttemptsAssumption, CrashesAssumption, KindsAssumption
<1> USE DEF faultVars
<1>1. ASSUME NEW i \in Ids, NewTask(i) PROVE TypeOK'
  BY <1>1 DEF TypeOK, NewTask, SetState, SetRequest, worldVars, TaskState
<1>2. ASSUME NEW i \in Ids, RequestStep(i) PROVE TypeOK'
  <2>1. CASE SendSync(i)
    BY <2>1 DEF TypeOK, SendSync, SetRequest, durableVars, worldVars
  <2>2. CASE SendSlow(i)
    <3>1. push' \in [Ids -> [Sender -> Posting]]
      <4>1. "working" \in TaskState /\ "request" \in Sender
        BY DEF TaskState, Sender
      <4>2. Notify(i, "request", "working")
        BY <2>2 DEF SendSlow
      <4> QED
        BY <4>1, <4>2, NotifyType
    <3>2. CASE Reports(i, "working")
      BY <2>2, <3>1, <3>2 DEF TypeOK, SendSlow, SetRequest, SetState, TaskState
    <3>3. CASE ~Reports(i, "working")
      <4>1. /\ request' = [request EXCEPT ![i] = "done"]
            /\ job' = [job EXCEPT ![i] = "asleep"]
            /\ known' = known \cup {i}
            /\ state' = [state EXCEPT ![i] = "working"]
        BY <2>2, <3>3 DEF SendSlow, SetRequest, SetJob, SetState
      <4> QED
        BY <2>2, <3>1, <4>1 DEF TypeOK, SendSlow, TaskState
    <3> QED
      BY <3>2, <3>3
  <2>3. CASE Stream(i)
    BY <2>3 DEF TypeOK, Stream, SetRequest, SetState, TaskState
  <2>4. CASE StreamGoesOn(i)
    BY <2>4 DEF TypeOK, StreamGoesOn, SetRequest, durableVars, worldVars
  <2>5. CASE RequestHandled(i)
    <3>1. push' \in [Ids -> [Sender -> Posting]]
      <4>1. PICK s \in TaskState : Notify(i, "request", s)
        BY <2>5 DEF RequestHandled, TaskState
      <4>2. "request" \in Sender
        BY DEF Sender
      <4> QED
        BY <4>1, <4>2, NotifyType
    <3> QED
      <4>1. PICK s \in TaskState : SetState(i, s)
        BY <2>5 DEF RequestHandled, TaskState
      <4>2. request' \in {[request EXCEPT ![i] = "reporting"], [request EXCEPT ![i] = "done"]}
        BY <2>5 DEF RequestHandled, SetRequest
      <4> QED
        BY <2>5, <3>1, <4>1, <4>2 DEF TypeOK, RequestHandled, SetState
  <2> QED
    BY <1>2, <2>1, <2>2, <2>3, <2>4, <2>5 DEF RequestStep
<1>3. ASSUME NEW i \in Ids, JobStep(i) PROVE TypeOK'
  <2>1. CASE JobWakes(i)
    BY <2>1 DEF TypeOK, JobWakes, SetJob, durableVars, worldVars
  <2>2. CASE JobHandled(i)
    <3>1. push' \in [Ids -> [Sender -> Posting]]
      <4>1. PICK s \in TaskState : Notify(i, "job", s)
        BY <2>2 DEF JobHandled, TaskState
      <4>2. "job" \in Sender
        BY DEF Sender
      <4> QED
        BY <4>1, <4>2, NotifyType
    <3> QED
      <4>1. PICK s \in TaskState : SetState(i, s)
        BY <2>2 DEF JobHandled, TaskState
      <4>2. job' \in {[job EXCEPT ![i] = "reporting"], [job EXCEPT ![i] = "done"]}
        BY <2>2 DEF JobHandled, SetJob
      <4> QED
        BY <2>2, <3>1, <4>1, <4>2 DEF TypeOK, JobHandled, SetState, worldVars
  <2> QED
    BY <1>3, <2>1, <2>2 DEF JobStep
<1>4. ASSUME NEW i \in Ids, Cancel(i) PROVE TypeOK'
  <2>1. push' \in [Ids -> [Sender -> Posting]]
    <3>1. Notify(i, "cancel", "canceled")
      BY <1>4 DEF Cancel
    <3>2. "cancel" \in Sender /\ "canceled" \in TaskState
      BY DEF Sender, TaskState
    <3> QED
      BY <3>1, <3>2, NotifyType
  <2> QED
    BY <1>4, <2>1 DEF TypeOK, Cancel, SetState, SetJob, worldVars, TaskState
<1>5. ASSUME NEW i \in Ids, Abandon(i) PROVE TypeOK'
  <2>1. "request" \in Sender /\ push' = [push EXCEPT ![i]["request"] = Idle]
    BY <1>5 DEF Abandon, Sender
  <2>2. push' \in [Ids -> [Sender -> Posting]]
    BY <2>1, IdleType, EntryType
  <2> QED
    BY <1>5, <2>2 DEF TypeOK, Abandon, SetRequest, durableVars, worldVars
<1>6. ASSUME NEW i \in Ids, NEW w \in Sender, PushStep(i, w) PROVE TypeOK'
  <2>1. push[i][w] \in Posting
    BY DEF TypeOK
  <2>2. CASE Post(i, w)
    <3> PICK arrives \in BOOLEAN :
          /\ push' = [push EXCEPT ![i][w] = Update(push[i][w].event, "answering", arrives)]
          /\ IF arrives THEN /\ last' = [last EXCEPT ![i] = push[i][w].event]
                             /\ known' = known \cup {i}
             ELSE UNCHANGED worldVars
      BY <2>2 DEF Post
    <3>1. push[i][w].event \in TaskState \cup {"none"}
      BY <2>1 DEF Posting
    <3>2. Update(push[i][w].event, "answering", arrives) \in Posting
      BY <3>1, UpdateType
    <3>3. push' \in [Ids -> [Sender -> Posting]]
      BY <3>2, EntryType
    <3>4. last' \in [Ids -> TaskState \cup {"none"}] /\ known' \subseteq Ids
      BY <3>1 DEF TypeOK, worldVars
    <3> QED
      BY <2>2, <3>3, <3>4 DEF TypeOK, Post, durableVars
  <2>3. CASE Answered(i, w)
    <3> DEFINE s == push[i][w].event
               n == ledger[i][s].attempts + 1
    <3> PICK ok \in {push[i][w].arrived, FALSE} :
          /\ ledger' = [ledger EXCEPT ![i][s] = [delivered |-> ok, attempts |-> n]]
          /\ IF ok \/ LastAttempt(n)
             THEN push' = [push EXCEPT ![i][w] = Idle] /\ Return(i, w)
             ELSE /\ push' = [push EXCEPT ![i][w] = Update(s, "posting", FALSE)]
                  /\ UNCHANGED <<request, job, known>>
      BY <2>3 DEF Answered
    <3>1. s \in TaskState /\ n \in 0..PushAttempts /\ ok \in BOOLEAN
      <4>1. push[i][w].phase # "idle" /\ ok \in BOOLEAN
        BY <2>1, <2>3 DEF Posting, Answered
      <4>2. s \in TaskState /\ ledger[i][s].attempts < PushAttempts
        BY <4>1 DEF Posts, Sender, TaskState
      <4>3. ledger[i][s].attempts \in 0..PushAttempts
        BY <4>2 DEF TypeOK
      <4>4. ASSUME NEW a \in 0..PushAttempts, a < PushAttempts PROVE a + 1 \in 0..PushAttempts
        BY <4>4
      <4>5. n \in 0..PushAttempts
        BY <4>2, <4>3, <4>4
      <4> QED
        BY <4>1, <4>2, <4>5
    <3>2. ledger' \in [Ids -> [TaskState -> [delivered : BOOLEAN, attempts : 0..PushAttempts]]]
      BY <3>1 DEF TypeOK
    <3>3. push' \in [Ids -> [Sender -> Posting]]
      <4>1. CASE push' = [push EXCEPT ![i][w] = Idle]
        BY <4>1, IdleType, EntryType
      <4>2. CASE push' = [push EXCEPT ![i][w] = Update(s, "posting", FALSE)]
        <5>1. Update(s, "posting", FALSE) \in Posting
          BY <3>1, UpdateType
        <5> QED
          BY <4>2, <5>1, EntryType
      <4> QED
        BY <4>1, <4>2
    <3>4. CASE UNCHANGED <<request, job, known>>
      BY <2>3, <3>2, <3>3, <3>4 DEF TypeOK, Answered
    <3>5. CASE Return(i, w)
      <4>1. /\ request' \in {request, [request EXCEPT ![i] = "done"]}
            /\ job' \in {job, [job EXCEPT ![i] = "asleep"], [job EXCEPT ![i] = "done"]}
            /\ known' \subseteq Ids
        BY <3>5 DEF Return, SetJob, TypeOK
      <4> QED
        BY <2>3, <3>2, <3>3, <4>1 DEF TypeOK, Answered
    <3> QED
      BY <3>4, <3>5
  <2> QED
    BY <1>6, <2>2, <2>3 DEF PushStep
<1>7. ASSUME NEW i \in Ids, DropCancel(i) PROVE TypeOK'
  <2>1. "cancel" \in Sender /\ push' = [push EXCEPT ![i]["cancel"] = Idle]
    BY <1>7 DEF DropCancel, Sender
  <2>2. push' \in [Ids -> [Sender -> Posting]]
    BY <2>1, IdleType, EntryType
  <2> QED
    BY <1>7, <2>2 DEF TypeOK, DropCancel, durableVars, worldVars
<1>8. CASE Crash
  <2>1. push' \in [Ids -> [Sender -> Posting]]
    BY <1>8, IdleType DEF Crash
  <2>2. crashes' \in 0..MaxCrashes
    BY <1>8 DEF TypeOK, Crash
  <2>3. /\ request' \in [Ids -> {"none"}]
        /\ job' \in [Ids -> {"none"}]
    BY <1>8 DEF Crash
  <2> QED
    BY <1>8, <2>1, <2>2, <2>3 DEF TypeOK, Crash, durableVars, worldVars
<1>9. CASE Restart
  BY <1>9 DEF TypeOK, Restart, Recoverable, TaskState, worldVars
<1>10. CASE UNCHANGED vars
  BY <1>10 DEF TypeOK, vars, durableVars, volatileVars, worldVars
<1> QED
  BY <1>1, <1>2, <1>3, <1>4, <1>5, <1>6, <1>7, <1>8, <1>9, <1>10 DEF Next

-----------------------------------------------------------------------------
(* The invariant.  A step changes one task only, or what all of them share. *)

TaskInv(i) == Positions(i) /\ Owned(i) /\ Posts(i) /\ SlowTask(i)

Inv == TypeOK /\ Silence /\ \A i \in Ids : TaskInv(i)

Same(j) ==
    /\ up' = up /\ kind'[j] = kind[j] /\ state'[j] = state[j] /\ ledger'[j] = ledger[j]
    /\ request'[j] = request[j] /\ job'[j] = job[j] /\ push'[j] = push[j]
    /\ last'[j] = last[j] /\ (j \in known' <=> j \in known)

\* A task nothing of which changes keeps its invariant.
LEMMA SameInv == ASSUME NEW j \in Ids, TaskInv(j), Same(j) PROVE TaskInv(j)'
<1>1. Positions(j)' /\ Owned(j)'
  BY DEF TaskInv, Same, Positions, Owned
<1>2. Posts(j)'
  BY DEF TaskInv, Same, Posts
<1>3. SlowTask(j)'
  BY DEF TaskInv, Same, SlowTask
<1> QED
  BY <1>1, <1>2, <1>3 DEF TaskInv

\* Where no sender posts anything new, the updates posted stay undelivered.
LEMMA PostsKept ==
    ASSUME NEW i \in Ids, Posts(i), ledger'[i] = ledger[i],
           \A v \in Sender : push'[i][v].phase # "idle" =>
               push[i][v].phase # "idle" /\ push'[i][v].event = push[i][v].event
    PROVE  Posts(i)'
<1>1. ASSUME NEW v \in Sender, push'[i][v].phase # "idle"
      PROVE  /\ ~ledger'[i][push'[i][v].event].delivered
             /\ ledger'[i][push'[i][v].event].attempts < PushAttempts
  <2>1. push[i][v].phase # "idle" /\ push'[i][v].event = push[i][v].event
    BY <1>1
  <2>2. /\ ~ledger[i][push[i][v].event].delivered
        /\ ledger[i][push[i][v].event].attempts < PushAttempts
    BY <2>1 DEF Posts
  <2> QED
    BY <2>1, <2>2
<1>2. "request" \in Sender /\ "job" \in Sender /\ "cancel" \in Sender
  BY DEF Sender
<1>3. /\ push[i]["request"].phase # "idle" =>
            push[i]["request"].event \in {"working", "completed", "failed"}
      /\ push[i]["job"].phase # "idle" => push[i]["job"].event \in {"completed", "failed"}
      /\ push[i]["cancel"].phase # "idle" => push[i]["cancel"].event = "canceled"
  BY DEF Posts
<1>4. /\ push'[i]["request"].phase # "idle" =>
            push'[i]["request"].event \in {"working", "completed", "failed"}
      /\ push'[i]["job"].phase # "idle" => push'[i]["job"].event \in {"completed", "failed"}
      /\ push'[i]["cancel"].phase # "idle" => push'[i]["cancel"].event = "canceled"
  BY <1>2, <1>3
<1> QED
  BY <1>1, <1>4 DEF Posts

\* One sender posts an update that is its to post and still to be delivered.
LEMMA PostsAdded ==
    ASSUME NEW i \in Ids, Posts(i), ledger'[i] = ledger[i], NEW w \in Sender, NEW s,
           push'[i][w].event = s, \A v \in Sender \ {w} : push'[i][v] = push[i][v],
           ~ledger[i][s].delivered, ledger[i][s].attempts < PushAttempts,
           w = "request" => s \in {"working", "completed", "failed"},
           w = "job" => s \in {"completed", "failed"},
           w = "cancel" => s = "canceled"
    PROVE  Posts(i)'
<1>1. ASSUME NEW v \in Sender, push'[i][v].phase # "idle"
      PROVE  /\ ~ledger'[i][push'[i][v].event].delivered
             /\ ledger'[i][push'[i][v].event].attempts < PushAttempts
  <2>1. CASE v = w
    BY <2>1
  <2>2. CASE v # w
    <3>1. push'[i][v] = push[i][v]
      BY <2>2
    <3>2. /\ ~ledger[i][push[i][v].event].delivered
          /\ ledger[i][push[i][v].event].attempts < PushAttempts
      BY <1>1, <3>1 DEF Posts
    <3> QED
      BY <3>1, <3>2
  <2> QED
    BY <2>1, <2>2
<1>2. "request" \in Sender /\ "job" \in Sender /\ "cancel" \in Sender
  BY DEF Sender
<1>3. /\ push[i]["request"].phase # "idle" =>
            push[i]["request"].event \in {"working", "completed", "failed"}
      /\ push[i]["job"].phase # "idle" => push[i]["job"].event \in {"completed", "failed"}
      /\ push[i]["cancel"].phase # "idle" => push[i]["cancel"].event = "canceled"
  BY DEF Posts
<1>4. push'[i]["request"].phase # "idle" =>
          push'[i]["request"].event \in {"working", "completed", "failed"}
  BY <1>2, <1>3
<1>5. push'[i]["job"].phase # "idle" => push'[i]["job"].event \in {"completed", "failed"}
  BY <1>2, <1>3
<1>6. push'[i]["cancel"].phase # "idle" => push'[i]["cancel"].event = "canceled"
  BY <1>2, <1>3
<1> QED
  BY <1>1, <1>4, <1>5, <1>6 DEF Posts

\* What push is after one entry of it was replaced.
LEMMA EntryValue ==
    ASSUME TypeOK, NEW i \in Ids, NEW w \in Sender, NEW r, push' = [push EXCEPT ![i][w] = r]
    PROVE  /\ push'[i][w] = r
           /\ \A v \in Sender \ {w} : push'[i][v] = push[i][v]
           /\ \A j \in Ids \ {i} : push'[j] = push[j]
BY DEF TypeOK

\* _notify() posts only what is undelivered and has attempts left.
LEMMA ReportsMeans ==
    ASSUME TypeOK, NEW i \in Ids, NEW s \in TaskState, Reports(i, s)
    PROVE  ~ledger[i][s].delivered /\ ledger[i][s].attempts < PushAttempts
<1>1. ledger[i][s].attempts \in 0..PushAttempts
  BY DEF TypeOK
<1> QED
  BY <1>1, AttemptsAssumption DEF Reports, Exhausted

\* What push is after _notify().
LEMMA NotifyValue ==
    ASSUME TypeOK, NEW i \in Ids, NEW w \in Sender, NEW s, Notify(i, w, s)
    PROVE  /\ IF Reports(i, s) THEN push'[i][w] = Update(s, "posting", FALSE)
                               ELSE push'[i][w] = push[i][w]
           /\ \A v \in Sender \ {w} : push'[i][v] = push[i][v]
           /\ \A j \in Ids \ {i} : push'[j] = push[j]
<1>1. CASE Reports(i, s)
  <2>1. push' = [push EXCEPT ![i][w] = Update(s, "posting", FALSE)]
    BY <1>1 DEF Notify
  <2>2. /\ push'[i][w] = Update(s, "posting", FALSE)
        /\ \A v \in Sender \ {w} : push'[i][v] = push[i][v]
        /\ \A j \in Ids \ {i} : push'[j] = push[j]
    BY <2>1, EntryValue
  <2> QED
    BY <1>1, <2>2
<1>2. CASE ~Reports(i, s)
  BY <1>2 DEF Notify
<1> QED
  BY <1>1, <1>2

\* A sender that posts nothing names no update, after any step.
LEMMA SilenceStep == ASSUME TypeOK, Silence, [Next]_vars PROVE Silence'
<1>1. ASSUME NEW i \in Ids, NEW w \in Sender, NEW r,
             push' = [push EXCEPT ![i][w] = r], r.phase = "idle" => r.event = "none"
      PROVE  Silence'
  BY <1>1 DEF TypeOK, Silence
<1>2. Idle.event = "none"
  BY DEF Idle, Update
<1>3. ASSUME NEW s, NEW p, p # "idle"
      PROVE  Update(s, p, TRUE).phase # "idle" /\ Update(s, p, FALSE).phase # "idle"
  BY <1>3 DEF Update
<1>4. CASE push' = push
  BY <1>4 DEF Silence
<1>5. ASSUME NEW i \in Ids, NEW w \in Sender, NEW s, Notify(i, w, s) PROVE Silence'
  BY <1>1, <1>3, <1>4, <1>5 DEF Notify
<1>6. "request" \in Sender /\ "job" \in Sender /\ "cancel" \in Sender
  BY DEF Sender
<1>7. ASSUME NEW i \in Ids, RequestStep(i) PROVE Silence'
  BY <1>4, <1>5, <1>6, <1>7
     DEF RequestStep, SendSync, SendSlow, Stream, StreamGoesOn, RequestHandled
<1>8. ASSUME NEW i \in Ids, JobStep(i) PROVE Silence'
  BY <1>4, <1>5, <1>6, <1>8 DEF JobStep, JobWakes, JobHandled
<1>9. ASSUME NEW i \in Ids, Cancel(i) PROVE Silence'
  BY <1>5, <1>6, <1>9 DEF Cancel
<1>10. ASSUME NEW i \in Ids, Abandon(i) \/ DropCancel(i) PROVE Silence'
  BY <1>1, <1>2, <1>6, <1>10 DEF Abandon, DropCancel
<1>11. ASSUME NEW i \in Ids, NEW w \in Sender, PushStep(i, w) PROVE Silence'
  <2>1. CASE Post(i, w)
    <3>1. PICK arrives \in BOOLEAN :
            push' = [push EXCEPT ![i][w] = Update(push[i][w].event, "answering", arrives)]
      BY <2>1 DEF Post
    <3>2. Update(push[i][w].event, "answering", arrives).phase # "idle"
      BY DEF Update
    <3> QED
      BY <1>1, <3>1, <3>2
  <2>2. CASE Answered(i, w)
    <3>1. CASE push' = [push EXCEPT ![i][w] = Idle]
      BY <1>1, <1>2, <3>1
    <3>2. CASE push' = [push EXCEPT ![i][w] = Update(push[i][w].event, "posting", FALSE)]
      <4>1. Update(push[i][w].event, "posting", FALSE).phase # "idle"
        BY DEF Update
      <4> QED
        BY <1>1, <3>2, <4>1
    <3> QED
      BY <2>2, <3>1, <3>2 DEF Answered
  <2> QED
    BY <1>11, <2>1, <2>2 DEF PushStep
<1>12. CASE Crash
  BY <1>2, <1>12 DEF Crash, Silence
<1>13. ASSUME NEW i \in Ids, NewTask(i) PROVE Silence'
  BY <1>4, <1>13 DEF NewTask
<1>14. CASE Restart \/ UNCHANGED vars
  BY <1>4, <1>14 DEF Restart, vars, volatileVars
<1> QED
  BY <1>7, <1>8, <1>9, <1>10, <1>11, <1>12, <1>13, <1>14 DEF Next

(* The steps of a request. *)

\* A new task has no coroutine but its request.
LEMMA NewTaskInv == ASSUME Inv, NEW i \in Ids, NewTask(i), NEW j \in Ids PROVE TaskInv(j)'
<1>1. /\ up /\ state[i] = "absent"
      /\ state' = [state EXCEPT ![i] = "submitted"]
      /\ request' = [request EXCEPT ![i] = "accepted"]
      /\ UNCHANGED <<kind, ledger, up, job, push, known, last>>
  BY DEF NewTask, SetState, SetRequest, worldVars
<1>2. CASE j # i
  BY <1>1, <1>2, SameInv DEF Same, Inv, TypeOK
<1>3. CASE j = i
  <2>1. /\ request[i] = "none" /\ job[i] = "none"
        /\ push[i]["request"].phase = "idle" /\ push[i]["job"].phase = "idle"
    BY <1>1 DEF Inv, TaskInv, Positions
  <2>2. state'[i] = "submitted" /\ request'[i] = "accepted"
    BY <1>1 DEF Inv, TypeOK
  <2>3. Positions(i)' /\ Owned(i)'
    BY <1>1, <2>1, <2>2 DEF Positions, Owned, Terminal
  <2>4. Posts(i)'
    BY <1>1, PostsKept DEF Inv, TaskInv
  <2>5. SlowTask(i)'
    <3>1. CASE kind[i] = "slow"
      <4>1. /\ i \notin known /\ last[i] = "none"
            /\ \A w \in Sender : push[i][w].phase = "idle"
        BY <1>1, <3>1 DEF Inv, TaskInv, SlowTask
      <4>2. push[i]["cancel"].phase = "idle"
        BY <4>1 DEF Sender
      <4> QED
        BY <1>1, <2>1, <2>2, <4>1, <4>2 DEF SlowTask, Terminal
    <3>2. CASE kind[i] # "slow"
      BY <1>1, <3>2 DEF SlowTask
    <3> QED
      BY <3>1, <3>2
  <2> QED
    BY <1>3, <2>3, <2>4, <2>5 DEF TaskInv
<1> QED
  BY <1>2, <1>3

\* Its request goes on to the handler.
LEMMA SendSyncInv == ASSUME Inv, NEW i \in Ids, SendSync(i), NEW j \in Ids PROVE TaskInv(j)'
<1>1. /\ request[i] = "accepted" /\ kind[i] = "sync"
      /\ request' = [request EXCEPT ![i] = "handling"]
      /\ UNCHANGED <<state, kind, ledger, up, job, push, known, last>>
  BY DEF SendSync, SetRequest, durableVars, worldVars
<1>2. CASE j # i
  BY <1>1, <1>2, SameInv DEF Same, Inv, TypeOK
<1>3. CASE j = i
  <2>1. request'[i] = "handling"
    BY <1>1 DEF Inv, TypeOK
  <2>2. Positions(i)' /\ Owned(i)'
    BY <1>1, <2>1 DEF Inv, TaskInv, Positions, Owned, Working
  <2>3. Posts(i)'
    BY <1>1, PostsKept DEF Inv, TaskInv
  <2>4. SlowTask(i)'
    BY <1>1 DEF SlowTask
  <2> QED
    BY <1>3, <2>2, <2>3, <2>4 DEF TaskInv
<1> QED
  BY <1>2, <1>3

\* Its request posts "working", or hands over to a job.
LEMMA SendSlowInv == ASSUME Inv, NEW i \in Ids, SendSlow(i), NEW j \in Ids PROVE TaskInv(j)'
<1>1. "request" \in Sender /\ "job" \in Sender /\ "cancel" \in Sender
  BY DEF Sender
<1>2. /\ IF Reports(i, "working") THEN push'[i]["request"] = Update("working", "posting", FALSE)
                                  ELSE push'[i]["request"] = push[i]["request"]
      /\ \A v \in Sender \ {"request"} : push'[i][v] = push[i][v]
      /\ \A k \in Ids \ {i} : push'[k] = push[k]
  BY <1>1, NotifyValue DEF Inv, SendSlow
<1>3. /\ request[i] = "accepted" /\ kind[i] = "slow"
      /\ state' = [state EXCEPT ![i] = "working"]
      /\ IF Reports(i, "working")
         THEN request' = [request EXCEPT ![i] = "announcing"] /\ UNCHANGED <<job, known>>
         ELSE /\ request' = [request EXCEPT ![i] = "done"]
              /\ job' = [job EXCEPT ![i] = "asleep"] /\ known' = known \cup {i}
      /\ UNCHANGED <<kind, hook, ledger, up, last>>
  BY DEF SendSlow, SetState, SetRequest, SetJob
<1>4. CASE j # i
  BY <1>2, <1>3, <1>4, SameInv DEF Same, Inv, TypeOK
<1>5. CASE j = i
  <2>1. job[i] = "none" /\ \A w \in Sender : push[i][w].phase = "idle"
    BY <1>3 DEF Inv, TaskInv, Positions, SlowTask, Working
  <2>2. CASE Reports(i, "working")
    <3>1. push'[i]["request"].event = "working" /\ push'[i]["request"].phase = "posting"
      BY <1>2, <2>2 DEF Update
    <3>2. ~ledger[i]["working"].delivered /\ ledger[i]["working"].attempts < PushAttempts
      BY <2>2, ReportsMeans DEF Inv, TaskState
    <3>3. state'[i] = "working" /\ request'[i] = "announcing"
      BY <1>3, <2>2 DEF Inv, TypeOK
    <3>4. push'[i]["job"].phase = "idle" /\ push'[i]["cancel"].phase = "idle"
      BY <1>1, <1>2, <2>1
    <3> QED
      <4>1. Positions(i)'
        BY <1>3, <1>5, <2>1, <2>2, <3>1, <3>2, <3>3, <3>4
           DEF Inv, TaskInv, Positions, Working
      <4>2. Owned(i)'
        BY <1>3, <1>5, <2>1, <2>2, <3>1, <3>2, <3>3, <3>4
           DEF Inv, TaskInv, Owned
      <4>3. Posts(i)'
        BY <1>1, <1>2, <1>3, <3>1, <3>2, PostsAdded DEF Inv, TaskInv
      <4>4. SlowTask(i)'
        BY <1>3, <1>5, <2>1, <2>2, <3>1, <3>2, <3>3, <3>4
           DEF Inv, TaskInv, SlowTask, Sender
      <4> QED
        BY <1>5, <4>1, <4>2, <4>3, <4>4 DEF TaskInv
  <2>3. CASE ~Reports(i, "working")
    <3>1. state'[i] = "working" /\ request'[i] = "done" /\ job'[i] = "asleep"
      BY <1>3, <2>3 DEF Inv, TypeOK
    <3>2. \A v \in Sender : push'[i][v] = push[i][v]
      BY <1>2, <2>3
    <3>3. /\ push'[i]["request"].phase = "idle" /\ push'[i]["job"].phase = "idle"
          /\ push'[i]["cancel"].phase = "idle"
      BY <1>1, <2>1, <3>2
    <3>4. last[i] = "none" /\ up
      BY <1>3 DEF Inv, TaskInv, SlowTask, Positions
    <3>5. Positions(i)' /\ Owned(i)'
      BY <1>3, <3>1, <3>3, <3>4 DEF Positions, Owned, Working, Terminal
    <3>6. Posts(i)'
      BY <1>3, <3>2, PostsKept DEF Inv, TaskInv
    <3>7. SlowTask(i)'
      BY <1>3, <3>1, <3>3, <3>4 DEF SlowTask, Open, Terminal
    <3> QED
      BY <1>5, <3>5, <3>6, <3>7 DEF TaskInv
  <2> QED
    BY <2>2, <2>3
<1> QED
  BY <1>4, <1>5

\* Its stream has yielded the first update.
LEMMA StreamInv == ASSUME Inv, NEW i \in Ids, Stream(i), NEW j \in Ids PROVE TaskInv(j)'
<1>1. /\ request[i] = "accepted" /\ kind[i] = "stream"
      /\ state' = [state EXCEPT ![i] = "working"]
      /\ request' = [request EXCEPT ![i] = "yielded"]
      /\ known' = known \cup {i}
      /\ UNCHANGED <<kind, ledger, up, job, push, last>>
  BY DEF Stream, SetState, SetRequest
<1>2. CASE j # i
  BY <1>1, <1>2, SameInv DEF Same, Inv, TypeOK
<1>3. CASE j = i
  <2>1. Positions(i)'
    BY <1>1, <1>3
       DEF Inv, TypeOK, TaskInv, Positions, Working
  <2>2. Owned(i)'
    BY <1>1, <1>3
       DEF Inv, TypeOK, TaskInv, Owned
  <2>3. Posts(i)'
    BY <1>1, PostsKept DEF Inv, TaskInv
  <2>4. SlowTask(i)'
    BY <1>1, <1>3
       DEF Inv, TypeOK, TaskInv, SlowTask
  <2> QED
    BY <1>3, <2>1, <2>2, <2>3, <2>4 DEF TaskInv
<1> QED
  BY <1>2, <1>3

\* Its stream goes on, unless it was cancelled meanwhile.
LEMMA StreamGoesOnInv ==
    ASSUME Inv, NEW i \in Ids, StreamGoesOn(i), NEW j \in Ids PROVE TaskInv(j)'
<1>1. /\ request[i] = "yielded"
      /\ request' = [request EXCEPT ![i] = IF state[i] \in Terminal THEN "done" ELSE "handling"]
      /\ UNCHANGED <<state, kind, ledger, up, job, push, known, last>>
  BY DEF StreamGoesOn, SetRequest, durableVars, worldVars
<1>2. CASE j # i
  BY <1>1, <1>2, SameInv DEF Same, Inv, TypeOK
<1>3. CASE j = i
  <2>1. Positions(i)'
    BY <1>1, <1>3
       DEF Inv, TypeOK, TaskInv, Positions, Working, Terminal, Open
  <2>2. Owned(i)'
    BY <1>1, <1>3
       DEF Inv, TypeOK, TaskInv, Owned, Open, Terminal
  <2>3. Posts(i)'
    BY <1>1, PostsKept DEF Inv, TaskInv
  <2>4. SlowTask(i)'
    BY <1>1, <1>3
       DEF Inv, TypeOK, TaskInv, SlowTask, Open, Terminal
  <2> QED
    BY <1>3, <2>1, <2>2, <2>3, <2>4 DEF TaskInv
<1> QED
  BY <1>2, <1>3

\* Its request has an outcome, whatever the state was.
LEMMA RequestHandledInv ==
    ASSUME Inv, NEW i \in Ids, RequestHandled(i), NEW j \in Ids PROVE TaskInv(j)'
<1>1. "request" \in Sender /\ "job" \in Sender /\ "cancel" \in Sender
  BY DEF Sender
<1>2. PICK s \in {"completed", "failed"} :
        SetState(i, s) /\ Notify(i, "request", s)
        /\ SetRequest(i, IF Reports(i, s) THEN "reporting" ELSE "done")
  BY DEF RequestHandled
<1>3. s \in TaskState /\ s \in Terminal
  BY DEF TaskState, Terminal
<1>4. /\ IF Reports(i, s) THEN push'[i]["request"] = Update(s, "posting", FALSE)
                           ELSE push'[i]["request"] = push[i]["request"]
      /\ \A v \in Sender \ {"request"} : push'[i][v] = push[i][v]
      /\ \A k \in Ids \ {i} : push'[k] = push[k]
  BY <1>1, <1>2, NotifyValue DEF Inv
<1>5. /\ request[i] = "handling"
      /\ state' = [state EXCEPT ![i] = s]
      /\ request' = [request EXCEPT ![i] = IF Reports(i, s) THEN "reporting" ELSE "done"]
      /\ known' = known \cup {i}
      /\ UNCHANGED <<kind, ledger, up, job, last>>
  BY <1>2 DEF RequestHandled, SetState, SetRequest
<1>6. CASE j # i
  BY <1>4, <1>5, <1>6, SameInv DEF Same, Inv, TypeOK
<1>7. CASE j = i
  <2>1. /\ job[i] = "none" /\ kind[i] # "slow" /\ push[i]["request"].phase = "idle"
        /\ push[i]["job"].phase = "idle"
    BY <1>5 DEF Inv, TaskInv, Positions, SlowTask, Working
  <2>2. state'[i] = s /\ kind'[i] # "slow"
    BY <1>5, <2>1 DEF Inv, TypeOK
  <2>3. CASE Reports(i, s)
    <3>1. push'[i]["request"].event = s /\ push'[i]["request"].phase = "posting"
      BY <1>4, <2>3 DEF Update
    <3>2. ~ledger[i][s].delivered /\ ledger[i][s].attempts < PushAttempts
      BY <1>3, <2>3, ReportsMeans DEF Inv
    <3>3. request'[i] = "reporting"
      BY <1>5, <2>3 DEF Inv, TypeOK
    <3>4. push'[i]["job"] = push[i]["job"] /\ push'[i]["cancel"] = push[i]["cancel"]
      BY <1>1, <1>4
    <3> QED
      <4>1. Positions(i)'
        BY <1>3, <1>5, <1>7, <2>1, <2>2, <3>1, <3>2, <3>3, <3>4
           DEF Inv, TaskInv, Positions, Working, Terminal, Open
      <4>2. Owned(i)'
        BY <1>3, <1>5, <1>7, <2>1, <2>2, <3>1, <3>2, <3>3, <3>4
           DEF Inv, TaskInv, Owned, Open, Terminal
      <4>3. Posts(i)'
        BY <1>1, <1>2, <1>4, <1>5, <3>1, <3>2, PostsAdded DEF Inv, TaskInv
      <4>4. SlowTask(i)'
        BY <1>3, <1>5, <1>7, <2>1, <2>2, <3>1, <3>2, <3>3, <3>4
           DEF Inv, TaskInv, SlowTask, Sender, Open, Terminal
      <4> QED
        BY <1>7, <4>1, <4>2, <4>3, <4>4 DEF TaskInv
  <2>4. CASE ~Reports(i, s)
    <3>1. request'[i] = "done"
      BY <1>5, <2>4 DEF Inv, TypeOK
    <3>2. \A v \in Sender : push'[i][v] = push[i][v]
      BY <1>4, <2>4
    <3> QED
      <4>1. Positions(i)'
        BY <1>1, <1>3, <1>5, <1>7, <2>1, <2>2, <3>1, <3>2
           DEF Inv, TaskInv, Positions, Working, Terminal, Open
      <4>2. Owned(i)'
        BY <1>1, <1>3, <1>5, <1>7, <2>1, <2>2, <3>1, <3>2
           DEF Inv, TaskInv, Owned, Open, Terminal
      <4>3. Posts(i)'
        BY <1>5, <3>2, PostsKept DEF Inv, TaskInv
      <4>4. SlowTask(i)'
        BY <1>1, <1>3, <1>5, <1>7, <2>1, <2>2, <3>1, <3>2
           DEF Inv, TaskInv, SlowTask, Open, Terminal
      <4> QED
        BY <1>7, <4>1, <4>2, <4>3, <4>4 DEF TaskInv
  <2> QED
    BY <2>3, <2>4
<1> QED
  BY <1>6, <1>7

\* Its request goes away, with the post it was making.
LEMMA AbandonInv == ASSUME Inv, NEW i \in Ids, Abandon(i), NEW j \in Ids PROVE TaskInv(j)'
<1>1. "request" \in Sender /\ "job" \in Sender /\ "cancel" \in Sender
  BY DEF Sender
<1>2. /\ push'[i]["request"] = Idle
      /\ \A v \in Sender \ {"request"} : push'[i][v] = push[i][v]
      /\ \A k \in Ids \ {i} : push'[k] = push[k]
  BY <1>1, EntryValue DEF Abandon, Inv
<1>3. /\ request[i] \in Working /\ kind[i] # "slow"
      /\ request' = [request EXCEPT ![i] = "abandoned"]
      /\ UNCHANGED <<state, kind, ledger, up, job, known, last>>
  BY DEF Abandon, SetRequest, durableVars, worldVars, Working
<1>4. CASE j # i
  BY <1>2, <1>3, <1>4, SameInv DEF Same, Inv, TypeOK
<1>5. CASE j = i
  <2>1. push'[i]["request"].phase = "idle" /\ push'[i]["job"] = push[i]["job"]
    BY <1>1, <1>2 DEF Idle, Update
  <2>2. request'[i] = "abandoned"
    BY <1>3 DEF Inv, TypeOK
  <2>3. Positions(i)' /\ Owned(i)'
    BY <1>3, <2>1, <2>2 DEF Inv, TaskInv, Positions, Owned, Working
  <2>4. Posts(i)'
    BY <1>2, <1>3, <2>1, PostsKept DEF Inv, TaskInv
  <2>5. SlowTask(i)'
    BY <1>3 DEF SlowTask
  <2> QED
    BY <1>5, <2>3, <2>4, <2>5 DEF TaskInv
<1> QED
  BY <1>4, <1>5

(* The steps of a job, and tasks/cancel. *)

\* A cancellation given up changes nothing but what it was posting.
LEMMA DropCancelInv == ASSUME Inv, NEW i \in Ids, DropCancel(i), NEW j \in Ids PROVE TaskInv(j)'
<1>1. "request" \in Sender /\ "job" \in Sender /\ "cancel" \in Sender
  BY DEF Sender
<1>2. /\ push'[i]["cancel"] = Idle
      /\ \A v \in Sender \ {"cancel"} : push'[i][v] = push[i][v]
      /\ \A k \in Ids \ {i} : push'[k] = push[k]
  BY <1>1, EntryValue DEF DropCancel, Inv
<1>3. UNCHANGED <<state, kind, ledger, up, request, job, known, last>>
  BY DEF DropCancel, durableVars, worldVars
<1>4. push'[i]["cancel"].phase = "idle"
  BY <1>2 DEF Idle, Update
<1>5. CASE j # i
  BY <1>2, <1>3, <1>5, SameInv DEF Same, Inv
<1>6. CASE j = i
  <2>1. push'[i]["request"] = push[i]["request"] /\ push'[i]["job"] = push[i]["job"]
    BY <1>1, <1>2
  <2>2. Positions(i)' /\ Owned(i)'
    BY <1>3, <2>1 DEF Inv, TaskInv, Positions, Owned
  <2>3. Posts(i)'
    BY <1>2, <1>3, <1>4, PostsKept DEF Inv, TaskInv
  <2>4. SlowTask(i)'
    BY <1>2, <1>3, <1>4, <2>1 DEF Inv, TaskInv, SlowTask
  <2> QED
    BY <1>6, <2>2, <2>3, <2>4 DEF TaskInv
<1> QED
  BY <1>5, <1>6

\* A job goes to the handler, unless the task has ended.
LEMMA JobWakesInv == ASSUME Inv, NEW i \in Ids, JobWakes(i), NEW j \in Ids PROVE TaskInv(j)'
<1>1. /\ job[i] = "asleep"
      /\ job' = [job EXCEPT ![i] = IF state[i] \in Terminal THEN "done" ELSE "handling"]
      /\ UNCHANGED <<state, kind, ledger, up, request, push, known, last>>
  BY DEF JobWakes, SetJob, durableVars, worldVars
<1>2. CASE j # i
  BY <1>1, <1>2, SameInv DEF Same, Inv, TypeOK
<1>3. CASE j = i
  <2>1. state[i] \in Open \cup Terminal
    BY <1>1 DEF Inv, TypeOK, TaskInv, Positions, TaskState, Open, Terminal
  <2> QED
    <3>1. Positions(i)'
      BY <1>1, <1>3, <2>1
         DEF Inv, TypeOK, TaskInv, Positions, Working, Terminal, Open
    <3>2. Owned(i)'
      BY <1>1, <1>3, <2>1
         DEF Inv, TypeOK, TaskInv, Owned, Open, Terminal
    <3>3. Posts(i)'
      BY <1>1, PostsKept DEF Inv, TaskInv
    <3>4. SlowTask(i)'
      BY <1>1, <1>3, <2>1
         DEF Inv, TypeOK, TaskInv, SlowTask, Open, Terminal
    <3> QED
      BY <1>3, <3>1, <3>2, <3>3, <3>4 DEF TaskInv
<1> QED
  BY <1>2, <1>3

\* A job has an outcome, and nobody else is posting for a slow task.
LEMMA JobHandledInv == ASSUME Inv, NEW i \in Ids, JobHandled(i), NEW j \in Ids PROVE TaskInv(j)'
<1>1. "request" \in Sender /\ "job" \in Sender /\ "cancel" \in Sender
  BY DEF Sender
<1>2. PICK s \in {"completed", "failed"} :
        SetState(i, s) /\ Notify(i, "job", s)
        /\ SetJob(i, IF Reports(i, s) THEN "reporting" ELSE "done")
  BY DEF JobHandled
<1>3. s \in TaskState /\ s \in Terminal
  BY DEF TaskState, Terminal
<1>4. /\ IF Reports(i, s) THEN push'[i]["job"] = Update(s, "posting", FALSE)
                           ELSE push'[i]["job"] = push[i]["job"]
      /\ \A v \in Sender \ {"job"} : push'[i][v] = push[i][v]
      /\ \A k \in Ids \ {i} : push'[k] = push[k]
  BY <1>1, <1>2, NotifyValue DEF Inv
<1>5. /\ job[i] = "handling"
      /\ state' = [state EXCEPT ![i] = s]
      /\ job' = [job EXCEPT ![i] = IF Reports(i, s) THEN "reporting" ELSE "done"]
      /\ UNCHANGED <<kind, ledger, up, request, known, last>>
  BY <1>2 DEF JobHandled, SetState, SetJob, worldVars
<1>6. CASE j # i
  BY <1>4, <1>5, <1>6, SameInv DEF Same, Inv, TypeOK
<1>7. CASE j = i
  <2>1. /\ request[i] \notin Working /\ push[i]["request"].phase = "idle"
        /\ push[i]["job"].phase = "idle" /\ state[i] # "absent" /\ up
    BY <1>5 DEF Inv, TaskInv, Positions, Working
  <2>2. kind[i] = "slow" =>
            push[i]["cancel"].phase = "idle" /\ last[i] \notin Terminal
    BY <1>5 DEF Inv, TaskInv, SlowTask, Posts, Open, Terminal
  <2>3. state'[i] = s
    BY <1>5 DEF Inv, TypeOK
  <2>4. push'[i]["request"] = push[i]["request"] /\ push'[i]["cancel"] = push[i]["cancel"]
    BY <1>1, <1>4
  <2>5. CASE Reports(i, s)
    <3>1. push'[i]["job"].event = s /\ push'[i]["job"].phase = "posting"
      BY <1>4, <2>5 DEF Update
    <3>2. ~ledger[i][s].delivered /\ ledger[i][s].attempts < PushAttempts
      BY <1>3, <2>5, ReportsMeans DEF Inv
    <3>3. job'[i] = "reporting"
      BY <1>5, <2>5 DEF Inv, TypeOK
    <3> QED
      <4>1. Positions(i)'
        BY <1>3, <1>5, <1>7, <2>1, <2>2, <2>3, <2>4, <3>1, <3>2, <3>3
           DEF Inv, TaskInv, Positions, Working, Terminal, Open
      <4>2. Owned(i)'
        BY <1>3, <1>5, <1>7, <2>1, <2>2, <2>3, <2>4, <3>1, <3>2, <3>3
           DEF Inv, TaskInv, Owned, Open, Terminal
      <4>3. Posts(i)'
        BY <1>1, <1>2, <1>4, <1>5, <3>1, <3>2, PostsAdded DEF Inv, TaskInv
      <4>4. SlowTask(i)'
        <5>1. kind[i] = "slow" => request[i] # "accepted"
          BY <2>1 DEF Working
        <5>2. kind[i] = "slow" => push'[i]["cancel"].phase = "idle" /\ push'[i]["request"].phase = "idle"
          BY <2>1, <2>2, <2>4
        <5>3. request[i] \notin {"yielded", "handling", "reporting", "announcing"}
          BY <2>1 DEF Working
        <5> QED
          BY <1>3, <1>5, <2>2, <2>3, <3>1, <3>3, <5>1, <5>2, <5>3 DEF SlowTask, TaskState, Terminal
      <4> QED
        BY <1>7, <4>1, <4>2, <4>3, <4>4 DEF TaskInv
  <2>6. CASE ~Reports(i, s)
    <3>1. job'[i] = "done"
      BY <1>5, <2>6 DEF Inv, TypeOK
    <3>2. push'[i]["job"] = push[i]["job"]
      BY <1>4, <2>6
    <3> QED
      <4>1. Positions(i)'
        BY <1>3, <1>5, <1>7, <2>1, <2>2, <2>3, <2>4, <3>1, <3>2
           DEF Inv, TaskInv, Positions, Working, Terminal, Open
      <4>2. Owned(i)'
        BY <1>3, <1>5, <1>7, <2>1, <2>2, <2>3, <2>4, <3>1, <3>2
           DEF Inv, TaskInv, Owned, Open, Terminal
      <4>3. Posts(i)'
        BY <1>4, <1>5, <2>6, PostsKept DEF Inv, TaskInv
      <4>4. SlowTask(i)'
        <5>1. kind[i] = "slow" => request[i] # "accepted"
          BY <2>1 DEF Working
        <5>2. /\ push'[i]["request"].phase = "idle" /\ push'[i]["job"].phase = "idle"
              /\ kind[i] = "slow" => push'[i]["cancel"].phase = "idle"
          BY <2>1, <2>2, <2>4, <3>2
        <5>3. request[i] \notin {"yielded", "handling", "reporting", "announcing"}
          BY <2>1 DEF Working
        <5> QED
          BY <1>3, <1>5, <2>2, <2>3, <3>1, <5>1, <5>2, <5>3 DEF SlowTask, TaskState, Terminal
      <4> QED
        BY <1>7, <4>1, <4>2, <4>3, <4>4 DEF TaskInv
  <2> QED
    BY <2>5, <2>6
<1> QED
  BY <1>6, <1>7

\* An open task is canceled and its job ended.
LEMMA CancelInv == ASSUME Inv, NEW i \in Ids, Cancel(i), NEW j \in Ids PROVE TaskInv(j)'
<1>1. "request" \in Sender /\ "job" \in Sender /\ "cancel" \in Sender
  BY DEF Sender
<1>2. /\ IF Reports(i, "canceled") THEN push'[i]["cancel"] = Update("canceled", "posting", FALSE)
                                   ELSE push'[i]["cancel"] = push[i]["cancel"]
      /\ \A v \in Sender \ {"cancel"} : push'[i][v] = push[i][v]
      /\ \A k \in Ids \ {i} : push'[k] = push[k]
  BY <1>1, NotifyValue DEF Inv, Cancel
<1>3. /\ state[i] \in Open /\ i \in known
      /\ state' = [state EXCEPT ![i] = "canceled"]
      /\ job' = [job EXCEPT ![i] = IF job[i] = "none" THEN "none" ELSE "done"]
      /\ UNCHANGED <<kind, ledger, up, request, known, last>>
  BY DEF Cancel, SetState, SetJob, worldVars
<1>4. CASE j # i
  BY <1>2, <1>3, <1>4, SameInv DEF Same, Inv, TypeOK
<1>5. CASE j = i
  <2>1. /\ push[i]["job"].phase = "idle" /\ job[i] # "reporting" /\ request[i] # "reporting"
        /\ kind[i] = "slow" => push[i]["cancel"].phase = "idle"
                             /\ request[i] # "accepted" /\ last[i] \notin Terminal
    BY <1>3 DEF Inv, TaskInv, Positions, Posts, SlowTask, Open, Terminal
  <2>2. /\ state'[i] = "canceled"
        /\ job'[i] = IF job[i] = "none" THEN "none" ELSE "done"
    BY <1>3 DEF Inv, TypeOK
  <2>3. push'[i]["request"] = push[i]["request"] /\ push'[i]["job"] = push[i]["job"]
    BY <1>1, <1>2
  <2>4. CASE Reports(i, "canceled")
    <3>1. push'[i]["cancel"].event = "canceled" /\ push'[i]["cancel"].phase = "posting"
      BY <1>2, <2>4 DEF Update
    <3>2. ~ledger[i]["canceled"].delivered /\ ledger[i]["canceled"].attempts < PushAttempts
      BY <2>4, ReportsMeans DEF Inv, TaskState
    <3> QED
      <4>1. Positions(i)'
        BY <1>3, <1>5, <2>1, <2>2, <2>3, <3>1, <3>2
           DEF Inv, TaskInv, Positions, Working, Terminal, Open
      <4>2. Owned(i)'
        BY <1>3, <1>5, <2>1, <2>2, <2>3, <3>1, <3>2
           DEF Inv, TaskInv, Owned, Open, Terminal
      <4>3. Posts(i)'
        BY <1>1, <1>2, <1>3, <3>1, <3>2, PostsAdded DEF Inv, TaskInv
      <4>4. SlowTask(i)'
        BY <1>3, <1>5, <2>1, <2>2, <2>3, <3>1, <3>2
           DEF Inv, TaskInv, SlowTask, Sender, Open, Terminal
      <4> QED
        BY <1>5, <4>1, <4>2, <4>3, <4>4 DEF TaskInv
  <2>5. CASE ~Reports(i, "canceled")
    <3>1. push'[i]["cancel"] = push[i]["cancel"]
      BY <1>2, <2>5
    <3> QED
      <4>1. Positions(i)'
        BY <1>3, <1>5, <2>1, <2>2, <2>3, <3>1
           DEF Inv, TaskInv, Positions, Working, Terminal, Open
      <4>2. Owned(i)'
        BY <1>3, <1>5, <2>1, <2>2, <2>3, <3>1
           DEF Inv, TaskInv, Owned, Open, Terminal
      <4>3. Posts(i)'
        BY <1>2, <1>3, <2>5, PostsKept DEF Inv, TaskInv
      <4>4. SlowTask(i)'
        BY <1>3, <1>5, <2>1, <2>2, <2>3, <3>1
           DEF Inv, TaskInv, SlowTask, Sender, Open, Terminal
      <4> QED
        BY <1>5, <4>1, <4>2, <4>3, <4>4 DEF TaskInv
  <2> QED
    BY <2>4, <2>5
<1> QED
  BY <1>4, <1>5

(* The steps of a post, and the life of the process. *)

\* An update arrives at the callback, or is lost.
LEMMA PostInv ==
    ASSUME Inv, NEW i \in Ids, NEW w \in Sender, Post(i, w), NEW j \in Ids PROVE TaskInv(j)'
<1>1. PICK arrives \in BOOLEAN :
        /\ push' = [push EXCEPT ![i][w] = Update(push[i][w].event, "answering", arrives)]
        /\ IF arrives THEN /\ last' = [last EXCEPT ![i] = push[i][w].event]
                           /\ known' = known \cup {i}
           ELSE UNCHANGED worldVars
  BY DEF Post
<1>2. /\ push'[i][w] = Update(push[i][w].event, "answering", arrives)
      /\ \A v \in Sender \ {w} : push'[i][v] = push[i][v]
      /\ \A k \in Ids \ {i} : push'[k] = push[k]
  BY <1>1, EntryValue DEF Inv
<1>3. push[i][w].phase = "posting" /\ UNCHANGED <<state, kind, ledger, up, request, job>>
  BY DEF Post, durableVars
<1>4. CASE j # i
  <2>1. last'[j] = last[j] /\ (j \in known' <=> j \in known)
    BY <1>1, <1>4 DEF Inv, TypeOK, worldVars
  <2> QED
    BY <1>2, <1>3, <1>4, <2>1, SameInv DEF Same, Inv
<1>5. CASE j = i
  <2>1. \A v \in Sender : /\ push'[i][v].event = push[i][v].event
                          /\ push'[i][v].phase # "idle" => push[i][v].phase # "idle"
    BY <1>2, <1>3 DEF Update
  <2>2. "request" \in Sender /\ "job" \in Sender /\ "cancel" \in Sender
    BY DEF Sender
  <2>3. Positions(i)' /\ Owned(i)' /\ Posts(i)'
    BY <1>3, <2>1, <2>2 DEF Inv, TaskInv, Positions, Owned, Posts
  <2>4. kind[i] = "slow" => state[i] # "absent" /\ request[i] # "accepted"
    BY <1>3 DEF Inv, TaskInv, SlowTask
  <2>5. last'[i] \in {last[i], push[i][w].event}
    BY <1>1 DEF Inv, TypeOK, worldVars
  <2>6. kind[i] = "slow" /\ last'[i] \in Terminal => state[i] = last'[i]
    BY <1>3, <2>5 DEF Inv, TaskInv, SlowTask, Sender, Terminal
  <2>7. SlowTask(i)'
    BY <1>3, <2>1, <2>2, <2>4, <2>6 DEF Inv, TaskInv, SlowTask
  <2> QED
    BY <1>5, <2>3, <2>7 DEF TaskInv
<1> QED
  BY <1>4, <1>5

\* Two coroutines of a task post different updates.
LEMMA UpdatesDiffer ==
    ASSUME NEW i \in Ids, Positions(i), Posts(i), NEW w \in Sender, NEW v \in Sender \ {w},
           push[i][w].phase # "idle", push[i][v].phase # "idle"
    PROVE  push[i][v].event \in TaskState \ {push[i][w].event}
<1>1. /\ push[i]["request"].phase # "idle" =>
            push[i]["request"].event \in {"working", "completed", "failed"}
      /\ push[i]["job"].phase # "idle" => push[i]["job"].event \in {"completed", "failed"}
      /\ push[i]["cancel"].phase # "idle" => push[i]["cancel"].event = "canceled"
  BY DEF Posts
<1>2. ~(push[i]["request"].phase # "idle" /\ push[i]["job"].phase # "idle")
  BY DEF Positions, Working
<1>3. w \in {"request", "job", "cancel"} /\ v \in {"request", "job", "cancel"} /\ v # w
  BY DEF Sender
<1>4. push[i][v].event \in TaskState
  BY <1>1, <1>3 DEF TaskState
<1>5. CASE v = "cancel"
  BY <1>1, <1>3, <1>4, <1>5
<1>6. CASE w = "cancel"
  BY <1>1, <1>3, <1>4, <1>6
<1>7. CASE v # "cancel" /\ w # "cancel"
  BY <1>2, <1>3, <1>7
<1> QED
  BY <1>5, <1>6, <1>7

\* A post is recorded: retried, or its coroutine goes on.
LEMMA AnsweredInv ==
    ASSUME Inv, NEW i \in Ids, NEW w \in Sender, Answered(i, w), NEW j \in Ids PROVE TaskInv(j)'
<1> DEFINE s == push[i][w].event
           n == ledger[i][s].attempts + 1
<1>1. PICK ok \in {push[i][w].arrived, FALSE} :
        /\ ledger' = [ledger EXCEPT ![i][s] = [delivered |-> ok, attempts |-> n]]
        /\ IF ok \/ LastAttempt(n)
           THEN push' = [push EXCEPT ![i][w] = Idle] /\ Return(i, w)
           ELSE /\ push' = [push EXCEPT ![i][w] = Update(s, "posting", FALSE)]
                /\ UNCHANGED <<request, job, known>>
  BY DEF Answered
<1>2. push[i][w].phase = "answering" /\ UNCHANGED <<state, kind, up, last>>
  BY DEF Answered
<1>3. "request" \in Sender /\ "job" \in Sender /\ "cancel" \in Sender
  BY DEF Sender
<1>4. s \in TaskState /\ ledger[i][s].attempts \in Nat
  <2>1. s \in TaskState
    BY <1>2 DEF Inv, TaskInv, Posts, Sender, TaskState
  <2> QED
    BY <2>1 DEF Inv, TypeOK
<1>5. CASE j # i
  <2>1. push'[j] = push[j] /\ ledger'[j] = ledger[j]
    BY <1>1, <1>5 DEF Inv, TypeOK
  <2>2. request'[j] = request[j] /\ job'[j] = job[j] /\ (j \in known' <=> j \in known)
    <3>1. CASE Return(i, w)
      BY <1>5, <3>1 DEF Inv, TypeOK, Return, SetJob
    <3>2. CASE UNCHANGED <<request, job, known>>
      BY <3>2
    <3> QED
      BY <1>1, <3>1, <3>2
  <2> QED
    BY <1>2, <1>5, <2>1, <2>2, SameInv DEF Same, Inv
<1>6. CASE j = i
  <2>1. ledger'[i][s] = [delivered |-> ok, attempts |-> n]
        /\ \A e \in TaskState \ {s} : ledger'[i][e] = ledger[i][e]
    BY <1>1, <1>4 DEF Inv, TypeOK
  <2>2. /\ \A v \in Sender \ {w} : push'[i][v] = push[i][v]
        /\ push'[i][w] \in {Idle, Update(s, "posting", FALSE)}
        /\ push'[i][w] # Idle => ~ok /\ ~LastAttempt(n)
    <3>1. CASE ok \/ LastAttempt(n)
      <4>1. push' = [push EXCEPT ![i][w] = Idle]
        BY <1>1, <3>1
      <4>2. push'[i][w] = Idle /\ \A v \in Sender \ {w} : push'[i][v] = push[i][v]
        BY <4>1 DEF Inv, TypeOK
      <4> QED
        BY <4>2
    <3>2. CASE ~(ok \/ LastAttempt(n))
      <4>1. push' = [push EXCEPT ![i][w] = Update(s, "posting", FALSE)]
        BY <1>1, <3>2
      <4>2. /\ push'[i][w] = Update(s, "posting", FALSE)
            /\ \A v \in Sender \ {w} : push'[i][v] = push[i][v]
        BY <4>1 DEF Inv, TypeOK
      <4> QED
        BY <3>2, <4>2
    <3> QED
      BY <3>1, <3>2
  <2>3. \A v \in Sender : push'[i][v].phase # "idle" =>
            push[i][v].phase # "idle" /\ push'[i][v].event = push[i][v].event
    BY <1>2, <2>2 DEF Idle, Update
  <2>4. \A v \in Sender \ {w} : push[i][v].phase # "idle" => push[i][v].event \in TaskState \ {s}
    <3>1. Positions(i) /\ Posts(i) /\ push[i][w].phase # "idle"
      BY <1>2 DEF Inv, TaskInv
    <3> QED
      BY <3>1, UpdatesDiffer
  <2>5. Posts(i)'
    <3>1. ASSUME NEW v \in Sender, push'[i][v].phase # "idle"
          PROVE  /\ ~ledger'[i][push'[i][v].event].delivered
                 /\ ledger'[i][push'[i][v].event].attempts < PushAttempts
      <4>1. CASE v = w
        <5>1. push'[i][w].event = s /\ ~ok /\ ~LastAttempt(n)
          BY <2>2, <2>3, <3>1, <4>1 DEF Idle, Update
        <5> QED
          BY <1>4, <2>1, <4>1, <5>1, AttemptsAssumption DEF LastAttempt
      <4>2. CASE v # w
        <5>1. push'[i][v] = push[i][v] /\ push[i][v].phase # "idle"
          BY <2>2, <3>1, <4>2
        <5>2. ledger'[i][push[i][v].event] = ledger[i][push[i][v].event]
          BY <2>1, <2>4, <4>2, <5>1
        <5>3. /\ ~ledger[i][push[i][v].event].delivered
              /\ ledger[i][push[i][v].event].attempts < PushAttempts
          BY <5>1 DEF Inv, TaskInv, Posts
        <5> QED
          BY <5>1, <5>2, <5>3
      <4> QED
        BY <4>1, <4>2
    <3> QED
      BY <1>3, <2>3, <3>1 DEF Inv, TaskInv, Posts
  <2>6. CASE UNCHANGED <<request, job, known>>
    BY <1>2, <1>3, <1>6, <2>3, <2>5, <2>6 DEF Inv, TaskInv, Positions, Owned, SlowTask
  <2>7. CASE push'[i][w] = Idle /\ Return(i, w)
    <3>1. push'[i][w].phase = "idle" /\ state'[i] = state[i] /\ up' = up
      BY <1>2, <2>7 DEF Idle, Update
    <3>2. CASE w = "request"
      <4>1. /\ request[i] \in {"announcing", "reporting"} /\ job[i] = "none" /\ up
            /\ push[i]["job"].phase = "idle" /\ state[i] # "absent"
        BY <1>2, <3>2 DEF Inv, TaskInv, Positions, Working
      <4>2. request'[i] = "done" /\ job'[i] = IF request[i] = "announcing" THEN "asleep" ELSE "none"
        BY <2>7, <3>2, <4>1 DEF Return, SetJob, Inv, TypeOK
      <4> QED
        BY <1>2, <1>3, <1>6, <2>3, <2>5, <3>1, <3>2, <4>1, <4>2
           DEF Inv, TaskInv, Positions, Owned, SlowTask, Working, Terminal, Open
    <3>3. CASE w = "job"
      <4>1. job[i] = "reporting"
        BY <1>2, <3>3 DEF Inv, TaskInv, Positions
      <4>2. UNCHANGED <<request, known>> /\ job'[i] = "done"
        BY <2>7, <3>3 DEF Return, SetJob, Inv, TypeOK
      <4> QED
        BY <1>2, <1>3, <1>6, <2>3, <2>5, <3>1, <3>3, <4>1, <4>2
           DEF Inv, TaskInv, Positions, Owned, SlowTask, Working, Terminal, Open
    <3>4. CASE w = "cancel"
      BY <1>2, <1>3, <1>6, <2>3, <2>5, <2>7, <3>4
         DEF Return, Inv, TaskInv, Positions, Owned, SlowTask
    <3> QED
      BY <3>2, <3>3, <3>4 DEF Sender
  <2>8. CASE push' = [push EXCEPT ![i][w] = Idle] /\ Return(i, w)
    <3>1. push'[i][w] = Idle
      BY <2>8 DEF Inv, TypeOK
    <3> QED
      BY <2>7, <2>8, <3>1
  <2> QED
    BY <1>1, <2>6, <2>8
<1> QED
  BY <1>5, <1>6

\* A dead server has no coroutines.
LEMMA CrashInv == ASSUME Inv, Crash, NEW j \in Ids PROVE TaskInv(j)'
<1>1. /\ up' = FALSE /\ request'[j] = "none" /\ job'[j] = "none"
      /\ UNCHANGED <<state, kind, ledger, known, last>>
  BY DEF Crash, durableVars, worldVars
<1>2. \A w \in Sender : push'[j][w].phase = "idle"
  BY DEF Crash, Idle, Update
<1> QED
  BY <1>1, <1>2 DEF Inv, TaskInv, Positions, Owned, Posts, SlowTask, Working, Sender

\* A restarted server has a job for every open task.
LEMMA RestartInv == ASSUME Inv, Restart, NEW j \in Ids PROVE TaskInv(j)'
<1>1. request[j] = "none" /\ push[j]["request"].phase = "idle" /\ push[j]["job"].phase = "idle"
  BY DEF Restart, Inv, TaskInv, Positions
<1>2. /\ up' = TRUE
      /\ state'[j] = IF state[j] \in Open THEN "working" ELSE state[j]
      /\ job'[j] = IF state[j] \in Open THEN "asleep" ELSE "none"
      /\ UNCHANGED <<kind, ledger, request, push, known, last>>
  BY DEF Restart, Recoverable, worldVars
<1> QED
  <2>1. Positions(j)'
    BY <1>1, <1>2
       DEF Inv, TaskInv, Positions, Working, Terminal, Open
  <2>2. Owned(j)'
    BY <1>1, <1>2
       DEF Inv, TaskInv, Owned, Open, Terminal
  <2>3. Posts(j)'
    BY <1>2, PostsKept DEF Inv, TaskInv
  <2>4. SlowTask(j)'
    <3>1. CASE state[j] \in Open
      <4>1. kind[j] = "slow" => push[j]["cancel"].phase = "idle"
        BY <3>1 DEF Inv, TaskInv, SlowTask, Posts, Open
      <4>2. kind[j] = "slow" => last[j] \notin Terminal
        BY <3>1 DEF Inv, TaskInv, SlowTask, Open, Terminal
      <4> QED
        BY <1>1, <1>2, <3>1, <4>1, <4>2 DEF SlowTask, Open
    <3>2. CASE state[j] \notin Open
      BY <1>1, <1>2, <3>2 DEF Inv, TaskInv, SlowTask
    <3> QED
      BY <3>1, <3>2
  <2> QED
    BY <2>1, <2>2, <2>3, <2>4 DEF TaskInv

-----------------------------------------------------------------------------
(* The invariant holds. *)

\* Before anything is sent the invariant holds.
LEMMA InvInit == Init => Inv
<1> SUFFICES ASSUME Init PROVE Inv
  OBVIOUS
<1>1. TypeOK
  <2>1. ledger \in [Ids -> [TaskState -> [delivered : BOOLEAN, attempts : 0..PushAttempts]]]
    BY AttemptsAssumption DEF Init, Unsent
  <2>2. push \in [Ids -> [Sender -> Posting]]
    BY IdleType DEF Init
  <2> QED
    BY <2>1, <2>2, KindsAssumption, CrashesAssumption DEF Init, TypeOK
<1>2. ASSUME NEW i \in Ids PROVE TaskInv(i)
  <2>1. \A w \in Sender : push[i][w].phase = "idle"
    BY DEF Init, Idle, Update
  <2>2. /\ state[i] = "absent" /\ request[i] = "none" /\ job[i] = "none" /\ up
        /\ i \notin known /\ last[i] = "none"
    BY DEF Init
  <2> QED
    BY <2>1, <2>2 DEF TaskInv, Positions, Owned, Posts, SlowTask, Working, Sender, Open, Terminal
<1>3. Silence
  BY DEF Init, Silence, Idle, Update
<1> QED
  BY <1>1, <1>2, <1>3 DEF Inv

\* Every step keeps the invariant.
LEMMA InvStep == Inv /\ [Next]_vars => Inv'
<1> SUFFICES ASSUME Inv, [Next]_vars PROVE Inv'
  OBVIOUS
<1>1. TypeOK'
  BY TypeStep DEF Inv, TaskInv
<1>2. ASSUME NEW j \in Ids PROVE TaskInv(j)'
  <2>1. CASE \E i \in Ids : NewTask(i)
    BY <2>1, NewTaskInv
  <2>2. CASE \E i \in Ids : RequestStep(i)
    BY <2>2, SendSyncInv, SendSlowInv, StreamInv, StreamGoesOnInv, RequestHandledInv DEF RequestStep
  <2>3. CASE \E i \in Ids : JobStep(i)
    BY <2>3, JobWakesInv, JobHandledInv DEF JobStep
  <2>4. CASE \E i \in Ids : Cancel(i)
    BY <2>4, CancelInv
  <2>5. CASE \E i \in Ids : Abandon(i) \/ DropCancel(i)
    BY <2>5, AbandonInv, DropCancelInv
  <2>6. CASE \E i \in Ids, w \in Sender : PushStep(i, w)
    BY <2>6, PostInv, AnsweredInv DEF PushStep
  <2>7. CASE Crash
    BY <2>7, CrashInv
  <2>8. CASE Restart
    BY <2>8, RestartInv
  <2>9. CASE UNCHANGED vars
    BY <2>9, SameInv DEF Inv, Same, vars, durableVars, volatileVars, worldVars
  <2> QED
    BY <2>1, <2>2, <2>3, <2>4, <2>5, <2>6, <2>7, <2>8, <2>9 DEF Next
<1>3. Silence'
  BY SilenceStep DEF Inv
<1> QED
  BY <1>1, <1>2, <1>3 DEF Inv

\* The invariant holds of the task server at all times.
THEOREM Invariance == Spec => []Inv
BY InvInit, InvStep, PTL DEF Spec

\* No step changes how a task was sent.
LEMMA KindStays == ASSUME [Next]_vars PROVE kind' = kind
BY DEF Next, NewTask, RequestStep, SendSync, SendSlow, Stream, StreamGoesOn, RequestHandled,
       JobStep, JobWakes, JobHandled, Cancel, Abandon, DropCancel, PushStep, Post, Answered, Crash,
       Restart, vars, durableVars

(* The theorems. *)

\* Every variable keeps to the values the code can give it; in particular no
\* update is attempted more often than push_attempts (server.py:247-280).
THEOREM TypeCorrect == Spec => []TypeOK
<1>1. Inv => TypeOK
  BY DEF Inv
<1> QED
  BY <1>1, Invariance, PTL

\* A live server owns every open task, however requests, jobs, cancellations and
\* restarts interleave (server.py:121-190).
THEOREM Ownership == Spec => []OpenTasksAreOwned
<1>1. Inv => OpenTasksAreOwned
  BY DEF Inv, TaskInv, Owned, OpenTasksAreOwned
<1> QED
  BY <1>1, Invariance, PTL

\* No update recorded as delivered is posted again, nor one update by two
\* coroutines (_notify(), server.py:247-280).
THEOREM NoResend == Spec => []DeliveredIsNotResent
<1>1. ASSUME Inv PROVE DeliveredIsNotResent
  <2> SUFFICES ASSUME NEW i \in Ids, NEW w \in Sender, push[i][w].phase # "idle"
               PROVE  /\ ~ledger[i][push[i][w].event].delivered
                      /\ \A v \in Sender \ {w} : push[i][v].event # push[i][w].event
    BY DEF DeliveredIsNotResent
  <2>1. ~ledger[i][push[i][w].event].delivered
    BY <1>1 DEF Inv, TaskInv, Posts
  <2>2. ASSUME NEW v \in Sender \ {w} PROVE push[i][v].event # push[i][w].event
    <3>1. CASE push[i][v].phase = "idle"
      <4>1. push[i][v].event = "none"
        BY <1>1, <3>1 DEF Inv, Silence
      <4>2. Posts(i)
        BY <1>1 DEF Inv, TaskInv
      <4>3. w \in {"request", "job", "cancel"}
        BY DEF Sender
      <4>4. push[i][w].event \in {"working", "completed", "failed", "canceled"}
        BY <4>2, <4>3 DEF Posts
      <4> QED
        BY <4>1, <4>4
    <3>2. CASE push[i][v].phase # "idle"
      BY <1>1, <3>2, UpdatesDiffer DEF Inv, TaskInv
    <3> QED
      BY <3>1, <3>2
  <2> QED
    BY <2>1, <2>2
<1> QED
  BY <1>1, Invariance, PTL

\* The receiver of a slow task's updates is told of no outcome but the one the
\* task keeps, and after it of nothing but "working", of a task canceled while its
\* request is still retrying to announce it (server.py:166-190, 221-225).
THEOREM OneOutcome == Spec => OutcomeIsNotReplaced
<1>1. ASSUME Inv, [Next]_vars, NEW i \in Ids, kind[i] = "slow", last[i] \in Terminal
      PROVE  \/ last'[i] = last[i]
             \/ last[i] = "canceled" /\ last'[i] = "working" /\ request[i] = "announcing"
  <2> DEFINE Kept == last'[i] = last[i]
             Late == last[i] = "canceled" /\ last'[i] = "working" /\ request[i] = "announcing"
  <2>1. ASSUME NEW k \in Ids, NEW w \in Sender, Post(k, w) PROVE Kept \/ Late
    <3>1. push[k][w].phase # "idle"
          /\ (last' = last \/ last' = [last EXCEPT ![k] = push[k][w].event])
      BY <2>1 DEF Post, worldVars
    <3>2. CASE k # i \/ last' = last
      BY <1>1, <3>1, <3>2 DEF Inv, TypeOK
    <3>3. CASE k = i /\ last' = [last EXCEPT ![i] = push[i][w].event]
      <4>1. SlowTask(i) /\ Posts(i) /\ Positions(i)
        BY <1>1 DEF Inv, TaskInv
      <4>2. state[i] = last[i] /\ last'[i] = push[i][w].event
        BY <1>1, <3>3, <4>1 DEF SlowTask, Inv, TypeOK
      <4>3. CASE w = "request"
        <5>1. push[i]["request"].event = "working" /\ request[i] = "announcing"
          BY <1>1, <3>1, <3>3, <4>1, <4>3 DEF SlowTask, Positions
        <5>2. state[i] \in {"working", "canceled"}
          BY <1>1, <4>1, <5>1 DEF SlowTask
        <5> QED
          BY <1>1, <4>2, <4>3, <5>1, <5>2 DEF Terminal
      <4>4. CASE w # "request"
        BY <1>1, <3>1, <3>3, <4>1, <4>2, <4>4 DEF SlowTask, Sender
      <4> QED
        BY <4>3, <4>4
    <3> QED
      BY <3>1, <3>2, <3>3
  <2>2. CASE \E k \in Ids : NewTask(k) \/ RequestStep(k) \/ JobStep(k) \/ Cancel(k)
                           \/ Abandon(k) \/ DropCancel(k)
    BY <2>2
       DEF NewTask, RequestStep, SendSync, SendSlow, Stream, StreamGoesOn, RequestHandled, JobStep,
           JobWakes, JobHandled, Cancel, Abandon, DropCancel, worldVars
  <2>3. CASE \E k \in Ids, w \in Sender : PushStep(k, w)
    BY <2>1, <2>3 DEF PushStep, Answered
  <2>4. CASE Crash \/ Restart \/ UNCHANGED vars
    BY <2>4 DEF Crash, Restart, vars, worldVars
  <2> QED
    BY <1>1, <2>2, <2>3, <2>4 DEF Next
<1>2. ASSUME Inv', [Next]_vars, NEW i \in Ids, kind[i] = "slow", last'[i] \in Terminal
      PROVE  last'[i] = state'[i]
  BY <1>2, KindStays DEF Inv, TaskInv, SlowTask
<1> DEFINE Outcomes == \A i \in Ids : kind[i] = "slow" =>
               /\ last'[i] \in Terminal => last'[i] = state'[i]
               /\ last[i] \in Terminal =>
                      \/ last'[i] = last[i]
                      \/ last[i] = "canceled" /\ last'[i] = "working" /\ request[i] = "announcing"
<1>3. Inv /\ Inv' /\ [Next]_vars => [Outcomes]_vars
  BY <1>1, <1>2
<1> HIDE DEF Outcomes
<1>4. Spec => [][Outcomes]_vars
  BY <1>3, Invariance, PTL DEF Spec
<1> QED
  BY <1>4 DEF Outcomes, OutcomeIsNotReplaced

-----------------------------------------------------------------------------
(* Reporting.  The end of a task is accounted for as long as a coroutine of *)
(* it is left in this process: delivered, given up, being posted, or the    *)
(* canceled of a call that was dropped.                                     *)

Unreported(i) == hook[i] /\ state[i] \in Terminal
                 /\ ~(request[i] \in {"none", "abandoned"} /\ job[i] = "none")

Accounted(i) == Unreported(i) =>
    \/ ledger[i][state[i]].delivered
    \/ ledger[i][state[i]].attempts = PushAttempts
    \/ \E w \in Sender : push[i][w].phase # "idle" /\ push[i][w].event = state[i]
    \/ state[i] = "canceled" /\ i \in dropped

\* The end of a post leaves what others post alone.
LEMMA AnsweredOthers ==
    ASSUME TypeOK, NEW i \in Ids, NEW w \in Sender, Answered(i, w), NEW k \in Ids \ {i}
    PROVE  push'[k] = push[k]
<1>1. \/ push' = [push EXCEPT ![i][w] = Idle]
      \/ push' = [push EXCEPT ![i][w] = Update(push[i][w].event, "posting", FALSE)]
  BY DEF Answered
<1>2. k \in Ids /\ k # i /\ push \in [Ids -> [Sender -> Posting]]
  BY DEF TypeOK
<1> QED
  BY <1>1, <1>2

\* The end a coroutine has just saved and taken to _notify() is accounted for.
LEMMA NotifyAccounts ==
    ASSUME TypeOK, NEW i \in Ids, NEW w \in Sender, NEW s \in TaskState, Notify(i, w, s),
           state'[i] = s, UNCHANGED <<hook, ledger>>
    PROVE  Accounted(i)'
<1>1. CASE Reports(i, s)
  <2>1. push'[i][w] = Update(s, "posting", FALSE)
    BY <1>1, NotifyValue
  <2>2. push'[i][w].phase # "idle" /\ push'[i][w].event = state'[i]
    BY <2>1 DEF Update
  <2> QED
    BY <2>2 DEF Accounted
<1>2. CASE ~Reports(i, s)
  <2>1. ledger[i][s].attempts \in 0..PushAttempts
    BY DEF TypeOK
  <2>2. hook[i] => ledger[i][s].delivered \/ ledger[i][s].attempts = PushAttempts
    BY <1>2, <2>1, AttemptsAssumption DEF Reports, Exhausted
  <2> QED
    BY <2>2 DEF Accounted, Unreported
<1> QED
  BY <1>1, <1>2

\* A task whose state and ledger stay, and whose posts go on, stays accounted for.
LEMMA AccountedStays ==
    ASSUME NEW i \in Ids, Accounted(i), state'[i] = state[i], ledger'[i] = ledger[i],
           hook' = hook, dropped \subseteq dropped', Unreported(i)' => Unreported(i),
           \A w \in Sender : push[i][w].phase # "idle" =>
               push'[i][w].phase # "idle" /\ push'[i][w].event = push[i][w].event
    PROVE  Accounted(i)'
BY DEF Accounted

\* A post that has been answered is delivered, given up or made once more.
LEMMA AnsweredAccounts ==
    ASSUME Inv, NEW i \in Ids, NEW w \in Sender, Answered(i, w), Accounted(i)
    PROVE  Accounted(i)'
<1> DEFINE s == push[i][w].event
           n == ledger[i][s].attempts + 1
<1>1. PICK ok \in {push[i][w].arrived, FALSE} :
        /\ ledger' = [ledger EXCEPT ![i][s] = [delivered |-> ok, attempts |-> n]]
        /\ IF ok \/ LastAttempt(n)
           THEN push' = [push EXCEPT ![i][w] = Idle] /\ Return(i, w)
           ELSE /\ push' = [push EXCEPT ![i][w] = Update(s, "posting", FALSE)]
                /\ UNCHANGED <<request, job, known>>
  BY DEF Answered
<1>2. push[i][w].phase = "answering" /\ UNCHANGED <<state, hook, dropped>>
  BY DEF Answered, faultVars
<1>3. /\ s \in TaskState /\ ledger[i][s].attempts \in 0..PushAttempts
      /\ ledger[i][s].attempts < PushAttempts
  <2>1. s \in TaskState
    BY <1>2 DEF Inv, TaskInv, Posts, Sender, TaskState
  <2> QED
    BY <1>2, <2>1 DEF Inv, TypeOK, TaskInv, Posts
<1>4. /\ ledger'[i][s] = [delivered |-> ok, attempts |-> n]
      /\ \A e \in TaskState \ {s} : ledger'[i][e] = ledger[i][e]
  BY <1>1, <1>3 DEF Inv, TypeOK
<1>5. \A v \in Sender \ {w} : push'[i][v] = push[i][v]
  <2>1. CASE push' = [push EXCEPT ![i][w] = Idle]
    BY <2>1, EntryValue DEF Inv
  <2>2. CASE push' = [push EXCEPT ![i][w] = Update(s, "posting", FALSE)]
    BY <2>2, EntryValue DEF Inv
  <2> QED
    BY <1>1, <2>1, <2>2
<1>6. Unreported(i)' => Unreported(i)
  <2>1. CASE UNCHANGED <<request, job>>
    BY <1>2, <2>1 DEF Unreported
  <2>2. CASE Return(i, w)
    <3>1. w \in {"request", "job"} => Unreported(i) \/ state[i] \notin Terminal \/ ~hook[i]
      BY <1>2 DEF Inv, TaskInv, Positions, Unreported
    <3>2. w = "cancel" => UNCHANGED <<request, job>>
      BY <2>2 DEF Return
    <3> QED
      BY <1>2, <3>1, <3>2 DEF Unreported, Sender
  <2> QED
    BY <1>1, <2>1, <2>2
<1>7. CASE s = state[i]
  <2>1. CASE ok
    BY <1>2, <1>4, <1>7, <2>1 DEF Accounted
  <2>2. CASE ~ok /\ LastAttempt(n)
    <3>1. n = PushAttempts
      BY <1>3, <2>2, AttemptsAssumption DEF LastAttempt
    <3> HIDE DEF n
    <3> QED
      BY <1>2, <1>4, <1>7, <3>1 DEF Accounted
  <2>3. CASE ~ok /\ ~LastAttempt(n)
    <3>1. push' = [push EXCEPT ![i][w] = Update(s, "posting", FALSE)]
      BY <1>1, <2>3
    <3>2. push'[i][w] = Update(s, "posting", FALSE)
      BY <3>1 DEF Inv, TypeOK
    <3>3. push'[i][w].phase # "idle" /\ push'[i][w].event = state'[i]
      BY <1>2, <1>7, <3>2 DEF Update
    <3> QED
      BY <3>3 DEF Accounted
  <2> QED
    BY <2>1, <2>2, <2>3
<1>8. CASE s # state[i]
  <2>1. ASSUME Unreported(i)
        PROVE  ledger'[i][state[i]] = ledger[i][state[i]]
    <3>1. state[i] \in TaskState
      BY <2>1 DEF Unreported, Terminal, TaskState
    <3> QED
      BY <1>4, <1>8, <3>1
  <2>2. \A v \in Sender : push[i][v].phase # "idle" /\ push[i][v].event = state[i] =>
            push'[i][v] = push[i][v]
    BY <1>5, <1>8
  <2> QED
    BY <1>2, <1>6, <2>1, <2>2 DEF Accounted
<1> QED
  BY <1>7, <1>8

\* Every step keeps the account of every task.
LEMMA AccountedStep ==
    ASSUME Inv, [Next]_vars, NEW j \in Ids, Accounted(j)
    PROVE  Accounted(j)'
<1>0. /\ "request" \in Sender /\ "job" \in Sender /\ "cancel" \in Sender
      /\ {"working", "completed", "failed", "canceled"} \subseteq TaskState /\ TypeOK
  BY DEF Sender, TaskState, Inv
<1> USE DEF faultVars
<1>1. ASSUME NEW i \in Ids, NewTask(i)
      PROVE  Accounted(j)'
  BY <1>0, <1>1, AccountedStays
     DEF NewTask, SetState, SetRequest, TypeOK, Accounted, Unreported, Terminal
<1>2. ASSUME NEW i \in Ids, SendSync(i) \/ StreamGoesOn(i) \/ JobWakes(i)
      PROVE  Accounted(j)'
  <2>1. UNCHANGED <<state, hook, ledger, push, dropped>>
    BY <1>2 DEF SendSync, StreamGoesOn, JobWakes, durableVars
  <2>2. /\ Unreported(j)' => Unreported(j)
    BY <1>0, <1>2
       DEF SendSync, StreamGoesOn, JobWakes, SetRequest, SetJob, durableVars, TypeOK, Unreported
  <2> QED
    BY <2>1, <2>2, AccountedStays
<1>3. ASSUME NEW i \in Ids, SendSlow(i) \/ Stream(i)
      PROVE  Accounted(j)'
  <2>1. CASE j = i
    <3>1. state'[i] = "working"
      BY <1>0, <1>3 DEF SendSlow, Stream, SetState, TypeOK
    <3> QED
      BY <2>1, <3>1 DEF Accounted, Unreported, Terminal
  <2>2. CASE j # i
    <3>1. push'[j] = push[j]
      <4>1. CASE SendSlow(i)
        BY <1>0, <2>2, <4>1, NotifyValue DEF SendSlow
      <4>2. CASE Stream(i)
        BY <4>2 DEF Stream
      <4> QED
        BY <1>3, <4>1, <4>2
    <3>2. /\ state'[j] = state[j] /\ request'[j] = request[j] /\ job'[j] = job[j]
          /\ UNCHANGED <<hook, ledger, dropped>>
      BY <1>0, <1>3, <2>2 DEF SendSlow, Stream, SetState, SetRequest, SetJob, TypeOK
    <3> QED
      BY <3>1, <3>2, AccountedStays DEF Unreported
  <2> QED
    BY <2>1, <2>2
<1>4. ASSUME NEW i \in Ids, RequestHandled(i) \/ JobHandled(i) \/ Cancel(i)
      PROVE  Accounted(j)'
  <2>1. PICK w \in Sender, s \in TaskState : Notify(i, w, s) /\ SetState(i, s)
    BY <1>0, <1>4 DEF RequestHandled, JobHandled, Cancel
  <2>2. UNCHANGED <<hook, ledger, dropped>>
    BY <1>4 DEF RequestHandled, JobHandled, Cancel
  <2>3. CASE j = i
    <3>1. state'[i] = s
      BY <1>0, <2>1 DEF SetState, TypeOK
    <3> QED
      BY <1>0, <2>1, <2>2, <2>3, <3>1, NotifyAccounts
  <2>4. CASE j # i
    <3>0. push'[j] = push[j]
      BY <1>0, <2>1, <2>4, NotifyValue
    <3>1. state'[j] = state[j]
      BY <1>0, <2>1, <2>4 DEF SetState, TypeOK
    <3>2. request'[j] = request[j] /\ job'[j] = job[j]
      BY <1>0, <1>4, <2>4 DEF RequestHandled, JobHandled, Cancel, SetRequest, SetJob, TypeOK
    <3> QED
      BY <2>2, <3>0, <3>1, <3>2, AccountedStays DEF Unreported
  <2> QED
    BY <2>3, <2>4
<1>5. ASSUME NEW i \in Ids, Abandon(i)
      PROVE  Accounted(j)'
  <2>1. CASE j = i
    <3>1. request'[i] = "abandoned" /\ job'[i] = "none"
      BY <1>0, <1>5 DEF Abandon, SetRequest, TypeOK, Inv, TaskInv, Positions, Working
    <3> QED
      BY <2>1, <3>1 DEF Accounted, Unreported
  <2>2. CASE j # i
    <3>1. push'[j] = push[j]
      BY <1>0, <1>5, <2>2, EntryValue DEF Abandon
    <3>2. request'[j] = request[j] /\ UNCHANGED <<state, hook, ledger, job, dropped>>
      BY <1>0, <1>5, <2>2 DEF Abandon, SetRequest, durableVars, TypeOK
    <3> QED
      BY <3>1, <3>2, AccountedStays DEF Unreported
  <2> QED
    BY <2>1, <2>2
<1>6. ASSUME NEW i \in Ids, NEW w \in Sender, Post(i, w)
      PROVE  Accounted(j)'
  <2>1. PICK arrives \in BOOLEAN :
            push' = [push EXCEPT ![i][w] = Update(push[i][w].event, "answering", arrives)]
    BY <1>6 DEF Post
  <2>2. /\ push'[i][w] = Update(push[i][w].event, "answering", arrives)
        /\ \A v \in Sender \ {w} : push'[i][v] = push[i][v]
        /\ \A k \in Ids \ {i} : push'[k] = push[k]
    BY <1>0, <2>1, EntryValue
  <2>3. \A v \in Sender : push[j][v].phase # "idle" =>
            push'[j][v].phase # "idle" /\ push'[j][v].event = push[j][v].event
    BY <2>2 DEF Update
  <2>4. UNCHANGED <<state, hook, ledger, request, job, dropped>>
    BY <1>6 DEF Post, durableVars
  <2> QED
    BY <2>3, <2>4, AccountedStays DEF Unreported
<1>7. ASSUME NEW i \in Ids, NEW w \in Sender, Answered(i, w)
      PROVE  Accounted(j)'
  <2>1. CASE j = i
    BY <1>7, <2>1, AnsweredAccounts
  <2>2. CASE j # i
    <3>1. push'[j] = push[j] /\ ledger'[j] = ledger[j]
      <4>1. ledger'[j] = ledger[j]
        BY <1>0, <1>7, <2>2 DEF Answered, TypeOK
      <4> QED
        BY <1>0, <1>7, <2>2, <4>1, AnsweredOthers
    <3>2. UNCHANGED <<state, hook, dropped>>
      BY <1>7 DEF Answered
    <3>3. request'[j] = request[j] /\ job'[j] = job[j]
      <4>1. CASE Return(i, w)
        BY <1>0, <2>2, <4>1 DEF TypeOK, Return, SetJob
      <4>2. CASE UNCHANGED <<request, job, known>>
        BY <4>2
      <4> QED
        BY <1>7, <4>1, <4>2 DEF Answered
    <3> QED
      BY <3>1, <3>2, <3>3, AccountedStays DEF Unreported
  <2> QED
    BY <2>1, <2>2
<1>8. ASSUME NEW i \in Ids, DropCancel(i)
      PROVE  Accounted(j)'
  <2>1. /\ push[i]["cancel"].phase # "idle" /\ i \in dropped'
        /\ UNCHANGED <<state, hook, ledger, request, job>> /\ dropped \subseteq dropped'
    BY <1>8 DEF DropCancel, durableVars
  <2>2. /\ \A v \in Sender \ {"cancel"} : push'[i][v] = push[i][v]
        /\ \A k \in Ids \ {i} : push'[k] = push[k]
    BY <1>0, <1>8, EntryValue DEF DropCancel
  <2>3. CASE j = i /\ state[i] = "canceled"
    BY <2>1, <2>3 DEF Accounted
  <2>4. CASE j = i /\ state[i] # "canceled"
    <3>1. push[i]["cancel"].event = "canceled"
      BY <2>1 DEF Inv, TaskInv, Posts
    <3> QED
      BY <2>1, <2>2, <2>4, <3>1 DEF Accounted, Unreported
  <2>5. CASE j # i
    BY <2>1, <2>2, <2>5, AccountedStays DEF Unreported
  <2> QED
    BY <2>3, <2>4, <2>5
<1>9. CASE Crash
  <2>1. request'[j] = "none" /\ job'[j] = "none"
    BY <1>9 DEF Crash
  <2> QED
    BY <2>1 DEF Accounted, Unreported
<1>10. CASE Restart
  <2>1. request[j] = "none"
    BY <1>10 DEF Restart, Inv, TaskInv, Positions
  <2>2. state'[j] \in Terminal => request'[j] = "none" /\ job'[j] = "none"
    BY <1>10, <2>1 DEF Restart, Recoverable, Terminal, Open
  <2> QED
    BY <2>2 DEF Accounted, Unreported
<1>11. CASE UNCHANGED vars
  BY <1>11, AccountedStays DEF vars, durableVars, volatileVars, Unreported
<1> QED
  BY <1>1, <1>2, <1>3, <1>4, <1>5, <1>6, <1>7, <1>8, <1>9, <1>10, <1>11
     DEF Next, RequestStep, JobStep, PushStep

\* A task that ended in this process is not left unreported: its last update was
\* delivered, or tried push_attempts times (server.py:247-280), unless it is that of
\* a cancellation whose client gave up while it was being posted (official.py:74-77).
THEOREM EndsAreReported == Spec => []EndIsReported
<1> DEFINE AllAccounted == \A i \in Ids : Accounted(i)
<1>1. Init => AllAccounted
  BY DEF Init, Accounted, Unreported
<1>2. Inv /\ AllAccounted /\ [Next]_vars => AllAccounted'
  BY AccountedStep
<1>3. AllAccounted => EndIsReported
  BY DEF Accounted, Unreported, EndIsReported, Idle, Update, Terminal
<1> QED
  BY <1>1, <1>2, <1>3, Invariance, PTL DEF Spec

-----------------------------------------------------------------------------
(* The lifecycle.  A plain message is not heard of before its request ends. *)

Unheard(i) == i \notin known /\ \A w \in Sender : push[i][w].phase = "idle"

SyncTask(i) == kind[i] = "sync" =>
    /\ request[i] \notin {"announcing", "yielded"}
    /\ state[i] = "absent" => Unheard(i)
    /\ request[i] \in {"accepted", "handling"} => state[i] = "submitted" /\ Unheard(i)
    /\ job[i] = "handling" => state[i] \in Open

\* Nobody posts or cancels a plain message that its request still works on.
LEMMA SyncStep ==
    ASSUME Inv, \A i \in Ids : SyncTask(i), [Next]_vars, NEW j \in Ids
    PROVE  SyncTask(j)'
<1> USE DEF Inv, TypeOK, SyncTask, Unheard
<1>0. /\ "request" \in Sender /\ "job" \in Sender /\ "cancel" \in Sender
      /\ "working" \in TaskState /\ "canceled" \in TaskState
  BY DEF Sender, TaskState
<1>1. ASSUME NEW i \in Ids, NewTask(i) PROVE SyncTask(j)'
  BY <1>1 DEF NewTask, SetState, SetRequest, worldVars, TaskInv, Positions
<1>2. ASSUME NEW i \in Ids, SendSync(i) \/ Stream(i) \/ StreamGoesOn(i) PROVE SyncTask(j)'
  BY <1>2 DEF SendSync, Stream, StreamGoesOn, SetState, SetRequest, durableVars, worldVars
<1>3. ASSUME NEW i \in Ids, SendSlow(i) PROVE SyncTask(j)'
  <2>1. \A k \in Ids \ {i} : push'[k] = push[k]
    BY <1>0, <1>3, NotifyValue DEF SendSlow
  <2>2. /\ kind[i] = "slow" /\ kind' = kind
        /\ \A k \in Ids \ {i} : /\ state'[k] = state[k] /\ request'[k] = request[k]
                                /\ job'[k] = job[k] /\ (k \in known' <=> k \in known)
    BY <1>3 DEF SendSlow, SetState, SetRequest, SetJob
  <2> QED
    BY <2>1, <2>2
<1>4. ASSUME NEW i \in Ids, RequestHandled(i) PROVE SyncTask(j)'
  <2>1. PICK s \in {"completed", "failed"} :
          SetState(i, s) /\ Notify(i, "request", s)
          /\ SetRequest(i, IF Reports(i, s) THEN "reporting" ELSE "done")
    BY <1>4 DEF RequestHandled
  <2>2. \A k \in Ids \ {i} : push'[k] = push[k]
    BY <1>0, <2>1, NotifyValue
  <2>3. job[i] # "handling" /\ request[i] = "handling"
    BY <1>4 DEF RequestHandled, TaskInv, Positions, Working
  <2> QED
    BY <1>4, <2>1, <2>2, <2>3 DEF RequestHandled, SetState, SetRequest
<1>5. ASSUME NEW i \in Ids, JobHandled(i) PROVE SyncTask(j)'
  <2>1. PICK s \in {"completed", "failed"} :
          SetState(i, s) /\ Notify(i, "job", s) /\ SetJob(i, IF Reports(i, s) THEN "reporting" ELSE "done")
    BY <1>5 DEF JobHandled
  <2>2. \A k \in Ids \ {i} : push'[k] = push[k]
    BY <1>0, <2>1, NotifyValue
  <2>3. request[i] \notin {"accepted", "handling"}
    BY <1>5 DEF JobHandled, TaskInv, Positions, Working
  <2> QED
    BY <1>5, <2>1, <2>2, <2>3 DEF JobHandled, SetState, SetJob, worldVars
<1>6. ASSUME NEW i \in Ids, Cancel(i) PROVE SyncTask(j)'
  <2>1. \A k \in Ids \ {i} : push'[k] = push[k]
    BY <1>0, <1>6, NotifyValue DEF Cancel
  <2>2. kind[i] = "sync" => request[i] \notin {"accepted", "handling"}
    BY <1>6 DEF Cancel
  <2> QED
    BY <1>6, <2>1, <2>2 DEF Cancel, SetState, SetJob, worldVars
<1>7. ASSUME NEW i \in Ids, JobWakes(i) PROVE SyncTask(j)'
  <2>1. state[i] \in Open \cup Terminal
    BY <1>7 DEF JobWakes, TaskInv, Positions, TaskState, Open, Terminal
  <2> QED
    BY <1>7, <2>1 DEF JobWakes, SetJob, durableVars, worldVars
<1>8. ASSUME NEW i \in Ids, Abandon(i) PROVE SyncTask(j)'
  <2>1. \A k \in Ids \ {i} : push'[k] = push[k]
    BY <1>8 DEF Abandon
  <2>2. state[i] # "absent"
    BY <1>8 DEF Abandon, TaskInv, Positions
  <2> QED
    BY <1>8, <2>1, <2>2 DEF Abandon, SetRequest, durableVars, worldVars
<1>9. ASSUME NEW i \in Ids, NEW w \in Sender, Post(i, w) PROVE SyncTask(j)'
  <2>1. \A k \in Ids \ {i} : push'[k] = push[k]
    BY <1>9, EntryValue DEF Post
  <2>2. push[i][w].phase # "idle"
    BY <1>9 DEF Post
  <2> QED
    BY <1>9, <2>1, <2>2 DEF Post, durableVars, worldVars
<1>10. ASSUME NEW i \in Ids, NEW w \in Sender, Answered(i, w) PROVE SyncTask(j)'
  <2>1. push[i][w].phase # "idle" /\ UNCHANGED <<state, kind>>
    BY <1>10 DEF Answered
  <2>2. \A k \in Ids \ {i} : push'[k] = push[k]
    BY <1>10, AnsweredOthers
  <2>3. kind[i] = "sync" => request[i] \notin {"accepted", "handling"} /\ state[i] # "absent"
    BY <2>1
  <2>4. CASE UNCHANGED <<request, job, known>>
    <3>1. CASE j = i
      BY <2>1, <2>4, <2>3, <3>1
    <3>2. CASE j # i
      BY <2>1, <2>2, <2>4, <3>2
    <3> QED
      BY <3>1, <3>2
  <2>5. CASE Return(i, w)
    <3>1. request' = request \/ request' = [request EXCEPT ![i] = "done"]
      BY <2>5 DEF Return
    <3>2. job' \in {job, [job EXCEPT ![i] = "asleep"], [job EXCEPT ![i] = "done"]}
      BY <2>5 DEF Return, SetJob
    <3>3. known' \in {known, known \cup {i}}
      BY <2>5 DEF Return
    <3> QED
      BY <2>1, <2>2, <3>1, <3>2, <3>3
  <2> QED
    BY <1>10, <2>4, <2>5 DEF Answered
<1>11. CASE Crash
  BY <1>11 DEF Crash, durableVars, worldVars, Idle, Update
<1>12. CASE Restart
  <2>1. request[j] = "none"
    BY <1>12 DEF Restart, TaskInv, Positions
  <2>2. /\ state'[j] = "absent" => state[j] = "absent"
        /\ job'[j] # "handling" /\ UNCHANGED <<kind, request, push, known>>
    BY <1>12 DEF Restart, worldVars
  <2> QED
    BY <2>1, <2>2
<1>13. CASE UNCHANGED vars
  BY <1>13 DEF vars, durableVars, volatileVars, worldVars
<1>14. ASSUME NEW i \in Ids, DropCancel(i) PROVE SyncTask(j)'
  <2>1. UNCHANGED <<kind, state, request, job, known>>
    BY <1>14 DEF DropCancel, durableVars, worldVars
  <2>2. \A v \in Sender : push'[j][v] = push[j][v] \/ push'[j][v].phase = "idle"
    BY <1>0, <1>14 DEF DropCancel, Idle, Update
  <2> QED
    BY <2>1, <2>2
<1> QED
  BY <1>1, <1>2, <1>3, <1>4, <1>5, <1>6, <1>7, <1>8, <1>9, <1>10, <1>11, <1>12, <1>13, <1>14
     DEF Next, RequestStep, JobStep, PushStep

Shown == [i \in Ids |-> IF kind[i] = "stream" THEN "absent" ELSE state[i]]

\* One task that is not streamed ends, the others stay as they are.
LEMMA EndShown ==
    ASSUME TypeOK, NEW i \in Ids, kind[i] # "stream", state[i] \in Open, kind' = kind,
           NEW s \in Terminal, state' = [state EXCEPT ![i] = s]
    PROVE  Lifecycle!End(i)
<1>1. Shown' = [Shown EXCEPT ![i] = s] /\ Shown[i] \in Open
  BY DEF Shown, TypeOK
<1> QED
  BY <1>1 DEF Shown, Lifecycle!End, Lifecycle!Open, Lifecycle!TaskState, Lifecycle!Final, Open, Terminal

\* A step that changes no state, or only that of a streamed task, is not shown.
LEMMA NotShown ==
    ASSUME TypeOK, kind' = kind,
           UNCHANGED state
           \/ \E i \in Ids : kind[i] = "stream" /\ \E s \in TaskState : state' = [state EXCEPT ![i] = s]
    PROVE  Shown' = Shown
BY DEF Shown, TypeOK

\* The server keeps the promise of TaskLifecycle for every task that is not
\* streamed: it ends once, and its end is final (server.py:32).
THEOREM TasksKeepLifecycle == Spec => KeepsLifecycle
<1> DEFINE SyncInv == \A i \in Ids : SyncTask(i)
<1>1. Init => SyncInv /\ Lifecycle!Init
  BY DEF Init, SyncTask, Unheard, Idle, Update, Lifecycle!Init
<1>2. Inv /\ SyncInv /\ [Next]_vars => SyncInv'
  BY SyncStep
<1>3. ASSUME Inv, SyncInv, [Next]_vars PROVE [Lifecycle!Next]_Shown
  <2> USE <1>3, KindStays DEF Inv
  <2>1. ASSUME NEW i \in Ids, NewTask(i) PROVE Lifecycle!Submit(i) \/ Shown' = Shown
    <3>1. state[i] = "absent" /\ state' = [state EXCEPT ![i] = "submitted"]
      BY <2>1 DEF NewTask, SetState
    <3>2. CASE kind[i] = "stream"
      BY <3>1, <3>2, NotShown DEF TaskState
    <3>3. CASE kind[i] # "stream"
      BY <3>1, <3>3 DEF Lifecycle!Submit, TypeOK
    <3> QED
      BY <3>2, <3>3
  <2>2. ASSUME NEW i \in Ids, SendSlow(i) PROVE Lifecycle!Begin({i})
    <3>1. kind[i] = "slow" /\ state[i] = "submitted" /\ state' = [state EXCEPT ![i] = "working"]
      BY <2>2 DEF SendSlow, SetState, TaskInv, SlowTask
    <3> QED
      BY <3>1 DEF TypeOK, Lifecycle!Begin, Lifecycle!Open, Lifecycle!TaskState, Lifecycle!Final
  <2>3. ASSUME NEW i \in Ids, RequestHandled(i) \/ JobHandled(i)
        PROVE  Lifecycle!End(i) \/ Shown' = Shown
    <3>1. PICK s \in Terminal \cap TaskState : state' = [state EXCEPT ![i] = s]
      BY <2>3 DEF RequestHandled, JobHandled, SetState, Terminal, TaskState
    <3>2. CASE kind[i] = "stream"
      BY <3>1, <3>2, NotShown
    <3>3. CASE kind[i] # "stream"
      <4>1. kind[i] \in {"sync", "slow"}
        BY <3>3 DEF TypeOK, Kind
      <4>2. state[i] \in Open
        BY <2>3, <4>1 DEF RequestHandled, JobHandled, TaskInv, SlowTask, SyncTask, Open
      <4> QED
        BY <3>1, <3>3, <4>2, EndShown
    <3> QED
      BY <3>2, <3>3
  <2>4. ASSUME NEW i \in Ids, Cancel(i) PROVE Lifecycle!End(i) \/ Shown' = Shown
    <3>1. state[i] \in Open /\ state' = [state EXCEPT ![i] = "canceled"]
          /\ "canceled" \in Terminal \cap TaskState
      BY <2>4 DEF Cancel, SetState, Terminal, TaskState
    <3> QED
      BY <3>1, EndShown, NotShown
  <2>5. ASSUME Restart PROVE \E T \in SUBSET Ids : Lifecycle!Begin(T)
    <3>1. PICK T \in SUBSET Ids : T = {i \in Recoverable : kind[i] # "stream"}
      BY DEF Recoverable
    <3>2. Lifecycle!Begin(T)
      BY <2>5, <3>1 DEF Restart, Recoverable, Open, Lifecycle!Begin, Lifecycle!Open,
                        Lifecycle!TaskState, Lifecycle!Final
    <3> QED
      BY <3>2
  <2>6. ASSUME NEW i \in Ids, Stream(i) PROVE Shown' = Shown
    BY <2>6, NotShown DEF Stream, SetState, TaskState
  <2>7. ASSUME NEW i \in Ids, SendSync(i) \/ StreamGoesOn(i) \/ JobWakes(i) \/ Abandon(i)
                              \/ DropCancel(i)
        PROVE  Shown' = Shown
    BY <2>7, NotShown DEF SendSync, StreamGoesOn, JobWakes, Abandon, DropCancel, durableVars
  <2>8. ASSUME NEW i \in Ids, NEW w \in Sender, PushStep(i, w) PROVE Shown' = Shown
    BY <2>8, NotShown DEF PushStep, Post, Answered, durableVars
  <2>9. CASE Crash \/ UNCHANGED vars
    BY <2>9, NotShown DEF Crash, vars, durableVars
  <2> QED
    BY <2>1, <2>2, <2>3, <2>4, <2>5, <2>6, <2>7, <2>8, <2>9
       DEF Next, RequestStep, JobStep, Lifecycle!Next
<1> QED
  BY <1>1, <1>2, <1>3, Invariance, PTL DEF Spec, KeepsLifecycle, Lifecycle!Spec, Shown

-----------------------------------------------------------------------------
(* The work that is left.  TasksEnd needs fairness and stays with TLC; what is
   proved here is the rest of it: the rank of a task falls with each of its
   steps, so only finitely many are between it and a state where nothing is at
   work on it any more. *)

StateRank(s) ==
    IF s = "absent" THEN 6 * PushAttempts + 7
    ELSE IF s \in Open THEN 2 * PushAttempts + 1 ELSE 0

RequestRank(r) ==
    IF r = "accepted" THEN 4 * PushAttempts + 5
    ELSE IF r \in {"announcing", "yielded"} THEN 2 * PushAttempts + 3
    ELSE IF r = "handling" THEN 2 * PushAttempts + 2
    ELSE IF r = "reporting" THEN 1 ELSE 0

JobRank(r) ==
    IF r = "asleep" THEN 2 * PushAttempts + 2
    ELSE IF r = "handling" THEN 2 * PushAttempts + 1 ELSE 0

\* Two steps for each attempt that is left, the post and its answer.
UpdateRank(p, tries) ==
    IF p.phase = "idle" THEN 0
    ELSE 2 * (PushAttempts - tries[p.event].attempts) - (IF p.phase = "answering" THEN 1 ELSE 0)

PushRank(i, w) == UpdateRank(push[i][w], ledger[i])

Rank(i) ==
    StateRank(state[i]) + RequestRank(request[i]) + JobRank(job[i])
    + PushRank(i, "request") + PushRank(i, "job") + PushRank(i, "cancel")

\* The ranks of the places where a task and its coroutines can stand.
LEMMA PlaceRanks ==
    /\ \A x : StateRank(x) \in Nat /\ RequestRank(x) \in Nat /\ JobRank(x) \in Nat
    /\ \A x \in Terminal : StateRank(x) = 0
    /\ \A x \in Open : StateRank(x) = 2 * PushAttempts + 1
    /\ StateRank("absent") = 6 * PushAttempts + 7
    /\ RequestRank("accepted") = 4 * PushAttempts + 5
    /\ \A x \in {"announcing", "yielded"} : RequestRank(x) = 2 * PushAttempts + 3
    /\ RequestRank("handling") = 2 * PushAttempts + 2
    /\ RequestRank("reporting") = 1
    /\ \A x \in {"none", "done", "abandoned"} : RequestRank(x) = 0
    /\ JobRank("asleep") = 2 * PushAttempts + 2
    /\ JobRank("handling") = 2 * PushAttempts + 1
    /\ \A x \in {"none", "reporting", "done"} : JobRank(x) = 0
<1> USE AttemptsAssumption
<1>1. \A x : StateRank(x) \in Nat
  BY DEF StateRank
<1>2. \A x : RequestRank(x) \in Nat
  BY DEF RequestRank
<1>3. \A x : JobRank(x) \in Nat
  BY DEF JobRank
<1>4. /\ \A x \in Terminal : StateRank(x) = 0
      /\ \A x \in Open : StateRank(x) = 2 * PushAttempts + 1
      /\ StateRank("absent") = 6 * PushAttempts + 7
  BY DEF StateRank, Terminal, Open
<1>5. /\ RequestRank("accepted") = 4 * PushAttempts + 5
      /\ \A x \in {"announcing", "yielded"} : RequestRank(x) = 2 * PushAttempts + 3
      /\ RequestRank("handling") = 2 * PushAttempts + 2
      /\ RequestRank("reporting") = 1
      /\ \A x \in {"none", "done", "abandoned"} : RequestRank(x) = 0
  BY DEF RequestRank
<1>6. /\ JobRank("asleep") = 2 * PushAttempts + 2
      /\ JobRank("handling") = 2 * PushAttempts + 1
      /\ \A x \in {"none", "reporting", "done"} : JobRank(x) = 0
  BY DEF JobRank
<1> QED
  BY <1>1, <1>2, <1>3, <1>4, <1>5, <1>6

Tries == [TaskState -> [delivered : BOOLEAN, attempts : 0..PushAttempts]]

\* What is posted has at least the step left that it stands before, and never
\* more than two for every attempt.
LEMMA UpdateRanks ==
    ASSUME NEW p \in Posting, NEW tries \in Tries,
           p.phase # "idle" => p.event \in TaskState /\ tries[p.event].attempts < PushAttempts
    PROVE  /\ UpdateRank(p, tries) \in Nat /\ UpdateRank(p, tries) <= 2 * PushAttempts
           /\ p.phase = "idle" => UpdateRank(p, tries) = 0
           /\ p.phase # "idle" => UpdateRank(p, tries) >= 1
<1>1. CASE p.phase = "idle"
  BY <1>1, AttemptsAssumption DEF UpdateRank
<1>2. CASE p.phase # "idle"
  <2> DEFINE n == tries[p.event].attempts
  <2>1. n \in 0..PushAttempts /\ n < PushAttempts
    BY <1>2 DEF Tries
  <2>2. UpdateRank(p, tries) \in {2 * (PushAttempts - n), 2 * (PushAttempts - n) - 1}
    BY <1>2, <2>1, AttemptsAssumption DEF UpdateRank
  <2> HIDE DEF n
  <2> QED
    BY <1>2, <2>1, <2>2, AttemptsAssumption
<1> QED
  BY <1>1, <1>2

\* So it is of every sender.
LEMMA PushRanks ==
    ASSUME Inv, NEW i \in Ids, NEW w \in Sender
    PROVE  /\ PushRank(i, w) \in Nat /\ PushRank(i, w) <= 2 * PushAttempts
           /\ push[i][w].phase = "idle" => PushRank(i, w) = 0
           /\ push[i][w].phase # "idle" => PushRank(i, w) >= 1
<1>1. push[i][w] \in Posting /\ ledger[i] \in Tries
  BY DEF Inv, TypeOK, Tries
<1>2. push[i][w].phase # "idle" =>
          push[i][w].event \in TaskState /\ ledger[i][push[i][w].event].attempts < PushAttempts
  BY DEF Inv, TaskInv, Posts, Sender, TaskState
<1> QED
  BY <1>1, <1>2, UpdateRanks DEF PushRank

\* The rank is a natural number.
LEMMA RankType == ASSUME Inv, NEW i \in Ids PROVE Rank(i) \in Nat
<1>1. \A w \in {"request", "job", "cancel"} : PushRank(i, w) \in Nat
  BY PushRanks DEF Sender
<1> QED
  BY <1>1, PlaceRanks DEF Rank

\* Who posts what it posted before, of the same ledger, keeps its rank.
LEMMA PushRankStays ==
    ASSUME NEW i \in Ids, NEW w \in Sender, push'[i][w] = push[i][w], ledger'[i] = ledger[i]
    PROVE  PushRank(i, w)' = PushRank(i, w)
BY DEF PushRank

\* A task that nothing happens to keeps its rank.
LEMMA RankStays ==
    ASSUME NEW j \in Ids, state'[j] = state[j], request'[j] = request[j], job'[j] = job[j],
           push'[j] = push[j], ledger'[j] = ledger[j]
    PROVE  Rank(j)' = Rank(j)
<1>1. \A w \in {"request", "job", "cancel"} : PushRank(j, w)' = PushRank(j, w)
  BY PushRankStays DEF Sender
<1> QED
  BY <1>1 DEF Rank

\* _notify() adds at most two steps for each attempt, and none where it returns
\* without posting.
LEMMA NotifyRank ==
    ASSUME Inv, NEW i \in Ids, NEW w \in Sender, NEW s \in TaskState, Notify(i, w, s),
           ledger' = ledger
    PROVE  /\ PushRank(i, w)' \in Nat
           /\ PushRank(i, w)' <= PushRank(i, w) + 2 * PushAttempts
           /\ ~Reports(i, s) => PushRank(i, w)' = PushRank(i, w)
           /\ \A v \in Sender \ {w} : PushRank(i, v)' = PushRank(i, v)
<1>1. /\ Reports(i, s) => push'[i][w] = Update(s, "posting", FALSE)
      /\ ~Reports(i, s) => push'[i][w] = push[i][w]
      /\ \A v \in Sender \ {w} : push'[i][v] = push[i][v]
  BY NotifyValue DEF Inv
<1>2. /\ ~Reports(i, s) => PushRank(i, w)' = PushRank(i, w)
      /\ \A v \in Sender \ {w} : PushRank(i, v)' = PushRank(i, v)
  BY <1>1, PushRankStays
<1>3. PushRank(i, w) \in Nat
  BY PushRanks
<1>4. CASE Reports(i, s)
  <2> DEFINE p == Update(s, "posting", FALSE)
  <2>1. p \in Posting /\ p.event = s
    BY UpdateType DEF Update
  <2>2. ledger[i] \in Tries /\ ledger[i][s].attempts < PushAttempts
    BY <1>4, ReportsMeans DEF Inv, TypeOK, Tries
  <2>3. UpdateRank(p, ledger[i]) \in Nat /\ UpdateRank(p, ledger[i]) <= 2 * PushAttempts
    BY <2>1, <2>2, UpdateRanks
  <2>4. PushRank(i, w)' = UpdateRank(p, ledger[i])
    BY <1>1, <1>4 DEF PushRank
  <2> HIDE DEF p
  <2> QED
    BY <1>2, <1>3, <1>4, <2>3, <2>4, AttemptsAssumption
<1> QED
  BY <1>2, <1>3, <1>4, AttemptsAssumption

\* A step for task i is one fewer that is left to do, and none for the others.
Falls(i) == Rank(i)' \in Nat /\ Rank(i)' < Rank(i) /\ \A j \in Ids \ {i} : Rank(j)' = Rank(j)

\* The rank falls when what its parts lose is more than what they gain.
LEMMA RankFalls ==
    ASSUME Inv, NEW i \in Ids,
           \A w \in Sender : PushRank(i, w)' \in Nat,
           StateRank(state'[i]) + RequestRank(request'[i]) + JobRank(job'[i])
             + PushRank(i, "request")' + PushRank(i, "job")' + PushRank(i, "cancel")'
           < StateRank(state[i]) + RequestRank(request[i]) + JobRank(job[i])
             + PushRank(i, "request") + PushRank(i, "job") + PushRank(i, "cancel"),
           \A j \in Ids \ {i} :
               /\ state'[j] = state[j] /\ request'[j] = request[j] /\ job'[j] = job[j]
               /\ push'[j] = push[j] /\ ledger'[j] = ledger[j]
    PROVE  Falls(i)
<1>1. Rank(i)' \in Nat /\ Rank(i)' < Rank(i)
  BY PlaceRanks DEF Rank, Sender
<1>2. \A j \in Ids \ {i} : Rank(j)' = Rank(j)
  BY RankStays
<1> QED
  BY <1>1, <1>2 DEF Falls

\* Steps that post nothing: a task arrives, its request or its job goes on.
LEMMA QuietFalls ==
    ASSUME Inv, NEW i \in Ids,
           NewTask(i) \/ SendSync(i) \/ Stream(i) \/ StreamGoesOn(i) \/ JobWakes(i)
    PROVE  Falls(i)
<1> DEFINE A == PushAttempts
<1>1. A \in Nat
  BY AttemptsAssumption
<1>2. push' = push /\ ledger' = ledger
  BY DEF NewTask, SendSync, Stream, StreamGoesOn, JobWakes, durableVars
<1>3. \A w \in {"request", "job", "cancel"} :
          PushRank(i, w) \in Nat /\ PushRank(i, w)' = PushRank(i, w)
  BY <1>2, PushRanks, PushRankStays DEF Sender
<1>4. \A w \in Sender : PushRank(i, w)' \in Nat
  BY <1>3 DEF Sender
<1>5. \A j \in Ids \ {i} : /\ state'[j] = state[j] /\ request'[j] = request[j] /\ job'[j] = job[j]
                           /\ push'[j] = push[j] /\ ledger'[j] = ledger[j]
  <2>1. \A j \in Ids \ {i} : state'[j] = state[j]
    BY DEF Inv, TypeOK, NewTask, SendSync, Stream, StreamGoesOn, JobWakes, SetState, durableVars
  <2>2. \A j \in Ids \ {i} : request'[j] = request[j]
    BY DEF Inv, TypeOK, NewTask, SendSync, Stream, StreamGoesOn, JobWakes, SetRequest
  <2>3. \A j \in Ids \ {i} : job'[j] = job[j]
    BY DEF Inv, TypeOK, NewTask, SendSync, Stream, StreamGoesOn, JobWakes, SetJob
  <2> QED
    BY <1>2, <2>1, <2>2, <2>3
<1>6. StateRank(state'[i]) + RequestRank(request'[i]) + JobRank(job'[i])
      < StateRank(state[i]) + RequestRank(request[i]) + JobRank(job[i])
  <2>1. /\ StateRank(state[i]) \in Nat /\ RequestRank(request[i]) \in Nat
        /\ JobRank(job[i]) \in Nat
    BY PlaceRanks
  <2>2. CASE NewTask(i)
    <3>1. /\ state[i] = "absent" /\ state'[i] = "submitted" /\ request[i] = "none"
          /\ request'[i] = "accepted" /\ job'[i] = job[i]
      BY <2>2 DEF Inv, TypeOK, TaskInv, Positions, NewTask, SetState, SetRequest
    <3>2. StateRank("submitted") = 2 * A + 1 /\ StateRank("absent") = 6 * A + 7
          /\ RequestRank("none") = 0 /\ RequestRank("accepted") = 4 * A + 5
      BY PlaceRanks DEF Open
    <3> HIDE DEF A
    <3> QED
      BY <1>1, <2>1, <3>1, <3>2
  <2>3. CASE SendSync(i)
    <3>1. /\ request[i] = "accepted" /\ request'[i] = "handling"
          /\ state'[i] = state[i] /\ job'[i] = job[i]
      BY <2>3 DEF Inv, TypeOK, SendSync, SetRequest, durableVars
    <3>2. RequestRank("handling") = 2 * A + 2 /\ RequestRank("accepted") = 4 * A + 5
      BY PlaceRanks
    <3> HIDE DEF A
    <3> QED
      BY <1>1, <2>1, <3>1, <3>2
  <2>4. CASE Stream(i)
    <3>1. /\ request[i] = "accepted" /\ request'[i] = "yielded"
          /\ state'[i] = "working" /\ job'[i] = job[i]
      BY <2>4 DEF Inv, TypeOK, Stream, SetRequest, SetState
    <3>2. RequestRank("yielded") = 2 * A + 3 /\ RequestRank("accepted") = 4 * A + 5
          /\ StateRank("working") = 2 * A + 1
      BY PlaceRanks DEF Open
    <3> HIDE DEF A
    <3> QED
      BY <1>1, <2>1, <3>1, <3>2
  <2>5. CASE StreamGoesOn(i)
    <3>1. /\ request[i] = "yielded" /\ request'[i] \in {"handling", "done"}
          /\ state'[i] = state[i] /\ job'[i] = job[i]
      BY <2>5 DEF Inv, TypeOK, StreamGoesOn, SetRequest, durableVars
    <3>2. RequestRank("yielded") = 2 * A + 3 /\ RequestRank("handling") = 2 * A + 2
          /\ RequestRank("done") = 0
      BY PlaceRanks
    <3> HIDE DEF A
    <3> QED
      BY <1>1, <2>1, <3>1, <3>2
  <2>6. CASE JobWakes(i)
    <3>1. /\ job[i] = "asleep" /\ job'[i] \in {"handling", "done"}
          /\ state'[i] = state[i] /\ request'[i] = request[i]
      BY <2>6 DEF Inv, TypeOK, JobWakes, SetJob, durableVars
    <3>2. JobRank("asleep") = 2 * A + 2 /\ JobRank("handling") = 2 * A + 1
          /\ JobRank("done") = 0
      BY PlaceRanks
    <3> HIDE DEF A
    <3> QED
      BY <1>1, <2>1, <3>1, <3>2
  <2> QED
    BY <2>2, <2>3, <2>4, <2>5, <2>6
<1>7. StateRank(state'[i]) \in Nat /\ RequestRank(request'[i]) \in Nat /\ JobRank(job'[i]) \in Nat
      /\ StateRank(state[i]) \in Nat /\ RequestRank(request[i]) \in Nat /\ JobRank(job[i]) \in Nat
  BY PlaceRanks
<1>8. StateRank(state'[i]) + RequestRank(request'[i]) + JobRank(job'[i])
        + PushRank(i, "request")' + PushRank(i, "job")' + PushRank(i, "cancel")'
      < StateRank(state[i]) + RequestRank(request[i]) + JobRank(job[i])
        + PushRank(i, "request") + PushRank(i, "job") + PushRank(i, "cancel")
  BY <1>3, <1>6, <1>7
<1> QED
  BY <1>4, <1>5, <1>8, RankFalls

\* Steps that save a state and take it to _notify(): what the place of the task
\* and its coroutines loses is more than the attempts of one update.
LEMMA ReportingFalls ==
    ASSUME Inv, NEW i \in Ids, NEW w \in Sender, NEW s \in TaskState, Notify(i, w, s),
           ledger' = ledger,
           \A j \in Ids \ {i} : state'[j] = state[j] /\ request'[j] = request[j] /\ job'[j] = job[j],
           StateRank(state'[i]) + RequestRank(request'[i]) + JobRank(job'[i])
             + (IF Reports(i, s) THEN 2 * PushAttempts ELSE 0)
           < StateRank(state[i]) + RequestRank(request[i]) + JobRank(job[i])
    PROVE  Falls(i)
<1> DEFINE more == IF Reports(i, s) THEN 2 * PushAttempts ELSE 0
           old == StateRank(state[i]) + RequestRank(request[i]) + JobRank(job[i])
           new == StateRank(state'[i]) + RequestRank(request'[i]) + JobRank(job'[i])
<1>1. \A v \in Sender : PushRank(i, v) \in Nat
  BY PushRanks
<1>2. /\ PushRank(i, w)' \in Nat /\ PushRank(i, w)' <= PushRank(i, w) + more
      /\ \A v \in Sender \ {w} : PushRank(i, v)' = PushRank(i, v)
  <2>1. /\ PushRank(i, w)' \in Nat
        /\ PushRank(i, w)' <= PushRank(i, w) + 2 * PushAttempts
        /\ ~Reports(i, s) => PushRank(i, w)' = PushRank(i, w)
        /\ \A v \in Sender \ {w} : PushRank(i, v)' = PushRank(i, v)
    BY NotifyRank
  <2>2. PushRank(i, w) \in Nat
    BY <1>1
  <2> QED
    BY <2>1, <2>2, AttemptsAssumption
<1>3. \A v \in Sender : PushRank(i, v)' \in Nat
  BY <1>1, <1>2
<1>4. PushRank(i, "request")' + PushRank(i, "job")' + PushRank(i, "cancel")'
      <= PushRank(i, "request") + PushRank(i, "job") + PushRank(i, "cancel") + more
  <2>1. more \in Nat
    BY AttemptsAssumption
  <2> HIDE DEF more
  <2>2. CASE w = "request"
    BY <1>1, <1>2, <2>1, <2>2 DEF Sender
  <2>3. CASE w = "job"
    BY <1>1, <1>2, <2>1, <2>3 DEF Sender
  <2>4. CASE w = "cancel"
    BY <1>1, <1>2, <2>1, <2>4 DEF Sender
  <2> QED
    BY <2>2, <2>3, <2>4 DEF Sender
<1>5. old \in Nat /\ new \in Nat /\ new + more < old
  BY PlaceRanks
<1>6. new + PushRank(i, "request")' + PushRank(i, "job")' + PushRank(i, "cancel")'
      < old + PushRank(i, "request") + PushRank(i, "job") + PushRank(i, "cancel")
  <2>1. more \in Nat
    BY AttemptsAssumption
  <2>2. \A v \in {"request", "job", "cancel"} : PushRank(i, v) \in Nat /\ PushRank(i, v)' \in Nat
    BY <1>1, <1>3 DEF Sender
  <2> HIDE DEF more, old, new
  <2> QED
    BY <1>4, <1>5, <2>1, <2>2
<1>7. \A j \in Ids \ {i} : push'[j] = push[j]
  BY NotifyValue DEF Inv
<1> QED
  BY <1>3, <1>6, <1>7, RankFalls

\* They are the step of send() that accepts a slow task, _complete() in the
\* request and in the job, and tasks/cancel.
LEMMA SavingFalls ==
    ASSUME Inv, NEW i \in Ids, SendSlow(i) \/ RequestHandled(i) \/ JobHandled(i) \/ Cancel(i)
    PROVE  Falls(i)
<1> DEFINE A == PushAttempts
<1>1. A \in Nat /\ ledger' = ledger
  BY AttemptsAssumption DEF SendSlow, RequestHandled, JobHandled, Cancel
<1>2. /\ StateRank(state[i]) \in Nat /\ RequestRank(request[i]) \in Nat
      /\ JobRank(job[i]) \in Nat
  BY PlaceRanks
<1>3. \A j \in Ids \ {i} : state'[j] = state[j] /\ request'[j] = request[j] /\ job'[j] = job[j]
  BY DEF Inv, TypeOK, SendSlow, RequestHandled, JobHandled, Cancel, SetState, SetRequest, SetJob
<1>4. CASE SendSlow(i)
  <2>1. "request" \in Sender /\ "working" \in TaskState /\ Notify(i, "request", "working")
    BY <1>4 DEF SendSlow, Sender, TaskState
  <2>2. /\ request[i] = "accepted" /\ state[i] = "submitted" /\ job[i] = "none"
        /\ state'[i] = "working"
    BY <1>4 DEF Inv, TypeOK, TaskInv, SlowTask, Positions, Working, SendSlow, SetState
  <2>3. IF Reports(i, "working") THEN request'[i] = "announcing" /\ job'[i] = "none"
                                 ELSE request'[i] = "done" /\ job'[i] = "asleep"
    BY <1>4, <2>2 DEF Inv, TypeOK, SendSlow, SetRequest, SetJob
  <2>4. /\ StateRank("submitted") = 2 * A + 1 /\ StateRank("working") = 2 * A + 1
        /\ RequestRank("accepted") = 4 * A + 5 /\ RequestRank("announcing") = 2 * A + 3
        /\ RequestRank("done") = 0 /\ JobRank("none") = 0 /\ JobRank("asleep") = 2 * A + 2
    BY PlaceRanks DEF Open
  <2>5. StateRank(state'[i]) + RequestRank(request'[i]) + JobRank(job'[i])
          + (IF Reports(i, "working") THEN 2 * A ELSE 0)
        < StateRank(state[i]) + RequestRank(request[i]) + JobRank(job[i])
    <3> HIDE DEF A
    <3> QED
      BY <1>1, <2>2, <2>3, <2>4
  <2> QED
    BY <1>1, <1>3, <2>1, <2>5, ReportingFalls
<1>5. CASE RequestHandled(i)
  <2>1. PICK s \in {"completed", "failed"} :
          /\ SetState(i, s) /\ Notify(i, "request", s)
          /\ SetRequest(i, IF Reports(i, s) THEN "reporting" ELSE "done")
    BY <1>5 DEF RequestHandled
  <2>2. "request" \in Sender /\ s \in TaskState /\ s \in Terminal
    BY DEF Sender, TaskState, Terminal
  <2>3. /\ request[i] = "handling" /\ state'[i] = s /\ job'[i] = job[i]
        /\ request'[i] = IF Reports(i, s) THEN "reporting" ELSE "done"
    BY <1>5, <2>1 DEF Inv, TypeOK, RequestHandled, SetState, SetRequest
  <2>4. /\ StateRank(s) = 0 /\ RequestRank("handling") = 2 * A + 2
        /\ RequestRank("reporting") = 1 /\ RequestRank("done") = 0
    BY <2>2, PlaceRanks
  <2>5. StateRank(state'[i]) + RequestRank(request'[i]) + JobRank(job'[i])
          + (IF Reports(i, s) THEN 2 * A ELSE 0)
        < StateRank(state[i]) + RequestRank(request[i]) + JobRank(job[i])
    <3> HIDE DEF A
    <3> QED
      BY <1>1, <1>2, <2>3, <2>4
  <2> QED
    BY <1>1, <1>3, <2>1, <2>2, <2>5, ReportingFalls
<1>6. CASE JobHandled(i)
  <2>1. PICK s \in {"completed", "failed"} :
          /\ SetState(i, s) /\ Notify(i, "job", s)
          /\ SetJob(i, IF Reports(i, s) THEN "reporting" ELSE "done")
    BY <1>6 DEF JobHandled
  <2>2. "job" \in Sender /\ s \in TaskState /\ s \in Terminal
    BY DEF Sender, TaskState, Terminal
  <2>3. /\ job[i] = "handling" /\ state'[i] = s /\ request'[i] = request[i]
        /\ job'[i] = IF Reports(i, s) THEN "reporting" ELSE "done"
    BY <1>6, <2>1 DEF Inv, TypeOK, JobHandled, SetState, SetJob
  <2>4. /\ StateRank(s) = 0 /\ JobRank("handling") = 2 * A + 1
        /\ JobRank("reporting") = 0 /\ JobRank("done") = 0
    BY <2>2, PlaceRanks
  <2>5. StateRank(state'[i]) + RequestRank(request'[i]) + JobRank(job'[i])
          + (IF Reports(i, s) THEN 2 * A ELSE 0)
        < StateRank(state[i]) + RequestRank(request[i]) + JobRank(job[i])
    <3> HIDE DEF A
    <3> QED
      BY <1>1, <1>2, <2>3, <2>4
  <2> QED
    BY <1>1, <1>3, <2>1, <2>2, <2>5, ReportingFalls
<1>7. CASE Cancel(i)
  <2>1. "cancel" \in Sender /\ "canceled" \in TaskState /\ Notify(i, "cancel", "canceled")
    BY <1>7 DEF Cancel, Sender, TaskState
  <2>2. /\ state[i] \in Open /\ state'[i] = "canceled" /\ request'[i] = request[i]
        /\ job'[i] \in {"none", "done"}
    BY <1>7 DEF Inv, TypeOK, Cancel, SetState, SetJob
  <2>3. /\ StateRank("canceled") = 0 /\ StateRank(state[i]) = 2 * A + 1
        /\ JobRank("none") = 0 /\ JobRank("done") = 0
    BY <2>2, PlaceRanks DEF Terminal
  <2>4. StateRank(state'[i]) + RequestRank(request'[i]) + JobRank(job'[i])
          + (IF Reports(i, "canceled") THEN 2 * A ELSE 0)
        < StateRank(state[i]) + RequestRank(request[i]) + JobRank(job[i])
    <3> HIDE DEF A
    <3> QED
      BY <1>1, <1>2, <2>2, <2>3
  <2> QED
    BY <1>1, <1>3, <2>1, <2>4, ReportingFalls
<1> QED
  BY <1>4, <1>5, <1>6, <1>7

\* Steps of one sender: the others keep what they post and the rank of it.
LEMMA SenderFalls ==
    ASSUME Inv, NEW i \in Ids, NEW w \in Sender, PushRank(i, w)' \in Nat,
           \A v \in Sender \ {w} : PushRank(i, v)' = PushRank(i, v),
           StateRank(state'[i]) + RequestRank(request'[i]) + JobRank(job'[i]) + PushRank(i, w)'
           < StateRank(state[i]) + RequestRank(request[i]) + JobRank(job[i]) + PushRank(i, w),
           \A j \in Ids \ {i} :
               /\ state'[j] = state[j] /\ request'[j] = request[j] /\ job'[j] = job[j]
               /\ push'[j] = push[j] /\ ledger'[j] = ledger[j]
    PROVE  Falls(i)
<1> DEFINE old == StateRank(state[i]) + RequestRank(request[i]) + JobRank(job[i])
           new == StateRank(state'[i]) + RequestRank(request'[i]) + JobRank(job'[i])
<1>1. \A v \in Sender : PushRank(i, v) \in Nat
  BY PushRanks
<1>2. \A v \in Sender : PushRank(i, v)' \in Nat
  BY <1>1
<1>3. old \in Nat /\ new \in Nat /\ new + PushRank(i, w)' < old + PushRank(i, w)
  BY PlaceRanks
<1>4. new + PushRank(i, "request")' + PushRank(i, "job")' + PushRank(i, "cancel")'
      < old + PushRank(i, "request") + PushRank(i, "job") + PushRank(i, "cancel")
  <2> HIDE DEF old, new
  <2>1. CASE w = "request"
    BY <1>1, <1>2, <1>3, <2>1 DEF Sender
  <2>2. CASE w = "job"
    BY <1>1, <1>2, <1>3, <2>2 DEF Sender
  <2>3. CASE w = "cancel"
    BY <1>1, <1>2, <1>3, <2>3 DEF Sender
  <2> QED
    BY <2>1, <2>2, <2>3 DEF Sender
<1> QED
  BY <1>2, <1>4, RankFalls

\* The stream of a task is closed, or its call is: the request is gone.
LEMMA AbandonFalls == ASSUME Inv, NEW i \in Ids, Abandon(i) PROVE Falls(i)
<1> DEFINE A == PushAttempts
<1>1. "request" \in Sender /\ push' = [push EXCEPT ![i]["request"] = Idle]
  BY DEF Abandon, Sender
<1>2. /\ push'[i]["request"] = Idle
      /\ \A v \in Sender \ {"request"} : push'[i][v] = push[i][v]
      /\ \A j \in Ids \ {i} : push'[j] = push[j]
  BY <1>1, EntryValue DEF Inv
<1>3. PushRank(i, "request")' = 0 /\ PushRank(i, "request") \in Nat
  <2>1. push'[i]["request"].phase = "idle"
    BY <1>2 DEF Idle, Update
  <2>2. PushRank(i, "request")' = 0
    BY <2>1 DEF PushRank, UpdateRank
  <2>3. PushRank(i, "request") \in Nat
    BY <1>1, PushRanks
  <2> QED
    BY <2>2, <2>3
<1>4. \A v \in Sender \ {"request"} : PushRank(i, v)' = PushRank(i, v)
  BY <1>2, PushRankStays DEF Abandon, durableVars
<1>5. /\ request[i] \in {"yielded", "handling", "reporting"} /\ request'[i] = "abandoned"
      /\ UNCHANGED <<state, job, ledger>> /\ \A j \in Ids \ {i} : request'[j] = request[j]
  BY DEF Inv, TypeOK, Abandon, SetRequest, durableVars
<1>6. StateRank(state'[i]) + RequestRank(request'[i]) + JobRank(job'[i]) + PushRank(i, "request")'
      < StateRank(state[i]) + RequestRank(request[i]) + JobRank(job[i]) + PushRank(i, "request")
  <2>1. /\ StateRank(state[i]) \in Nat /\ JobRank(job[i]) \in Nat
        /\ RequestRank("yielded") = 2 * A + 3 /\ RequestRank("handling") = 2 * A + 2
        /\ RequestRank("reporting") = 1 /\ RequestRank("abandoned") = 0
    BY PlaceRanks
  <2>2. A \in Nat
    BY AttemptsAssumption
  <2> HIDE DEF A
  <2> QED
    BY <1>3, <1>5, <2>1, <2>2
<1> QED
  BY <1>1, <1>2, <1>3, <1>4, <1>5, <1>6, SenderFalls

\* The client of a cancellation gives up: nothing is left of its post.
LEMMA DropCancelFalls == ASSUME Inv, NEW i \in Ids, DropCancel(i) PROVE Falls(i)
<1>1. "cancel" \in Sender /\ push' = [push EXCEPT ![i]["cancel"] = Idle]
  BY DEF DropCancel, Sender
<1>2. /\ push'[i]["cancel"] = Idle
      /\ \A v \in Sender \ {"cancel"} : push'[i][v] = push[i][v]
      /\ \A j \in Ids \ {i} : push'[j] = push[j]
  BY <1>1, EntryValue DEF Inv
<1>3. PushRank(i, "cancel")' = 0
  <2>1. push'[i]["cancel"].phase = "idle"
    BY <1>2 DEF Idle, Update
  <2> QED
    BY <2>1 DEF PushRank, UpdateRank
<1>4. PushRank(i, "cancel") \in Nat /\ PushRank(i, "cancel") > 0
  <2>1. push[i]["cancel"].phase # "idle"
    BY DEF DropCancel
  <2> QED
    BY <1>1, <2>1, PushRanks
<1>5. \A v \in Sender \ {"cancel"} : PushRank(i, v)' = PushRank(i, v)
  BY <1>2, PushRankStays DEF DropCancel, durableVars
<1>6. UNCHANGED <<state, request, job, ledger>>
  BY DEF DropCancel, durableVars
<1>7. StateRank(state[i]) \in Nat /\ RequestRank(request[i]) \in Nat /\ JobRank(job[i]) \in Nat
  BY PlaceRanks
<1> QED
  BY <1>1, <1>2, <1>3, <1>4, <1>5, <1>6, <1>7, SenderFalls

\* An update is on the wire: the answer to it is left.
LEMMA PostFalls == ASSUME Inv, NEW i \in Ids, NEW w \in Sender, Post(i, w) PROVE Falls(i)
<1> DEFINE s == push[i][w].event
           left == PushAttempts - ledger[i][s].attempts
<1>1. PICK arrives \in BOOLEAN : push' = [push EXCEPT ![i][w] = Update(s, "answering", arrives)]
  BY DEF Post
<1>2. push[i][w].phase = "posting" /\ UNCHANGED <<state, ledger, request, job>>
  BY DEF Post, durableVars
<1>3. /\ push'[i][w] = Update(s, "answering", arrives)
      /\ \A v \in Sender \ {w} : push'[i][v] = push[i][v]
      /\ \A j \in Ids \ {i} : push'[j] = push[j]
  BY <1>1, EntryValue DEF Inv
<1>4. \A v \in Sender \ {w} : PushRank(i, v)' = PushRank(i, v)
  BY <1>2, <1>3, PushRankStays
<1>5. left \in Nat /\ left >= 1
  <2>1. s \in TaskState /\ ledger[i][s].attempts < PushAttempts
    BY <1>2 DEF Inv, TaskInv, Posts, Sender, TaskState
  <2>2. ledger[i][s].attempts \in 0..PushAttempts
    BY <2>1 DEF Inv, TypeOK
  <2> QED
    BY <2>1, <2>2, AttemptsAssumption
<1>6. PushRank(i, w) = 2 * left - 0 /\ PushRank(i, w)' = 2 * left - 1
  BY <1>2, <1>3 DEF PushRank, UpdateRank, Update
<1>7. StateRank(state'[i]) + RequestRank(request'[i]) + JobRank(job'[i]) + PushRank(i, w)'
      < StateRank(state[i]) + RequestRank(request[i]) + JobRank(job[i]) + PushRank(i, w)
  <2>1. /\ StateRank(state[i]) \in Nat /\ RequestRank(request[i]) \in Nat
        /\ JobRank(job[i]) \in Nat
    BY PlaceRanks
  <2> HIDE DEF left
  <2> QED
    BY <1>2, <1>5, <1>6, <2>1
<1>8. PushRank(i, w)' \in Nat
  <2> HIDE DEF left
  <2> QED
    BY <1>5, <1>6
<1> QED
  BY <1>2, <1>3, <1>4, <1>7, <1>8, SenderFalls

\* An answer is recorded: an attempt is used up, and what the coroutine goes on
\* to is less than what it comes from.
LEMMA AnsweredFalls == ASSUME Inv, NEW i \in Ids, NEW w \in Sender, Answered(i, w) PROVE Falls(i)
<1> DEFINE A == PushAttempts
           s == push[i][w].event
           a == ledger[i][s].attempts
<1>1. PICK ok \in {push[i][w].arrived, FALSE} :
        /\ ledger' = [ledger EXCEPT ![i][s] = [delivered |-> ok, attempts |-> a + 1]]
        /\ IF ok \/ LastAttempt(a + 1)
           THEN push' = [push EXCEPT ![i][w] = Idle] /\ Return(i, w)
           ELSE /\ push' = [push EXCEPT ![i][w] = Update(s, "posting", FALSE)]
                /\ UNCHANGED <<request, job, known>>
  BY DEF Answered
<1>2. push[i][w].phase = "answering" /\ state' = state
  BY DEF Answered
<1>3. A \in Nat /\ s \in TaskState /\ a \in 0..A /\ a < A
  <2>1. s \in TaskState /\ a < A
    BY <1>2 DEF Inv, TaskInv, Posts, Sender, TaskState
  <2> QED
    BY <2>1, AttemptsAssumption DEF Inv, TypeOK
<1>4. /\ ledger'[i][s].attempts = a + 1
      /\ \A e \in TaskState \ {s} : ledger'[i][e] = ledger[i][e]
      /\ \A j \in Ids \ {i} : ledger'[j] = ledger[j]
  BY <1>1, <1>3 DEF Inv, TypeOK
<1>5. /\ \A v \in Sender \ {w} : push'[i][v] = push[i][v]
      /\ \A j \in Ids \ {i} : push'[j] = push[j]
      /\ \/ push'[i][w] = Idle /\ Return(i, w)
         \/ push'[i][w] = Update(s, "posting", FALSE) /\ UNCHANGED <<request, job>>
  <2>1. CASE ok \/ LastAttempt(a + 1)
    <3>1. push' = [push EXCEPT ![i][w] = Idle] /\ Return(i, w)
      BY <1>1, <2>1
    <3>2. push' = [push EXCEPT ![i][w] = Idle] /\ push \in [Ids -> [Sender -> Posting]]
      BY <3>1 DEF Inv, TypeOK
    <3>3. /\ push'[i][w] = Idle /\ \A v \in Sender \ {w} : push'[i][v] = push[i][v]
          /\ \A j \in Ids \ {i} : push'[j] = push[j]
      BY <3>2
    <3> QED
      BY <3>1, <3>3
  <2>2. CASE ~(ok \/ LastAttempt(a + 1))
    <3>1. push' = [push EXCEPT ![i][w] = Update(s, "posting", FALSE)] /\ UNCHANGED <<request, job>>
      BY <1>1, <2>2
    <3>2. /\ push' = [push EXCEPT ![i][w] = Update(s, "posting", FALSE)]
          /\ push \in [Ids -> [Sender -> Posting]]
      BY <3>1 DEF Inv, TypeOK
    <3>3. /\ push'[i][w] = Update(s, "posting", FALSE)
          /\ \A v \in Sender \ {w} : push'[i][v] = push[i][v]
          /\ \A j \in Ids \ {i} : push'[j] = push[j]
      BY <3>2
    <3> QED
      BY <3>1, <3>3
  <2> QED
    BY <2>1, <2>2
<1>6. \A v \in Sender \ {w} : PushRank(i, v)' = PushRank(i, v)
  <2>1. Positions(i) /\ Posts(i) /\ push[i][w].phase # "idle"
    BY <1>2 DEF Inv, TaskInv
  <2> TAKE v \in Sender \ {w}
  <2>2. push'[i][v] = push[i][v]
    BY <1>5
  <2>3. CASE push[i][v].phase = "idle"
    BY <2>2, <2>3 DEF PushRank, UpdateRank
  <2>4. CASE push[i][v].phase # "idle"
    <3>1. ledger'[i][push[i][v].event] = ledger[i][push[i][v].event]
      BY <1>4, <2>1, <2>4, UpdatesDiffer
    <3> QED
      BY <2>2, <3>1 DEF PushRank, UpdateRank
  <2> QED
    BY <2>3, <2>4
<1>7. PushRank(i, w) = 2 * (A - a) - 1
  BY <1>2 DEF PushRank, UpdateRank
<1>8. /\ push'[i][w] = Idle => PushRank(i, w)' = 0
      /\ push'[i][w] = Update(s, "posting", FALSE) => PushRank(i, w)' = 2 * (A - (a + 1)) - 0
  BY <1>4 DEF PushRank, UpdateRank, Idle, Update
<1>9. PushRank(i, w)' \in Nat /\ PushRank(i, w)' < PushRank(i, w) /\ PushRank(i, w) \in Nat
  <2>1. PushRank(i, w)' \in {0, 2 * (A - (a + 1)) - 0}
    BY <1>5, <1>8
  <2> HIDE DEF A, a
  <2> QED
    BY <1>3, <1>7, <2>1
<1>10. \A j \in Ids \ {i} : request'[j] = request[j] /\ job'[j] = job[j]
  <2>1. CASE Return(i, w)
    BY <2>1 DEF Inv, TypeOK, Return, SetJob
  <2> QED
    BY <1>5, <2>1
<1>11. RequestRank(request'[i]) + JobRank(job'[i]) <= RequestRank(request[i]) + JobRank(job[i])
  <2>1. RequestRank(request[i]) \in Nat /\ JobRank(job[i]) \in Nat
    BY PlaceRanks
  <2>2. CASE UNCHANGED <<request, job>>
    BY <2>1, <2>2
  <2>3. CASE Return(i, w)
    <3>1. CASE w = "request"
      <4>1. request[i] \in {"announcing", "reporting"} /\ job[i] = "none"
        BY <1>2, <3>1 DEF Inv, TaskInv, Positions, Working
      <4>2. /\ request'[i] = "done"
            /\ job'[i] = IF request[i] = "announcing" THEN "asleep" ELSE "none"
        BY <2>3, <3>1, <4>1 DEF Return, SetJob, Inv, TypeOK
      <4>3. /\ RequestRank("announcing") = 2 * A + 3 /\ RequestRank("reporting") = 1
            /\ RequestRank("done") = 0 /\ JobRank("none") = 0 /\ JobRank("asleep") = 2 * A + 2
        BY PlaceRanks
      <4> HIDE DEF A
      <4> QED
        BY <1>3, <4>1, <4>2, <4>3
    <3>2. CASE w = "job"
      <4>1. request' = request /\ job'[i] = "done"
        BY <2>3, <3>2 DEF Return, SetJob, Inv, TypeOK
      <4>2. JobRank("done") = 0
        BY PlaceRanks
      <4> QED
        BY <2>1, <4>1, <4>2
    <3>3. CASE w = "cancel"
      <4>1. request' = request /\ job' = job
        BY <2>3, <3>3 DEF Return
      <4> QED
        BY <2>1, <4>1
    <3> QED
      BY <3>1, <3>2, <3>3 DEF Sender
  <2> QED
    BY <1>5, <2>2, <2>3
<1>12. StateRank(state'[i]) + RequestRank(request'[i]) + JobRank(job'[i]) + PushRank(i, w)'
       < StateRank(state[i]) + RequestRank(request[i]) + JobRank(job[i]) + PushRank(i, w)
  <2>1. /\ StateRank(state[i]) \in Nat /\ RequestRank(request[i]) \in Nat
        /\ JobRank(job[i]) \in Nat /\ RequestRank(request'[i]) \in Nat /\ JobRank(job'[i]) \in Nat
    BY PlaceRanks
  <2> QED
    BY <1>2, <1>9, <1>11, <2>1
<1> QED
  BY <1>2, <1>4, <1>5, <1>6, <1>9, <1>10, <1>12, SenderFalls

\* No task has more to do than one that is yet to be sent.
Bounded(i) == Rank(i) <= 6 * PushAttempts + 7

\* No task has been sent to begin with.
LEMMA BoundStarts == Init => \A i \in Ids : Bounded(i)
<1> SUFFICES ASSUME Init, NEW i \in Ids PROVE Bounded(i)
  OBVIOUS
<1>1. \A w \in {"request", "job", "cancel"} : PushRank(i, w) = 0
  <2>1. \A w \in {"request", "job", "cancel"} : push[i][w].phase = "idle"
    BY DEF Init, Sender, Idle, Update
  <2> QED
    BY <2>1 DEF PushRank, UpdateRank
<1>2. state[i] = "absent" /\ request[i] = "none" /\ job[i] = "none"
  BY DEF Init
<1> QED
  BY <1>1, <1>2, PlaceRanks, AttemptsAssumption DEF Bounded, Rank

\* A crash leaves a task nothing but its state.
LEMMA CrashBounds == ASSUME Inv, Crash, NEW i \in Ids PROVE Bounded(i)'
<1>1. \A w \in {"request", "job", "cancel"} : PushRank(i, w)' = 0
  <2>1. \A w \in {"request", "job", "cancel"} : push'[i][w].phase = "idle"
    BY DEF Crash, Sender, Idle, Update
  <2> QED
    BY <2>1 DEF PushRank, UpdateRank
<1>2. state'[i] = state[i] /\ request'[i] = "none" /\ job'[i] = "none"
  BY DEF Crash, durableVars
<1>3. StateRank(state[i]) \in Nat /\ StateRank(state[i]) <= 6 * PushAttempts + 7
  BY AttemptsAssumption DEF StateRank
<1> QED
  BY <1>1, <1>2, <1>3, PlaceRanks, AttemptsAssumption DEF Bounded, Rank

\* A restart gives each task it recovers a job, and the others nothing.
LEMMA RestartBounds == ASSUME Inv, Restart, NEW i \in Ids, Bounded(i) PROVE Bounded(i)'
<1> DEFINE A == PushAttempts
<1>1. \A w \in {"request", "job", "cancel"} : PushRank(i, w)' = PushRank(i, w)
  BY PushRankStays DEF Restart, Sender
<1>2. \A w \in {"request", "job", "cancel"} : PushRank(i, w) \in Nat
  BY PushRanks DEF Sender
<1>3. request[i] = "none" /\ request'[i] = "none" /\ job[i] = "none"
  BY DEF Restart, Inv, TaskInv, Positions
<1>4. PushRank(i, "request") = 0 /\ PushRank(i, "job") = 0 /\ PushRank(i, "cancel") <= 2 * A
  <2>1. push[i]["request"].phase = "idle" /\ push[i]["job"].phase = "idle"
    BY <1>3 DEF Inv, TaskInv, Positions
  <2> QED
    BY <2>1, PushRanks DEF Sender
<1>5. CASE i \in Recoverable
  <2>1. state'[i] = "working" /\ job'[i] = "asleep"
    BY <1>5 DEF Restart
  <2>2. StateRank("working") = 2 * A + 1 /\ JobRank("asleep") = 2 * A + 2 /\ RequestRank("none") = 0
    BY PlaceRanks DEF Open
  <2>3. A \in Nat
    BY AttemptsAssumption
  <2>4. Rank(i)' = (2 * A + 1) + 0 + (2 * A + 2) + 0 + 0 + PushRank(i, "cancel")
    BY <1>1, <1>3, <1>4, <2>1, <2>2 DEF Rank
  <2>5. Rank(i)' <= 6 * A + 7
    <3> HIDE DEF A
    <3> QED
      BY <1>2, <1>4, <2>3, <2>4
  <2> QED
    BY <2>5 DEF Bounded
<1>6. CASE i \notin Recoverable
  <2>1. state'[i] = state[i] /\ job'[i] = "none"
    BY <1>6 DEF Restart
  <2> QED
    BY <1>1, <1>3, <2>1 DEF Bounded, Rank
<1> QED
  BY <1>5, <1>6

\* Every step but a crash and a restart is for one task, and leaves it less to do.
LEMMA StepFalls == ASSUME Inv, Next PROVE Crash \/ Restart \/ \E i \in Ids : Falls(i)
<1>1. ASSUME NEW i \in Ids, NewTask(i) \/ RequestStep(i) \/ JobStep(i) \/ Cancel(i)
                            \/ Abandon(i) \/ DropCancel(i)
      PROVE  Falls(i)
  BY <1>1, QuietFalls, SavingFalls, AbandonFalls, DropCancelFalls DEF RequestStep, JobStep
<1>2. ASSUME NEW i \in Ids, NEW w \in Sender, PushStep(i, w) PROVE Falls(i)
  BY <1>2, PostFalls, AnsweredFalls DEF PushStep
<1> QED
  BY <1>1, <1>2 DEF Next

\* So the bound is kept by every step.
LEMMA BoundKept ==
    ASSUME Inv, [Next]_vars, \A i \in Ids : Bounded(i), NEW k \in Ids PROVE Bounded(k)'
<1>1. CASE Crash
  BY <1>1, CrashBounds
<1>2. CASE Restart
  BY <1>2, RestartBounds
<1>3. ASSUME NEW i \in Ids, Falls(i) PROVE Bounded(k)'
  <2>1. CASE k = i
    <3>1. Rank(i)' \in Nat /\ Rank(i)' < Rank(i) /\ Rank(i) <= 6 * PushAttempts + 7
      BY <1>3 DEF Falls, Bounded
    <3>2. Rank(i) \in Nat
      BY RankType
    <3> QED
      BY <2>1, <3>1, <3>2, AttemptsAssumption DEF Bounded
  <2>2. CASE k # i
    BY <1>3, <2>2 DEF Falls, Bounded
  <2> QED
    BY <2>1, <2>2
<1>4. CASE UNCHANGED vars
  <2>1. Rank(k)' = Rank(k)
    BY <1>4, RankStays DEF vars, durableVars, volatileVars
  <2> QED
    BY <2>1 DEF Bounded
<1> QED
  BY <1>1, <1>2, <1>3, <1>4, StepFalls

\* Every step of a live server, and every request of a client, is for one task
\* and leaves it less to do; what is left is never negative nor more than
\* 6 * push_attempts + 7, and a task that is open when nothing is at work on it
\* any more is one whose own request went away.  So between a restart and the
\* next crash each task takes at most that many steps, and then it has ended or
\* was abandoned, in whatever order coroutines, posts and cancellations are
\* scheduled (server.py:121-190, 247-280).
THEOREM WorkRunsOut ==
    Spec => /\ [](\A i \in Ids :
                   /\ Rank(i) \in 0..(6 * PushAttempts + 7)
                   /\ up /\ state[i] \in Open
                      /\ request[i] \notin {"accepted", "announcing", "yielded", "handling"}
                      /\ job[i] \notin {"asleep", "handling"} => request[i] = "abandoned")
            /\ [][Crash \/ Restart \/ \E i \in Ids : Falls(i)]_vars
<1> DEFINE Bound == \A i \in Ids : Bounded(i)
           Left == \A i \in Ids :
               /\ Rank(i) \in 0..(6 * PushAttempts + 7)
               /\ up /\ state[i] \in Open
                  /\ request[i] \notin {"accepted", "announcing", "yielded", "handling"}
                  /\ job[i] \notin {"asleep", "handling"} => request[i] = "abandoned"
           Step == Crash \/ Restart \/ \E i \in Ids : Falls(i)
<1>1. Init => Bound
  BY BoundStarts
<1>2. Inv /\ Bound /\ [Next]_vars => Bound'
  BY BoundKept
<1>3. Inv /\ Bound => Left
  <2> SUFFICES ASSUME Inv, Bound, NEW i \in Ids
               PROVE  /\ Rank(i) \in 0..(6 * PushAttempts + 7)
                      /\ up /\ state[i] \in Open
                         /\ request[i] \notin {"accepted", "announcing", "yielded", "handling"}
                         /\ job[i] \notin {"asleep", "handling"} => request[i] = "abandoned"
    OBVIOUS
  <2>1. Owned(i)
    BY DEF Inv, TaskInv
  <2>2. Rank(i) \in 0..(6 * PushAttempts + 7)
    BY RankType, AttemptsAssumption DEF Bounded
  <2> QED
    BY <2>1, <2>2 DEF Owned
<1>4. Inv /\ [Next]_vars => [Step]_vars
  BY StepFalls
<1> HIDE DEF Bound, Left, Step
<1>5. Spec => [](Inv /\ Bound)
  BY <1>1, <1>2, Invariance, PTL DEF Spec
<1>6. Spec => []Left /\ [][Step]_vars
  BY <1>3, <1>4, <1>5, PTL DEF Spec
<1> QED
  BY <1>6 DEF Left, Step

=============================================================================
