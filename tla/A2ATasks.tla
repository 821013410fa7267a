------------------------------ MODULE A2ATasks ------------------------------
(***************************************************************************)
(* The A2A task server (A2ADemoServer and DurableTaskStore in              *)
(* s13code/core/a2a_adapter/server.py), with the gRPC binding of           *)
(* official.py, which calls the same send, stream_updates and cancel.      *)
(*                                                                         *)
(* A task is worked on by the coroutine of its request or by a background  *)
(* job, and each of request, job and tasks/cancel may be posting a status  *)
(* update to the callback of the task.  A step runs to the next await or   *)
(* to the next commit.  Every change of a Task is saved in the segment     *)
(* that makes it, so the object in memory and its row are one variable.    *)
(*                                                                         *)
(* Left out: texts, artifacts and signatures.  A status update is named by *)
(* its task and state: updated_at only makes its Idempotency-Key unique,   *)
(* and no task reports the same state twice.                               *)
(***************************************************************************)
EXTENDS Naturals, FiniteSets

CONSTANTS
    Ids,            \* task ids
    Kinds,          \* how tasks are sent: see Kind
    PushAttempts,   \* push_attempts
    MaxCrashes      \* bound: how often the process dies

Kind == {"sync", "slow", "stream"}

ASSUME KindsAssumption    == Kinds \subseteq Kind
ASSUME AttemptsAssumption == PushAttempts \in Nat
ASSUME CrashesAssumption  == MaxCrashes \in Nat

VARIABLES
    state,      \* the state of each task, "absent" before it is sent
    kind,       \* message/send of plain or "slow"/"async" text, message/stream
    hook,       \* whether the request named a callback_url
    ledger,     \* a2a_push_delivery: [delivered, attempts] of each update
    up,         \* the process is alive
    request,    \* where the coroutine of send() or stream_updates() stands
    job,        \* where the coroutine of _complete_later() stands
    push,       \* the update each coroutine is posting in _notify()
    known,      \* external: the tasks whose id a client has been told
    last,       \* external: the state the callback endpoint was told last
    dropped,    \* the tasks whose tasks/cancel was given up by its client
    crashes     \* how often the process has died

durableVars  == <<state, kind, hook, ledger>>
volatileVars == <<request, job, push>>
worldVars    == <<known, last>>
faultVars    == <<dropped, crashes>>
vars         == <<durableVars, up, volatileVars, worldVars, faultVars>>

TaskState == {"submitted", "working", "completed", "failed", "canceled"}
Terminal  == {"completed", "failed", "canceled"}
Open      == {"submitted", "working"}

Sender == {"request", "job", "cancel"}
Posting == [event : TaskState \cup {"none"}, arrived : BOOLEAN,
            phase : {"idle", "posting", "answering"}]

Update(s, phase, arrived) == [event |-> s, phase |-> phase, arrived |-> arrived]

Idle == Update("none", "idle", FALSE)

Unsent == [s \in TaskState |-> [delivered |-> FALSE, attempts |-> 0]]

\* The values of every variable; attempts never pass push_attempts.
TypeOK ==
    /\ state \in [Ids -> TaskState \cup {"absent"}]
    /\ kind \in [Ids -> Kind] /\ hook \in [Ids -> BOOLEAN]
    /\ ledger \in [Ids -> [TaskState -> [delivered : BOOLEAN, attempts : 0..PushAttempts]]]
    /\ up \in BOOLEAN /\ dropped \subseteq Ids /\ crashes \in 0..MaxCrashes
    /\ request \in [Ids -> {"none", "accepted", "announcing", "yielded", "handling",
                            "reporting", "done", "abandoned"}]
    /\ job \in [Ids -> {"none", "asleep", "handling", "reporting", "done"}]
    /\ push \in [Ids -> [Sender -> Posting]]
    /\ known \subseteq Ids
    /\ last \in [Ids -> TaskState \cup {"none"}]

Init ==
    /\ state = [i \in Ids |-> "absent"]
    /\ kind \in [Ids -> Kinds] /\ hook \in [Ids -> BOOLEAN]
    /\ ledger = [i \in Ids |-> Unsent]
    /\ up = TRUE /\ dropped = {} /\ crashes = 0
    /\ request = [i \in Ids |-> "none"]
    /\ job = [i \in Ids |-> "none"]
    /\ push = [i \in Ids |-> [w \in Sender |-> Idle]]
    /\ known = {}
    /\ last = [i \in Ids |-> "none"]

SetState(i, s)   == state' = [state EXCEPT ![i] = s]
SetRequest(i, s) == request' = [request EXCEPT ![i] = s]
SetJob(i, s)     == job' = [job EXCEPT ![i] = s]

-----------------------------------------------------------------------------
(* _notify(): the updates of a task posted to its callback. *)

Exhausted(i, s) == ledger[i][s].attempts >= PushAttempts

\* It returns without posting when there is no callback or nothing left to do.
Reports(i, s) == hook[i] /\ ~ledger[i][s].delivered /\ ~Exhausted(i, s)

Notify(i, w, s) ==
    push' = IF Reports(i, s)
            THEN [push EXCEPT ![i][w] = Update(s, "posting", FALSE)]
            ELSE push

\* The request is on the wire; it may get lost, or its answer may.
Post(i, w) ==
    /\ push[i][w].phase = "posting"
    /\ \E arrives \in BOOLEAN :
        /\ push' = [push EXCEPT ![i][w] = Update(push[i][w].event, "answering", arrives)]
        /\ IF arrives THEN /\ last' = [last EXCEPT ![i] = push[i][w].event]
                           /\ known' = known \cup {i}
           ELSE UNCHANGED worldVars
    /\ UNCHANGED <<durableVars, up, request, job, faultVars>>

\* What a coroutine goes on to do when its _notify() returns.
Return(i, w) ==
    /\ request' = IF w = "request" THEN [request EXCEPT ![i] = "done"] ELSE request
    /\ \/ w = "request" /\ request[i] = "announcing" /\ SetJob(i, "asleep")
       \/ w = "job" /\ SetJob(i, "done")
       \/ w = "request" /\ request[i] # "announcing" /\ UNCHANGED job
       \/ w = "cancel" /\ UNCHANGED job
    /\ known' = IF w = "request" THEN known \cup {i} ELSE known

\* Mutants: the range of attempts ends one too early, or one too late.
LastAttemptEarly(n) == n + 1 >= PushAttempts
LastAttemptLate(n)  == n > PushAttempts

LastAttempt(n) == n >= PushAttempts

\* Mutant: a delivered update stays in the retry loop.
AnsweredGoingOn(i, w) ==
    LET s == push[i][w].event
        n == ledger[i][s].attempts + 1
    IN
    /\ push[i][w].phase = "answering"
    /\ \E ok \in {push[i][w].arrived, FALSE} :
        ledger' = [ledger EXCEPT ![i][s] = [delivered |-> ok, attempts |-> n]]
    /\ IF LastAttempt(n)
       THEN push' = [push EXCEPT ![i][w] = Idle] /\ Return(i, w)
       ELSE /\ push' = [push EXCEPT ![i][w] = Update(s, "posting", FALSE)]
            /\ UNCHANGED <<request, job, known>>
    /\ UNCHANGED <<state, kind, hook, up, last, faultVars>>

\* The answer is recorded; a failed attempt is retried after a pause.
Answered(i, w) ==
    LET s == push[i][w].event
        n == ledger[i][s].attempts + 1
    IN
    /\ push[i][w].phase = "answering"
    /\ \E ok \in {push[i][w].arrived, FALSE} :
        /\ ledger' = [ledger EXCEPT ![i][s] = [delivered |-> ok, attempts |-> n]]
        /\ IF ok \/ LastAttempt(n)
           THEN push' = [push EXCEPT ![i][w] = Idle] /\ Return(i, w)
           ELSE /\ push' = [push EXCEPT ![i][w] = Update(s, "posting", FALSE)]
                /\ UNCHANGED <<request, job, known>>
    /\ UNCHANGED <<state, kind, hook, up, last, faultVars>>

-----------------------------------------------------------------------------
(* send() and stream_updates(). *)

\* _new_task(): the row is there before the task is set to work.
NewTask(i) ==
    /\ up /\ state[i] = "absent"
    /\ SetState(i, "submitted")
    /\ SetRequest(i, "accepted")
    /\ UNCHANGED <<kind, hook, ledger, up, job, push, worldVars, faultVars>>

\* A plain message: its request waits for the handler.
SendSync(i) ==
    /\ request[i] = "accepted" /\ kind[i] = "sync"
    /\ SetRequest(i, "handling")
    /\ UNCHANGED <<durableVars, up, job, push, worldVars, faultVars>>

\* Mutant: the job is at work while "working" is still being posted.
SendSlowJobFirst(i) ==
    /\ request[i] = "accepted" /\ kind[i] = "slow"
    /\ SetState(i, "working")
    /\ Notify(i, "request", "working")
    /\ SetJob(i, "asleep")
    /\ SetRequest(i, IF Reports(i, "working") THEN "reporting" ELSE "done")
    /\ known' = IF Reports(i, "working") THEN known ELSE known \cup {i}
    /\ UNCHANGED <<kind, hook, ledger, up, last, faultVars>>

\* "slow" or "async" text: "working" is posted first, then a job takes over.
SendSlow(i) ==
    /\ request[i] = "accepted" /\ kind[i] = "slow"
    /\ SetState(i, "working")
    /\ Notify(i, "request", "working")
    /\ IF Reports(i, "working")
       THEN SetRequest(i, "announcing") /\ UNCHANGED <<job, known>>
       ELSE SetRequest(i, "done") /\ SetJob(i, "asleep") /\ known' = known \cup {i}
    /\ UNCHANGED <<kind, hook, ledger, up, last, faultVars>>

\* The first update of a stream tells the client the task's id.
Stream(i) ==
    /\ request[i] = "accepted" /\ kind[i] = "stream"
    /\ SetState(i, "working")
    /\ SetRequest(i, "yielded")
    /\ known' = known \cup {i}
    /\ UNCHANGED <<kind, hook, ledger, up, job, push, last, faultVars>>

StreamGoesOn(i) ==
    /\ request[i] = "yielded"
    /\ SetRequest(i, IF state[i] \in Terminal THEN "done" ELSE "handling")
    /\ UNCHANGED <<durableVars, up, job, push, worldVars, faultVars>>

\* _complete() in the request: the state is not looked at again.
RequestHandled(i) ==
    /\ request[i] = "handling"
    /\ \E s \in {"completed", "failed"} :
        /\ SetState(i, s)
        /\ Notify(i, "request", s)
        /\ SetRequest(i, IF Reports(i, s) THEN "reporting" ELSE "done")
    /\ known' = known \cup {i}
    /\ UNCHANGED <<kind, hook, ledger, up, job, last, faultVars>>

\* A closed stream, or a cancelled gRPC call, which has no callback.
Abandon(i) ==
    /\ \/ kind[i] = "stream" /\ request[i] \in {"yielded", "handling", "reporting"}
       \/ kind[i] = "sync" /\ ~hook[i] /\ request[i] = "handling"
    /\ SetRequest(i, "abandoned")
    /\ push' = [push EXCEPT ![i]["request"] = Idle]
    /\ UNCHANGED <<durableVars, up, job, worldVars, faultVars>>

-----------------------------------------------------------------------------
(* The background job, tasks/cancel, and the life of the process. *)

JobWakes(i) ==
    /\ job[i] = "asleep"
    /\ SetJob(i, IF state[i] \in Terminal THEN "done" ELSE "handling")
    /\ UNCHANGED <<durableVars, up, request, push, worldVars, faultVars>>

\* _complete() in the job.
JobHandled(i) ==
    /\ job[i] = "handling"
    /\ \E s \in {"completed", "failed"} :
        /\ SetState(i, s)
        /\ Notify(i, "job", s)
        /\ SetJob(i, IF Reports(i, s) THEN "reporting" ELSE "done")
    /\ UNCHANGED <<kind, hook, ledger, up, request, worldVars, faultVars>>

\* Mutant: the job of a cancelled task is left to run.
CancelKeepingJob(i) ==
    /\ up /\ i \in known /\ state[i] \in Open
    /\ SetState(i, "canceled")
    /\ Notify(i, "cancel", "canceled")
    /\ UNCHANGED <<kind, hook, ledger, up, request, job, worldVars, faultVars>>

\* cancel(): CancelledError ends a job asleep or in its handler.
Cancel(i) ==
    /\ up /\ i \in known /\ state[i] \in Open
    /\ SetState(i, "canceled")
    /\ Notify(i, "cancel", "canceled")
    /\ SetJob(i, IF job[i] = "none" THEN "none" ELSE "done")
    /\ UNCHANGED <<kind, hook, ledger, up, request, worldVars, faultVars>>

\* A gRPC CancelTask whose client gives up while the end is being posted: no
\* handler of _notify() catches its CancelledError (official.py:74-77).
DropCancel(i) ==
    /\ push[i]["cancel"].phase # "idle"
    /\ push' = [push EXCEPT ![i]["cancel"] = Idle]
    /\ dropped' = dropped \cup {i}
    /\ UNCHANGED <<durableVars, up, request, job, worldVars, crashes>>

\* The process dies, or close() cancels the jobs: only the database is left.
Crash ==
    /\ up /\ crashes < MaxCrashes
    /\ up' = FALSE /\ crashes' = crashes + 1
    /\ request' = [i \in Ids |-> "none"]
    /\ job' = [i \in Ids |-> "none"]
    /\ push' = [i \in Ids |-> [w \in Sender |-> Idle]]
    /\ UNCHANGED <<durableVars, worldVars, dropped>>

\* Mutant: only tasks that were never set to work are recovered.
RecoverableSubmitted == {i \in Ids : state[i] = "submitted"}

Recoverable == {i \in Ids : state[i] \in Open}

\* start(): every open task is set to work again, by a job.
Restart ==
    /\ ~up /\ up' = TRUE
    /\ state' = [i \in Ids |-> IF i \in Recoverable THEN "working" ELSE state[i]]
    /\ job' = [i \in Ids |-> IF i \in Recoverable THEN "asleep" ELSE "none"]
    /\ UNCHANGED <<kind, hook, ledger, request, push, worldVars, faultVars>>

-----------------------------------------------------------------------------
RequestStep(i) ==
    SendSync(i) \/ SendSlow(i) \/ Stream(i) \/ StreamGoesOn(i) \/ RequestHandled(i)

JobStep(i) == JobWakes(i) \/ JobHandled(i)

PushStep(i, w) == Post(i, w) \/ Answered(i, w)

Next ==
    \/ \E i \in Ids : NewTask(i) \/ RequestStep(i) \/ JobStep(i) \/ Cancel(i)
    \/ \E i \in Ids : Abandon(i) \/ DropCancel(i)
    \/ \E i \in Ids, w \in Sender : PushStep(i, w)
    \/ Crash \/ Restart

Spec == Init /\ [][Next]_vars

\* The event loop turns, handlers and posts end (both have time limits), and a
\* dead server is started again; nothing obliges clients or crashes to happen.
FairSpec ==
    /\ Spec /\ WF_vars(Restart)
    /\ \A i \in Ids : WF_vars(RequestStep(i)) /\ WF_vars(JobStep(i))
    /\ \A i \in Ids, w \in Sender : WF_vars(PushStep(i, w))

-----------------------------------------------------------------------------
\* A live server forgets no task: whatever is open has a coroutine that will end
\* it, unless its own request went away (server.py:121-128, 164-190).
OpenTasksAreOwned ==
    \A i \in Ids : up /\ state[i] \in Open =>
        \/ request[i] \in {"accepted", "announcing", "yielded", "handling", "abandoned"}
        \/ job[i] \in {"asleep", "handling"}

\* "idempotent push delivery ledger" (server.py:58): nobody posts an update that
\* is recorded as delivered, and no two coroutines post the same one.
DeliveredIsNotResent ==
    \A i \in Ids, w \in Sender : push[i][w].phase # "idle" =>
        /\ ~ledger[i][push[i][w].event].delivered
        /\ \A v \in Sender \ {w} : push[i][v].event # push[i][w].event

\* A task that ended in this process is not left unreported: its last update has
\* been delivered or tried push_attempts times (server.py:247-280), except the end
\* of a task whose cancellation was given up by the client that had asked for it.
EndIsReported ==
    \A i \in Ids :
        /\ hook[i] /\ state[i] \in Terminal
        /\ request[i] = "done" \/ job[i] = "done"
        /\ \A w \in Sender : push[i][w] = Idle
        => \/ ledger[i][state[i]].delivered
           \/ ledger[i][state[i]].attempts = PushAttempts
           \/ state[i] = "canceled" /\ i \in dropped

\* The receiver of a slow task's updates is told of no outcome but the one the
\* task keeps, and after it of nothing but "working", of a task canceled while its
\* request is still retrying to announce it (server.py:166-190, 221-225).
OutcomeIsNotReplaced ==
    [][\A i \in Ids : kind[i] = "slow" =>
           /\ last'[i] \in Terminal => last'[i] = state'[i]
           /\ last[i] \in Terminal =>
                  \/ last'[i] = last[i]
                  \/ last[i] = "canceled" /\ last'[i] = "working" /\ request[i] = "announcing"]_vars

\* What every task that is not streamed keeps of the promise of TaskLifecycle: it
\* ends once, and its end is final, over jobs, cancellation and restarts.
Lifecycle == INSTANCE TaskLifecycle WITH
    state <- [i \in Ids |-> IF kind[i] = "stream" THEN "absent" ELSE state[i]]
KeepsLifecycle == Lifecycle!Spec

\* A canceled task stays canceled (TERMINAL, server.py:32; test_adapter.py:70).
CanceledStays ==
    [][\A i \in Ids : state[i] = "canceled" => state'[i] = "canceled"]_vars

\* Every task ends, over restarts, unless its request went away.
TasksEnd ==
    \A i \in Ids : state[i] \in Open ~> state[i] \in Terminal \/ request[i] = "abandoned"

=============================================================================
