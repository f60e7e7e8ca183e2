------------------------- MODULE TaskLifecycleProofs -------------------------
(* Theorems about TaskLifecycle, for every number of tasks, runs, handlers *)
(* and crashes and every assignment of tasks to projects and kinds.        *)
EXTENDS TaskLifecycle, WellFoundedInduction, TLAPS

(* Task 1 exists, so an idle goroutine has a task to point at.              *)
LEMMA OneIsATask == 1 \in Tasks /\ Tasks # {}
BY TaskAssumption DEF Tasks

-----------------------------------------------------------------------------
(* What the operators the actions are built from do to the types.           *)

(* Going to another place keeps a goroutine typed.                         *)
LEMMA GotoType ==
  ASSUME TypeOK, NEW r \in Runs, NEW l \in Pcs, Goto(r, l)
  PROVE  pc' \in [Runs -> Pcs] /\ job' \in [Runs -> Tasks]
BY OneIsATask DEF TypeOK, Goto

(* Writing a status keeps the types.                                       *)
LEMMA SetStatusType ==
  ASSUME TypeOK, NEW t \in Tasks, NEW s \in Statuses, SetStatus(t, s)
  PROVE  status' \in [Tasks -> Statuses] /\ orphaned' \subseteq Tasks
BY DEF TypeOK, SetStatus

(* So does the conditional write.                                          *)
LEMMA SetIfRunningType ==
  ASSUME TypeOK, NEW t \in Tasks, NEW s \in Statuses, SetIfRunning(t, s)
  PROVE  status' \in [Tasks -> Statuses] /\ orphaned' \subseteq Tasks
BY SetStatusType DEF TypeOK, SetIfRunning

(* Starting an execution keeps the types.                                  *)
LEMMA GoType ==
  ASSUME TypeOK, NEW pcs \in [Runs -> Pcs], NEW t \in Tasks, NEW e \in Pcs, Go(pcs, t, e)
  PROVE  pc' \in [Runs -> Pcs] /\ job' \in [Runs -> Tasks]
BY OneIsATask DEF TypeOK, Go, Forget

(* The record a handler keeps while it is in flight.                        *)
OpRecord == [pc : OpPcs, task : Tasks, sess : Sessions, count : Nat, verdict : Verdicts]

(* An idle handler is typed.                                               *)
LEMMA NoOpType == NoOp \in OpRecord
BY OneIsATask DEF NoOp, OpRecord, OpPcs, Sessions, Verdicts

(* So is a handler that takes a request,                                   *)
LEMMA BeginType ==
  ASSUME TypeOK, NEW o \in Ops, NEW l \in OpPcs, NEW t \in Tasks, Begin(o, l, t)
  PROVE  op' \in [Ops -> OpRecord]
<1>1. op \in [Ops -> OpRecord] /\ session[t] \in Sessions
  BY DEF TypeOK, OpRecord
<1>2. [NoOp EXCEPT !.pc = l, !.task = t, !.sess = session[t]] \in OpRecord
  BY <1>1, NoOpType DEF OpRecord
<1> QED BY <1>1, <1>2 DEF Begin

(* one that goes on,                                                       *)
LEMMA OpGotoType ==
  ASSUME TypeOK, NEW o \in Ops, NEW l \in OpPcs, OpGoto(o, l)
  PROVE  op' \in [Ops -> OpRecord]
<1>1. op \in [Ops -> OpRecord] /\ op[o].task \in Tasks
  BY DEF TypeOK, OpRecord
<1>2. [NoOp EXCEPT !.pc = l, !.task = op[o].task] \in OpRecord
  BY <1>1, NoOpType DEF OpRecord
<1> QED BY <1>1, <1>2 DEF OpGoto

(* and one that answers.                                                   *)
LEMMA OpEndsType ==
  ASSUME TypeOK, NEW o \in Ops, OpEnds(o)
  PROVE  op' \in [Ops -> OpRecord]
BY NoOpType DEF TypeOK, OpRecord, OpEnds

(* An execution starts at a declared place.                                *)
LEMMA EntryType == ASSUME NEW t PROVE Entry(t) \in Pcs
BY DEF Entry, Pcs, ChatPcs, ReviewPcs

(* Waking the queue keeps the types.                                       *)
LEMMA WakeType ==
  ASSUME TypeOK, NEW pcs \in [Runs -> Pcs], NEW p, StartNextPending(p, pcs)
  PROVE  pc' \in [Runs -> Pcs] /\ job' \in [Runs -> Tasks]
<1>1. CASE pc' = pcs /\ job' = Forget(pcs, job)
  BY <1>1, OneIsATask DEF TypeOK, Forget
<1>2. CASE \E t \in EarliestPending(p) : Go(pcs, t, Entry(t))
  <2> PICK t \in EarliestPending(p) : Go(pcs, t, Entry(t))
    BY <1>2
  <2> QED BY GoType, EntryType DEF EarliestPending
<1> QED BY <1>1, <1>2 DEF StartNextPending

(* The words used for states and places are among those declared.          *)
LEMMA WordsTyped ==
  /\ {"idle", "wake", "unregister", "count", "claim", "session", "prompt", "chatDone",
      "chatFail", "load", "start", "diff", "register", "engine", "save", "stages",
      "passed", "broken", "fail", "post"} \subseteq Pcs
  /\ {"none", "pending", "running", "success", "failed", "stopped", "timeout"} \subseteq Statuses
BY DEF Pcs, ChatPcs, ReviewPcs, Statuses, Settled

(* An execution that ignores a failed statement goes where it would have   *)
(* gone, and stays an execution.                                           *)
LEMMA GoesOnPlaces ==
  ASSUME NEW a, NEW b, <<a, b>> \in GoesOnTo
  PROVE  /\ a \in {"count", "claim", "session", "chatDone", "chatFail", "start", "save",
                   "passed", "broken"}
         /\ b \in {"claim", "session", "prompt", "wake", "diff", "stages", "post", "fail"}
         /\ a = "count" => b = "claim"
         /\ a = "save" => b = "stages"
         /\ a = "broken" => b = "fail"
         /\ a = "session" => b = "prompt"
         /\ a = "claim" => b = "session"
         /\ a = "start" => b = "diff"
         /\ a = "passed" => b = "post"
         /\ a \in {"chatDone", "chatFail"} => b = "wake"
BY DEF GoesOnTo

(* What is forsaken is a task.                                             *)
LEMMA ForsakenType == ASSUME TypeOK, NEW t \in Tasks PROVE Forsaken(t) \subseteq Tasks
BY DEF TypeOK, Forsaken

-----------------------------------------------------------------------------
(* Type correctness.                                                        *)

(* Every step of a goroutine keeps the types.                              *)
LEMMA TypeRunStep ==
  ASSUME TypeOK, NEW r \in Runs, RunStep(r)
  PROVE  TypeOK'
<1> USE DEF rows, procs
<1>a. job[r] \in Tasks /\ AfterReview(r) \in Pcs
  BY WordsTyped DEF TypeOK, AfterReview
<1>1. CASE CountRunning(r)
  <2> PICK l \in {"idle", "claim"} : Goto(r, l)
    BY <1>1 DEF CountRunning
  <2> QED BY <1>1, GotoType, WordsTyped DEF TypeOK, CountRunning
<1>2. CASE Claim(r)
  BY <1>2, <1>a, GotoType, SetStatusType, WordsTyped DEF TypeOK, Claim
<1>3. CASE CreateSession(r)
  <2>1. CASE Goto(r, "chatFail") /\ UNCHANGED <<started, session>>
    BY <1>3, <2>1, GotoType, WordsTyped DEF TypeOK, CreateSession
  <2>2. CASE /\ Goto(r, "prompt")
             /\ started' = [started EXCEPT ![job[r]] = "recent"]
             /\ session' = [session EXCEPT ![job[r]] = r]
    BY <1>3, <2>2, <1>a, GotoType, WordsTyped DEF TypeOK, CreateSession, Sessions
  <2> QED BY <1>3, <2>1, <2>2 DEF CreateSession
<1>4. CASE PromptReturns(r)
  <2>1. pc' \in [Runs -> Pcs] /\ job' \in [Runs -> Tasks]
    BY <1>4, GotoType, WordsTyped DEF PromptReturns
  <2>2. session' \in [Tasks -> Sessions] /\ aborted' \subseteq Runs
    BY <1>4 DEF TypeOK, PromptReturns, Sessions
  <2>3. op' \in [Ops -> [pc : OpPcs, task : Tasks, sess : Sessions, count : Nat,
                         verdict : Verdicts]]
    BY <1>4 DEF TypeOK, PromptReturns, Sessions
  <2>4. held' \in [Runs -> [sess : Sessions, count : Nat]]
    BY <1>4 DEF TypeOK, PromptReturns, Sessions
  <2> QED BY <1>4, <2>1, <2>2, <2>3, <2>4 DEF TypeOK, PromptReturns
<1>5. CASE ChatWrite(r)
  <2>1. pc' \in [Runs -> Pcs] /\ job' \in [Runs -> Tasks]
    BY <1>5, GotoType, WordsTyped DEF ChatWrite
  <2>2. status' \in [Tasks -> Statuses] /\ orphaned' \subseteq Tasks
    BY <1>5, <1>a, SetIfRunningType, WordsTyped DEF ChatWrite
  <2>3. session' \in [Tasks -> Sessions]
    BY <1>5 DEF TypeOK, ChatWrite, Sessions
  <2> QED BY <1>5, <2>1, <2>2, <2>3 DEF TypeOK, ChatWrite
<1>6. CASE LoadReview(r)
  <2> PICK l \in {"start", "diff"} : Goto(r, l)
    BY <1>6 DEF LoadReview
  <2> QED BY <1>6, GotoType, WordsTyped DEF TypeOK, LoadReview
<1>7. CASE StartReview(r)
  BY <1>7, <1>a, GotoType, SetStatusType, WordsTyped DEF TypeOK, StartReview
<1>8. CASE FetchDiff(r)
  BY <1>8, GotoType, WordsTyped DEF TypeOK, FetchDiff
<1>9. CASE RegisterCancel(r)
  BY <1>9, GotoType, WordsTyped DEF TypeOK, RegisterCancel
<1>10. CASE LoadEngine(r)
  <2>1. pc' \in [Runs -> Pcs] /\ job' \in [Runs -> Tasks]
    BY <1>10, GotoType, WordsTyped DEF LoadEngine
  <2>2. [sess |-> session[job[r]], count |-> retries[job[r]]] \in [sess : Sessions, count : Nat]
    BY <1>a DEF TypeOK
  <2>3. held' \in [Runs -> [sess : Sessions, count : Nat]]
    BY <1>10, <2>2 DEF TypeOK, LoadEngine
  <2> QED BY <1>10, <2>1, <2>3 DEF TypeOK, LoadEngine
<1>11. CASE SaveRunning(r)
  <2>1. pc' \in [Runs -> Pcs] /\ job' \in [Runs -> Tasks]
    BY <1>11, GotoType, WordsTyped DEF SaveRunning
  <2>2. status' \in [Tasks -> Statuses] /\ orphaned' \subseteq Tasks
    BY <1>11, <1>a, SetStatusType, WordsTyped DEF SaveRunning
  <2>3. /\ session' \in [Tasks -> Sessions] /\ retries' \in [Tasks -> Nat]
        /\ started' \in [Tasks -> {"nil", "recent", "expired"}]
    BY <1>11, <1>a DEF TypeOK, SaveRunning
  <2>4. held' \in [Runs -> [sess : Sessions, count : Nat]]
    BY <1>11 DEF TypeOK, SaveRunning, Nothing, Sessions
  <2> QED BY <1>11, <2>1, <2>2, <2>3, <2>4 DEF TypeOK, SaveRunning
<1>12. CASE RunStages(r)
  BY <1>12, GotoType, WordsTyped DEF TypeOK, RunStages
<1>13. CASE EngineWrite(r)
  <2>1. pc' \in [Runs -> Pcs] /\ job' \in [Runs -> Tasks]
    BY <1>13, GotoType, WordsTyped DEF EngineWrite
  <2>2. status' \in [Tasks -> Statuses] /\ orphaned' \subseteq Tasks
    BY <1>13, <1>a, SetIfRunningType, WordsTyped DEF EngineWrite
  <2> QED BY <1>13, <2>1, <2>2 DEF TypeOK, EngineWrite
<1>14. CASE FailReview(r)
  <2>1. pc' \in [Runs -> Pcs] /\ job' \in [Runs -> Tasks]
    <3> PICK l \in {"wake", AfterReview(r)} : Goto(r, l)
      BY <1>14 DEF FailReview
    <3> QED BY <1>a, GotoType, WordsTyped
  <2>2. status' \in [Tasks -> Statuses] /\ orphaned' \subseteq Tasks
    BY <1>14, <1>a, SetIfRunningType, WordsTyped DEF FailReview
  <2> QED BY <1>14, <2>1, <2>2 DEF TypeOK, FailReview
<1>15. CASE PostProcess(r)
  BY <1>15, GotoType, WordsTyped DEF TypeOK, PostProcess
<1>16. CASE WakeNext(r)
  <2>1. [pc EXCEPT ![r] = AfterReview(r)] \in [Runs -> Pcs]
    BY <1>a DEF TypeOK
  <2>2. pc' \in [Runs -> Pcs] /\ job' \in [Runs -> Tasks]
    BY <1>16, <2>1, WakeType DEF WakeNext
  <2> QED BY <1>16, <2>2 DEF TypeOK, WakeNext
<1>17. CASE Unregister(r)
  BY <1>17, GotoType, WordsTyped DEF TypeOK, Unregister
<1>18. CASE GivesUp(r)
  <2>1. pc' \in [Runs -> Pcs] /\ job' \in [Runs -> Tasks]
    BY <1>18, <1>a, GotoType DEF GivesUp
  <2>2. orphaned' \subseteq Tasks
    BY <1>18, <1>a, ForsakenType DEF TypeOK, GivesUp
  <2> QED BY <1>18, <2>1, <2>2 DEF TypeOK, GivesUp
<1>19. CASE Ignores(r)
  <2>1. pc' \in [Runs -> Pcs] /\ job' \in [Runs -> Tasks]
    BY <1>19, GotoType DEF Ignores
  <2>2. orphaned' \subseteq Tasks
    BY <1>19, <1>a, ForsakenType DEF TypeOK, Ignores
  <2>3. held' \in [Runs -> [sess : Sessions, count : Nat]]
    BY <1>19 DEF TypeOK, Ignores, Nothing, Sessions
  <2> QED BY <1>19, <2>1, <2>2, <2>3 DEF TypeOK, Ignores
<1> QED BY <1>1, <1>2, <1>3, <1>4, <1>5, <1>6, <1>7, <1>8, <1>9, <1>10, <1>11, <1>12,
           <1>13, <1>14, <1>15, <1>16, <1>17, <1>18, <1>19 DEF RunStep

(* A step of a handler keeps the types.                                    *)
LEMMA TypeOpStep ==
  ASSUME TypeOK, NEW o \in Ops, OpStep(o)
  PROVE  TypeOK'
<1> USE DEF rows, procs
<1>a. op \in [Ops -> OpRecord] /\ op[o] \in OpRecord
  BY DEF TypeOK, OpRecord
<1>b. /\ op[o].task \in Tasks /\ op[o].sess \in Sessions /\ op[o].count \in Nat
      /\ op[o].verdict \in Verdicts
  BY <1>a DEF OpRecord
<1>c. {"stopNotify", "stopWrite", "sweepWrite", "deleteClear", "opWake", "retrySpawn"} \subseteq OpPcs
  BY DEF OpPcs
<1>1. CASE AbortSession(o)
  <2>1. op' \in [Ops -> OpRecord]
    BY <1>1, <1>c, OpGotoType DEF AbortSession
  <2> QED BY <1>1, <2>1 DEF TypeOK, OpRecord, AbortSession
<1>2. CASE NotifyCancel(o)
  <2>1. op' \in [Ops -> OpRecord]
    BY <1>2, <1>c, OpGotoType DEF NotifyCancel
  <2>2. /\ registry' \in [Tasks -> Runs \cup {None}]
        /\ channel' \in [Runs -> {"none", "open", "closed"}]
    BY <1>2, <1>b DEF TypeOK, NotifyCancel
  <2> QED BY <1>2, <2>1, <2>2 DEF TypeOK, OpRecord, NotifyCancel
<1>3. CASE StopWrite(o)
  <2>1. op' \in [Ops -> OpRecord]
    BY <1>3, <1>c, OpGotoType DEF StopWrite
  <2> QED BY <1>3, <1>b, <2>1, SetIfRunningType, WordsTyped DEF TypeOK, OpRecord, StopWrite
<1>4. CASE SweepWrite(o)
  <2>1. op' \in [Ops -> OpRecord]
    BY <1>4, <1>c, OpGotoType DEF SweepWrite
  <2> QED BY <1>4, <1>b, <2>1, SetIfRunningType, WordsTyped DEF TypeOK, OpRecord, SweepWrite
<1>5. CASE OpWake(o)
  <2>1. op' \in [Ops -> OpRecord]
    BY <1>5, OpEndsType DEF OpWake
  <2>2. pc' \in [Runs -> Pcs] /\ job' \in [Runs -> Tasks]
    BY <1>5, WakeType DEF TypeOK, OpWake
  <2> QED BY <1>5, <2>1, <2>2 DEF TypeOK, OpRecord, OpWake
<1>6. CASE RetrySave(o)
  <2>1. op' \in [Ops -> OpRecord]
    BY <1>6, <1>c, OpGotoType DEF RetrySave
  <2>2. status' \in [Tasks -> Statuses] /\ orphaned' \subseteq Tasks
    BY <1>6, <1>b, SetStatusType, WordsTyped DEF RetrySave
  <2>3. /\ session' \in [Tasks -> Sessions] /\ retries' \in [Tasks -> Nat]
        /\ started' \in [Tasks -> {"nil", "recent", "expired"}]
    BY <1>6, <1>b DEF TypeOK, RetrySave
  <2> QED BY <1>6, <2>1, <2>2, <2>3 DEF TypeOK, OpRecord, RetrySave
<1>7. CASE RetrySpawn(o)
  <2>1. op' \in [Ops -> OpRecord]
    BY <1>7, OpEndsType DEF RetrySpawn
  <2>2. pc' \in [Runs -> Pcs] /\ job' \in [Runs -> Tasks]
    BY <1>7, <1>b, GoType, EntryType DEF TypeOK, RetrySpawn
  <2> QED BY <1>7, <2>1, <2>2 DEF TypeOK, OpRecord, RetrySpawn
<1>8. CASE CallbackWrite(o)
  <2>1. op' \in [Ops -> OpRecord]
    BY <1>8, OpEndsType DEF CallbackWrite
  <2> QED BY <1>8, <1>b, <2>1, SetIfRunningType, WordsTyped DEF TypeOK, OpRecord, CallbackWrite, Verdicts
<1>9. CASE DeleteClear(o)
  <2>1. op' \in [Ops -> OpRecord]
    BY <1>9, OpEndsType DEF DeleteClear
  <2> QED BY <1>9, <2>1 DEF TypeOK, OpRecord, DeleteClear, Sessions
<1>10. CASE OpFails(o)
  <2>1. op' \in [Ops -> OpRecord]
    BY <1>10, <1>c, OpGotoType, OpEndsType DEF OpFails
  <2> QED BY <1>10, <2>1 DEF TypeOK, OpRecord, OpFails
<1> QED BY <1>1, <1>2, <1>3, <1>4, <1>5, <1>6, <1>7, <1>8, <1>9, <1>10 DEF OpStep

(* A new request keeps the types.                                          *)
LEMMA TypeRequest ==
  ASSUME TypeOK, NEW o \in Ops, NEW t \in Tasks,
         \/ StopLoad(o, t) \/ SweepSee(o, t) \/ RetryLoad(o, t)
         \/ CallbackLoad(o, t) \/ DeleteLoad(o, t)
  PROVE  TypeOK'
<1> USE DEF rows, procs
<1>a. op \in [Ops -> OpRecord]
  BY DEF TypeOK, OpRecord
<1>b. {"stopNotify", "stopAbort", "sweepWrite", "sweepAbort", "retrySave", "callbackWrite",
       "deleteCall"} \subseteq OpPcs
  BY DEF OpPcs
<1>1. CASE StopLoad(o, t)
  <2>1. op' \in [Ops -> OpRecord]
    BY <1>1, <1>b, BeginType DEF StopLoad
  <2> QED BY <1>1, <2>1 DEF TypeOK, OpRecord, StopLoad
<1>2. CASE SweepSee(o, t)
  <2>1. op' \in [Ops -> OpRecord]
    BY <1>2, <1>b, BeginType DEF SweepSee
  <2> QED BY <1>2, <2>1 DEF TypeOK, OpRecord, SweepSee
<1>3. CASE RetryLoad(o, t)
  <2>1. [NoOp EXCEPT !.pc = "retrySave", !.task = t, !.sess = session[t],
                     !.count = retries[t]] \in OpRecord
    BY <1>b, NoOpType DEF TypeOK, OpRecord
  <2>2. op' \in [Ops -> OpRecord]
    BY <1>3, <1>a, <2>1 DEF RetryLoad
  <2> QED BY <1>3, <2>2 DEF TypeOK, OpRecord, RetryLoad
<1>4. CASE CallbackLoad(o, t)
  <2>1. PICK v \in Verdicts :
           op' = [op EXCEPT ![o] = [NoOp EXCEPT !.pc = "callbackWrite", !.task = t, !.verdict = v]]
    BY <1>4 DEF CallbackLoad
  <2>2. [NoOp EXCEPT !.pc = "callbackWrite", !.task = t, !.verdict = v] \in OpRecord
    BY <1>b, NoOpType, WordsTyped DEF OpRecord
  <2>3. op' \in [Ops -> OpRecord]
    BY <1>a, <2>1, <2>2
  <2> QED BY <1>4, <2>3 DEF TypeOK, OpRecord, CallbackLoad
<1>5. CASE DeleteLoad(o, t)
  <2>1. op' \in [Ops -> OpRecord]
    BY <1>5, <1>b, BeginType DEF DeleteLoad
  <2> QED BY <1>5, <2>1 DEF TypeOK, OpRecord, DeleteLoad
<1> QED BY <1>1, <1>2, <1>3, <1>4, <1>5

(* Every step keeps the types.                                             *)
LEMMA TypeNext == TypeOK /\ [Next]_vars => TypeOK'
<1> SUFFICES ASSUME TypeOK, [Next]_vars PROVE TypeOK'
  OBVIOUS
<1>1. ASSUME NEW t \in Tasks, Create(t) PROVE TypeOK'
  <2>1. pc' \in [Runs -> Pcs] /\ job' \in [Runs -> Tasks]
    BY <1>1, GoType, EntryType, WordsTyped DEF TypeOK, Create
  <2> QED BY <1>1, <2>1, SetStatusType, WordsTyped DEF TypeOK, Create
<1>2. ASSUME NEW t \in Tasks, ExecuteRequest(t) PROVE TypeOK'
  <2>1. pc' \in [Runs -> Pcs] /\ job' \in [Runs -> Tasks]
    BY <1>2, GoType, WordsTyped DEF TypeOK, ExecuteRequest
  <2> QED BY <1>2, <2>1 DEF TypeOK, ExecuteRequest, rows
<1>3. ASSUME NEW t \in Tasks, Expire(t) PROVE TypeOK'
  BY <1>3 DEF TypeOK, Expire, procs
<1>4. CASE Crash
  <2>1. op' \in [Ops -> OpRecord]
    BY <1>4, NoOpType DEF Crash
  <2>2. held' \in [Runs -> [sess : Sessions, count : Nat]]
    BY <1>4 DEF Crash, Nothing, Sessions
  <2>3. pc' \in [Runs -> Pcs] /\ job' \in [Runs -> Tasks]
    BY <1>4, OneIsATask, WordsTyped DEF Crash
  <2> QED BY <1>4, <2>1, <2>2, <2>3 DEF TypeOK, OpRecord, Crash, Sessions
<1>5. CASE UNCHANGED vars
  BY <1>5 DEF TypeOK, vars
<1> QED BY <1>1, <1>2, <1>3, <1>4, <1>5, TypeRunStep, TypeOpStep, TypeRequest DEF Next, Request

(* The initial states are typed.                                           *)
LEMMA TypeInit == Init => TypeOK
<1> SUFFICES ASSUME Init PROVE TypeOK
  OBVIOUS
<1>1. op \in [Ops -> OpRecord]
  BY NoOpType DEF Init
<1> QED BY <1>1, OneIsATask, WordsTyped DEF Init, TypeOK, OpRecord, Nothing, Sessions

(* Every reachable state is well typed: no status outside the six of the   *)
(* column, no handler or goroutine pointing at a task that does not exist. *)
THEOREM TypeCorrect == Spec => []TypeOK
BY TypeInit, TypeNext, PTL DEF Spec

-----------------------------------------------------------------------------
(* No running task is orphaned.                                             *)

(* What a step of one goroutine, or the start of another, leaves alone.     *)
LEMMA GotoFrame ==
  ASSUME TypeOK, NEW r \in Runs, NEW l, Goto(r, l)
  PROVE  /\ pc'[r] = l /\ (l # "idle" => job'[r] = job[r])
         /\ \A q \in Runs : q # r => pc'[q] = pc[q] /\ job'[q] = job[q]
BY DEF TypeOK, Goto

(* Starting an execution takes an idle one and moves no other.             *)
LEMMA GoFrame ==
  ASSUME TypeOK, NEW pcs \in [Runs -> Pcs], NEW t, NEW e, Go(pcs, t, e)
  PROVE  \A q \in Runs :
           /\ pcs[q] # "idle" => pc'[q] = pcs[q] /\ job'[q] = job[q]
           /\ pcs[q] = "idle" => pc'[q] = "idle" \/ (pc'[q] = e /\ job'[q] = t)
<1> PICK n \in Runs : /\ pcs[n] = "idle" /\ pc' = [pcs EXCEPT ![n] = e]
                      /\ job' = [Forget(pcs, job) EXCEPT ![n] = t]
  BY DEF Go
<1>1. \A q \in Runs : q # n => pc'[q] = pcs[q]
  OBVIOUS
<1>2. \A q \in Runs : q # n => job'[q] = Forget(pcs, job)[q]
  BY DEF Forget
<1>3. pc'[n] = e /\ job'[n] = t
  BY DEF Forget
<1>4. \A q \in Runs : pcs[q] # "idle" => Forget(pcs, job)[q] = job[q]
  BY DEF Forget
<1>5. \A q \in Runs : pcs[q] = "idle" => pc'[q] = "idle" \/ (pc'[q] = e /\ job'[q] = t)
  BY <1>1, <1>3
<1>6. \A q \in Runs : pcs[q] # "idle" => pc'[q] = pcs[q] /\ job'[q] = job[q]
  <2> TAKE q \in Runs
  <2> HAVE pcs[q] # "idle"
  <2>1. q # n
    OBVIOUS
  <2>2. pc'[q] = pcs[q] /\ job'[q] = Forget(pcs, job)[q]
    BY <1>1, <1>2, <2>1
  <2> QED BY <1>4, <2>2
<1> QED BY <1>5, <1>6

(* Waking the queue only adds executions.                                  *)
LEMMA WakeFrame ==
  ASSUME TypeOK, NEW pcs \in [Runs -> Pcs], NEW p, StartNextPending(p, pcs)
  PROVE  \A q \in Runs :
           /\ pcs[q] # "idle" => pc'[q] = pcs[q] /\ job'[q] = job[q]
           /\ pcs[q] = "idle" => \/ pc'[q] = "idle"
                                 \/ pc'[q] \in {"load", "count"} /\ status[job'[q]] = "pending"
<1>1. CASE pc' = pcs /\ job' = Forget(pcs, job)
  <2>1. \A q \in Runs : pcs[q] # "idle" => Forget(pcs, job)[q] = job[q]
    BY DEF Forget
  <2> QED BY <1>1, <2>1
<1>2. CASE \E t \in EarliestPending(p) : Go(pcs, t, Entry(t))
  <2> PICK t \in EarliestPending(p) : Go(pcs, t, Entry(t))
    BY <1>2
  <2>1. status[t] = "pending" /\ Entry(t) \in {"load", "count"}
    BY DEF EarliestPending, Entry
  <2> HIDE DEF EarliestPending
  <2>2. \A q \in Runs :
          /\ pcs[q] # "idle" => pc'[q] = pcs[q] /\ job'[q] = job[q]
          /\ pcs[q] = "idle" => pc'[q] = "idle" \/ (pc'[q] = Entry(t) /\ job'[q] = t)
    BY GoFrame
  <2> QED BY <2>1, <2>2
<1> QED BY <1>1, <1>2 DEF StartNextPending

(* A run that owns its task still does after the step.                      *)
StillOwns(q) == pc[q] \in Owning => pc'[q] \in Owning /\ job'[q] = job[q]

(* While owners go on owning, no running task is left without one.         *)
LEMMA OwnersStay ==
  ASSUME TypeOK, NoOrphanRunning,
         \A q \in Runs : StillOwns(q),
         \A t \in Tasks : status'[t] = "running" =>
            \/ \E q \in Runs : job'[q] = t /\ pc'[q] \in Owning
            \/ status[t] = "running" /\ (t \in orphaned => t \in orphaned')
  PROVE  NoOrphanRunning'
BY DEF NoOrphanRunning, Owned, StillOwns

(* A run that leaves its task has seen to it that it does not stay running. *)
LEMMA OwnerLeaves ==
  ASSUME TypeOK, NoOrphanRunning, NEW r \in Runs, NEW l \in Pcs, Goto(r, l),
         status'[job[r]] # "running",
         \A t \in Tasks : t # job[r] /\ status'[t] = "running"
                          => status[t] = "running" /\ (t \in orphaned => t \in orphaned')
  PROVE  NoOrphanRunning'
BY GotoFrame DEF NoOrphanRunning, Owned

(* A run that leaves its task running has it recorded.                     *)
LEMMA OwnerForsakes ==
  ASSUME TypeOK, NoOrphanRunning, NEW r \in Runs, NEW l \in Pcs, Goto(r, l),
         UNCHANGED status, orphaned' = Forsaken(job[r])
  PROVE  NoOrphanRunning'
BY GotoFrame DEF TypeOK, NoOrphanRunning, Owned, Forsaken

(* The conditional write leaves the task settled and the others alone.     *)
LEMMA SetIfRunningEffect ==
  ASSUME TypeOK, NEW t \in Tasks, NEW s, SetIfRunning(t, s), s # "running"
  PROVE  /\ status'[t] # "running"
         /\ \A u \in Tasks : u # t => status'[u] = status[u] /\ (u \in orphaned => u \in orphaned')
         /\ status[t] # "running" => status' = status /\ orphaned' = orphaned
BY DEF TypeOK, SetIfRunning, SetStatus

(* A step of an execution leaves no running task without an owner.         *)
LEMMA OrphanRunStep ==
  ASSUME TypeOK, NoOrphanRunning, NEW r \in Runs, RunStep(r)
  PROVE  NoOrphanRunning'
<1> USE DEF rows
<1>a. job[r] \in Tasks
  BY DEF TypeOK
<1>1. CASE UNCHANGED <<status, orphaned>> /\ \E l \in Pcs : Goto(r, l) /\ (pc[r] \in Owning => l \in Owning)
  <2> PICK l \in Pcs : Goto(r, l) /\ (pc[r] \in Owning => l \in Owning)
    BY <1>1
  <2>1. \A q \in Runs : StillOwns(q)
    BY GotoFrame DEF StillOwns, Owning
  <2> QED BY <1>1, <2>1, OwnersStay
<1>2. CASE SetStatus(job[r], "running") /\ \E l \in Owning : Goto(r, l)
  <2> PICK l \in Owning : Goto(r, l)
    BY <1>2
  <2>1. \A q \in Runs : StillOwns(q)
    BY GotoFrame DEF StillOwns, Owning
  <2>2. job'[r] = job[r] /\ pc'[r] \in Owning
    BY GotoFrame DEF Owning
  <2>3. \A t \in Tasks : t # job[r] => status'[t] = status[t] /\ (t \in orphaned => t \in orphaned')
    BY <1>2, <1>a DEF TypeOK, SetStatus
  <2> QED BY <2>1, <2>2, <2>3, OwnersStay
<1>3. CASE (\E s \in {"success", "failed"} : SetIfRunning(job[r], s)) /\ \E l \in Pcs : Goto(r, l)
  <2> PICK s \in {"success", "failed"} : SetIfRunning(job[r], s)
    BY <1>3
  <2> QED BY <1>3, <1>a, SetIfRunningEffect, OwnerLeaves
<1>4. CASE WakeNext(r)
  <2> DEFINE pcs == [pc EXCEPT ![r] = AfterReview(r)]
  <2>1. pcs \in [Runs -> Pcs]
    BY WordsTyped DEF TypeOK, AfterReview
  <2>2. \A q \in Runs : pcs[q] # "idle" => pc'[q] = pcs[q] /\ job'[q] = job[q]
    BY <1>4, <2>1, WakeFrame DEF WakeNext
  <2>3. \A q \in Runs : StillOwns(q)
    BY <1>4, <2>2 DEF TypeOK, WakeNext, StillOwns, Owning
  <2> QED BY <1>4, <2>3, OwnersStay DEF WakeNext
<1>5. CASE PromptReturns(r)
  BY <1>5, <1>1, WordsTyped DEF PromptReturns, Owning
<1>6. CASE \/ CountRunning(r) \/ CreateSession(r) \/ LoadReview(r) \/ FetchDiff(r) \/ RegisterCancel(r)
           \/ RunStages(r) \/ PostProcess(r) \/ Unregister(r)
  <2>1. CASE CountRunning(r)
    BY <2>1, <1>1, WordsTyped DEF CountRunning, Owning
  <2>2. CASE CreateSession(r)
    BY <2>2, <1>1, WordsTyped DEF CreateSession, Owning
  <2>3. CASE LoadReview(r)
    BY <2>3, <1>1, WordsTyped DEF LoadReview, Owning
  <2>4. CASE FetchDiff(r)
    BY <2>4, <1>1, WordsTyped DEF FetchDiff, Owning
  <2>5. CASE RegisterCancel(r)
    BY <2>5, <1>1, WordsTyped DEF RegisterCancel, Owning
  <2>6. CASE RunStages(r)
    BY <2>6, <1>1, WordsTyped DEF RunStages, Owning
  <2>7. CASE PostProcess(r)
    BY <2>7, <1>1, WordsTyped DEF PostProcess, Owning
  <2>8. CASE Unregister(r)
    BY <2>8, <1>1, WordsTyped DEF Unregister, Owning
  <2> QED BY <1>6, <2>1, <2>2, <2>3, <2>4, <2>5, <2>6, <2>7, <2>8
<1>7. CASE LoadEngine(r)
  BY <1>7, <1>1, WordsTyped DEF LoadEngine, Owning
<1>8. CASE Claim(r) \/ StartReview(r) \/ SaveRunning(r)
  BY <1>8, <1>2 DEF Claim, StartReview, SaveRunning, Owning
<1>9. CASE ChatWrite(r)
  BY <1>9, <1>3, WordsTyped DEF ChatWrite
<1>10. CASE EngineWrite(r)
  BY <1>10, <1>3, WordsTyped DEF EngineWrite
<1>11. CASE FailReview(r)
  <2>1. AfterReview(r) \in Pcs
    BY WordsTyped DEF AfterReview
  <2> QED BY <1>11, <2>1, <1>3, WordsTyped DEF FailReview
<1>12. CASE GivesUp(r)
  <2>1. AfterReview(r) \in Pcs
    BY WordsTyped DEF AfterReview
  <2>2. CASE pc[r] = "fail"
    BY <1>12, <2>1, <2>2, OwnerForsakes DEF GivesUp
  <2>3. CASE pc[r] # "fail"
    BY <1>12, <2>1, <2>3, <1>1 DEF GivesUp, Owning
  <2> QED BY <2>2, <2>3
<1>13. CASE Ignores(r)
  <2> PICK l \in Pcs : <<pc[r], l>> \in GoesOnTo /\ Goto(r, l)
    BY <1>13 DEF Ignores
  <2>1. CASE pc[r] \in {"chatDone", "chatFail", "passed"}
    BY <1>13, <2>1, OwnerForsakes DEF Ignores
  <2>2. CASE pc[r] \notin {"chatDone", "chatFail", "passed"}
    <3>1. pc[r] \in Owning => l \in Owning
      BY <2>2, GoesOnPlaces DEF Owning
    <3> QED BY <1>13, <2>2, <3>1, <1>1 DEF Ignores
  <2> QED BY <2>1, <2>2
<1> QED BY <1>4, <1>5, <1>6, <1>7, <1>8, <1>9, <1>10, <1>11, <1>12, <1>13 DEF RunStep

(* A step that moves no goroutine.                                          *)
LEMMA NobodyMoves ==
  ASSUME TypeOK, NoOrphanRunning, UNCHANGED <<pc, job>>,
         \A t \in Tasks : status'[t] = "running"
                          => status[t] = "running" /\ (t \in orphaned => t \in orphaned')
  PROVE  NoOrphanRunning'
BY DEF NoOrphanRunning, Owned

(* A step that only starts goroutines in free slots.                        *)
LEMMA OthersStart ==
  ASSUME TypeOK, NoOrphanRunning,
         \A q \in Runs : pc[q] # "idle" => pc'[q] = pc[q] /\ job'[q] = job[q],
         \A t \in Tasks : status'[t] = "running"
                          => status[t] = "running" /\ (t \in orphaned => t \in orphaned')
  PROVE  NoOrphanRunning'
<1>1. \A q \in Runs : StillOwns(q)
  BY DEF StillOwns, Owning
<1> QED BY <1>1, OwnersStay

(* Nor does a step of a handler.                                           *)
LEMMA OrphanOpStep ==
  ASSUME TypeOK, NoOrphanRunning, NEW o \in Ops, OpStep(o)
  PROVE  NoOrphanRunning'
<1> USE DEF rows, procs
<1>a. op[o].task \in Tasks /\ op[o].verdict \in Verdicts
  BY DEF TypeOK
<1>1. CASE AbortSession(o) \/ NotifyCancel(o) \/ DeleteClear(o)
  BY <1>1, NobodyMoves DEF AbortSession, NotifyCancel, DeleteClear
<1>2. CASE StopWrite(o) \/ SweepWrite(o)
  <2> PICK s \in {"stopped", "timeout"} : SetIfRunning(op[o].task, s)
    BY <1>2 DEF StopWrite, SweepWrite
  <2>1. UNCHANGED <<pc, job>>
    BY <1>2 DEF StopWrite, SweepWrite
  <2> QED BY <1>a, <2>1, SetIfRunningEffect, NobodyMoves
<1>3. CASE CallbackWrite(o)
  <2>1. UNCHANGED <<pc, job>>
    BY <1>3 DEF CallbackWrite
  <2>2. CASE op[o].verdict = "running"
    BY <1>3, <2>1, <2>2, NobodyMoves DEF CallbackWrite, SetIfRunning
  <2>3. CASE op[o].verdict # "running"
    BY <1>3, <1>a, <2>1, <2>3, SetIfRunningEffect, NobodyMoves DEF CallbackWrite
  <2> QED BY <2>2, <2>3
<1>4. CASE OpWake(o)
  <2>1. pc \in [Runs -> Pcs]
    BY DEF TypeOK
  <2> QED BY <1>4, <2>1, WakeFrame, OthersStart DEF OpWake
<1>5. CASE RetrySave(o)
  <2>1. \A t \in Tasks : status'[t] = "running"
                         => status[t] = "running" /\ (t \in orphaned => t \in orphaned')
    BY <1>5, <1>a DEF TypeOK, RetrySave, SetStatus
  <2> QED BY <1>5, <2>1, NobodyMoves DEF RetrySave
<1>6. CASE RetrySpawn(o)
  <2>1. pc \in [Runs -> Pcs]
    BY DEF TypeOK
  <2> QED BY <1>6, <2>1, GoFrame, OthersStart DEF RetrySpawn
<1>7. CASE OpFails(o)
  BY <1>7, NobodyMoves DEF OpFails
<1> QED BY <1>1, <1>2, <1>3, <1>4, <1>5, <1>6, <1>7 DEF OpStep

(* No step leaves a running task without an owner.                         *)
LEMMA OrphanNext == TypeOK /\ NoOrphanRunning /\ [Next]_vars => NoOrphanRunning'
<1> SUFFICES ASSUME TypeOK, NoOrphanRunning, [Next]_vars PROVE NoOrphanRunning'
  OBVIOUS
<1>0. pc \in [Runs -> Pcs]
  BY DEF TypeOK
<1>1. ASSUME NEW t \in Tasks, Create(t) PROVE NoOrphanRunning'
  <2>1. \A q \in Runs : pc[q] # "idle" => pc'[q] = pc[q] /\ job'[q] = job[q]
    BY <1>1, <1>0, GoFrame DEF Create
  <2>2. \A u \in Tasks : status'[u] = "running"
                         => status[u] = "running" /\ (u \in orphaned => u \in orphaned')
    BY <1>1 DEF TypeOK, Create, SetStatus
  <2> QED BY <2>1, <2>2, OthersStart
<1>2. ASSUME NEW t \in Tasks, ExecuteRequest(t) PROVE NoOrphanRunning'
  BY <1>2, <1>0, GoFrame, OthersStart DEF ExecuteRequest, rows
<1>3. ASSUME NEW o \in Ops, NEW t \in Tasks,
             \/ StopLoad(o, t) \/ SweepSee(o, t) \/ RetryLoad(o, t)
             \/ CallbackLoad(o, t) \/ DeleteLoad(o, t)
      PROVE  NoOrphanRunning'
  BY <1>3, NobodyMoves DEF StopLoad, SweepSee, RetryLoad, CallbackLoad, DeleteLoad, rows, procs
<1>4. ASSUME NEW t \in Tasks, Expire(t) PROVE NoOrphanRunning'
  BY <1>4, NobodyMoves DEF Expire, procs
<1>5. CASE Crash
  BY <1>5 DEF Crash, NoOrphanRunning
<1>6. CASE UNCHANGED vars
  BY <1>6, NobodyMoves DEF vars
<1> QED BY <1>1, <1>2, <1>3, <1>4, <1>5, <1>6, OrphanRunStep, OrphanOpStep DEF Next, Request

(* However executions, stops, sweeps, callbacks and retries interleave and  *)
(* whichever statements fail, a task that is running has an execution that  *)
(* will still write its outcome, or was running when the process died or    *)
(* when an execution could not write how it ended.                          *)
THEOREM RunningIsOwned == Spec => []NoOrphanRunning
<1>1. Init => NoOrphanRunning
  BY DEF Init, NoOrphanRunning
<1> QED BY <1>1, OrphanNext, TypeCorrect, PTL DEF Spec

-----------------------------------------------------------------------------
(* Wake-ups of the queue.                                                   *)

(* The two ways of being watched.                                           *)
RunWatches(q, t) == pc[q] \notin {"idle", "unregister"} /\ ProjectOf[job[q]] = ProjectOf[t]
OpWatches(o, t)  == op[o].pc \in Waking /\ ProjectOf[op[o].task] = ProjectOf[t]

(* While every watcher stays, a task stays watched.                        *)
LEMMA WatchersStay ==
  ASSUME NEW t, Watched(t),
         \A q \in Runs : RunWatches(q, t) => RunWatches(q, t)',
         \A o \in Ops : OpWatches(o, t) => OpWatches(o, t)'
  PROVE  Watched(t)'
BY DEF Watched, RunWatches, OpWatches

(* One watcher is enough.                                                  *)
LEMMA RunIsWatcher ==
  ASSUME NEW t, NEW q \in Runs, RunWatches(q, t)'
  PROVE  Watched(t)'
BY DEF Watched, RunWatches

(* A queue that is not empty has a first task.                             *)
LEMMA FirstInQueue ==
  ASSUME NEW t \in Tasks, status[t] = "pending"
  PROVE  EarliestPending(ProjectOf[t]) # {}
<1> DEFINE Queue == {u \in Tasks : ProjectOf[u] = ProjectOf[t] /\ status[u] = "pending"}
           R == {ss \in Nat \X Nat : ss[1] < ss[2]}
<1>1. IsWellFoundedOn(R, Nat)
  BY NatLessThanWellFounded DEF OpToRel
<1>2. t \in Queue /\ Queue \subseteq Nat
  BY TaskAssumption DEF Tasks
<1> HIDE DEF R
<1>3. PICK u \in Queue : \A v \in Queue : ~ (<<v, u>> \in R)
  BY <1>1, <1>2, WFMin
<1>4. ASSUME NEW v \in Queue PROVE u <= v
  <2>1. u \in Nat /\ v \in Nat
    BY <1>2
  <2>2. v < u => <<v, u>> \in R
    BY <2>1 DEF R
  <2> QED BY <1>3, <2>1, <2>2
<1>5. u \in EarliestPending(ProjectOf[t])
  BY <1>4 DEF EarliestPending
<1> QED BY <1>5

(* Who wakes the queue of a waiting task leaves a watcher behind.          *)
LEMMA WakeFinds ==
  ASSUME TypeOK, NEW pcs \in [Runs -> Pcs], NEW t \in Tasks, status[t] = "pending",
         StartNextPending(ProjectOf[t], pcs)
  PROVE  Watched(t)'
<1>1. PICK u \in EarliestPending(ProjectOf[t]) : Go(pcs, u, Entry(u))
  BY FirstInQueue DEF StartNextPending
<1>2. ProjectOf[u] = ProjectOf[t] /\ Entry(u) \in {"load", "count"}
  BY DEF EarliestPending, Entry
<1>3. PICK n \in Runs : pc'[n] = Entry(u) /\ job'[n] = u
  BY <1>1 DEF Go, Forget
<1> QED BY <1>2, <1>3, RunIsWatcher DEF RunWatches

(* A run that goes on watches as before.                                   *)
LEMMA GoesOn ==
  ASSUME TypeOK, NEW r \in Runs, NEW l, Goto(r, l), l \notin {"idle", "unregister"}, NEW t
  PROVE  \A q \in Runs : RunWatches(q, t) => RunWatches(q, t)'
BY GotoFrame DEF RunWatches

(* Only the creation of a task, a retry and the callback fill the queue.   *)
LEMMA RunsDoNotQueue ==
  ASSUME TypeOK, NEW r \in Runs, RunStep(r), NEW t \in Tasks, status'[t] = "pending"
  PROVE  status[t] = "pending"
<1>a. job[r] \in Tasks
  BY DEF TypeOK
<1>1. CASE UNCHANGED status
  BY <1>1
<1>2. CASE Claim(r) \/ StartReview(r) \/ SaveRunning(r)
  BY <1>2, <1>a DEF TypeOK, Claim, StartReview, SaveRunning, SetStatus
<1>3. CASE ChatWrite(r) \/ EngineWrite(r) \/ FailReview(r)
  BY <1>3, <1>a DEF TypeOK, ChatWrite, EngineWrite, FailReview, SetIfRunning, SetStatus
<1> QED BY <1>1, <1>2, <1>3 DEF RunStep, CountRunning, CreateSession, PromptReturns,
           LoadReview, FetchDiff, RegisterCancel, LoadEngine, RunStages, PostProcess,
           WakeNext, Unregister, GivesUp, Ignores, rows

(* A step of an execution leaves a waiting task watched, unless it is one  *)
(* of those that lose a wake-up.                                           *)
LEMMA WatchedRunStep ==
  ASSUME TypeOK, NoOrphanRunning, NEW r \in Runs, RunStep(r), NEW t \in Tasks,
         status[t] = "pending" => Watched(t), status'[t] = "pending", ~Loses(t)
  PROVE  Watched(t)'
<1>1. status[t] = "pending" /\ Watched(t)
  BY RunsDoNotQueue
<1>a. job[r] \in Tasks /\ pc \in [Runs -> Pcs]
  BY DEF TypeOK
<1>2. ASSUME op' = op,
             \A q \in Runs : q # r => (RunWatches(q, t) => RunWatches(q, t)'),
             ~RunWatches(r, t)
      PROVE  Watched(t)'
  BY <1>1, <1>2, WatchersStay DEF OpWatches
<1>3. ASSUME NEW l \in Pcs \ {"idle", "unregister"}, Goto(r, l),
             \A o \in Ops : op'[o].pc = op[o].pc /\ op'[o].task = op[o].task
      PROVE  Watched(t)'
  BY <1>1, <1>3, GoesOn, WatchersStay DEF OpWatches
<1>4. CASE CountRunning(r)
  <2>1. CASE ~OtherChatRunning(job[r])
    BY <1>3, <1>4, <2>1, WordsTyped DEF CountRunning
  <2>2. CASE OtherChatRunning(job[r]) /\ ProjectOf[job[r]] # ProjectOf[t]
    BY <1>2, <1>4, <2>2, GotoFrame DEF CountRunning, RunWatches
  <2>3. CASE OtherChatRunning(job[r]) /\ ProjectOf[job[r]] = ProjectOf[t]
    <3>1. PICK u \in Tasks : status[u] = "running" /\ ProjectOf[u] = ProjectOf[t]
      BY <2>3 DEF OtherChatRunning
    <3>2. u \notin orphaned
      BY <1>4, <3>1 DEF Loses
    <3>3. PICK q \in Runs : job[q] = u /\ pc[q] \in Owning
      BY <3>1, <3>2 DEF NoOrphanRunning, Owned
    <3>4. q # r
      BY <1>4, <3>3 DEF CountRunning, Owning
    <3>5. pc'[q] = pc[q] /\ job'[q] = job[q]
      BY <1>4, <3>4, GotoFrame DEF CountRunning
    <3>6. RunWatches(q, t)'
      BY <3>1, <3>3, <3>5 DEF RunWatches, Owning
    <3> QED BY <3>6, RunIsWatcher
  <2> QED BY <2>1, <2>2, <2>3
<1>5. CASE FailReview(r)
  <2>1. CASE status[job[r]] = "running"
    BY <1>3, <1>5, <2>1, WordsTyped DEF FailReview
  <2>2. CASE status[job[r]] # "running"
    <3>1. ProjectOf[job[r]] # ProjectOf[t]
      BY <1>5, <2>2 DEF Loses
    <3> QED BY <1>2, <1>5, <3>1, GotoFrame DEF FailReview, RunWatches
  <2> QED BY <2>1, <2>2
<1>6. CASE WakeNext(r)
  <2> DEFINE pcs == [pc EXCEPT ![r] = AfterReview(r)]
  <2>1. pcs \in [Runs -> Pcs]
    BY <1>a, WordsTyped DEF AfterReview
  <2>2. CASE ProjectOf[job[r]] = ProjectOf[t]
    <3>1. StartNextPending(ProjectOf[t], pcs)
      BY <1>6, <2>2 DEF WakeNext
    <3> QED BY <1>1, <2>1, <3>1, WakeFinds
  <2>3. CASE ProjectOf[job[r]] # ProjectOf[t]
    <3>1. \A q \in Runs : pcs[q] # "idle" => pc'[q] = pcs[q] /\ job'[q] = job[q]
      BY <1>6, <2>1, WakeFrame DEF WakeNext
    <3>2. \A q \in Runs : q # r => pcs[q] = pc[q]
      BY <1>a
    <3>3. \A q \in Runs : q # r /\ pc[q] # "idle" => pc'[q] = pc[q] /\ job'[q] = job[q]
      BY <3>1, <3>2
    <3> QED BY <1>2, <1>6, <2>3, <3>3 DEF WakeNext, RunWatches
  <2> QED BY <2>2, <2>3
<1>7. CASE Unregister(r)
  BY <1>2, <1>7, GotoFrame DEF Unregister, RunWatches
<1>8. CASE PromptReturns(r)
  <2>1. \A o \in Ops : op'[o].pc = op[o].pc /\ op'[o].task = op[o].task
    BY <1>8 DEF PromptReturns, TypeOK
  <2> QED BY <1>3, <1>8, <2>1, WordsTyped DEF PromptReturns
<1>9. CASE Claim(r) \/ CreateSession(r) \/ ChatWrite(r)
  BY <1>3, <1>9, WordsTyped DEF Claim, CreateSession, ChatWrite
<1>10. CASE LoadReview(r) \/ StartReview(r) \/ FetchDiff(r) \/ RegisterCancel(r)
  BY <1>3, <1>10, WordsTyped DEF LoadReview, StartReview, FetchDiff, RegisterCancel
<1>11. CASE LoadEngine(r) \/ SaveRunning(r) \/ RunStages(r)
  BY <1>3, <1>11, WordsTyped DEF LoadEngine, SaveRunning, RunStages
<1>12. CASE EngineWrite(r) \/ PostProcess(r)
  BY <1>3, <1>12, WordsTyped DEF EngineWrite, PostProcess
<1>13. CASE GivesUp(r)
  <2>1. ProjectOf[job[r]] # ProjectOf[t]
    BY <1>13 DEF Loses
  <2> QED BY <1>2, <1>13, <2>1, GotoFrame DEF GivesUp, RunWatches
<1>14. CASE Ignores(r)
  <2> PICK l \in Pcs : <<pc[r], l>> \in GoesOnTo /\ Goto(r, l)
    BY <1>14 DEF Ignores
  <2>1. l \notin {"idle", "unregister"}
    BY GoesOnPlaces
  <2> QED BY <1>3, <1>14, <2>1 DEF Ignores
<1> QED BY <1>4, <1>5, <1>6, <1>7, <1>8, <1>9, <1>10, <1>11, <1>12, <1>13, <1>14 DEF RunStep

(* A handler that goes on watches as before, when it was not to end.       *)
LEMMA OpGoesOn ==
  ASSUME TypeOK, NEW o \in Ops, NEW l, OpGoto(o, l), NEW t,
         op[o].pc \in Waking => l \in Waking
  PROVE  \A x \in Ops : OpWatches(x, t) => OpWatches(x, t)'
BY DEF TypeOK, OpGoto, OpWatches, NoOp

(* So does one that ends and watched nothing, and its goroutines.          *)
LEMMA OpEndsUnseen ==
  ASSUME TypeOK, NEW o \in Ops, OpEnds(o), NEW t, ~OpWatches(o, t)
  PROVE  \A x \in Ops : OpWatches(x, t) => OpWatches(x, t)'
BY DEF TypeOK, OpEnds, OpWatches

(* Starting goroutines in free slots takes no watcher away.                *)
LEMMA StartsKeepWatchers ==
  ASSUME \A q \in Runs : pc[q] # "idle" => pc'[q] = pc[q] /\ job'[q] = job[q], NEW t
  PROVE  \A q \in Runs : RunWatches(q, t) => RunWatches(q, t)'
BY DEF RunWatches

(* A step of a handler leaves a waiting task watched.                      *)
LEMMA WatchedOpStep ==
  ASSUME TypeOK, NoOrphanRunning, NEW o \in Ops, OpStep(o), NEW t \in Tasks,
         status[t] = "pending" => Watched(t), status'[t] = "pending", ~Loses(t)
  PROVE  Watched(t)'
<1> USE DEF rows, procs
<1>a. op[o].task \in Tasks /\ pc \in [Runs -> Pcs]
  BY DEF TypeOK
<1>b. ASSUME UNCHANGED <<pc, job>>, status[t] = "pending",
             \A x \in Ops : OpWatches(x, t) => OpWatches(x, t)'
      PROVE  Watched(t)'
  BY <1>b, WatchersStay DEF RunWatches
<1>1. CASE AbortSession(o)
  <2> PICK l : OpGoto(o, l) /\ (op[o].pc \in Waking => l \in Waking)
    BY <1>1 DEF AbortSession, Waking
  <2>1. \A x \in Ops : OpWatches(x, t) => OpWatches(x, t)'
    BY OpGoesOn
  <2> QED BY <1>1, <1>b, <2>1 DEF AbortSession
<1>2. CASE NotifyCancel(o)
  <2>1. \A x \in Ops : OpWatches(x, t) => OpWatches(x, t)'
    BY <1>2, OpGoesOn DEF NotifyCancel, Waking
  <2> QED BY <1>2, <1>b, <2>1 DEF NotifyCancel
<1>3. CASE StopWrite(o) \/ SweepWrite(o)
  <2>1. \A x \in Ops : OpWatches(x, t) => OpWatches(x, t)'
    BY <1>3, OpGoesOn DEF StopWrite, SweepWrite, Waking
  <2>2. status[t] = "pending"
    BY <1>3, <1>a DEF TypeOK, StopWrite, SweepWrite, SetIfRunning, SetStatus
  <2> QED BY <1>3, <1>b, <2>1, <2>2 DEF StopWrite, SweepWrite
<1>4. CASE OpWake(o)
  <2>1. status[t] = "pending"
    BY <1>4 DEF OpWake
  <2>2. CASE ProjectOf[op[o].task] = ProjectOf[t]
    BY <1>4, <1>a, <2>1, <2>2, WakeFinds DEF OpWake
  <2>3. CASE ProjectOf[op[o].task] # ProjectOf[t]
    <3>1. \A q \in Runs : pc[q] # "idle" => pc'[q] = pc[q] /\ job'[q] = job[q]
      BY <1>4, <1>a, WakeFrame DEF OpWake
    <3>2. \A x \in Ops : OpWatches(x, t) => OpWatches(x, t)'
      BY <1>4, <2>3, OpEndsUnseen DEF OpWake, OpWatches
    <3> QED BY <2>1, <3>1, <3>2, StartsKeepWatchers, WatchersStay
  <2> QED BY <2>2, <2>3
<1>5. CASE RetrySave(o)
  <2>1. \A x \in Ops : OpWatches(x, t) => OpWatches(x, t)'
    BY <1>5, OpGoesOn DEF RetrySave, Waking
  <2>2. CASE op[o].task = t
    <3>1. op'[o].pc = "retrySpawn" /\ op'[o].task = t
      BY <1>5, <2>2 DEF TypeOK, RetrySave, OpGoto, NoOp
    <3> QED BY <3>1 DEF Watched, Waking
  <2>3. CASE op[o].task # t
    <3>1. status[t] = "pending"
      BY <1>5, <1>a, <2>3 DEF TypeOK, RetrySave, SetStatus
    <3> QED BY <1>5, <1>b, <2>1, <3>1 DEF RetrySave
  <2> QED BY <2>2, <2>3
<1>6. CASE RetrySpawn(o)
  <2>1. status[t] = "pending"
    BY <1>6 DEF RetrySpawn
  <2>2. CASE ProjectOf[op[o].task] = ProjectOf[t]
    <3>1. PICK n \in Runs : pc'[n] = Entry(op[o].task) /\ job'[n] = op[o].task
      BY <1>6, <1>a DEF RetrySpawn, Go, Forget
    <3>2. Entry(op[o].task) \in {"load", "count"}
      BY DEF Entry
    <3> QED BY <2>2, <3>1, <3>2, RunIsWatcher DEF RunWatches
  <2>3. CASE ProjectOf[op[o].task] # ProjectOf[t]
    <3>1. \A q \in Runs : pc[q] # "idle" => pc'[q] = pc[q] /\ job'[q] = job[q]
      BY <1>6, <1>a, GoFrame DEF RetrySpawn
    <3>2. \A x \in Ops : OpWatches(x, t) => OpWatches(x, t)'
      BY <1>6, <2>3, OpEndsUnseen DEF RetrySpawn, OpWatches
    <3> QED BY <2>1, <3>1, <3>2, StartsKeepWatchers, WatchersStay
  <2> QED BY <2>2, <2>3
<1>7. CASE CallbackWrite(o)
  <2>1. \A x \in Ops : OpWatches(x, t) => OpWatches(x, t)'
    BY <1>7, OpEndsUnseen DEF CallbackWrite, OpWatches, Waking
  <2>2. CASE status[t] = "pending"
    BY <1>7, <1>b, <2>1, <2>2 DEF CallbackWrite
  <2>3. CASE status[t] # "pending"
    <3>1. op[o].task = t /\ status[t] = "running"
      BY <1>7, <1>a, <2>3 DEF TypeOK, CallbackWrite, SetIfRunning, SetStatus
    <3>2. t \notin orphaned
      BY <1>7, <3>1 DEF Loses
    <3>3. PICK q \in Runs : job[q] = t /\ pc[q] \in Owning
      BY <3>1, <3>2 DEF NoOrphanRunning, Owned
    <3>4. RunWatches(q, t)'
      BY <1>7, <3>3 DEF CallbackWrite, RunWatches, Owning
    <3> QED BY <3>4, RunIsWatcher
  <2> QED BY <2>2, <2>3
<1>8. CASE DeleteClear(o)
  <2>1. \A x \in Ops : OpWatches(x, t) => OpWatches(x, t)'
    BY <1>8, OpEndsUnseen DEF DeleteClear, OpWatches, Waking
  <2> QED BY <1>8, <1>b, <2>1 DEF DeleteClear
<1>9. CASE OpFails(o)
  <2>1. \A x \in Ops : OpWatches(x, t) => OpWatches(x, t)'
    <3>1. CASE op[o].pc \in {"stopWrite", "opWake", "retrySave"}
      <4>1. ProjectOf[op[o].task] # ProjectOf[t]
        BY <1>9, <3>1 DEF Loses
      <4>2. OpEnds(o)
        BY <1>9, <3>1 DEF OpFails
      <4> QED BY <4>1, <4>2, OpEndsUnseen DEF OpWatches
    <3>2. CASE op[o].pc \in {"callbackWrite", "deleteClear"}
      BY <1>9, <3>2, OpEndsUnseen DEF OpFails, OpWatches, Waking
    <3>3. CASE op[o].pc = "sweepWrite"
      BY <1>9, <3>3, OpGoesOn DEF OpFails, Waking
    <3> QED BY <1>9, <3>1, <3>2, <3>3 DEF OpFails
  <2> QED BY <1>9, <1>b, <2>1 DEF OpFails
<1> QED BY <1>1, <1>2, <1>3, <1>4, <1>5, <1>6, <1>7, <1>8, <1>9 DEF OpStep

(* A waiting task stays watched in every step that does not lose its       *)
(* wake-up.                                                                *)
LEMMA WatchedNext ==
  ASSUME TypeOK, NoOrphanRunning, [Next]_vars, NEW t \in Tasks,
         status[t] = "pending" => Watched(t), status'[t] = "pending", ~Loses(t)
  PROVE  Watched(t)'
<1> USE DEF rows, procs
<1>0. pc \in [Runs -> Pcs]
  BY DEF TypeOK
<1>a. ASSUME UNCHANGED <<status, pc, job>>,
             \A x \in Ops : op'[x] = op[x] \/ op[x].pc = "idle"
      PROVE  Watched(t)'
  <2>1. \A x \in Ops : OpWatches(x, t) => OpWatches(x, t)'
    BY <1>a DEF OpWatches, Waking
  <2> QED BY <1>a, <2>1, WatchersStay DEF RunWatches
<1>1. ASSUME NEW u \in Tasks, Create(u) PROVE Watched(t)'
  <2>1. CASE u = t
    <3>1. PICK e \in {"load", "count"} : Go(pc, t, e)
      BY <1>1, <2>1 DEF Create, Entry
    <3>2. PICK n \in Runs : pc'[n] = e /\ job'[n] = t
      BY <1>0, <3>1 DEF Go, Forget
    <3> QED BY <3>2, RunIsWatcher DEF RunWatches
  <2>2. CASE u # t
    <3>1. status[t] = "pending"
      BY <1>1, <2>2 DEF TypeOK, Create, SetStatus
    <3>2. \A q \in Runs : pc[q] # "idle" => pc'[q] = pc[q] /\ job'[q] = job[q]
      BY <1>1, <1>0, GoFrame DEF Create
    <3>3. op' = op
      BY <1>1 DEF Create
    <3> QED BY <3>1, <3>2, <3>3, StartsKeepWatchers, WatchersStay DEF OpWatches
  <2> QED BY <2>1, <2>2
<1>2. ASSUME NEW u \in Tasks, ExecuteRequest(u) PROVE Watched(t)'
  <2>1. \A q \in Runs : pc[q] # "idle" => pc'[q] = pc[q] /\ job'[q] = job[q]
    BY <1>2, <1>0, GoFrame DEF ExecuteRequest
  <2>2. op' = op /\ status' = status
    BY <1>2 DEF ExecuteRequest
  <2> QED BY <2>1, <2>2, StartsKeepWatchers, WatchersStay DEF OpWatches
<1>3. ASSUME NEW o \in Ops, NEW u \in Tasks,
             \/ StopLoad(o, u) \/ SweepSee(o, u) \/ RetryLoad(o, u)
             \/ CallbackLoad(o, u) \/ DeleteLoad(o, u)
      PROVE  Watched(t)'
  <2>1. \A x \in Ops : op'[x] = op[x] \/ op[x].pc = "idle"
    BY <1>3 DEF TypeOK, StopLoad, SweepSee, RetryLoad, CallbackLoad, DeleteLoad, Begin
  <2> QED BY <1>3, <1>a, <2>1 DEF StopLoad, SweepSee, RetryLoad, CallbackLoad, DeleteLoad
<1>4. ASSUME NEW u \in Tasks, Expire(u) PROVE Watched(t)'
  BY <1>4, <1>a DEF Expire
<1>5. ~Crash
  BY DEF Loses
<1>6. CASE UNCHANGED vars
  BY <1>6, <1>a DEF vars
<1> QED BY <1>1, <1>2, <1>3, <1>4, <1>5, <1>6, WatchedRunStep, WatchedOpStep DEF Next, Request

(* The wake-up of a waiting task is lost by the steps named in Loses, those *)
(* in which a statement fails among them, and by no other: for every mix of *)
(* chats and reviews, every request and every overlap, whoever leaves       *)
(* leaves the queue to somebody else.                                       *)
THEOREM FewWaysToLoseAWakeup == Spec => FewLoseWakeups
<1>1. TypeOK /\ NoOrphanRunning /\ [Next]_vars
        => [\A t \in Tasks : /\ status[t] = "pending" => Watched(t)
                             /\ status'[t] = "pending" /\ ~Watched(t)'
                             => Loses(t)]_vars
  BY WatchedNext
<1> QED BY <1>1, TypeCorrect, RunningIsOwned, PTL DEF Spec, FewLoseWakeups

(* With chats only no execution is in the steps of a review.               *)
ChatsOnly == \A r \in Runs : pc[r] \notin ReviewPcs

LEMMA ChatsOnlyNext ==
  ASSUME \A t \in Tasks : KindOf[t] # "review", TypeOK, ChatsOnly, [Next]_vars
  PROVE  ChatsOnly'
<1> USE DEF rows, procs
<1>0. pc \in [Runs -> Pcs] /\ {"count", "idle", "unregister"} \cap ReviewPcs = {}
  BY DEF TypeOK, ReviewPcs
<1>a. ASSUME NEW pcs \in [Runs -> Pcs], NEW t \in Tasks, Go(pcs, t, "count"),
             \A q \in Runs : pcs[q] \notin ReviewPcs
      PROVE  ChatsOnly'
  BY <1>0, <1>a, GoFrame DEF ChatsOnly
<1>b. ASSUME NEW t \in Tasks PROVE Entry(t) = "count"
  BY DEF Entry
<1>c. ASSUME NEW pcs \in [Runs -> Pcs], NEW p, StartNextPending(p, pcs),
             \A q \in Runs : pcs[q] \notin ReviewPcs
      PROVE  ChatsOnly'
  <2>1. CASE pc' = pcs
    BY <1>c, <2>1 DEF ChatsOnly
  <2>2. CASE \E t \in EarliestPending(p) : Go(pcs, t, Entry(t))
    <3>1. PICK t \in EarliestPending(p) : Go(pcs, t, Entry(t))
      BY <2>2
    <3>2. t \in Tasks
      BY DEF EarliestPending
    <3>3. Go(pcs, t, "count")
      BY <1>b, <3>1, <3>2
    <3> QED BY <1>a, <1>c, <3>2, <3>3
  <2> QED BY <1>c, <2>1, <2>2 DEF StartNextPending
<1>d. ASSUME NEW r \in Runs, NEW l, Goto(r, l), l \notin ReviewPcs PROVE ChatsOnly'
  BY <1>d, <1>0 DEF Goto, ChatsOnly
<1>1. ASSUME NEW r \in Runs, RunStep(r) PROVE ChatsOnly'
  <2>1. CASE CountRunning(r) \/ Claim(r) \/ CreateSession(r) \/ PromptReturns(r) \/ ChatWrite(r)
    BY <1>d, <2>1 DEF CountRunning, Claim, CreateSession, PromptReturns, ChatWrite, ReviewPcs
  <2>2. CASE WakeNext(r)
    <3> DEFINE pcs == [pc EXCEPT ![r] = AfterReview(r)]
    <3>1. pcs \in [Runs -> Pcs] /\ \A q \in Runs : pcs[q] \notin ReviewPcs
      BY <1>0, WordsTyped DEF AfterReview, ChatsOnly
    <3> QED BY <1>c, <2>2, <3>1 DEF WakeNext
  <2>3. CASE Unregister(r)
    BY <1>0, <1>d, <2>3 DEF Unregister
  <2>4. CASE GivesUp(r)
    BY <1>0, <1>d, <2>4 DEF GivesUp, AfterReview
  <2>5. CASE Ignores(r)
    <3> PICK l \in Pcs : <<pc[r], l>> \in GoesOnTo /\ Goto(r, l)
      BY <2>5 DEF Ignores
    <3>1. l \notin ReviewPcs
      BY GoesOnPlaces DEF ChatsOnly, ReviewPcs
    <3> QED BY <1>d, <3>1
  <2> QED BY <1>1, <2>1, <2>2, <2>3, <2>4, <2>5 DEF RunStep, ChatsOnly, ReviewPcs, LoadReview, StartReview,
             FetchDiff, RegisterCancel, LoadEngine, SaveRunning, RunStages, EngineWrite,
             FailReview, PostProcess
<1>2. ASSUME NEW o \in Ops, OpStep(o) PROVE ChatsOnly'
  <2>1. CASE UNCHANGED pc
    BY <2>1 DEF ChatsOnly
  <2>2. CASE OpWake(o)
    BY <1>0, <1>c, <2>2 DEF OpWake, ChatsOnly
  <2>3. CASE RetrySpawn(o)
    <3>1. op[o].task \in Tasks
      BY DEF TypeOK
    <3> QED BY <1>0, <1>a, <1>b, <2>3, <3>1 DEF RetrySpawn, ChatsOnly
  <2> QED BY <1>2, <2>1, <2>2, <2>3 DEF OpStep, AbortSession, NotifyCancel, StopWrite,
             SweepWrite, RetrySave, CallbackWrite, DeleteClear, OpFails
<1>3. ASSUME NEW t \in Tasks, Create(t) \/ ExecuteRequest(t) PROVE ChatsOnly'
  BY <1>0, <1>a, <1>b, <1>3 DEF Create, ExecuteRequest, ChatsOnly
<1>4. CASE UNCHANGED pc
  BY <1>4 DEF ChatsOnly
<1>5. CASE Crash
  BY <1>0, <1>5 DEF Crash, ChatsOnly
<1> QED BY <1>1, <1>2, <1>3, <1>4, <1>5 DEF Next, Request, SweepSee, StopLoad, RetryLoad,
           CallbackLoad, DeleteLoad, Expire, vars

(* Without a death of the process nothing is orphaned.                     *)
NobodyDied == orphaned = {} /\ crashes = 0

(* No wake-up is lost in projects whose tasks are chats and bug fixes while *)
(* the process lives and its statements succeed: every task that waits has  *)
(* somebody alive who is going to look at its queue, whatever is created,   *)
(* executed, stopped, retried, called back and timed out meanwhile. Where a *)
(* review may fail this is false, as the run TaskReviewFailure shows.       *)
THEOREM ChatQueueIsWatched ==
  ASSUME \A t \in Tasks : KindOf[t] # "review", MaxCrashes = 0, ~StatementsFail
  PROVE  Spec => []NoLostWakeup
<1> DEFINE Inv == TypeOK /\ NoOrphanRunning /\ ChatsOnly /\ NobodyDied
<1>1. Init => ChatsOnly /\ NobodyDied /\ NoLostWakeup
  BY DEF Init, ChatsOnly, ReviewPcs, NobodyDied, NoLostWakeup
<1>2. Inv /\ [Next]_vars => ChatsOnly'
  BY ChatsOnlyNext
<1>3. Inv => ~Crash
  BY DEF Crash, NobodyDied
<1>4. Inv /\ [Next]_vars => NobodyDied'
  <2> SUFFICES ASSUME Inv, [Next]_vars PROVE NobodyDied'
    OBVIOUS
  <2>1. ASSUME NEW t, NEW s, SetStatus(t, s) PROVE orphaned' = {}
    BY <2>1 DEF SetStatus, NobodyDied
  <2>2. ASSUME NEW t, NEW s, SetIfRunning(t, s) PROVE orphaned' = {}
    BY <2>1, <2>2 DEF SetIfRunning, NobodyDied
  <2>3. ASSUME NEW r \in Runs, RunStep(r) PROVE orphaned' = {} /\ crashes' = crashes
    BY <2>1, <2>2, <2>3 DEF RunStep, CountRunning, Claim, CreateSession, PromptReturns,
       ChatWrite, LoadReview, StartReview, FetchDiff, RegisterCancel, LoadEngine, SaveRunning,
       RunStages, EngineWrite, FailReview, PostProcess, WakeNext, Unregister, GivesUp,
       Ignores, NobodyDied
  <2>4. ASSUME NEW o \in Ops, OpStep(o) PROVE orphaned' = {} /\ crashes' = crashes
    BY <2>1, <2>2, <2>4 DEF OpStep, AbortSession, NotifyCancel, StopWrite, SweepWrite, OpWake,
       RetrySave, RetrySpawn, CallbackWrite, DeleteClear, OpFails, NobodyDied
  <2> QED BY <1>3, <2>1, <2>3, <2>4 DEF Next, Request, Create, ExecuteRequest, StopLoad,
             RetryLoad, CallbackLoad, DeleteLoad, SweepSee, Expire, vars, NobodyDied
<1>5. Inv => \A t \in Tasks : ~Loses(t)
  <2> SUFFICES ASSUME Inv, NEW t \in Tasks, Loses(t) PROVE FALSE
    OBVIOUS
  <2>1. ~ \E r \in Runs : FailReview(r)
    BY DEF FailReview, ChatsOnly, ReviewPcs
  <2>2. /\ ~ \E r \in Runs : GivesUp(r)
        /\ ~ \E o \in Ops : OpFails(o)
    BY DEF GivesUp, OpFails
  <2> QED BY <1>3, <2>1, <2>2 DEF Loses, NobodyDied
<1>6. Inv /\ NoLostWakeup /\ [Next]_vars => NoLostWakeup'
  <2> SUFFICES ASSUME Inv, NoLostWakeup, [Next]_vars, NEW t \in Tasks, status'[t] = "pending"
               PROVE  Watched(t)'
    BY DEF NoLostWakeup
  <2>1. status[t] = "pending" => Watched(t)
    BY DEF NoLostWakeup
  <2> QED BY <1>5, <2>1, WatchedNext
<1>7. Spec => [](ChatsOnly /\ NobodyDied)
  BY <1>1, <1>2, <1>4, TypeCorrect, RunningIsOwned, PTL DEF Spec
<1> QED BY <1>1, <1>6, <1>7, TypeCorrect, RunningIsOwned, PTL DEF Spec

-----------------------------------------------------------------------------
(* The cancel registry.                                                     *)

(* A step that keeps the registry, and every run whose open channel it may  *)
(* hold, keeps it sound.                                                    *)
LEMMA RegistryKept ==
  ASSUME TypeOK, RegistrySound, UNCHANGED <<registry, channel>>,
         \A q \in Runs : pc[q] \in Registered /\ channel[q] = "open"
                        => pc'[q] \in Registered /\ job'[q] = job[q]
  PROVE  RegistrySound'
BY DEF TypeOK, RegistrySound

(* Moving an execution inside its pipeline keeps the registry sound.       *)
LEMMA RegistryGoto ==
  ASSUME TypeOK, RegistrySound, UNCHANGED <<registry, channel>>,
         NEW r \in Runs, NEW l \in Pcs, Goto(r, l),
         pc[r] \in Registered /\ channel[r] = "open" => l \in Registered
  PROVE  RegistrySound'
<1>1. \A q \in Runs : pc[q] \in Registered /\ channel[q] = "open"
                     => pc'[q] \in Registered /\ job'[q] = job[q]
  BY GotoFrame DEF Registered
<1> QED BY <1>1, RegistryKept

(* A step of an execution keeps the registry sound.                        *)
LEMMA RegistryRunStep ==
  ASSUME TypeOK, RegistrySound, NEW r \in Runs, RunStep(r)
  PROVE  RegistrySound'
<1> USE DEF rows
<1>1. CASE CountRunning(r) \/ Claim(r) \/ CreateSession(r) \/ PromptReturns(r)
  BY <1>1, RegistryGoto, WordsTyped DEF CountRunning, Claim, CreateSession, PromptReturns, Registered
<1>2. CASE LoadReview(r) \/ StartReview(r) \/ FetchDiff(r)
  BY <1>2, RegistryGoto, WordsTyped DEF LoadReview, StartReview, FetchDiff, Registered
<1>3. CASE ChatWrite(r)
  BY <1>3, RegistryGoto, WordsTyped DEF ChatWrite, Registered
<1>4. CASE RegisterCancel(r)
  <2>1. pc'[r] = "engine" /\ job'[r] = job[r]
    BY <1>4, GotoFrame DEF RegisterCancel
  <2>2. \A q \in Runs : q # r => pc'[q] = pc[q] /\ job'[q] = job[q]
    BY <1>4, GotoFrame DEF RegisterCancel
  <2>3. pc[r] \notin Registered
    BY <1>4 DEF RegisterCancel, Registered
  <2> QED BY <1>4, <2>1, <2>2, <2>3 DEF TypeOK, RegistrySound, RegisterCancel, Registered
<1>5. CASE LoadEngine(r) \/ RunStages(r)
  BY <1>5, RegistryGoto, WordsTyped DEF LoadEngine, RunStages, Registered
<1>6. CASE SaveRunning(r) \/ PostProcess(r)
  BY <1>6, RegistryGoto, WordsTyped DEF SaveRunning, PostProcess, Registered
<1>7. CASE EngineWrite(r)
  BY <1>7, RegistryGoto, WordsTyped DEF EngineWrite, Registered
<1>8. CASE FailReview(r)
  <2> PICK l \in {"wake", AfterReview(r)} : Goto(r, l)
    BY <1>8 DEF FailReview
  <2>1. l \in Pcs /\ (channel[r] = "open" => l \in Registered)
    BY WordsTyped DEF AfterReview, Registered
  <2> QED BY <1>8, <2>1, RegistryGoto DEF FailReview
<1>9. CASE WakeNext(r)
  <2> DEFINE pcs == [pc EXCEPT ![r] = AfterReview(r)]
  <2>1. pcs \in [Runs -> Pcs]
    BY WordsTyped DEF TypeOK, AfterReview
  <2>2. \A q \in Runs : pcs[q] # "idle" => pc'[q] = pcs[q] /\ job'[q] = job[q]
    BY <1>9, <2>1, WakeFrame DEF WakeNext
  <2>3. \A q \in Runs : pc[q] \in Registered /\ channel[q] = "open"
                       => pcs[q] # "idle" /\ pcs[q] \in Registered
    BY DEF TypeOK, AfterReview, Registered
  <2> QED BY <1>9, <2>2, <2>3, RegistryKept DEF WakeNext
<1>10. CASE Unregister(r)
  <2>1. \A q \in Runs : q # r => pc'[q] = pc[q] /\ job'[q] = job[q] /\ channel'[q] = channel[q]
    BY <1>10, GotoFrame DEF TypeOK, Unregister
  <2>2. \A t \in Tasks : registry'[t] # None => registry'[t] = registry[t] /\ registry[t] # r
    BY <1>10 DEF TypeOK, Unregister, RegistrySound
  <2> QED BY <2>1, <2>2 DEF TypeOK, RegistrySound
<1>11. CASE GivesUp(r)
  <2>1. AfterReview(r) \in Pcs /\ (channel[r] = "open" => AfterReview(r) \in Registered)
    BY WordsTyped DEF AfterReview, Registered
  <2> QED BY <1>11, <2>1, RegistryGoto DEF GivesUp
<1>12. CASE Ignores(r)
  <2> PICK l \in Pcs : <<pc[r], l>> \in GoesOnTo /\ Goto(r, l)
    BY <1>12 DEF Ignores
  <2>1. pc[r] \in Registered => l \in Registered
    BY GoesOnPlaces DEF Registered
  <2> QED BY <1>12, <2>1, RegistryGoto DEF Ignores
<1> QED BY <1>1, <1>2, <1>3, <1>4, <1>5, <1>6, <1>7, <1>8, <1>9, <1>10, <1>11, <1>12 DEF RunStep

(* So does a step of a handler.                                            *)
LEMMA RegistryOpStep ==
  ASSUME TypeOK, RegistrySound, NEW o \in Ops, OpStep(o)
  PROVE  RegistrySound'
<1> USE DEF rows, procs
<1>0. pc \in [Runs -> Pcs] /\ "idle" \notin Registered
  BY DEF TypeOK, Registered
<1>1. CASE NotifyCancel(o)
  <2>1. op[o].task \in Tasks
    BY DEF TypeOK
  <2>2. CASE registry[op[o].task] = None
    BY <1>1, <2>2 DEF NotifyCancel, RegistrySound
  <2>3. CASE registry[op[o].task] # None
    <3> DEFINE r == registry[op[o].task]
    <3>1. \A t \in Tasks : registry'[t] # None => registry'[t] = registry[t] /\ registry[t] # r
      BY <1>1, <2>1, <2>3 DEF TypeOK, NotifyCancel, RegistrySound
    <3>2. \A q \in Runs : q # r => channel'[q] = channel[q]
      BY <1>1, <2>3 DEF TypeOK, NotifyCancel
    <3> QED BY <1>1, <3>1, <3>2 DEF TypeOK, NotifyCancel, RegistrySound
  <2> QED BY <2>2, <2>3
<1>2. CASE OpWake(o)
  BY <1>2, <1>0, WakeFrame, RegistryKept DEF OpWake
<1>3. CASE RetrySpawn(o)
  BY <1>3, <1>0, GoFrame, RegistryKept DEF RetrySpawn
<1>4. CASE \/ AbortSession(o) \/ StopWrite(o) \/ SweepWrite(o) \/ RetrySave(o)
           \/ CallbackWrite(o) \/ DeleteClear(o) \/ OpFails(o)
  BY <1>4, RegistryKept DEF AbortSession, StopWrite, SweepWrite, RetrySave, CallbackWrite, DeleteClear,
     OpFails
<1> QED BY <1>1, <1>2, <1>3, <1>4 DEF OpStep

(* Every step keeps the registry sound.                                    *)
LEMMA RegistryNext == TypeOK /\ RegistrySound /\ [Next]_vars => RegistrySound'
<1> SUFFICES ASSUME TypeOK, RegistrySound, [Next]_vars PROVE RegistrySound'
  OBVIOUS
<1>0. pc \in [Runs -> Pcs] /\ "idle" \notin Registered
  BY DEF TypeOK, Registered
<1>1. ASSUME NEW t \in Tasks, Create(t) PROVE RegistrySound'
  BY <1>1, <1>0, GoFrame, RegistryKept DEF Create
<1>2. ASSUME NEW t \in Tasks, ExecuteRequest(t) PROVE RegistrySound'
  BY <1>2, <1>0, GoFrame, RegistryKept DEF ExecuteRequest
<1>3. ASSUME NEW o \in Ops, NEW t \in Tasks,
             \/ StopLoad(o, t) \/ SweepSee(o, t) \/ RetryLoad(o, t)
             \/ CallbackLoad(o, t) \/ DeleteLoad(o, t)
      PROVE  RegistrySound'
  BY <1>3, RegistryKept DEF StopLoad, SweepSee, RetryLoad, CallbackLoad, DeleteLoad, procs
<1>4. ASSUME NEW t \in Tasks, Expire(t) PROVE RegistrySound'
  BY <1>4, RegistryKept DEF Expire, procs
<1>5. CASE Crash
  BY <1>5 DEF Crash, RegistrySound
<1>6. CASE UNCHANGED vars
  BY <1>6, RegistryKept DEF vars
<1> QED BY <1>1, <1>2, <1>3, <1>4, <1>5, <1>6, RegistryRunStep, RegistryOpStep DEF Next, Request

(* The registry of cancel channels never holds a channel that is closed or *)
(* whose pipeline is gone, so Stop neither panics nor cancels another task. *)
THEOREM RegistryIsSound == Spec => []RegistrySound
<1>1. Init => RegistrySound
  BY DEF Init, RegistrySound
<1> QED BY <1>1, RegistryNext, TypeCorrect, PTL DEF Spec

-----------------------------------------------------------------------------
(* Outcomes, and the contract.                                              *)

(* What a step may do to one task's status: settle it if it runs, take it,  *)
(* queue it. The writers without a condition are exactly Create, Retry and  *)
(* the three places that start an execution.                                *)
StatusMove(t) ==
  \/ status'[t] = status[t]
  \/ status[t] = "running" /\ status'[t] # "none"
  \/ status'[t] \in {"pending", "running"}

(* Any task may become pending or running.                                 *)
LEMMA SetStatusMoves ==
  ASSUME TypeOK, NEW t \in Tasks, NEW s \in {"pending", "running"}, SetStatus(t, s)
  PROVE  \A u \in Tasks : StatusMove(u)
BY DEF TypeOK, SetStatus, StatusMove

(* The conditional write moves a running task only.                        *)
LEMMA SetIfRunningMoves ==
  ASSUME TypeOK, NEW t \in Tasks, NEW s, s # "none", SetIfRunning(t, s)
  PROVE  \A u \in Tasks : StatusMove(u)
BY DEF TypeOK, SetIfRunning, SetStatus, StatusMove

(* How a step may move the status of a task.                               *)
LEMMA NextMoves ==
  ASSUME TypeOK, [Next]_vars
  PROVE  \A t \in Tasks : StatusMove(t)
<1> USE DEF rows
<1>1. ASSUME NEW r \in Runs, RunStep(r) PROVE \A t \in Tasks : StatusMove(t)
  <2>a. job[r] \in Tasks
    BY DEF TypeOK
  <2>1. CASE UNCHANGED status
    BY <2>1 DEF StatusMove
  <2>2. CASE Claim(r) \/ StartReview(r) \/ SaveRunning(r)
    BY <2>2, <2>a, SetStatusMoves DEF Claim, StartReview, SaveRunning
  <2>3. CASE ChatWrite(r) \/ EngineWrite(r) \/ FailReview(r)
    BY <2>3, <2>a, SetIfRunningMoves DEF ChatWrite, EngineWrite, FailReview
  <2> QED BY <1>1, <2>1, <2>2, <2>3 DEF RunStep, CountRunning, CreateSession, PromptReturns,
             LoadReview, FetchDiff, RegisterCancel, LoadEngine, RunStages, PostProcess,
             WakeNext, Unregister, GivesUp, Ignores
<1>2. ASSUME NEW o \in Ops, OpStep(o) PROVE \A t \in Tasks : StatusMove(t)
  <2>a. op[o].task \in Tasks /\ op[o].verdict # "none"
    BY DEF TypeOK, Verdicts
  <2>1. CASE UNCHANGED status
    BY <2>1 DEF StatusMove
  <2>2. CASE RetrySave(o)
    BY <2>2, <2>a, SetStatusMoves DEF RetrySave
  <2>3. CASE StopWrite(o) \/ SweepWrite(o) \/ CallbackWrite(o)
    BY <2>3, <2>a, SetIfRunningMoves DEF StopWrite, SweepWrite, CallbackWrite
  <2> QED BY <1>2, <2>1, <2>2, <2>3 DEF OpStep, AbortSession, NotifyCancel, OpWake, RetrySpawn,
             DeleteClear, OpFails
<1>3. ASSUME NEW t \in Tasks, Create(t) PROVE \A u \in Tasks : StatusMove(u)
  BY <1>3, SetStatusMoves DEF Create
<1>4. CASE UNCHANGED status
  BY <1>4 DEF StatusMove
<1> QED BY <1>1, <1>2, <1>3, <1>4 DEF Next, Request, ExecuteRequest, StopLoad, SweepSee,
           RetryLoad, CallbackLoad, DeleteLoad, Expire, Crash, vars

(* The executor, Stop, the sweep and the callback race to write a task's    *)
(* outcome; whichever is first stands until the task is started again.      *)
THEOREM FirstOutcomeStands == Spec => OutcomeStands
<1>1. TypeOK /\ [Next]_vars
        => [\A t \in Tasks : status[t] \in Settled =>
               status'[t] \in {status[t], "pending", "running"}]_vars
  BY NextMoves DEF StatusMove, Settled
<1> QED BY <1>1, TypeCorrect, PTL DEF Spec, OutcomeStands

(* Nobody works on a row that was never created.                            *)
WorkExists ==
  /\ \A r \in Runs : pc[r] # "idle" => status[job[r]] # "none"
  /\ \A o \in Ops : op[o].pc # "idle" => status[op[o].task] # "none"

(* A task that exists goes on existing.                                    *)
LEMMA RowStays ==
  ASSUME TypeOK, [Next]_vars
  PROVE  \A t \in Tasks : status[t] # "none" => status'[t] # "none"
BY NextMoves DEF StatusMove

(* An execution belongs to a task that exists.                             *)
LEMMA RunsExist ==
  ASSUME TypeOK, WorkExists, [Next]_vars,
         \A q \in Runs : \/ pc'[q] = "idle"
                         \/ pc[q] # "idle" /\ job'[q] = job[q]
                         \/ job'[q] \in Tasks /\ status'[job'[q]] # "none"
  PROVE  \A q \in Runs : pc'[q] # "idle" => status'[job'[q]] # "none"
BY RowStays DEF TypeOK, WorkExists

(* So does the request of a busy handler.                                  *)
LEMMA OpsExist ==
  ASSUME TypeOK, WorkExists, [Next]_vars,
         \A o \in Ops : \/ op'[o].pc = "idle"
                        \/ op[o].pc # "idle" /\ op'[o].task = op[o].task
                        \/ op'[o].task \in Tasks /\ status[op'[o].task] # "none"
  PROVE  \A o \in Ops : op'[o].pc # "idle" => status'[op'[o].task] # "none"
<1>1. \A o \in Ops : op[o].task \in Tasks
  BY DEF TypeOK
<1> QED BY <1>1, RowStays DEF WorkExists

(* What a handler that goes on keeps.                                      *)
LEMMA OpGotoEffect ==
  ASSUME TypeOK, NEW o \in Ops, NEW l, OpGoto(o, l)
  PROVE  \A q \in Ops : op'[q] = op[q] \/ (q = o /\ op'[q].task = op[q].task)
BY DEF TypeOK, OpGoto, NoOp

(* A handler that answers is idle.                                         *)
LEMMA OpEndsEffect ==
  ASSUME TypeOK, NEW o \in Ops, OpEnds(o)
  PROVE  \A q \in Ops : op'[q] = op[q] \/ op'[q].pc = "idle"
BY DEF TypeOK, OpEnds, NoOp

(* A handler that takes a request is busy with that task.                  *)
LEMMA BeginEffect ==
  ASSUME TypeOK, NEW o \in Ops, NEW l, NEW t \in Tasks, Begin(o, l, t)
  PROVE  \A q \in Ops : op'[q] = op[q] \/ (op'[q].task = t /\ status[t] # "none")
BY DEF TypeOK, Begin, NoOp

(* No work is done for a task that does not exist.                         *)
LEMMA WorkNext == TypeOK /\ WorkExists /\ [Next]_vars => WorkExists'
<1> SUFFICES ASSUME TypeOK, WorkExists, [Next]_vars PROVE WorkExists'
  OBVIOUS
<1> USE DEF rows, procs
<1>a. pc \in [Runs -> Pcs] /\ \A r \in Runs : job[r] \in Tasks
  BY DEF TypeOK
<1>b. \A o \in Ops : op[o].task \in Tasks
  BY DEF TypeOK
<1>c. \A t \in Tasks : status[t] # "none" => status'[t] # "none"
  BY RowStays
<1>d. TypeOK'
  BY TypeNext
<1>e. \A r \in Runs : job'[r] \in Tasks
  BY <1>d DEF TypeOK
<1>1. \A q \in Runs : pc'[q] # "idle" => status'[job'[q]] # "none"
  <2>1. CASE UNCHANGED <<pc, job>>
    BY <2>1, RunsExist
  <2>2. ASSUME NEW r \in Runs, NEW l, Goto(r, l), pc[r] # "idle"
        PROVE  \A q \in Runs : pc'[q] # "idle" => status'[job'[q]] # "none"
    BY <2>2, GotoFrame, RunsExist
  <2>3. ASSUME NEW pcs \in [Runs -> Pcs], NEW p, StartNextPending(p, pcs),
               \A q \in Runs : pcs[q] # "idle" => pc[q] # "idle"
        PROVE  \A q \in Runs : pc'[q] # "idle" => status'[job'[q]] # "none"
    <3>1. \A q \in Runs : \/ pc'[q] = "idle"
                          \/ pc[q] # "idle" /\ job'[q] = job[q]
                          \/ status[job'[q]] = "pending"
      BY <2>3, WakeFrame
    <3> QED BY <3>1, <1>c, <1>e, RunsExist
  <2>4. ASSUME NEW t \in Tasks, NEW e, Go(pc, t, e), status'[t] # "none"
        PROVE  \A q \in Runs : pc'[q] # "idle" => status'[job'[q]] # "none"
    <3>1. \A q \in Runs : \/ pc'[q] = "idle"
                          \/ pc[q] # "idle" /\ job'[q] = job[q]
                          \/ job'[q] = t
      BY <2>4, <1>a, GoFrame
    <3> QED BY <3>1, <2>4, RunsExist
  <2>5. ASSUME NEW r \in Runs, RunStep(r)
        PROVE  \A q \in Runs : pc'[q] # "idle" => status'[job'[q]] # "none"
    <3>1. CASE WakeNext(r)
      <4>1. [pc EXCEPT ![r] = AfterReview(r)] \in [Runs -> Pcs]
        BY <1>a, WordsTyped DEF AfterReview
      <4> QED BY <3>1, <4>1, <2>3, <1>a DEF WakeNext
    <3>2. CASE GivesUp(r)
      BY <3>2, <2>2 DEF GivesUp
    <3>3. CASE Ignores(r)
      <4> PICK l \in Pcs : <<pc[r], l>> \in GoesOnTo /\ Goto(r, l)
        BY <3>3 DEF Ignores
      <4> QED BY <2>2, GoesOnPlaces
    <3>4. CASE ~ (WakeNext(r) \/ GivesUp(r) \/ Ignores(r))
      BY <2>5, <3>4, <2>2 DEF RunStep, CountRunning, Claim, CreateSession, PromptReturns,
         ChatWrite, LoadReview, StartReview, FetchDiff, RegisterCancel, LoadEngine,
         SaveRunning, RunStages, EngineWrite, FailReview, PostProcess, Unregister
    <3> QED BY <3>1, <3>2, <3>3, <3>4
  <2>6. ASSUME NEW o \in Ops, OpStep(o)
        PROVE  \A q \in Runs : pc'[q] # "idle" => status'[job'[q]] # "none"
    <3>1. CASE OpWake(o)
      BY <3>1, <1>a, <2>3 DEF OpWake
    <3>2. CASE RetrySpawn(o)
      <4>1. status'[op[o].task] # "none"
        BY <3>2, <1>b, <1>c DEF RetrySpawn, WorkExists
      <4> QED BY <3>2, <4>1, <1>b, <2>4 DEF RetrySpawn
    <3> QED BY <2>6, <3>1, <3>2, <2>1 DEF OpStep, AbortSession, NotifyCancel, StopWrite,
               SweepWrite, RetrySave, CallbackWrite, DeleteClear, OpFails
  <2>7. ASSUME NEW t \in Tasks, Create(t)
        PROVE  \A q \in Runs : pc'[q] # "idle" => status'[job'[q]] # "none"
    <3>1. status'[t] # "none"
      BY <2>7 DEF TypeOK, Create, SetStatus
    <3> QED BY <2>7, <3>1, <2>4 DEF Create
  <2>8. ASSUME NEW t \in Tasks, ExecuteRequest(t)
        PROVE  \A q \in Runs : pc'[q] # "idle" => status'[job'[q]] # "none"
    BY <2>8, <1>c, <2>4 DEF ExecuteRequest
  <2>9. CASE Crash
    BY <2>9 DEF Crash
  <2> QED BY <2>1, <2>5, <2>6, <2>7, <2>8, <2>9 DEF Next, Request, StopLoad, SweepSee, RetryLoad,
             CallbackLoad, DeleteLoad, Expire, vars
<1>2. \A o \in Ops : op'[o].pc # "idle" => status'[op'[o].task] # "none"
  <2>1. CASE UNCHANGED op
    BY <2>1, OpsExist
  <2>2. ASSUME NEW o \in Ops, NEW l, op[o].pc # "idle", OpGoto(o, l)
        PROVE  \A q \in Ops : op'[q].pc # "idle" => status'[op'[q].task] # "none"
    BY <2>2, OpGotoEffect, OpsExist
  <2>3. ASSUME NEW o \in Ops, OpEnds(o)
        PROVE  \A q \in Ops : op'[q].pc # "idle" => status'[op'[q].task] # "none"
    BY <2>3, OpEndsEffect, OpsExist
  <2>4. ASSUME NEW o \in Ops, NEW l, NEW t \in Tasks, Begin(o, l, t)
        PROVE  \A q \in Ops : op'[q].pc # "idle" => status'[op'[q].task] # "none"
    BY <2>4, BeginEffect, OpsExist
  <2>5. ASSUME NEW r \in Runs, PromptReturns(r)
        PROVE  \A q \in Ops : op'[q].pc # "idle" => status'[op'[q].task] # "none"
    <3>1. \A q \in Ops : op'[q].pc = op[q].pc /\ op'[q].task = op[q].task
      BY <2>5 DEF TypeOK, PromptReturns
    <3> QED BY <3>1, OpsExist
  <2>6. ASSUME NEW o \in Ops, NEW t \in Tasks, RetryLoad(o, t) \/ CallbackLoad(o, t)
        PROVE  \A q \in Ops : op'[q].pc # "idle" => status'[op'[q].task] # "none"
    <3>1. ASSUME NEW new, op' = [op EXCEPT ![o] = new], new.task = t
          PROVE  \A q \in Ops : op'[q] = op[q] \/ op'[q].task = t
      BY <3>1 DEF TypeOK
    <3>2. CASE RetryLoad(o, t)
      <4> DEFINE new == [NoOp EXCEPT !.pc = "retrySave", !.task = t,
                                     !.sess = session[t], !.count = retries[t]]
      <4>1. new.task = t
        BY DEF NoOp
      <4>2. op' = [op EXCEPT ![o] = new] /\ status[t] # "none"
        BY <3>2 DEF RetryLoad, Settled
      <4> HIDE DEF new
      <4>3. \A q \in Ops : op'[q] = op[q] \/ op'[q].task = t
        BY <3>1, <4>1, <4>2
      <4> QED BY <4>2, <4>3, OpsExist
    <3>3. CASE CallbackLoad(o, t)
      <4>1. PICK v \in Verdicts :
              op' = [op EXCEPT ![o] = [NoOp EXCEPT !.pc = "callbackWrite", !.task = t, !.verdict = v]]
        BY <3>3 DEF CallbackLoad
      <4> DEFINE new == [NoOp EXCEPT !.pc = "callbackWrite", !.task = t, !.verdict = v]
      <4>2. new.task = t
        BY DEF NoOp
      <4>3. op' = [op EXCEPT ![o] = new] /\ status[t] # "none"
        BY <3>3, <4>1 DEF CallbackLoad
      <4> HIDE DEF new
      <4>4. \A q \in Ops : op'[q] = op[q] \/ op'[q].task = t
        BY <3>1, <4>2, <4>3
      <4> QED BY <4>3, <4>4, OpsExist
    <3> QED BY <2>6, <3>2, <3>3
  <2>7. CASE Crash
    BY <2>7 DEF Crash, NoOp
  <2>8. ASSUME NEW r \in Runs, RunStep(r)
        PROVE  \A q \in Ops : op'[q].pc # "idle" => status'[op'[q].task] # "none"
    BY <2>8, <2>1, <2>5 DEF RunStep, CountRunning, Claim, CreateSession,
       ChatWrite, LoadReview, StartReview, FetchDiff, RegisterCancel, LoadEngine,
       SaveRunning, RunStages, EngineWrite, FailReview, PostProcess, WakeNext, Unregister,
       GivesUp, Ignores
  <2>9. ASSUME NEW o \in Ops, OpStep(o)
        PROVE  \A q \in Ops : op'[q].pc # "idle" => status'[op'[q].task] # "none"
    BY <2>9, <2>2, <2>3 DEF OpStep, AbortSession, NotifyCancel, StopWrite, SweepWrite, OpWake,
       RetrySave, RetrySpawn, CallbackWrite, DeleteClear, OpFails
  <2>10. ASSUME NEW o \in Ops, NEW t \in Tasks, StopLoad(o, t) \/ SweepSee(o, t) \/ DeleteLoad(o, t)
         PROVE  \A q \in Ops : op'[q].pc # "idle" => status'[op'[q].task] # "none"
    BY <2>10, <2>4 DEF StopLoad, SweepSee, DeleteLoad
  <2> QED BY <2>1, <2>6, <2>7, <2>8, <2>9, <2>10 DEF Next, Request, Create, ExecuteRequest, Expire, vars
<1> QED BY <1>1, <1>2 DEF WorkExists

(* The tasks that are manned, which the refinement maps to TaskContract's.  *)
Crew == {t \in Tasks : Owned(t)}

(* Executions that stay keep their task manned.                            *)
LEMMA CrewKept ==
  ASSUME TypeOK,
         \A q \in Runs : \/ pc'[q] = pc[q] /\ job'[q] = job[q]
                         \/ pc[q] \notin Owning /\ pc'[q] \notin Owning
                         \/ pc[q] \in Owning /\ pc'[q] \in Owning /\ job'[q] = job[q]
  PROVE  Crew' = Crew
BY DEF Crew, Owned

(* So does one that moves on within its work.                              *)
LEMMA CrewGoto ==
  ASSUME TypeOK, NEW r \in Runs, NEW l \in Pcs, Goto(r, l)
  PROVE  /\ l \in Owning => Crew' = Crew \cup {job[r]}
         /\ l \notin Owning => Crew' = Crew \/ Crew' = Crew \ {job[r]}
         /\ l \notin Owning /\ pc[r] \notin Owning => Crew' = Crew
         /\ l \in Owning /\ pc[r] \in Owning => Crew' = Crew
<1>1. /\ pc'[r] = l /\ (l # "idle" => job'[r] = job[r]) /\ job[r] \in Tasks
      /\ \A q \in Runs : q # r => pc'[q] = pc[q] /\ job'[q] = job[q]
  BY GotoFrame DEF TypeOK
<1>2. "idle" \notin Owning
  BY DEF Owning
<1>3. l \in Owning => Crew' = Crew \cup {job[r]}
  BY <1>1, <1>2 DEF Crew, Owned
<1>4. l \notin Owning => Crew' = Crew \/ Crew' = Crew \ {job[r]}
  <2> SUFFICES ASSUME l \notin Owning PROVE Crew' = Crew \/ Crew' = Crew \ {job[r]}
    OBVIOUS
  <2>1. \A t \in Tasks : t # job[r] => (t \in Crew' <=> t \in Crew)
    BY <1>1 DEF Crew, Owned
  <2>2. job[r] \in Crew' => job[r] \in Crew
    BY <1>1 DEF Crew, Owned
  <2>3. Crew \subseteq Tasks /\ Crew' \subseteq Tasks
    BY DEF Crew
  <2> QED BY <2>1, <2>2, <2>3
<1>5. l \notin Owning /\ pc[r] \notin Owning => Crew' = Crew
  BY <1>1, CrewKept
<1>6. l \in Owning /\ pc[r] \in Owning => Crew' = Crew
  BY <1>1, <1>2, CrewKept
<1> QED BY <1>3, <1>4, <1>5, <1>6

(* A step that only starts goroutines mans nothing: they begin outside.     *)
LEMMA CrewStart ==
  ASSUME TypeOK,
         \A q \in Runs : \/ pc'[q] = pc[q] /\ job'[q] = job[q]
                         \/ pc[q] \notin Owning /\ pc'[q] \notin Owning
  PROVE  Crew' = Crew
BY CrewKept

(* The conditional write is a step of the contract or a stutter.           *)
LEMMA SettleOrSkip ==
  ASSUME TypeOK, NEW t \in Tasks, NEW s \in Settled, SetIfRunning(t, s),
         Crew' = Crew \/ Crew' = Crew \ {t}
  PROVE  [Contract!Next]_(Contract!vars)
<1>1. CASE status[t] = "running"
  <2>1. SetStatus(t, s)
    BY <1>1 DEF SetIfRunning, Settled
  <2>2. Contract!Settle(t)
    BY <1>1, <2>1 DEF Contract!Settle, Contract!Put, Contract!Outcomes, SetStatus, Crew, Settled
  <2> QED BY <2>2 DEF Contract!Next
<1>2. CASE status[t] # "running"
  <2>1. UNCHANGED <<status, orphaned>>
    BY <1>2 DEF SetIfRunning
  <2>2. CASE Crew' = Crew
    BY <2>1, <2>2 DEF Contract!vars, Crew
  <2>3. CASE Crew' = Crew \ {t}
    <3>1. Contract!Leave(t)
      BY <1>2, <2>1, <2>3 DEF Contract!Leave, Crew
    <3> QED BY <3>1 DEF Contract!Next
  <2> QED BY <2>2, <2>3
<1> QED BY <1>1, <1>2

(* Taking a task is a step of the contract.                                *)
LEMMA TakeStep ==
  ASSUME NEW t \in Tasks, status[t] # "none", SetStatus(t, "running"), Crew' = Crew \cup {t}
  PROVE  Contract!Next
<1>1. Contract!Take(t)
  BY DEF Contract!Take, Contract!Put, SetStatus, Crew
<1> QED BY <1>1 DEF Contract!Next

(* Putting a task into the queue is a step of the contract.                *)
LEMMA EnqueueStep ==
  ASSUME NEW t \in Tasks, SetStatus(t, "pending"), Crew' = Crew
  PROVE  Contract!Next
<1>1. Contract!Enqueue(t)
  BY DEF Contract!Enqueue, Contract!Put, SetStatus, Crew
<1> QED BY <1>1 DEF Contract!Next

(* A step that changes nothing the contract sees is a stutter.             *)
LEMMA StutterStep ==
  ASSUME UNCHANGED <<status, orphaned>>, Crew' = Crew
  PROVE  [Contract!Next]_(Contract!vars)
BY DEF Contract!vars, Crew

(* An execution that cannot write the outcome leaves or forsakes its task. *)
LEMMA ForsakeStep ==
  ASSUME TypeOK, NEW t \in Tasks, UNCHANGED status, orphaned' = Forsaken(t),
         Crew' = Crew \/ Crew' = Crew \ {t}
  PROVE  [Contract!Next]_(Contract!vars)
<1>1. CASE status[t] = "running"
  <2>1. Contract!Forsake(t)
    BY <1>1 DEF Contract!Forsake, Crew, Forsaken
  <2> QED BY <2>1 DEF Contract!Next
<1>2. CASE status[t] # "running" /\ Crew' = Crew \ {t}
  <2>1. Contract!Leave(t)
    BY <1>2 DEF Contract!Leave, Crew, Forsaken
  <2> QED BY <2>1 DEF Contract!Next
<1>3. CASE status[t] # "running" /\ Crew' = Crew
  BY <1>3, StutterStep DEF Forsaken
<1> QED BY <1>1, <1>2, <1>3

(* A step of an execution is a step of the contract or a stutter.          *)
LEMMA ContractRunStep ==
  ASSUME TypeOK, WorkExists, NEW r \in Runs, RunStep(r)
  PROVE  [Contract!Next]_(Contract!vars)
<1> USE DEF rows
<1>a. job[r] \in Tasks /\ pc \in [Runs -> Pcs]
  BY DEF TypeOK
<1>b. pc[r] # "idle" => status[job[r]] # "none"
  BY DEF WorkExists
<1>1. ASSUME NEW l \in Pcs, Goto(r, l), UNCHANGED <<status, orphaned>>,
             l \in Owning <=> pc[r] \in Owning
      PROVE  [Contract!Next]_(Contract!vars)
  BY <1>1, CrewGoto, StutterStep
<1>2. ASSUME NEW l \in Owning, Goto(r, l), SetStatus(job[r], "running"), pc[r] # "idle"
      PROVE  [Contract!Next]_(Contract!vars)
  <2>1. l \in Pcs
    BY WordsTyped DEF Owning
  <2> QED BY <1>2, <1>a, <1>b, <2>1, CrewGoto, TakeStep
<1>3. ASSUME NEW l \in Pcs, Goto(r, l), NEW s \in Settled, SetIfRunning(job[r], s),
             pc[r] \in Owning
      PROVE  [Contract!Next]_(Contract!vars)
  <2>1. Crew' = Crew \/ Crew' = Crew \ {job[r]}
    BY <1>3, CrewGoto
  <2> QED BY <1>3, <1>a, <2>1, SettleOrSkip
<1>4. CASE WakeNext(r)
  <2> DEFINE pcs == [pc EXCEPT ![r] = AfterReview(r)]
  <2>1. pcs \in [Runs -> Pcs]
    BY <1>a, WordsTyped DEF AfterReview
  <2>2. StartNextPending(ProjectOf[job[r]], pcs)
    BY <1>4 DEF WakeNext
  <2>3. \A q \in Runs : /\ pcs[q] # "idle" => pc'[q] = pcs[q] /\ job'[q] = job[q]
                        /\ pcs[q] = "idle" => pc'[q] \in {"idle", "load", "count"}
    BY <2>1, <2>2, WakeFrame
  <2>4. \A q \in Runs : \/ pc'[q] = pc[q] /\ job'[q] = job[q]
                        \/ pc[q] \notin Owning /\ pc'[q] \notin Owning
    BY <1>4, <1>a, <2>3 DEF WakeNext, AfterReview, Owning
  <2> QED BY <1>4, <2>4, CrewStart, StutterStep DEF WakeNext
<1>5. CASE CountRunning(r) \/ RunStages(r) \/ PostProcess(r) \/ Unregister(r) \/ RegisterCancel(r)
  <2>1. CASE CountRunning(r)
    BY <2>1, <1>1, WordsTyped DEF CountRunning, Owning
  <2>2. CASE RunStages(r)
    BY <2>2, <1>1, WordsTyped DEF RunStages, Owning
  <2>3. CASE PostProcess(r)
    BY <2>3, <1>1, WordsTyped DEF PostProcess, Owning
  <2>4. CASE Unregister(r)
    BY <2>4, <1>1, WordsTyped DEF Unregister, Owning
  <2>5. CASE RegisterCancel(r)
    BY <2>5, <1>1, WordsTyped DEF RegisterCancel, Owning
  <2> QED BY <1>5, <2>1, <2>2, <2>3, <2>4, <2>5
<1>6. CASE CreateSession(r) \/ PromptReturns(r) \/ FetchDiff(r) \/ LoadEngine(r)
  BY <1>6, <1>1, WordsTyped DEF CreateSession, PromptReturns, FetchDiff, LoadEngine, Owning
<1>7. CASE Claim(r) \/ StartReview(r)
  BY <1>7, <1>2 DEF Claim, StartReview, Owning
<1>8. CASE SaveRunning(r)
  BY <1>8, <1>2 DEF SaveRunning, Owning
<1>9. CASE ChatWrite(r)
  BY <1>9, <1>3, WordsTyped DEF ChatWrite, Owning, Settled
<1>10. CASE EngineWrite(r)
  BY <1>10, <1>3, WordsTyped DEF EngineWrite, Owning, Settled
<1>11. CASE FailReview(r)
  <2>1. AfterReview(r) \in Pcs
    BY WordsTyped DEF AfterReview
  <2> QED BY <1>11, <1>3, <2>1, WordsTyped DEF FailReview, Owning, Settled
<1>12. CASE LoadReview(r)
  <2>1. CASE status[job[r]] = "pending"
    BY <1>12, <2>1, <1>1, WordsTyped DEF LoadReview, Owning
  <2>2. CASE status[job[r]] # "pending"
    <3>1. Goto(r, "diff") /\ "diff" \in Owning /\ "diff" \in Pcs
      BY <1>12, <2>2, WordsTyped DEF LoadReview, Owning
    <3>2. Crew' = Crew \cup {job[r]}
      BY <3>1, CrewGoto
    <3>3. Contract!Join(job[r])
      BY <1>12, <1>b, <3>2 DEF LoadReview, Contract!Join, Crew
    <3> QED BY <1>a, <3>3 DEF Contract!Next
  <2> QED BY <2>1, <2>2
<1>13. CASE GivesUp(r)
  <2>1. AfterReview(r) \in Pcs /\ AfterReview(r) \notin Owning
    BY WordsTyped DEF AfterReview, Owning
  <2>2. CASE pc[r] = "fail"
    <3>1. Crew' = Crew \/ Crew' = Crew \ {job[r]}
      BY <1>13, <2>1, CrewGoto DEF GivesUp
    <3> QED BY <1>13, <1>a, <2>2, <3>1, ForsakeStep DEF GivesUp
  <2>3. CASE pc[r] # "fail"
    BY <1>13, <1>1, <2>1, <2>3 DEF GivesUp, Owning
  <2> QED BY <2>2, <2>3
<1>14. CASE Ignores(r)
  <2> PICK l \in Pcs : <<pc[r], l>> \in GoesOnTo /\ Goto(r, l)
    BY <1>14 DEF Ignores
  <2>0. UNCHANGED status
    BY <1>14 DEF Ignores
  <2>1. CASE pc[r] \in {"chatDone", "chatFail", "passed"}
    <3>1. l \notin Owning
      BY <2>1, GoesOnPlaces DEF Owning
    <3>2. orphaned' = Forsaken(job[r])
      BY <1>14, <2>1 DEF Ignores
    <3>3. Crew' = Crew \/ Crew' = Crew \ {job[r]}
      BY <3>1, CrewGoto
    <3> QED BY <1>a, <2>0, <3>2, <3>3, ForsakeStep
  <2>2. CASE pc[r] \in {"claim", "start"}
    <3>1. l \in Owning /\ UNCHANGED orphaned
      BY <1>14, <2>2, GoesOnPlaces DEF Ignores, Owning
    <3>2. Crew' = Crew \cup {job[r]}
      BY <3>1, CrewGoto
    <3>3. Contract!Join(job[r])
      BY <1>b, <2>0, <2>2, <3>1, <3>2 DEF Contract!Join, Crew
    <3> QED BY <1>a, <3>3 DEF Contract!Next
  <2>3. CASE pc[r] \in {"count", "session", "save", "broken"}
    <3>1. (l \in Owning <=> pc[r] \in Owning) /\ UNCHANGED orphaned
      BY <1>14, <2>3, GoesOnPlaces DEF Ignores, Owning
    <3> QED BY <1>1, <2>0, <3>1
  <2> QED BY <2>1, <2>2, <2>3, GoesOnPlaces
<1> QED BY <1>4, <1>5, <1>6, <1>7, <1>8, <1>9, <1>10, <1>11, <1>12, <1>13, <1>14 DEF RunStep

(* So is a step of a handler.                                              *)
LEMMA ContractOpStep ==
  ASSUME TypeOK, WorkExists, NEW o \in Ops, OpStep(o)
  PROVE  [Contract!Next]_(Contract!vars)
<1> USE DEF rows, procs
<1>a. op[o].task \in Tasks /\ op[o].verdict \in Verdicts /\ pc \in [Runs -> Pcs]
  BY DEF TypeOK
<1>b. UNCHANGED <<pc, job>> => Crew' = Crew
  BY DEF Crew, Owned
<1>1. CASE AbortSession(o) \/ NotifyCancel(o) \/ DeleteClear(o)
  BY <1>1, <1>b, StutterStep DEF AbortSession, NotifyCancel, DeleteClear
<1>2. CASE StopWrite(o) \/ SweepWrite(o)
  <2> PICK s \in {"stopped", "timeout"} : SetIfRunning(op[o].task, s)
    BY <1>2 DEF StopWrite, SweepWrite
  <2>1. Crew' = Crew /\ s \in Settled
    BY <1>2, <1>b DEF StopWrite, SweepWrite, Settled
  <2> QED BY <1>a, <2>1, SettleOrSkip
<1>3. CASE CallbackWrite(o)
  <2>0. Crew' = Crew /\ SetIfRunning(op[o].task, op[o].verdict)
    BY <1>3, <1>b DEF CallbackWrite
  <2>1. CASE op[o].verdict \in Settled
    BY <1>a, <2>0, <2>1, SettleOrSkip
  <2>2. CASE op[o].verdict = "running"
    BY <2>0, <2>2, StutterStep DEF SetIfRunning
  <2>3. CASE op[o].verdict = "pending"
    <3>1. SetStatus(op[o].task, "pending") \/ UNCHANGED <<status, orphaned>>
      BY <2>0, <2>3 DEF SetIfRunning
    <3> QED BY <1>a, <2>0, <3>1, EnqueueStep, StutterStep
  <2> QED BY <1>a, <2>1, <2>2, <2>3 DEF Verdicts, Settled
<1>4. CASE OpWake(o)
  <2>1. \A q \in Runs : /\ pc[q] # "idle" => pc'[q] = pc[q] /\ job'[q] = job[q]
                        /\ pc[q] = "idle" => pc'[q] \in {"idle", "load", "count"}
    BY <1>4, <1>a, WakeFrame DEF OpWake
  <2>2. Crew' = Crew
    BY <2>1, CrewStart DEF Owning
  <2> QED BY <1>4, <2>2, StutterStep DEF OpWake
<1>5. CASE RetrySave(o)
  BY <1>5, <1>a, <1>b, EnqueueStep DEF RetrySave
<1>6. CASE RetrySpawn(o)
  <2>1. Entry(op[o].task) \in {"load", "count"}
    BY DEF Entry
  <2>2. \A q \in Runs : /\ pc[q] # "idle" => pc'[q] = pc[q] /\ job'[q] = job[q]
                        /\ pc[q] = "idle" => pc'[q] \in {"idle", "load", "count"}
    BY <1>6, <1>a, <2>1, GoFrame DEF RetrySpawn
  <2>3. Crew' = Crew
    BY <2>2, CrewStart DEF Owning
  <2> QED BY <1>6, <2>3, StutterStep DEF RetrySpawn
<1>7. CASE OpFails(o)
  BY <1>7, <1>b, StutterStep DEF OpFails
<1> QED BY <1>1, <1>2, <1>3, <1>4, <1>5, <1>6, <1>7 DEF OpStep

(* Every step is a step of the contract or a stutter.                      *)
LEMMA ContractNext ==
  TypeOK /\ WorkExists /\ [Next]_vars => [Contract!Next]_(Contract!vars)
<1> SUFFICES ASSUME TypeOK, WorkExists, [Next]_vars PROVE [Contract!Next]_(Contract!vars)
  OBVIOUS
<1>a. pc \in [Runs -> Pcs]
  BY DEF TypeOK
<1>b. UNCHANGED <<pc, job>> => Crew' = Crew
  BY DEF Crew, Owned
<1>c. ASSUME NEW t \in Tasks, NEW e \in {"load", "count"}, Go(pc, t, e) PROVE Crew' = Crew
  <2>1. \A q \in Runs : /\ pc[q] # "idle" => pc'[q] = pc[q] /\ job'[q] = job[q]
                        /\ pc[q] = "idle" => pc'[q] \in {"idle", "load", "count"}
    BY <1>c, <1>a, GoFrame
  <2> QED BY <2>1, CrewStart DEF Owning
<1>1. ASSUME NEW t \in Tasks, Create(t) PROVE Contract!Next
  <2>1. Crew' = Crew
    BY <1>1, <1>c DEF Create, Entry
  <2> QED BY <1>1, <2>1, EnqueueStep DEF Create
<1>2. ASSUME NEW t \in Tasks, ExecuteRequest(t) PROVE [Contract!Next]_(Contract!vars)
  BY <1>2, <1>c, StutterStep DEF ExecuteRequest, rows
<1>3. ASSUME NEW o \in Ops, NEW t \in Tasks,
             \/ StopLoad(o, t) \/ SweepSee(o, t) \/ RetryLoad(o, t)
             \/ CallbackLoad(o, t) \/ DeleteLoad(o, t)
      PROVE  [Contract!Next]_(Contract!vars)
  BY <1>3, <1>b, StutterStep DEF StopLoad, SweepSee, RetryLoad, CallbackLoad, DeleteLoad, rows, procs
<1>4. ASSUME NEW t \in Tasks, Expire(t) PROVE [Contract!Next]_(Contract!vars)
  BY <1>4, <1>b, StutterStep DEF Expire, procs
<1>5. CASE Crash
  <2>1. Crew' = {}
    BY <1>5 DEF Crash, Crew, Owned, Owning
  <2>2. Contract!Die
    BY <1>5, <2>1 DEF Crash, Contract!Die, Crew
  <2> QED BY <2>2 DEF Contract!Next
<1>6. CASE UNCHANGED vars
  BY <1>6, <1>b, StutterStep DEF vars
<1> QED BY <1>1, <1>2, <1>3, <1>4, <1>5, <1>6, ContractRunStep, ContractOpStep DEF Next, Request

(* The task service implements its contract: whatever executes, stops,      *)
(* sweeps, calls back, retries, fails or dies, the status column and the    *)
(* set of executions still at work move as TaskContract allows.             *)
THEOREM ServiceKeepsContract == Spec => KeepsContract
<1>1. Init => Contract!Init
  <2>1. Init => Crew = {}
    BY DEF Init, Crew, Owned, Owning
  <2> QED BY <2>1 DEF Init, Contract!Init, Crew
<1>2. Init => WorkExists
  BY DEF Init, WorkExists, NoOp
<1>3. Spec => []WorkExists
  BY <1>2, WorkNext, TypeCorrect, PTL DEF Spec
<1> QED BY <1>1, <1>3, ContractNext, TypeCorrect, PTL DEF Spec, KeepsContract, Contract!Spec
=============================================================================
