---------------------------- MODULE TaskLifecycle ----------------------------
(***************************************************************************)
(* The life of review tasks: the rows of table tasks, the goroutines that  *)
(* execute them, and the handlers and the cron sweep that stop, retry,     *)
(* settle or time them out while they run.                                 *)
(*   backend/internal/service/task.go, opencode.go, pipeline/engine.go     *)
(*                                                                         *)
(* Every SQL statement, every access to the cancel registry under its      *)
(* mutex and every call to OpenCode is one step; whatever the code holds   *)
(* in local variables between two of them is kept in the goroutine's or    *)
(* the handler's state, so a stale read stays stale. A statement of the    *)
(* database may fail, and then changes nothing: what the code does about   *)
(* it, return or go on as if it had not failed, is in GivesUp, Ignores and *)
(* OpFails.                                                                *)
(*                                                                         *)
(* Abstracted: the text of prompts, reports and comments; the stages of    *)
(* one pipeline run (module PipelineEngine); wall-clock time, of which     *)
(* only "the timeout has passed since started_at" is kept.                 *)
(***************************************************************************)
EXTENDS Naturals, FiniteSets

CONSTANTS
  NTasks,      \* how many tasks are created; task t is the t-th by created_at
  Projects,    \* the projects tasks belong to
  ProjectOf,   \* [Tasks -> Projects]
  KindOf,      \* [Tasks -> {"chat", "bugfix", "review"}], column task_type
  Runs,        \* goroutines executing a task (bound on how many are alive)
  Ops,         \* handler calls and sweep iterations in flight (bound)
  Requests,    \* the requests clients issue, a subset of RequestKinds
  StatementsFail, \* whether a statement of the database may fail
  None,        \* no session, no channel
  MaxRetries,  \* bound on retry_count
  MaxCrashes   \* bound on how often the server process dies

Tasks        == 1..NTasks
RequestKinds == {"create", "apiCreate", "execute", "stop", "retry",
                 "callback", "deleteSession"}

ASSUME TaskAssumption ==
  /\ NTasks \in Nat \ {0} /\ MaxRetries \in Nat /\ MaxCrashes \in Nat
  /\ ProjectOf \in [Tasks -> Projects]
  /\ KindOf \in [Tasks -> {"chat", "bugfix", "review"}]
  /\ Requests \subseteq RequestKinds /\ StatementsFail \in BOOLEAN
  /\ None \notin Runs /\ "old" \notin Runs /\ None # "old"

VARIABLES
  status,    \* tasks.status; "none" before the row exists
  started,   \* tasks.started_at: "nil", "recent", or "expired" (timeout passed)
  session,   \* tasks.opencode_session_id: the run that sits in SendPrompt on
             \* that session, "old" for a session nobody waits on, or None
  retries,   \* tasks.retry_count
  pc,        \* where each goroutine is; "idle" when there is none
  job,       \* the task a goroutine executes
  held,      \* the columns a run's engine read and will save back unchanged
  channel,   \* a run's cancel channel: "none" (not made), "open", "closed"
  registry,  \* pipelineCancelChans: task -> the run whose channel it holds
  aborted,   \* runs whose OpenCode session was aborted or deleted under them
  op,        \* handler calls and sweep iterations in flight
  orphaned,  \* history: running tasks whose execution died with the process
             \* or could not write their outcome
  crashes    \* how often the process died

rows  == <<status, started, session, retries>>
procs == <<pc, job, held, channel>>
vars  == <<status, started, session, retries, pc, job, held, channel, registry,
           aborted, op, orphaned, crashes>>

Settled  == {"success", "failed", "stopped", "timeout"}
Statuses == {"none", "pending", "running"} \cup Settled

ChatPcs   == {"count", "claim", "session", "prompt", "chatDone", "chatFail"}
ReviewPcs == {"load", "start", "diff", "register", "engine", "save",
              "stages", "passed", "broken", "fail", "post"}
Pcs       == {"idle", "wake", "unregister"} \cup ChatPcs \cup ReviewPcs

Verdicts == {"success", "failed", "running", "pending"}

NoOp == [pc |-> "idle", task |-> 1, sess |-> None, count |-> 0, verdict |-> "pending"]

OpPcs == {"idle", "stopAbort", "stopNotify", "stopWrite", "sweepAbort",
          "sweepWrite", "opWake", "retrySave", "retrySpawn", "callbackWrite",
          "deleteCall", "deleteClear"}

Sessions == Runs \cup {None, "old"}
Nothing  == [sess |-> None, count |-> 0]

TypeOK ==
  /\ status \in [Tasks -> Statuses]
  /\ started \in [Tasks -> {"nil", "recent", "expired"}]
  /\ session \in [Tasks -> Sessions]
  /\ retries \in [Tasks -> Nat]
  /\ pc \in [Runs -> Pcs]
  /\ job \in [Runs -> Tasks]
  /\ held \in [Runs -> [sess : Sessions, count : Nat]]
  /\ channel \in [Runs -> {"none", "open", "closed"}]
  /\ registry \in [Tasks -> Runs \cup {None}]
  /\ aborted \subseteq Runs
  /\ op \in [Ops -> [pc : OpPcs, task : Tasks, sess : Sessions, count : Nat,
                     verdict : Verdicts]]
  /\ orphaned \subseteq Tasks
  /\ crashes \in Nat

Init ==
  /\ status = [t \in Tasks |-> "none"]
  /\ started = [t \in Tasks |-> "nil"]
  /\ session = [t \in Tasks |-> None]
  /\ retries = [t \in Tasks |-> 0]
  /\ pc = [r \in Runs |-> "idle"]
  /\ job = [r \in Runs |-> 1]
  /\ held = [r \in Runs |-> Nothing]
  /\ channel = [r \in Runs |-> "none"]
  /\ registry = [t \in Tasks |-> None]
  /\ aborted = {}
  /\ op = [o \in Ops |-> NoOp]
  /\ orphaned = {}
  /\ crashes = 0

-----------------------------------------------------------------------------
(* Writes to a row, and the choice of the executor for a task.             *)

SetStatus(t, s) ==                       \* UPDATE ... WHERE id = t
  /\ status' = [status EXCEPT ![t] = s]
  /\ orphaned' = orphaned \ {t}

SetIfRunning(t, s) ==                    \* ... AND status = 'running'
  IF status[t] = "running" /\ s # "running"
  THEN SetStatus(t, s) ELSE UNCHANGED <<status, orphaned>>

Entry(t) == IF KindOf[t] = "review" THEN "load" ELSE "count"

(* What a goroutine was working on is forgotten once it has ended.         *)
Forget(pcs, jobs) == [r \in Runs |-> IF pcs[r] = "idle" THEN 1 ELSE jobs[r]]

(* go ExecuteAIReviewTask(t) or go Execute(t) in a free goroutine of pcs.  *)
Go(pcs, t, entry) ==
  \E n \in Runs : /\ pcs[n] = "idle"
                  /\ pc' = [pcs EXCEPT ![n] = entry]
                  /\ job' = [Forget(pcs, job) EXCEPT ![n] = t]

EarliestPending(p) ==
  {t \in Tasks : /\ ProjectOf[t] = p /\ status[t] = "pending"
                 /\ \A u \in Tasks : ProjectOf[u] = p /\ status[u] = "pending" => t <= u}

WakeNobody(p, pcs) == pc' = pcs /\ job' = Forget(pcs, job)      \* mutant

StartNextPending(p, pcs) ==
  \/ /\ EarliestPending(p) = {}
     /\ pc' = pcs /\ job' = Forget(pcs, job)
  \/ \E t \in EarliestPending(p) : Go(pcs, t, Entry(t))

Goto(r, l) ==
  /\ pc' = [pc EXCEPT ![r] = l]
  /\ job' = IF l = "idle" THEN [job EXCEPT ![r] = 1] ELSE job

-----------------------------------------------------------------------------
(* Execute / ExecuteWithComment: the OpenCode path.                        *)

OtherChatRunning(t) ==
  \E u \in Tasks : /\ u # t /\ ProjectOf[u] = ProjectOf[t]
                   /\ status[u] = "running" /\ KindOf[u] = "chat"

CountRunning(r) ==
  /\ pc[r] = "count"
  /\ Goto(r, IF OtherChatRunning(job[r]) THEN "idle" ELSE "claim")
  /\ UNCHANGED <<rows, held, channel, registry, aborted, op, orphaned, crashes>>

Claim(r) ==
  /\ pc[r] = "claim"
  /\ SetStatus(job[r], "running")
  /\ Goto(r, "session")
  /\ UNCHANGED <<started, session, retries, held, channel, registry, aborted, op, crashes>>

CreateSession(r) ==
  /\ pc[r] = "session"
  /\ \/ /\ Goto(r, "chatFail")           \* pool, login or set-up failed
        /\ UNCHANGED <<started, session>>
     \/ /\ Goto(r, "prompt")
        /\ started' = [started EXCEPT ![job[r]] = "recent"]
        /\ session' = [session EXCEPT ![job[r]] = r]
  /\ UNCHANGED <<status, retries, held, channel, registry, aborted, op, orphaned, crashes>>

(* SendPrompt returns; nobody waits on the session any more.               *)
PromptReturns(r) ==
  /\ pc[r] = "prompt"
  /\ Goto(r, "chatFail") \/ Goto(r, "chatDone")
  /\ session' = [t \in Tasks |-> IF session[t] = r THEN "old" ELSE session[t]]
  /\ op' = [o \in Ops |-> IF op[o].sess = r THEN [op[o] EXCEPT !.sess = "old"] ELSE op[o]]
  /\ held' = [q \in Runs |-> IF held[q].sess = r THEN [held[q] EXCEPT !.sess = "old"] ELSE held[q]]
  /\ aborted' = aborted \ {r}
  /\ UNCHANGED <<status, started, retries, channel, registry, orphaned, crashes>>

ChatWriteNoFailure(r) ==                 \* mutant: an error just returns
  /\ pc[r] \in {"chatDone", "chatFail"}
  /\ IF pc[r] = "chatDone" THEN SetIfRunning(job[r], "success")
                           ELSE UNCHANGED <<status, orphaned>>
  /\ Goto(r, "wake")
  /\ UNCHANGED <<started, session, retries, held, channel, registry, aborted, op, crashes>>

ChatWrite(r) ==
  /\ \/ /\ pc[r] = "chatDone" /\ SetIfRunning(job[r], "success")
        /\ session' = IF status[job[r]] = "running"
                      THEN [session EXCEPT ![job[r]] = "old"] ELSE session
     \/ /\ pc[r] = "chatFail" /\ SetIfRunning(job[r], "failed")
        /\ UNCHANGED session
  /\ Goto(r, "wake")
  /\ UNCHANGED <<started, retries, held, channel, registry, aborted, op, crashes>>

-----------------------------------------------------------------------------
(* ExecuteAIReviewTask / executePipelineReviewTask / Engine.ExecuteTask.   *)

LoadReview(r) ==
  /\ pc[r] = "load"
  /\ Goto(r, IF status[job[r]] = "pending" THEN "start" ELSE "diff")
  /\ UNCHANGED <<rows, held, channel, registry, aborted, op, orphaned, crashes>>

StartReview(r) ==
  /\ pc[r] = "start"
  /\ SetStatus(job[r], "running")
  /\ started' = [started EXCEPT ![job[r]] = "recent"]
  /\ Goto(r, "diff")
  /\ UNCHANGED <<session, retries, held, channel, registry, aborted, op, crashes>>

FetchDiffNoFailure(r) ==                 \* mutant: a GitLab error just returns
  /\ pc[r] = "diff"
  /\ Goto(r, "idle") \/ Goto(r, "register")
  /\ UNCHANGED <<rows, held, channel, registry, aborted, op, orphaned, crashes>>

FetchDiff(r) ==
  /\ pc[r] = "diff"
  /\ Goto(r, "fail") \/ Goto(r, "register")
  /\ UNCHANGED <<rows, held, channel, registry, aborted, op, orphaned, crashes>>

(* registerPipelineCancel overwrites whatever the registry holds.          *)
RegisterCancel(r) ==
  /\ pc[r] = "register"
  /\ registry' = [registry EXCEPT ![job[r]] = r]
  /\ channel' = [channel EXCEPT ![r] = "open"]
  /\ Goto(r, "engine")
  /\ UNCHANGED <<rows, held, aborted, op, orphaned, crashes>>

(* The engine loads the row once more; it refuses the task (scheduler,     *)
(* stage table) or saves the whole row as it read it, now running.         *)
LoadEngine(r) ==
  /\ pc[r] = "engine"
  /\ \/ Goto(r, "fail") /\ UNCHANGED held
     \/ /\ Goto(r, "save")
        /\ held' = [held EXCEPT ![r] = [sess |-> session[job[r]], count |-> retries[job[r]]]]
  /\ UNCHANGED <<rows, channel, registry, aborted, op, orphaned, crashes>>

SaveRunning(r) ==
  /\ pc[r] = "save"
  /\ SetStatus(job[r], "running")
  /\ started' = [started EXCEPT ![job[r]] = "recent"]
  /\ session' = [session EXCEPT ![job[r]] = held[r].sess]
  /\ retries' = [retries EXCEPT ![job[r]] = held[r].count]
  /\ held' = [held EXCEPT ![r] = Nothing]
  /\ Goto(r, "stages")
  /\ UNCHANGED <<channel, registry, aborted, op, crashes>>

(* All stages passed, or one failed, timed out or saw the cancellation.    *)
RunStages(r) ==
  /\ pc[r] = "stages"
  /\ Goto(r, "passed") \/ Goto(r, "broken")
  /\ UNCHANGED <<rows, held, channel, registry, aborted, op, orphaned, crashes>>

EngineWrite(r) ==
  /\ \/ pc[r] = "passed" /\ SetIfRunning(job[r], "success") /\ Goto(r, "post")
     \/ pc[r] = "broken" /\ SetIfRunning(job[r], "failed") /\ Goto(r, "fail")
  /\ UNCHANGED <<started, session, retries, held, channel, registry, aborted, op, crashes>>

(* Where executePipelineReviewTask returns: its deferred unregister runs   *)
(* only if the channel was registered.                                     *)
AfterReview(r) == IF channel[r] = "none" THEN "idle" ELSE "unregister"

FailReview(r) ==
  /\ pc[r] = "fail"
  /\ SetIfRunning(job[r], "failed")
  /\ Goto(r, IF status[job[r]] = "running" THEN "wake" ELSE AfterReview(r))
  /\ UNCHANGED <<started, session, retries, held, channel, registry, aborted, op, crashes>>

PostProcess(r) ==
  /\ pc[r] = "post"
  /\ Goto(r, "wake")
  /\ UNCHANGED <<rows, held, channel, registry, aborted, op, orphaned, crashes>>

WakeNext(r) ==
  /\ pc[r] = "wake"
  /\ StartNextPending(ProjectOf[job[r]], [pc EXCEPT ![r] = AfterReview(r)])
  /\ UNCHANGED <<rows, held, channel, registry, aborted, op, orphaned, crashes>>

(* unregisterPipelineCancel deletes the task's entry, whoever put it there. *)
Unregister(r) ==
  /\ pc[r] = "unregister"
  /\ registry' = [registry EXCEPT ![job[r]] = None]
  /\ channel' = [channel EXCEPT ![r] = "none"]
  /\ Goto(r, "idle")
  /\ UNCHANGED <<rows, held, aborted, op, orphaned, crashes>>

(* The row is not reached any more, be it by an execution that could not   *)
(* write how its task ended.                                               *)
Forsaken(t) == IF status[t] = "running" THEN orphaned \cup {t} ELSE orphaned

(* A statement fails and the execution returns: it cannot read its task,   *)
(* not even to post-process it, or failReviewTask's update or the look     *)
(* into the queue fails and is taken for "no row". Nobody wakes the queue. *)
GivesUp(r) ==
  /\ StatementsFail
  /\ pc[r] \in {"count", "load", "fail", "post", "wake"}
  /\ Goto(r, AfterReview(r))
  /\ orphaned' = IF pc[r] = "fail" THEN Forsaken(job[r]) ELSE orphaned
  /\ UNCHANGED <<rows, held, channel, registry, aborted, op, crashes>>

(* A statement fails and the execution goes on as if it had not: the error *)
(* of every other read and write is logged at most.                        *)
GoesOnTo ==
  {<<"count", "claim">>, <<"claim", "session">>, <<"session", "prompt">>,
   <<"chatDone", "wake">>, <<"chatFail", "wake">>, <<"start", "diff">>,
   <<"save", "stages">>, <<"passed", "post">>, <<"broken", "fail">>}

Ignores(r) ==
  /\ StatementsFail
  /\ \E l \in Pcs : <<pc[r], l>> \in GoesOnTo /\ Goto(r, l)
  /\ orphaned' = IF pc[r] \in {"chatDone", "chatFail", "passed"}
                 THEN Forsaken(job[r]) ELSE orphaned
  /\ held' = IF pc[r] = "save" THEN [held EXCEPT ![r] = Nothing] ELSE held
  /\ UNCHANGED <<rows, channel, registry, aborted, op, crashes>>

RunStep(r) ==
  \/ GivesUp(r) \/ Ignores(r)
  \/ CountRunning(r) \/ Claim(r) \/ CreateSession(r) \/ PromptReturns(r)
  \/ ChatWrite(r) \/ LoadReview(r) \/ StartReview(r) \/ FetchDiff(r)
  \/ RegisterCancel(r) \/ LoadEngine(r) \/ SaveRunning(r) \/ RunStages(r)
  \/ EngineWrite(r) \/ FailReview(r) \/ PostProcess(r) \/ WakeNext(r) \/ Unregister(r)

-----------------------------------------------------------------------------
(* Requests. A handler that spans several statements occupies a slot of op. *)

Begin(o, l, t) ==
  /\ op[o].pc = "idle" /\ status[t] # "none"
  /\ op' = [op EXCEPT ![o] = [NoOp EXCEPT !.pc = l, !.task = t, !.sess = session[t]]]

OpGoto(o, l) == op' = [op EXCEPT ![o] = [NoOp EXCEPT !.pc = l, !.task = op[o].task]]
OpEnds(o)    == op' = [op EXCEPT ![o] = NoOp]

(* Create, then the goroutine the caller starts: the webhook starts the    *)
(* executor of the task's kind, POST /tasks always starts Execute.         *)
Create(t) ==
  /\ status[t] = "none" /\ \A u \in Tasks : u < t => status[u] # "none"
  /\ SetStatus(t, "pending")
  /\ \/ "create" \in Requests /\ Go(pc, t, Entry(t))
     \/ "apiCreate" \in Requests /\ Go(pc, t, "count")
  /\ UNCHANGED <<started, session, retries, held, channel, registry, aborted, op, crashes>>

(* POST /tasks/:id/execute: no look at the status, and always Execute.     *)
ExecuteRequest(t) ==
  /\ "execute" \in Requests /\ status[t] # "none"
  /\ Go(pc, t, "count")
  /\ UNCHANGED <<rows, held, channel, registry, aborted, op, orphaned, crashes>>

(* Abort: read the row, abort its session, notify, write, wake the queue.  *)
StopLoad(o, t) ==
  /\ "stop" \in Requests
  /\ Begin(o, IF session[t] = None THEN "stopNotify" ELSE "stopAbort", t)
  /\ UNCHANGED <<rows, procs, registry, aborted, orphaned, crashes>>

AbortSession(o) ==
  /\ \/ op[o].pc = "stopAbort" /\ OpGoto(o, "stopNotify")
     \/ op[o].pc = "sweepAbort" /\ OpGoto(o, "sweepWrite")
     \/ op[o].pc = "deleteCall" /\ OpGoto(o, "deleteClear")
  /\ aborted' = aborted \cup ({op[o].sess} \cap Runs)
  /\ UNCHANGED <<rows, procs, registry, orphaned, crashes>>

NotifyCancelKept(o) ==                   \* mutant: the closed channel stays
  /\ op[o].pc = "stopNotify"
  /\ channel' = [r \in Runs |-> IF registry[op[o].task] = r THEN "closed" ELSE channel[r]]
  /\ OpGoto(o, "stopWrite")
  /\ UNCHANGED <<rows, pc, job, held, registry, aborted, orphaned, crashes>>

(* notifyPipelineCancel: close the registered channel and forget it.       *)
NotifyCancel(o) ==
  /\ op[o].pc = "stopNotify"
  /\ LET r == registry[op[o].task]
     IN IF r = None
        THEN UNCHANGED <<registry, channel>>
        ELSE /\ registry' = [registry EXCEPT ![op[o].task] = None]
             /\ channel' = [channel EXCEPT ![r] = "closed"]
  /\ OpGoto(o, "stopWrite")
  /\ UNCHANGED <<rows, pc, job, held, aborted, orphaned, crashes>>

StopWrite(o) ==
  /\ op[o].pc = "stopWrite"
  /\ SetIfRunning(op[o].task, "stopped")
  /\ OpGoto(o, "opWake")
  /\ UNCHANGED <<started, session, retries, procs, registry, aborted, crashes>>

(* One iteration of TimeoutCheck's loop over the rows it read. Sweeps      *)
(* overlap: cron starts the next one whether or not the last has ended.    *)
SweepSee(o, t) ==
  /\ status[t] = "running" /\ started[t] = "expired"
  /\ Begin(o, IF session[t] = None THEN "sweepWrite" ELSE "sweepAbort", t)
  /\ UNCHANGED <<rows, procs, registry, aborted, orphaned, crashes>>

SweepWrite(o) ==
  /\ op[o].pc = "sweepWrite"
  /\ SetIfRunning(op[o].task, "timeout")
  /\ OpGoto(o, "opWake")
  /\ UNCHANGED <<started, session, retries, procs, registry, aborted, crashes>>

OpWake(o) ==
  /\ op[o].pc = "opWake"
  /\ StartNextPending(ProjectOf[op[o].task], pc)
  /\ OpEnds(o)
  /\ UNCHANGED <<rows, held, channel, registry, aborted, orphaned, crashes>>

(* Retry saves the whole row it read, so session and retry_count go back   *)
(* to what they were then; the row may have changed in between.            *)
RetryLoad(o, t) ==
  /\ "retry" \in Requests
  /\ status[t] \in Settled \cup {"pending"} /\ retries[t] < MaxRetries
  /\ op[o].pc = "idle"
  /\ op' = [op EXCEPT ![o] = [NoOp EXCEPT !.pc = "retrySave", !.task = t,
                                          !.sess = session[t], !.count = retries[t]]]
  /\ UNCHANGED <<rows, procs, registry, aborted, orphaned, crashes>>

RetrySave(o) ==
  /\ op[o].pc = "retrySave"
  /\ SetStatus(op[o].task, "pending")
  /\ started' = [started EXCEPT ![op[o].task] = "recent"]
  /\ session' = [session EXCEPT ![op[o].task] = op[o].sess]
  /\ retries' = [retries EXCEPT ![op[o].task] = op[o].count + 1]
  /\ OpGoto(o, "retrySpawn")
  /\ UNCHANGED <<procs, registry, aborted, crashes>>

RetrySpawn(o) ==
  /\ op[o].pc = "retrySpawn"
  /\ Go(pc, op[o].task, Entry(op[o].task))
  /\ OpEnds(o)
  /\ UNCHANGED <<rows, held, channel, registry, aborted, orphaned, crashes>>

CallbackLoadRaw(o, t) ==                 \* mutant: OpenCode's word is taken as it is
  /\ "callback" \in Requests
  /\ op[o].pc = "idle" /\ status[t] # "none"
  /\ \E v \in {"completed", "failed"} :
       op' = [op EXCEPT ![o] = [NoOp EXCEPT !.pc = "callbackWrite", !.task = t, !.verdict = v]]
  /\ UNCHANGED <<rows, procs, registry, aborted, orphaned, crashes>>

(* OpenCode's callback. With no started_at the handler panics and gin      *)
(* recovers it; a status it does not know is written as pending.           *)
CallbackLoad(o, t) ==
  /\ "callback" \in Requests
  /\ \E v \in Verdicts :
       /\ v \in {"success", "failed"} => started[t] # "nil"
       /\ op[o].pc = "idle" /\ status[t] # "none"
       /\ op' = [op EXCEPT ![o] = [NoOp EXCEPT !.pc = "callbackWrite", !.task = t,
                                               !.verdict = v]]
  /\ UNCHANGED <<rows, procs, registry, aborted, orphaned, crashes>>

CallbackWrite(o) ==
  /\ op[o].pc = "callbackWrite"
  /\ SetIfRunning(op[o].task, op[o].verdict)
  /\ OpEnds(o)
  /\ UNCHANGED <<started, session, retries, procs, registry, aborted, crashes>>

(* DeleteTaskSession: delete the session it read, then clear the column.   *)
DeleteLoad(o, t) ==
  /\ "deleteSession" \in Requests /\ session[t] # None
  /\ Begin(o, "deleteCall", t)
  /\ UNCHANGED <<rows, procs, registry, aborted, orphaned, crashes>>

DeleteClear(o) ==
  /\ op[o].pc = "deleteClear"
  /\ session' = [session EXCEPT ![op[o].task] = None]
  /\ OpEnds(o)
  /\ UNCHANGED <<status, started, retries, procs, registry, aborted, orphaned, crashes>>

(* A statement fails: the handlers answer with the error or, deleting a    *)
(* session, without it; the sweep logs it and looks into the queue all the *)
(* same.                                                                   *)
OpFails(o) ==
  /\ StatementsFail
  /\ \/ /\ op[o].pc \in {"stopWrite", "opWake", "retrySave", "callbackWrite", "deleteClear"}
        /\ OpEnds(o)
     \/ op[o].pc = "sweepWrite" /\ OpGoto(o, "opWake")
  /\ UNCHANGED <<rows, procs, registry, aborted, orphaned, crashes>>

OpStep(o) ==
  \/ OpFails(o) \/ AbortSession(o) \/ NotifyCancel(o) \/ StopWrite(o) \/ SweepWrite(o) \/ OpWake(o)
  \/ RetrySave(o) \/ RetrySpawn(o) \/ CallbackWrite(o) \/ DeleteClear(o)

Request ==
  \/ \E t \in Tasks : Create(t) \/ ExecuteRequest(t)
  \/ \E o \in Ops, t \in Tasks : \/ StopLoad(o, t) \/ RetryLoad(o, t)
                                 \/ CallbackLoad(o, t) \/ DeleteLoad(o, t)

-----------------------------------------------------------------------------
(* Time and process death.                                                 *)

Expire(t) ==
  /\ started[t] = "recent" /\ status[t] \in {"pending", "running"}
  /\ started' = [started EXCEPT ![t] = "expired"]
  /\ UNCHANGED <<status, session, retries, procs, registry, aborted, op, orphaned, crashes>>

(* The process dies and is started again: goroutines, handlers and the     *)
(* registry are gone, the rows stay, and nothing at startup looks at them. *)
Crash ==
  /\ crashes < MaxCrashes
  /\ crashes' = crashes + 1
  /\ pc' = [r \in Runs |-> "idle"]
  /\ job' = [r \in Runs |-> 1]
  /\ held' = [r \in Runs |-> Nothing]
  /\ channel' = [r \in Runs |-> "none"]
  /\ registry' = [t \in Tasks |-> None]
  /\ aborted' = {}
  /\ op' = [o \in Ops |-> NoOp]
  /\ session' = [t \in Tasks |-> IF session[t] = None THEN None ELSE "old"]
  /\ orphaned' = {t \in Tasks : status[t] = "running"}
  /\ UNCHANGED <<status, started, retries>>

Next ==
  \/ \E r \in Runs : RunStep(r)
  \/ \E o \in Ops : OpStep(o)
  \/ \E o \in Ops, t \in Tasks : SweepSee(o, t)
  \/ Request
  \/ \E t \in Tasks : Expire(t)
  \/ Crash

Spec == Init /\ [][Next]_vars

(* Goroutines and handlers are scheduled, every call to OpenCode and to a  *)
(* model ends (client and stage timeouts), time passes, and the sweep runs *)
(* every ten seconds for ever. Clients owe nothing and nothing must crash. *)
Fairness ==
  /\ \A r \in Runs : WF_vars(RunStep(r))
  /\ \A o \in Ops : WF_vars(OpStep(o))
  /\ \A t \in Tasks : WF_vars(Expire(t)) /\ SF_vars(\E o \in Ops : SweepSee(o, t))

FairSpec == Spec /\ Fairness

-----------------------------------------------------------------------------
(* Properties.                                                             *)

(* Where a goroutine is still going to write the outcome of its task.      *)
Owning == {"session", "prompt", "chatDone", "chatFail", "diff", "register",
           "engine", "save", "stages", "passed", "broken", "fail"}
Registered == {"engine", "save", "stages", "passed", "broken", "fail", "post", "wake",
               "unregister"}

Owned(t) == \E r \in Runs : job[r] = t /\ pc[r] \in Owning

(* A running task always has a goroutine that will still settle it, unless *)
(* the process died under it or the statement that writes the outcome      *)
(* failed: whatever stops, timeouts, callbacks, retries and duplicate      *)
(* executions interleave, no other exit path leaves a row running.         *)
NoOrphanRunning == \A t \in Tasks : status[t] = "running" => Owned(t) \/ t \in orphaned

(* The cancel registry never holds the channel of an execution that ended, *)
(* of another task, or one already closed: notifyPipelineCancel's close()  *)
(* can neither miss its run nor panic on a channel closed before.          *)
RegistrySound ==
  \A t \in Tasks : registry[t] # None =>
    /\ job[registry[t]] = t
    /\ pc[registry[t]] \in Registered
    /\ channel[registry[t]] = "open"

(* The outcome of a task is written once: a settled row never changes to   *)
(* another outcome unless it was started or retried in between, although   *)
(* the executor, Stop, the sweep and the callback all race to write it.    *)
OutcomeStands ==
  [][\A t \in Tasks : status[t] \in Settled =>
       status'[t] \in {status[t], "pending", "running"}]_vars

(* No wake-up is lost, as long as the process lives and its statements     *)
(* succeed: while a task waits in its project's queue, somebody is alive   *)
(* who will look at that queue again, a goroutine that has not yet passed  *)
(* startNextPendingTask or a handler on its way to it.                     *)
Waking == {"stopAbort", "stopNotify", "stopWrite", "sweepAbort", "sweepWrite",
           "opWake", "retrySave", "retrySpawn"}

Watched(t) ==
  \/ \E r \in Runs : /\ pc[r] \notin {"idle", "unregister"}
                     /\ ProjectOf[job[r]] = ProjectOf[t]
  \/ \E o \in Ops : /\ op[o].pc \in Waking
                    /\ ProjectOf[op[o].task] = ProjectOf[t]

NoLostWakeup == \A t \in Tasks : status[t] = "pending" => Watched(t)

(* The steps that may lose a wake-up: the process dies; a statement fails  *)
(* and an execution, a stop, a retry or the look into the queue itself     *)
(* returns with the error; a review fails whose row is not running any     *)
(* more, and failReviewTask returns before startNextPendingTask; or what   *)
(* was left running without an execution is waited for by a chat, or put   *)
(* back into the queue by the callback.                                    *)
Loses(t) ==
  \/ Crash
  \/ \E r \in Runs : GivesUp(r) /\ ProjectOf[job[r]] = ProjectOf[t]
  \/ \E o \in Ops : /\ OpFails(o) /\ op[o].pc \in {"stopWrite", "opWake", "retrySave"}
                    /\ ProjectOf[op[o].task] = ProjectOf[t]
  \/ \E r \in Runs : /\ FailReview(r) /\ status[job[r]] # "running"
                     /\ ProjectOf[job[r]] = ProjectOf[t]
  \/ \E r \in Runs, u \in orphaned :
       CountRunning(r) /\ status[u] = "running" /\ ProjectOf[u] = ProjectOf[t]
  \/ \E o \in Ops : CallbackWrite(o) /\ op[o].task = t /\ t \in orphaned

(* Nothing else does, for tasks of every kind and whatever is requested    *)
(* meanwhile: each other way out of an execution or a handler leaves the   *)
(* project's queue to somebody who will look at it.                        *)
FewLoseWakeups ==
  [][\A t \in Tasks : /\ status[t] = "pending" => Watched(t)
                      /\ status'[t] = "pending" /\ ~Watched(t)'
                      => Loses(t)]_vars

(* A task in the queue is eventually taken from it, as long as statements  *)
(* succeed.                                                                *)
QueueProgress ==
  \A t \in Tasks : status[t] = "pending" ~> status[t] # "pending"

(* A running task does not stay running for ever.                          *)
RunningEnds ==
  \A t \in Tasks : status[t] = "running" ~> status[t] # "running"

(* The service keeps its contract: seen through the status column and the  *)
(* set of tasks an execution will still settle, every step is a step of    *)
(* TaskContract. Outcomes are given to running tasks only, never replaced, *)
(* and no execution leaves its task running.                               *)
Contract == INSTANCE TaskContract WITH
  phase  <- status,
  manned <- {t \in Tasks : Owned(t)},
  lost   <- orphaned

KeepsContract == Contract!Spec
=============================================================================
