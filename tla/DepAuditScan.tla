----------------------------- MODULE DepAuditScan -----------------------------
(***************************************************************************)
(* Dependency audit: a scan task has one run per project and attempt; the  *)
(* runs execute in goroutines behind a semaphore while handlers trigger,   *)
(* cancel, retry and delete tasks.                                         *)
(*   backend/internal/service/depaudit/scan.go, collect.go                 *)
(*                                                                         *)
(* Every SQL statement, mutex operation and use of a run's cancel function *)
(* is a step.  runCancels holds a run's function exactly while the run is  *)
(* inside execute, and scanSem one token per such run, so both are read    *)
(* off pc.  A statement may fail, and then changes nothing; only LoadRun,  *)
(* Claim, Succeed, RecTask and the insert of a run look at its error.      *)
(* Abstracted: what a scan finds (dependencies, licences, vulnerabilities, *)
(* their counters on run and task), the SBOM of a finished task, branches, *)
(* and finished_at.                                                        *)
(***************************************************************************)
EXTENDS Naturals, FiniteSets

CONSTANTS
  Projects,   \* the projects of the organization
  NTasks,     \* bound on tasks ever created
  NRuns,      \* bound on run rows ever created
  Ops,        \* handler calls in flight (bound)
  Requests,   \* what clients ask: subset of RequestKinds
  Slots,      \* capacity of scanSem (defaultConcurrency)
  Faults,     \* which statements may fail: subset of FaultKinds
  Nobody      \* holder of a free project lock

Tasks  == 1..NTasks
RunIds == 1..NRuns
RequestKinds == {"trigger", "cancel", "retry", "delete"}

(* Statements about one run, searches for runs, those about a task.        *)
FaultKinds == {"run", "search", "task"}

ASSUME ScanAssumption ==
  /\ Projects # {} /\ NTasks \in Nat \ {0} /\ NRuns \in Nat \ {0} /\ Slots \in Nat \ {0}
  /\ Requests \subseteq RequestKinds /\ Faults \subseteq FaultKinds
  /\ Nobody \notin Ops \cup RunIds /\ Ops \cap RunIds = {}

VARIABLES
  task,      \* status of each task row, "none" when there is no row
  run,       \* the run rows
  lastTask,  \* the newest task id
  lastRun,   \* the newest run id
  lock,      \* projectLocks: who holds the mutex of a project
  pc,        \* the goroutine of each run
  ctx,       \* the context of a run in execute
  verdict,   \* what the goroutine holds: the status to finish the run with,
             \* then what recomputeTask read and derived
  op,        \* handler calls in flight
  \* Auxiliary: what has become of statements that failed.
  stuck,     \* runs whose claim or end was lost with one
  blind      \* runs queued although the search for active ones failed

vars == <<task, run, lastTask, lastRun, lock, pc, ctx, verdict, op, stuck, blind>>

Active       == {"queued", "running"}
RunOutcomes  == {"success", "failed", "skipped", "cancelled"}
RunStatuses  == {"none"} \cup Active \cup RunOutcomes
TaskOutcomes == {"success", "partial", "failed", "cancelled"}
TaskStatuses == {"none"} \cup Active \cup TaskOutcomes

Executing == {"load", "claim", "prepare", "collect", "collecting", "scan", "check",
              "succeed", "finish", "recTask", "recRuns", "recWrite", "leave"}
Pcs == {"none", "waiting", "ended", "killed"} \cup Executing

Items == [project : Projects, attempt : Nat]
OpPcs == {"idle", "lock", "check", "insert", "skip", "blind", "spawn", "find",
          "signal", "markRun"}

AnyProject == CHOOSE p \in Projects : TRUE
NoItem == [project |-> AnyProject, attempt |-> 0]
NoOp == [pc |-> "idle", kind |-> "trigger", task |-> 1, todo |-> {}, item |-> NoItem,
         targets |-> {}, target |-> 1, made |-> {}]
NoRun == [task |-> 1, project |-> AnyProject, attempt |-> 0, status |-> "none"]

TypeOK ==
  /\ task \in [Tasks -> TaskStatuses]
  /\ run \in [RunIds -> [task : Tasks, project : Projects, attempt : Nat,
                         status : RunStatuses]]
  /\ lastTask \in 0..NTasks /\ lastRun \in 0..NRuns
  /\ lock \in [Projects -> Ops \cup RunIds \cup {Nobody}]
  /\ pc \in [RunIds -> Pcs]
  /\ ctx \in [RunIds -> {"live", "cancelled", "expired"}]
  /\ verdict \in [RunIds -> TaskStatuses \cup RunStatuses]
  /\ op \in [Ops -> [pc : OpPcs, kind : RequestKinds, task : Tasks,
                     todo : SUBSET Items, item : Items, targets : SUBSET RunIds,
                     target : RunIds, made : SUBSET RunIds]]
  /\ stuck \subseteq RunIds /\ blind \subseteq RunIds

Init ==
  /\ task = [t \in Tasks |-> "none"]
  /\ run = [r \in RunIds |-> NoRun]
  /\ lastTask = 0 /\ lastRun = 0
  /\ lock = [p \in Projects |-> Nobody]
  /\ pc = [r \in RunIds |-> "none"]
  /\ ctx = [r \in RunIds |-> "live"]
  /\ verdict = [r \in RunIds |-> "none"]
  /\ op = [o \in Ops |-> NoOp]
  /\ stuck = {} /\ blind = {}

-----------------------------------------------------------------------------
(* The tables.                                                             *)

(* What a search gives that should have found something.                   *)
Search(found) == {found} \cup (IF "search" \in Faults THEN {{}} ELSE {})

SetRun(r, s) == run' = [run EXCEPT ![r].status = s]

SetRunIfActive(r, s) ==
  run' = IF run[r].status \in Active THEN [run EXCEPT ![r].status = s] ELSE run

(* A deleted task matches no row, and nobody looks whether this failed.    *)
SetTask(t, s) ==
  \/ (task[t] = "none" \/ "task" \in Faults) /\ UNCHANGED task
  \/ task[t] # "none" /\ task' = [task EXCEPT ![t] = s]

(* The statement about a run that is under way fails.                      *)
RunFault(r) ==
  /\ "run" \in Faults
  /\ UNCHANGED run
  /\ stuck' = IF run[r].status \in Active THEN stuck \cup {r} ELSE stuck

(* The update of a run that is still active; when it fails nobody sees.    *)
Settle(r, s) ==
  \/ SetRunIfActive(r, s) /\ stuck' = stuck \ {r}
  \/ RunFault(r)

ActiveRuns(p) == {r \in RunIds : run[r].project = p /\ run[r].status \in Active}

RunsOf(t) == {r \in RunIds : run[r].task = t /\ run[r].status # "none"}

(* The run with the highest attempt of each project; two runs of the same  *)
(* attempt come in an order the query does not fix.                        *)
LatestOf(t) ==
  {f \in SUBSET RunsOf(t) :
     /\ \A r \in RunsOf(t) : \E q \in f : run[q].project = run[r].project
     /\ \A q, r \in f : run[q].project = run[r].project => q = r
     /\ \A q \in f, r \in RunsOf(t) :
          run[q].project = run[r].project => run[r].attempt <= run[q].attempt}

(* recomputeTask: the task's status from the one it read and those of its  *)
(* latest runs.                                                            *)
Derived(seen, found) ==
  IF seen = "cancelled" THEN "cancelled"
  ELSE IF found \cap Active # {} THEN "running"
  ELSE IF found = {"success"} THEN "success"
  ELSE IF "success" \in found THEN "partial"
  ELSE IF found = {"cancelled"} THEN "cancelled"
  ELSE "failed"

-----------------------------------------------------------------------------
(* A run's goroutine: schedule and execute.                                *)

Goto(r, l) == pc' = [pc EXCEPT ![r] = l]

FinishAs(r, s) ==
  /\ Goto(r, "finish")
  /\ verdict' = [verdict EXCEPT ![r] = s]

(* scanSem <- struct{}{}; execute then makes a context and stores its      *)
(* cancel function.                                                        *)
Acquire(r) ==
  /\ pc[r] = "waiting"
  /\ Cardinality({q \in RunIds : pc[q] \in Executing}) < Slots
  /\ Goto(r, "load")
  /\ UNCHANGED <<task, run, lastTask, lastRun, lock, ctx, verdict, op, stuck, blind>>

LoadRun(r) ==
  /\ pc[r] = "load"
  /\ \/ /\ Goto(r, IF run[r].status = "queued" THEN "claim" ELSE "leave")
        /\ UNCHANGED <<run, stuck>>
     \/ RunFault(r) /\ Goto(r, "leave")
  /\ UNCHANGED <<task, lastTask, lastRun, lock, ctx, verdict, op, blind>>

Claim(r) ==                          \* UPDATE ... WHERE status = 'queued'
  /\ pc[r] = "claim"
  /\ \/ /\ run[r].status = "queued"
        /\ SetRun(r, "running") /\ Goto(r, "prepare") /\ UNCHANGED stuck
     \/ /\ run[r].status # "queued"
        /\ UNCHANGED run /\ Goto(r, "leave") /\ UNCHANGED stuck
     \/ RunFault(r) /\ Goto(r, "leave")
  /\ UNCHANGED <<task, lastTask, lastRun, lock, ctx, verdict, op, blind>>

(* The project is missing, or its coordinates are collected first, or the  *)
(* snapshot there is will do.                                              *)
Prepare(r) ==
  /\ pc[r] = "prepare"
  /\ \/ FinishAs(r, "failed")
     \/ (Goto(r, "collect") \/ Goto(r, "scan")) /\ UNCHANGED verdict
  /\ UNCHANGED <<task, run, lastTask, lastRun, lock, ctx, op, stuck, blind>>

(* CollectProject clones and parses under the project's mutex; its error   *)
(* does not end the run.                                                   *)
Collect(r) ==
  /\ pc[r] = "collect" /\ lock[run[r].project] = Nobody
  /\ lock' = [lock EXCEPT ![run[r].project] = r]
  /\ Goto(r, "collecting")
  /\ UNCHANGED <<task, run, lastTask, lastRun, ctx, verdict, op, stuck, blind>>

EndCollect(r) ==
  /\ pc[r] = "collecting"
  /\ lock' = [p \in Projects |-> IF lock[p] = r THEN Nobody ELSE lock[p]]
  /\ Goto(r, "scan")
  /\ UNCHANGED <<task, run, lastTask, lastRun, ctx, verdict, op, stuck, blind>>

(* No dependencies; or the items cannot be stored, or a panic; or done.    *)
Scan(r) ==
  /\ pc[r] = "scan"
  /\ \/ FinishAs(r, "skipped") \/ FinishAs(r, "failed")
     \/ Goto(r, "check") /\ UNCHANGED verdict
  /\ UNCHANGED <<task, run, lastTask, lastRun, lock, ctx, op, stuck, blind>>

CheckContext(r) ==
  /\ pc[r] = "check"
  /\ \/ ctx[r] = "live" /\ Goto(r, "succeed") /\ UNCHANGED verdict
     \/ ctx[r] = "expired" /\ FinishAs(r, "failed")
     \/ ctx[r] = "cancelled" /\ Goto(r, "recTask") /\ UNCHANGED verdict
  /\ UNCHANGED <<task, run, lastTask, lastRun, lock, ctx, op, stuck, blind>>

(* The final update has no condition on the status.                        *)
Succeed(r) ==
  /\ pc[r] = "succeed"
  /\ \/ /\ IF run[r].status = "none" THEN UNCHANGED run ELSE SetRun(r, "success")
        /\ Goto(r, "recTask") /\ UNCHANGED verdict
     \/ FinishAs(r, "failed") /\ UNCHANGED run
  /\ UNCHANGED <<task, lastTask, lastRun, lock, ctx, op, stuck, blind>>

FinishRunWhenLive(r) ==              \* mutant: an expired run writes nothing
  /\ pc[r] = "finish"
  /\ IF ctx[r] = "live" THEN SetRunIfActive(r, verdict[r]) ELSE UNCHANGED run
  /\ Goto(r, "recTask")
  /\ UNCHANGED <<task, lastTask, lastRun, lock, ctx, verdict, op, stuck, blind>>

FinishRun(r) ==                      \* finishRun and finishRunSkipped
  /\ pc[r] = "finish"
  /\ Settle(r, verdict[r])
  /\ Goto(r, "recTask")
  /\ UNCHANGED <<task, lastTask, lastRun, lock, ctx, verdict, op, blind>>

(* recomputeTask: read the task, read its runs (none when that fails),     *)
(* write the result.                                                       *)
RecTask(r) ==
  /\ pc[r] = "recTask"
  /\ \/ /\ task[run[r].task] # "none" /\ Goto(r, "recRuns")
        /\ verdict' = [verdict EXCEPT ![r] = task[run[r].task]]
     \/ /\ task[run[r].task] = "none" \/ "task" \in Faults
        /\ Goto(r, "leave") /\ UNCHANGED verdict
  /\ UNCHANGED <<task, run, lastTask, lastRun, lock, ctx, op, stuck, blind>>

RecRuns(r) ==
  /\ pc[r] = "recRuns"
  /\ \E l \in LatestOf(run[r].task) : \E f \in Search(l) :
       verdict' = [verdict EXCEPT ![r] = Derived(verdict[r], {run[q].status : q \in f})]
  /\ Goto(r, "recWrite")
  /\ UNCHANGED <<task, run, lastTask, lastRun, lock, ctx, op, stuck, blind>>

RecWrite(r) ==
  /\ pc[r] = "recWrite"
  /\ SetTask(run[r].task, verdict[r])
  /\ Goto(r, "leave")
  /\ UNCHANGED <<run, lastTask, lastRun, lock, ctx, verdict, op, stuck, blind>>

(* runCancels.Delete, cancel, <-scanSem.                                   *)
Leave(r) ==
  /\ pc[r] = "leave"
  /\ Goto(r, "ended")
  /\ ctx' = [ctx EXCEPT ![r] = "live"]
  /\ verdict' = [verdict EXCEPT ![r] = "none"]
  /\ UNCHANGED <<task, run, lastTask, lastRun, lock, op, stuck, blind>>

(* projectTimeout passes.                                                  *)
Expire(r) ==
  /\ pc[r] \in {"collecting", "scan", "check"} /\ ctx[r] = "live"
  /\ ctx' = [ctx EXCEPT ![r] = "expired"]
  /\ UNCHANGED <<task, run, lastTask, lastRun, lock, pc, verdict, op, stuck, blind>>

RunStep(r) ==
  \/ Acquire(r) \/ LoadRun(r) \/ Claim(r) \/ Prepare(r) \/ Collect(r)
  \/ EndCollect(r) \/ Scan(r) \/ CheckContext(r) \/ Succeed(r) \/ FinishRun(r)
  \/ RecTask(r) \/ RecRuns(r) \/ RecWrite(r) \/ Leave(r)

-----------------------------------------------------------------------------
(* Handlers: TriggerProjects / TriggerOrg and RetryTask.                   *)

SetOp(o, new) == op' = [op EXCEPT ![o] = new]

OpGoto(o, l) == op' = [op EXCEPT ![o].pc = l]

Trigger(o) ==
  /\ "trigger" \in Requests /\ op[o].pc = "idle" /\ lastTask < NTasks
  /\ lastTask' = lastTask + 1
  /\ task' = [task EXCEPT ![lastTask + 1] = "queued"]
  /\ \E ps \in SUBSET Projects \ {{}} :
       SetOp(o, [NoOp EXCEPT !.pc = "lock", !.kind = "trigger", !.task = lastTask + 1,
                             !.todo = [project : ps, attempt : {1}]])
  /\ UNCHANGED <<run, lastRun, lock, pc, ctx, verdict, stuck, blind>>

(* The latest run of each chosen project, if it did not succeed, is tried  *)
(* again as the next attempt.                                              *)
Retry(o) ==
  /\ "retry" \in Requests /\ op[o].pc = "idle"
  /\ \E t \in Tasks, ps \in SUBSET Projects : \E f \in LatestOf(t) :
       /\ task[t] # "none"
       /\ LET again == {r \in f : /\ run[r].project \in ps
                                  /\ run[r].status \in RunOutcomes \ {"success"}}
          IN /\ again # {}
             /\ SetOp(o, [NoOp EXCEPT !.pc = "lock", !.kind = "retry", !.task = t,
                          !.todo = {[project |-> run[r].project,
                                     attempt |-> run[r].attempt + 1] : r \in again}])
  /\ UNCHANGED <<task, run, lastTask, lastRun, lock, pc, ctx, verdict, stuck, blind>>

Lock(o) ==
  /\ op[o].pc = "lock"
  /\ \E i \in op[o].todo :
       /\ lock[i.project] = Nobody
       /\ lock' = [lock EXCEPT ![i.project] = o]
       /\ op' = [op EXCEPT ![o].pc = "check", ![o].item = i, ![o].todo = @ \ {i}]
  /\ UNCHANGED <<task, run, lastTask, lastRun, pc, ctx, verdict, stuck, blind>>

CheckUnlocked(o) ==                  \* mutant: the check is made before Lock
  /\ op[o].pc = "check"
  /\ OpGoto(o, IF ActiveRuns(op[o].item.project) = {} THEN "insert" ELSE "skip")
  /\ lock' = [lock EXCEPT ![op[o].item.project] = Nobody]
  /\ UNCHANGED <<task, run, lastTask, lastRun, pc, ctx, verdict, stuck, blind>>

(* hasActiveRun; a retry drops the project, a trigger records a skipped    *)
(* run for it.  A Count that fails counts nothing.                         *)
Check(o) ==
  /\ op[o].pc = "check"
  /\ LET busy == ActiveRuns(op[o].item.project) # {}
     IN \/ ~busy /\ OpGoto(o, "insert") /\ UNCHANGED lock
        \/ busy /\ op[o].kind = "trigger" /\ OpGoto(o, "skip") /\ UNCHANGED lock
        \/ /\ busy /\ op[o].kind = "retry" /\ OpGoto(o, "lock")
           /\ lock' = [lock EXCEPT ![op[o].item.project] = Nobody]
        \/ "search" \in Faults /\ OpGoto(o, "blind") /\ UNCHANGED lock
  /\ UNCHANGED <<task, run, lastTask, lastRun, pc, ctx, verdict, stuck, blind>>

NewRun(o, s) == [task |-> op[o].task, project |-> op[o].item.project,
                 attempt |-> op[o].item.attempt, status |-> s]

(* db.Create(run) and Unlock.                                              *)
Insert(o) ==
  /\ op[o].pc \in {"insert", "skip", "blind"}
  /\ \/ /\ lastRun < NRuns
        /\ lastRun' = lastRun + 1
        /\ run' = [run EXCEPT ![lastRun + 1] =
                     NewRun(o, IF op[o].pc = "skip" THEN "skipped" ELSE "queued")]
        /\ op' = [op EXCEPT ![o].pc = "lock",
                            ![o].made = IF op[o].pc = "skip" THEN @ ELSE @ \cup {lastRun + 1}]
        /\ blind' = IF op[o].pc = "blind" THEN blind \cup {lastRun + 1} ELSE blind
     \/ OpGoto(o, "lock") /\ UNCHANGED <<run, lastRun, blind>>
  /\ lock' = [lock EXCEPT ![op[o].item.project] = Nobody]
  /\ UNCHANGED <<task, lastTask, pc, ctx, verdict, stuck>>

NothingMade(o) ==
  /\ op[o].pc = "lock" /\ op[o].todo = {} /\ op[o].made = {}
  /\ IF op[o].kind = "trigger" THEN SetTask(op[o].task, "failed") ELSE UNCHANGED task
  /\ SetOp(o, NoOp)
  /\ UNCHANGED <<run, lastTask, lastRun, lock, pc, ctx, verdict, stuck, blind>>

(* A retried task is shown as running before its runs are scheduled.       *)
MarkRetried(o) ==
  /\ op[o].pc = "lock" /\ op[o].todo = {} /\ op[o].made # {} /\ op[o].kind = "retry"
  /\ SetTask(op[o].task, "running")
  /\ OpGoto(o, "spawn")
  /\ UNCHANGED <<run, lastTask, lastRun, lock, pc, ctx, verdict, stuck, blind>>

ScheduleOne(o) ==                    \* mutant: only one goroutine is started
  /\ \/ op[o].pc = "spawn"
     \/ /\ op[o].pc = "lock" /\ op[o].todo = {} /\ op[o].made # {}
        /\ op[o].kind = "trigger"
  /\ \E r \in op[o].made : pc' = [pc EXCEPT ![r] = "waiting"]
  /\ SetOp(o, NoOp)
  /\ UNCHANGED <<task, run, lastTask, lastRun, lock, ctx, verdict, stuck, blind>>

Schedule(o) ==
  /\ \/ op[o].pc = "spawn"
     \/ /\ op[o].pc = "lock" /\ op[o].todo = {} /\ op[o].made # {}
        /\ op[o].kind = "trigger"
  /\ pc' = [r \in RunIds |-> IF r \in op[o].made THEN "waiting" ELSE pc[r]]
  /\ SetOp(o, NoOp)
  /\ UNCHANGED <<task, run, lastTask, lastRun, lock, ctx, verdict, stuck, blind>>

-----------------------------------------------------------------------------
(* Handlers: CancelTask, DeleteTask.                                       *)

CancelLoad(o) ==
  /\ "cancel" \in Requests /\ op[o].pc = "idle"
  /\ \E t \in Tasks :
       /\ task[t] \notin {"none", "success", "failed", "cancelled"}
       /\ SetOp(o, [NoOp EXCEPT !.pc = "find", !.kind = "cancel", !.task = t])
  /\ UNCHANGED <<task, run, lastTask, lastRun, lock, pc, ctx, verdict, stuck, blind>>

CancelFind(o) ==                     \* a search that fails finds nothing
  /\ op[o].pc = "find"
  /\ \E found \in Search({r \in RunsOf(op[o].task) : run[r].status \in Active}) :
       op' = [op EXCEPT ![o].pc = "signal", ![o].targets = found]
  /\ UNCHANGED <<task, run, lastTask, lastRun, lock, pc, ctx, verdict, stuck, blind>>

(* The cancel function of the next run is called if it is in runCancels.   *)
CancelSignal(o) ==
  /\ op[o].pc = "signal"
  /\ \E r \in op[o].targets :
       /\ ctx' = IF pc[r] \in Executing /\ ctx[r] = "live"
                 THEN [ctx EXCEPT ![r] = "cancelled"] ELSE ctx
       /\ op' = [op EXCEPT ![o].pc = "markRun", ![o].target = r,
                           ![o].targets = @ \ {r}]
  /\ UNCHANGED <<task, run, lastTask, lastRun, lock, pc, verdict, stuck, blind>>

CancelMarkUnchecked(o) ==                                         \* mutant
  /\ op[o].pc = "markRun"
  /\ SetRun(op[o].target, "cancelled")
  /\ OpGoto(o, "signal")
  /\ UNCHANGED <<task, lastTask, lastRun, lock, pc, ctx, verdict, stuck, blind>>

CancelMark(o) ==
  /\ op[o].pc = "markRun"
  /\ Settle(op[o].target, "cancelled")
  /\ OpGoto(o, "signal")
  /\ UNCHANGED <<task, lastTask, lastRun, lock, pc, ctx, verdict, blind>>

CancelWrite(o) ==
  /\ op[o].pc = "signal" /\ op[o].targets = {}
  /\ SetTask(op[o].task, "cancelled")
  /\ SetOp(o, NoOp)
  /\ UNCHANGED <<run, lastTask, lastRun, lock, pc, ctx, verdict, stuck, blind>>

(* One transaction; goroutines of deleted runs go on.                      *)
Delete(o) ==
  /\ "delete" \in Requests /\ op[o].pc = "idle"
  /\ \E t \in Tasks :
       /\ task[t] # "none"
       /\ task' = [task EXCEPT ![t] = "none"]
       /\ run' = [r \in RunIds |-> IF run[r].task = t /\ run[r].status # "none"
                                   THEN [run[r] EXCEPT !.status = "none"] ELSE run[r]]
  /\ UNCHANGED <<lastTask, lastRun, lock, pc, ctx, verdict, op, stuck, blind>>

OpStep(o) ==
  \/ Lock(o) \/ Check(o) \/ Insert(o) \/ NothingMade(o) \/ MarkRetried(o)
  \/ Schedule(o) \/ CancelFind(o) \/ CancelSignal(o) \/ CancelMark(o)
  \/ CancelWrite(o)

Begin(o) == Trigger(o) \/ Retry(o) \/ CancelLoad(o) \/ Delete(o)

-----------------------------------------------------------------------------
(* The process dies and starts again: RecoverStale fails every queued run  *)
(* and those that started long enough ago, then recomputes their tasks,    *)
(* before anything else runs.  Its search or its update may fail too, and  *)
(* then what was queued stays so.                                          *)
Restart ==
  /\ \E old \in SUBSET {r \in RunIds : run[r].status = "running"} :
     \E stale \in Search(old \cup {r \in RunIds : run[r].status = "queued"}) :
       /\ \/ run' = [r \in RunIds |-> IF r \in stale THEN [run[r] EXCEPT !.status = "failed"]
                                    ELSE run[r]]
          \/ "run" \in Faults /\ UNCHANGED run
       /\ stuck' = {r \in RunIds : run'[r].status = "queued"}
       /\ \E f \in [Tasks -> SUBSET RunIds] :
            /\ \A t \in Tasks : \E l \in LatestOf(t) : f[t] \in Search(l)
            /\ task' = [t \in Tasks |->
                 IF \E r \in stale : run[r].task = t
                 THEN Derived(task[t], {run'[q].status : q \in f[t]}) ELSE task[t]]
  /\ lock' = [p \in Projects |-> Nobody]
  /\ pc' = [r \in RunIds |-> IF pc[r] = "none" /\ r > lastRun THEN "none" ELSE "killed"]
  /\ ctx' = [r \in RunIds |-> "live"]
  /\ verdict' = [r \in RunIds |-> "none"]
  /\ op' = [o \in Ops |-> NoOp]
  /\ UNCHANGED <<lastTask, lastRun, blind>>

Next ==
  \/ \E r \in RunIds : RunStep(r) \/ Expire(r)
  \/ \E o \in Ops : OpStep(o) \/ Begin(o)
  \/ Restart

Spec == Init /\ [][Next]_vars

(* Handlers and goroutines are scheduled; a channel wakes its senders in   *)
(* the order they came and a mutex does not starve those who wait for it.  *)
LiveSpec ==
  /\ Spec
  /\ \A r \in RunIds : SF_vars(RunStep(r))
  /\ \A o \in Ops : SF_vars(OpStep(o))

-----------------------------------------------------------------------------
(* Properties.                                                             *)

(* A project has two runs queued or running (scan.go:86) only if the later *)
(* was queued after a search for active ones that failed, however          *)
(* triggers, retries, cancels and deletes overlap.                         *)
AtMostOneActive ==
  \A q, r \in RunIds :
    (/\ run[q].status \in Active /\ run[r].status \in Active
     /\ run[q].project = run[r].project /\ q < r) => r \in blind

(* A queued run has a goroutine that will claim it, or a handler that will *)
(* start one; a running run has a goroutine that will finish it, or the    *)
(* handler that cancelled it will mark it.  After a restart RecoverStale   *)
(* (main.go:116) sees to all but those that ran and had started recently.  *)
(* Otherwise the statement that would have claimed or settled it failed    *)
(* (scan.go:159, 169, 489, 685, 695, 604), and it blocks its project until *)
(* it is cancelled or the server is started again.                         *)
ActiveHasExecutor ==
  \A r \in RunIds \ stuck :
    /\ run[r].status = "queued" =>
         pc[r] \in {"waiting", "load", "claim"} \/ \E o \in Ops : r \in op[o].made
    /\ run[r].status = "running" =>
         \/ pc[r] \in {"prepare", "collect", "collecting", "scan", "check",
                       "succeed", "finish", "killed"}
         \/ \E o \in Ops : op[o].pc = "markRun" /\ op[o].target = r

(* A run that ended by itself keeps its outcome until its task is deleted. *)
RunOutcomeStands ==
  [][\A r \in RunIds : run[r].status \in {"success", "failed", "skipped"} =>
       run'[r].status \in {run[r].status, "none"}]_vars

(* Seen without handlers, goroutines and locks, this is what becomes of    *)
(* the runs.                                                               *)
Runs == INSTANCE ScanRuns WITH
  phase <- [r \in RunIds |-> run[r].status],
  owner <- [r \in RunIds |-> run[r].project],
  made  <- lastRun,
  dead  <- {r \in RunIds : pc[r] = "killed"}

(* However requests, goroutines, failures and restarts overlap, a run is   *)
(* queued only where none is active or where nobody could tell, claimed    *)
(* once, and ends as ScanRuns says.                                        *)
ImplementsRuns == Runs!Spec

(* A cancelled task is not overwritten by the end of one of its runs       *)
(* (scan.go:412); only a retry starts it again.                            *)
CancelledTaskStands ==
  [][\A t \in Tasks : task[t] = "cancelled" =>
       \/ task'[t] \in {"cancelled", "none"}
       \/ \E o \in Ops : op[o].kind = "retry" /\ op[o].task = t]_vars

(* Every run that is queued leaves the queue and ends, once the server     *)
(* stays up, unless it was running when the server died, or the statement  *)
(* that would have claimed or settled it failed.                           *)
RunsSettle ==
  <>[][~Restart]_vars =>
    \A r \in RunIds :
      run[r].status = "queued" ~>
        \/ run[r].status \notin Active \/ r \in stuck
        \/ run[r].status = "running" /\ pc[r] = "killed"
=============================================================================
