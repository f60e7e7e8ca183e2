---------------------------- MODULE PipelineEngine ----------------------------
(***************************************************************************)
(* The stages of a review: Engine.ExecuteTask walks the stage table in     *)
(* sort order and keeps one row per stage in task_pipeline_executions.     *)
(*   backend/internal/service/pipeline/engine.go, context.go               *)
(*                                                                         *)
(* All runs of ONE review task are modelled.  Retry starts a new run       *)
(* without waiting for the previous one, so several runs may walk the      *)
(* stages at the same time and share the table: a dependency is looked up  *)
(* by task and stage only, never by run.                                   *)
(*                                                                         *)
(* Abstracted: what a stage computes, durations and tokens, the child rows *)
(* a group stage adds, snapshots and broadcasts.  How a stopped, retried   *)
(* or timed out task row is written is module TaskLifecycle; here those    *)
(* requests are single steps.                                              *)
(***************************************************************************)
EXTENDS Naturals, Sequences

CONSTANTS
  NStages,        \* rows of review_pipeline_stages; a stage is its position
  NRuns,          \* executions of the task (bound on retries)
  Registered,     \* stages NewEngine has an executor for
  Requires,       \* [Stages -> SUBSET Stages], column required_stages
  AllowedToSkip,  \* stages that are skipped, not failed, without their stages
  Configs,        \* the enabled sets an organization's configuration may give
  Downstream,     \* stages that pull in Understanding when enabled
  Understanding,  \* the stage code_understanding
  Restarts        \* BOOLEAN: the server process may die

Stages == 1..NStages
Runs   == 1..NRuns

ASSUME EngineAssumption ==
  /\ NStages \in Nat \ {0} /\ NRuns \in Nat \ {0}
  /\ Registered \subseteq Stages /\ AllowedToSkip \subseteq Stages
  /\ Requires \in [Stages -> SUBSET Stages]
  /\ Configs \subseteq SUBSET Stages /\ Configs # {}
  /\ Downstream \subseteq Stages /\ Understanding \in Stages
  /\ Restarts \in BOOLEAN

VARIABLES
  status,    \* tasks.status of the task
  registry,  \* pipelineCancelChans[task]: the run whose channel it holds, or 0
  closed,    \* the runs whose cancel channel was closed
  loopDone,  \* the runs whose stage loop has been told (ctx.Done is ready)
  stageDone, \* the runs whose current stage has been told
  pc,        \* where each run is
  at,        \* the stage each run is at; NStages + 1 after the last
  mine,      \* the row each run holds in exec, 0 for none
  enabled,   \* enabledMap of each run
  table      \* task_pipeline_executions of the task, by primary key

vars == <<status, registry, closed, loopDone, stageDone, pc, at, mine, enabled, table>>

Statuses  == {"pending", "running", "success", "failed", "stopped", "timeout"}
RowStates == {"pending", "running", "success", "failed", "skipped"}
Pcs == {"none", "start", "register", "enter", "next", "deps", "unmet", "mark",
        "exec", "passed", "broken", "fail", "leave", "ended", "killed"}

Rows == [stage : Stages, state : RowStates, run : Runs, gone : BOOLEAN]

TypeOK ==
  /\ status \in Statuses
  /\ registry \in Runs \cup {0}
  /\ closed \subseteq Runs /\ loopDone \subseteq Runs /\ stageDone \subseteq Runs
  /\ pc \in [Runs -> Pcs]
  /\ at \in [Runs -> 1..(NStages + 1)]
  /\ mine \in [Runs -> Nat]
  /\ enabled \in [Runs -> SUBSET Stages]
  /\ table \in Seq(Rows)

Init ==
  /\ status = "pending"
  /\ registry = 0
  /\ closed = {} /\ loopDone = {} /\ stageDone = {}
  /\ pc = [r \in Runs |-> IF r = 1 THEN "start" ELSE "none"]
  /\ at = [r \in Runs |-> 1]
  /\ mine = [r \in Runs |-> 0]
  /\ enabled = [r \in Runs |-> {}]
  /\ table = <<>>

-----------------------------------------------------------------------------
(* The table.                                                              *)

Create(r, state) ==
  table' = Append(table, [stage |-> at[r], state |-> state, run |-> r, gone |-> FALSE])

MarkBySaving(r, state) ==                       \* mutant: rows come back
  table' = [table EXCEPT ![mine[r]].state = state, ![mine[r]].gone = FALSE]

(* db.Model(exec).Updates: a deleted row matches nothing.                  *)
Mark(r, state) ==
  table' = IF table[mine[r]].gone THEN table
           ELSE [table EXCEPT ![mine[r]].state = state]

(* db.Save(exec) inserts the row again when its update matches nothing.    *)
Save(r, state) ==
  table' = [table EXCEPT ![mine[r]].state = state, ![mine[r]].gone = FALSE]

Present(s) == {i \in DOMAIN table : table[i].stage = s /\ ~table[i].gone}

(* The newest row of stage s is a success.                                 *)
Succeeded(s) ==
  \E i \in Present(s) : /\ table[i].state = "success"
                        /\ \A j \in Present(s) : j <= i

EverStarted(s) == Present(s) # {}                               \* mutant

SetIfRunning(s) == status' = IF status = "running" THEN s ELSE status

Goto(r, l) == pc' = [pc EXCEPT ![r] = l]

NextStage(r) ==
  /\ Goto(r, "next")
  /\ at' = [at EXCEPT ![r] = @ + 1]
  /\ mine' = [mine EXCEPT ![r] = 0]

-----------------------------------------------------------------------------
(* One run.                                                                *)

(* executePipelineReviewTask shows a pending task as running.              *)
Start(r) ==
  /\ pc[r] = "start"
  /\ status' = IF status = "pending" THEN "running" ELSE status
  /\ Goto(r, "register")
  /\ UNCHANGED <<registry, closed, loopDone, stageDone, at, mine, enabled, table>>

(* executePipelineReviewTask registers its channel under the task's id.    *)
Register(r) ==
  /\ pc[r] = "register"
  /\ registry' = r
  /\ Goto(r, "enter")
  /\ UNCHANGED <<status, closed, loopDone, stageDone, at, mine, enabled, table>>

(* The diff cannot be fetched, or the engine refuses before its first      *)
(* stage: failReviewTask.                                                  *)
GiveUp(r) ==
  /\ pc[r] \in {"register", "enter"}
  /\ SetIfRunning("failed")
  /\ Goto(r, IF pc[r] = "register" THEN "ended" ELSE "leave")
  /\ UNCHANGED <<registry, closed, loopDone, stageDone, at, mine, enabled, table>>

(* The dependency a stage needs is enabled along with it.                  *)
WithUpstream(codes) ==
  IF codes \cap Downstream # {} THEN codes \cup {Understanding} ELSE codes

(* The configuration is frozen for the run and the task saved as running.  *)
Enter(r) ==
  /\ pc[r] = "enter"
  /\ \E codes \in Configs : enabled' = [enabled EXCEPT ![r] = WithUpstream(codes)]
  /\ status' = "running"
  /\ Goto(r, "next")
  /\ UNCHANGED <<registry, closed, loopDone, stageDone, at, mine, table>>

(* The watcher of SetInput("_cancel_ch") passes the closing on, for the    *)
(* loop's context and for that of the stage being executed.                *)
TellLoop(r) ==
  /\ r \in closed \ loopDone /\ pc[r] \notin {"leave", "ended", "killed"}
  /\ loopDone' = loopDone \cup {r}
  /\ UNCHANGED <<status, registry, closed, stageDone, pc, at, mine, enabled, table>>

TellStage(r) ==
  /\ r \in closed \ stageDone /\ pc[r] = "exec"
  /\ stageDone' = stageDone \cup {r}
  /\ UNCHANGED <<status, registry, closed, loopDone, pc, at, mine, enabled, table>>

(* The loop's select finds the context done.                               *)
SeeCancel(r) ==
  /\ pc[r] = "next" /\ at[r] \in Stages /\ r \in loopDone
  /\ SetIfRunning("failed")
  /\ Goto(r, "leave")
  /\ UNCHANGED <<registry, closed, loopDone, stageDone, at, mine, enabled, table>>

(* A stage without an executor, or whose row could not be inserted.        *)
PassOver(r) ==
  /\ pc[r] = "next" /\ at[r] \in Stages /\ r \notin loopDone
  /\ NextStage(r)
  /\ UNCHANGED <<status, registry, closed, loopDone, stageDone, enabled, table>>

SkipDisabled(r) ==
  /\ pc[r] = "next" /\ at[r] \in Registered \ enabled[r] /\ r \notin loopDone
  /\ Create(r, "skipped")
  /\ NextStage(r)
  /\ UNCHANGED <<status, registry, closed, loopDone, stageDone, enabled>>

CreateRow(r) ==
  /\ pc[r] = "next" /\ at[r] \in Registered \cap enabled[r] /\ r \notin loopDone
  /\ Create(r, "pending")
  /\ mine' = [mine EXCEPT ![r] = Len(table) + 1]
  /\ Goto(r, "deps")
  /\ UNCHANGED <<status, registry, closed, loopDone, stageDone, at, enabled>>

CheckDepsStarted(r) ==                          \* mutant: any row will do
  /\ pc[r] = "deps"
  /\ Goto(r, IF \A s \in Requires[at[r]] : EverStarted(s) THEN "mark" ELSE "unmet")
  /\ UNCHANGED <<status, registry, closed, loopDone, stageDone, at, mine, enabled, table>>

CheckDeps(r) ==
  /\ pc[r] = "deps"
  /\ Goto(r, IF \A s \in Requires[at[r]] : Succeeded(s) THEN "mark" ELSE "unmet")
  /\ UNCHANGED <<status, registry, closed, loopDone, stageDone, at, mine, enabled, table>>

Unmet(r) ==
  /\ pc[r] = "unmet"
  /\ Save(r, IF at[r] \in AllowedToSkip THEN "skipped" ELSE "failed")
  /\ NextStage(r)
  /\ UNCHANGED <<status, registry, closed, loopDone, stageDone, enabled>>

MarkRunning(r) ==
  /\ pc[r] = "mark"
  /\ Mark(r, "running")
  /\ stageDone' = stageDone \ {r}
  /\ Goto(r, "exec")
  /\ UNCHANGED <<status, registry, closed, loopDone, at, mine, enabled>>

(* executeWithTimeout: an error or the deadline fails the stage, and so    *)
(* does a cancelled context even when the executor returned no error.      *)
StageReturnsUncancelled(r) ==                   \* mutant: waits out a cancel
  /\ pc[r] = "exec" /\ r \notin stageDone
  /\ Goto(r, "broken") \/ Goto(r, "passed")
  /\ UNCHANGED <<status, registry, closed, loopDone, stageDone, at, mine, enabled, table>>

StageReturns(r) ==
  /\ pc[r] = "exec"
  /\ \/ Goto(r, "broken")
     \/ r \notin stageDone /\ Goto(r, "passed")
  /\ UNCHANGED <<status, registry, closed, loopDone, stageDone, at, mine, enabled, table>>

MarkSuccess(r) ==
  /\ pc[r] = "passed"
  /\ Mark(r, "success")
  /\ NextStage(r)
  /\ UNCHANGED <<status, registry, closed, loopDone, stageDone, enabled>>

MarkFailedTaskOnly(r) ==                        \* mutant: the row is forgotten
  /\ pc[r] = "broken"
  /\ Goto(r, "fail")
  /\ UNCHANGED <<status, registry, closed, loopDone, stageDone, at, mine, enabled, table>>

MarkFailedGoesOn(r) ==                          \* mutant: the loop continues
  /\ pc[r] = "broken"
  /\ Mark(r, "failed")
  /\ NextStage(r)
  /\ UNCHANGED <<status, registry, closed, loopDone, stageDone, enabled>>

MarkFailed(r) ==
  /\ pc[r] = "broken"
  /\ Mark(r, "failed")
  /\ Goto(r, "fail")
  /\ UNCHANGED <<status, registry, closed, loopDone, stageDone, at, mine, enabled>>

MarkTaskFailed(r) ==
  /\ pc[r] = "fail"
  /\ SetIfRunning("failed")
  /\ Goto(r, "leave")
  /\ UNCHANGED <<registry, closed, loopDone, stageDone, at, mine, enabled, table>>

MarkTaskSuccess(r) ==
  /\ pc[r] = "next" /\ at[r] = NStages + 1
  /\ SetIfRunning("success")
  /\ Goto(r, "leave")
  /\ UNCHANGED <<registry, closed, loopDone, stageDone, at, mine, enabled, table>>

(* defer unregisterPipelineCancel(task.ID), whoever's channel is there.    *)
Leave(r) ==
  /\ pc[r] = "leave"
  /\ registry' = 0
  /\ Goto(r, "ended")
  /\ UNCHANGED <<status, closed, loopDone, stageDone, at, mine, enabled, table>>

EngineStep(r) ==
  \/ Start(r) \/ Register(r) \/ GiveUp(r) \/ Enter(r) \/ SeeCancel(r)
  \/ PassOver(r) \/ SkipDisabled(r) \/ CreateRow(r)
  \/ CheckDeps(r) \/ Unmet(r) \/ MarkRunning(r) \/ StageReturns(r)
  \/ MarkSuccess(r) \/ MarkFailed(r) \/ MarkTaskFailed(r)
  \/ MarkTaskSuccess(r) \/ Leave(r)

-----------------------------------------------------------------------------
(* The requests that meet a run.                                           *)

(* Abort: the channel in the registry is closed and taken out.             *)
Stop ==
  /\ closed' = IF registry = 0 THEN closed ELSE closed \cup {registry}
  /\ registry' = 0
  /\ SetIfRunning("stopped")
  /\ registry # 0 \/ status = "running"
  /\ UNCHANGED <<loopDone, stageDone, pc, at, mine, enabled, table>>

(* TimeoutCheck changes the task row and tells the pipeline nothing.       *)
TimeOut ==
  /\ status = "running"
  /\ status' = "timeout"
  /\ UNCHANGED <<registry, closed, loopDone, stageDone, pc, at, mine, enabled, table>>

(* Retry deletes the rows of the task and starts the next run.             *)
Retry ==
  /\ status # "running"
  /\ \E n \in Runs :
       /\ pc[n] = "none" /\ \A m \in Runs : m < n => pc[m] # "none"
       /\ Goto(n, "start")
  /\ status' = "pending"
  /\ table' = [i \in DOMAIN table |-> [table[i] EXCEPT !.gone = TRUE]]
  /\ UNCHANGED <<registry, closed, loopDone, stageDone, at, mine, enabled>>

(* The server dies: goroutines and registry are lost, the rows stay.       *)
Restart ==
  /\ Restarts
  /\ \E r \in Runs : pc[r] \notin {"none", "ended", "killed"}
  /\ pc' = [r \in Runs |-> IF pc[r] \in {"none", "ended"} THEN pc[r] ELSE "killed"]
  /\ registry' = 0
  /\ UNCHANGED <<status, closed, loopDone, stageDone, at, mine, enabled, table>>

Next ==
  \/ \E r \in Runs : EngineStep(r) \/ TellLoop(r) \/ TellStage(r)
  \/ Stop \/ TimeOut \/ Retry \/ Restart

Spec == Init /\ [][Next]_vars

(* Goroutines are scheduled, and every stage runs under a deadline.        *)
LiveSpec ==
  Spec /\ \A r \in Runs : WF_vars(EngineStep(r)) /\ WF_vars(TellLoop(r) \/ TellStage(r))
-----------------------------------------------------------------------------
(* Properties.                                                             *)

Active == {"pending", "running"}
AtStage == {"deps", "unmet", "mark", "exec", "passed", "broken"}

(* A stage is shown as pending or running only while a run is at it: no    *)
(* way out of ExecuteTask leaves a row unsettled, whatever stops, timeouts *)
(* and retries do to the task and the table meanwhile.  Only the row that  *)
(* a run was at when the server died is left as it was.                    *)
RowsSettled ==
  \A i \in DOMAIN table : LET row == table[i] IN
    row.state \in Active /\ ~row.gone =>
      pc[row.run] \in AtStage \cup {"killed"} /\ mine[row.run] = i

(* A stage that runs or succeeded has a successful row, of this round of   *)
(* the task, for each stage it requires: the check and the rows of other   *)
(* runs never let it start on the rows Retry deleted.                      *)
StageAfterDependencies ==
  \A j \in DOMAIN table :
    table[j].state \in {"running", "success"} /\ ~table[j].gone =>
      \A s \in Requires[table[j].stage] :
        \E i \in Present(s) : table[i].state = "success"

(* A run that goes on to another stage, or through all of them to report   *)
(* the task as a success, had no failing stage among those that require    *)
(* none; the rows of the others say failed, too, where what they require   *)
(* was missing, and such a run goes on.                                    *)
WholeRunsAreClean ==
  \A i \in DOMAIN table : LET row == table[i] IN
    row.state = "failed" /\ Requires[row.stage] = {} =>
      pc[row.run] \in {"fail", "leave", "ended", "killed"} /\ at[row.run] = row.stage

(* A stage's row only moves forward, in the hands of the run that made it: *)
(* what a stage came to is never overwritten, neither by another run nor   *)
(* by a late Save, and a row that Retry deleted comes back only as that of *)
(* a stage whose dependencies were not met (db.Save inserts it again).     *)
Forward == {<<"pending", "running">>, <<"running", "success">>, <<"running", "failed">>,
            <<"pending", "skipped">>, <<"pending", "failed">>}

RowsMoveForward ==
  [][\A i \in DOMAIN table : LET old == table[i] new == table'[i] IN
       /\ new.stage = old.stage /\ new.run = old.run
       /\ new.state # old.state => /\ <<old.state, new.state>> \in Forward
                                  /\ ~new.gone /\ mine[old.run] = i
       /\ old.gone /\ ~new.gone => new.state \in {"skipped", "failed"}]_vars

(* The run that will still write how the task ended.                       *)
Owning == {"register", "enter", "next", "fail"} \cup AtStage
Owned  == \E r \in Runs : pc[r] \in Owning

(* Stage by stage the pipeline keeps the contract that module              *)
(* TaskLifecycle, where a whole pipeline is one step, keeps too: an        *)
(* outcome is given to a running task only and never replaced by another,  *)
(* and whichever way a run ends, it does not leave the task running unless *)
(* another run has it: the contract's Die is the death of the server only, *)
(* and its Forsake does not happen while statements succeed.               *)
Contract == INSTANCE TaskContract WITH
  Tasks  <- {1},
  phase  <- [t \in {1} |-> status],
  manned <- {t \in {1} : Owned},
  lost   <- {t \in {1} : status = "running" /\ ~Owned}

OnDuty ==
  Contract!Enqueue(1) \/ Contract!Take(1) \/ Contract!Join(1) \/ Contract!Settle(1)
    \/ Contract!Leave(1)

KeepsContract == [][IF Restart THEN Contract!Die ELSE OnDuty]_(Contract!vars)

(* Every run that was started ends, stopped or not, unless the server dies *)
(* under it.                                                               *)
RunsEnd == \A r \in Runs : pc[r] = "start" ~> pc[r] \in {"ended", "killed"}
=============================================================================
