-------------------------- MODULE DepAuditScanProofs --------------------------
(* Theorems about DepAuditScan, for any number of projects, tasks, runs,   *)
(* handlers and slots.                                                     *)
EXTENDS DepAuditScan, TLAPS

RunRow   == [task : Tasks, project : Projects, attempt : Nat, status : RunStatuses]
OpRecord == [pc : OpPcs, kind : RequestKinds, task : Tasks, todo : SUBSET Items,
             item : Items, targets : SUBSET RunIds, target : RunIds, made : SUBSET RunIds]

(* What a goroutine holds is a status of what it is about to write.        *)
VerdictFits ==
  \A r \in RunIds : /\ pc[r] = "finish" => verdict[r] \in {"failed", "skipped"}
                    /\ pc[r] = "recWrite" => verdict[r] \in TaskStatuses

-----------------------------------------------------------------------------
(* Types.                                                                  *)

(* The first task and the first run have rows, and there is a project.     *)
LEMMA Ones == 1 \in Tasks /\ 1 \in RunIds /\ AnyProject \in Projects /\ NoItem \in Items
<1>1. 1 \in Tasks /\ 1 \in RunIds
  BY ScanAssumption DEF Tasks, RunIds
<1>2. AnyProject \in Projects
  BY ScanAssumption DEF AnyProject
<1> QED BY <1>1, <1>2 DEF NoItem, Items

(* A handler without a request is typed.                                   *)
LEMMA NoOpType == NoOp \in OpRecord
BY Ones DEF NoOp, OpRecord, OpPcs, RequestKinds

(* So is one that has just read its request.                               *)
LEMMA FreshOpType ==
  ASSUME NEW l \in OpPcs, NEW k \in RequestKinds, NEW t \in Tasks, NEW todo \in SUBSET Items
  PROVE  [NoOp EXCEPT !.pc = l, !.kind = k, !.task = t, !.todo = todo] \in OpRecord
BY NoOpType DEF OpRecord

(* Going on keeps a handler typed.                                         *)
LEMMA OpGotoType ==
  ASSUME TypeOK, NEW o \in Ops, NEW l \in OpPcs, OpGoto(o, l)
  PROVE  op' \in [Ops -> OpRecord]
BY ZenonT(30) DEF TypeOK, OpGoto, OpRecord

(* So does taking a request.                                               *)
LEMMA SetOpType ==
  ASSUME TypeOK, NEW o \in Ops, NEW new \in OpRecord, SetOp(o, new)
  PROVE  op' \in [Ops -> OpRecord]
BY DEF TypeOK, SetOp, OpRecord

(* The words for places and statuses are among those declared.             *)
LEMMA WordsTyped ==
  /\ "none" \in Pcs /\ "waiting" \in Pcs /\ "load" \in Pcs /\ "claim" \in Pcs
  /\ "prepare" \in Pcs /\ "collect" \in Pcs /\ "collecting" \in Pcs /\ "scan" \in Pcs
  /\ "check" \in Pcs /\ "succeed" \in Pcs /\ "finish" \in Pcs /\ "recTask" \in Pcs
  /\ "recRuns" \in Pcs /\ "recWrite" \in Pcs /\ "leave" \in Pcs /\ "ended" \in Pcs
  /\ "killed" \in Pcs
  /\ "none" \in RunStatuses /\ "queued" \in RunStatuses /\ "running" \in RunStatuses
  /\ "success" \in RunStatuses /\ "failed" \in RunStatuses /\ "skipped" \in RunStatuses
  /\ "cancelled" \in RunStatuses
  /\ "none" \in TaskStatuses /\ "queued" \in TaskStatuses /\ "running" \in TaskStatuses
  /\ "success" \in TaskStatuses /\ "partial" \in TaskStatuses /\ "failed" \in TaskStatuses
  /\ "cancelled" \in TaskStatuses
BY DEF Pcs, Executing, RunStatuses, TaskStatuses, Active, RunOutcomes, TaskOutcomes

(* Writing the status of a run keeps the rows typed.                       *)
LEMMA SetRunType ==
  ASSUME TypeOK, NEW r \in RunIds, NEW s \in RunStatuses, SetRun(r, s) \/ SetRunIfActive(r, s)
  PROVE  run' \in [RunIds -> RunRow]
<1>1. run[r] \in RunRow /\ run \in [RunIds -> RunRow]
  BY DEF TypeOK, RunRow
<1>2. [run[r] EXCEPT !.status = s] \in RunRow
  BY <1>1 DEF RunRow
<1>3. run' = run \/ run' = [run EXCEPT ![r] = [run[r] EXCEPT !.status = s]]
  BY <1>1 DEF SetRun, SetRunIfActive
<1> QED BY <1>1, <1>2, <1>3

(* So does settling one, whether or not that fails.                        *)
LEMMA SettleType ==
  ASSUME TypeOK, NEW r \in RunIds, NEW s \in RunStatuses, Settle(r, s)
  PROVE  run' \in [RunIds -> RunRow] /\ stuck' \subseteq RunIds
<1>1. run \in [RunIds -> RunRow] /\ stuck \subseteq RunIds
  BY DEF TypeOK, RunRow
<1>2. CASE SetRunIfActive(r, s) /\ stuck' = stuck \ {r}
  BY <1>1, <1>2, SetRunType
<1>3. CASE RunFault(r)
  BY <1>1, <1>3 DEF RunFault
<1> QED BY <1>2, <1>3 DEF Settle

(* So does writing the status of a task.                                   *)
LEMMA SetTaskType ==
  ASSUME TypeOK, NEW t \in Tasks, NEW s \in TaskStatuses, SetTask(t, s)
  PROVE  task' \in [Tasks -> TaskStatuses]
BY DEF TypeOK, SetTask

(* What recomputeTask derives is a status of a task.                       *)
LEMMA DerivedType ==
  ASSUME NEW seen, NEW found
  PROVE  Derived(seen, found) \in TaskStatuses
BY WordsTyped DEF Derived

(* The latest runs of a task are runs.                                     *)
LEMMA LatestAreRuns ==
  ASSUME NEW t, NEW f \in LatestOf(t)
  PROVE  f \subseteq RunIds
BY DEF LatestOf, RunsOf

(* A step of a run's goroutine keeps the types.                            *)
LEMMA TypeRunStep ==
  ASSUME TypeOK, VerdictFits, NEW r \in RunIds, RunStep(r)
  PROVE  TypeOK'
<1> USE WordsTyped DEF Goto, FinishAs
<1>1. /\ run \in [RunIds -> RunRow] /\ op \in [Ops -> OpRecord]
      /\ run[r].task \in Tasks /\ run[r].project \in Projects
  BY DEF TypeOK, RunRow, OpRecord
<1>2. CASE Acquire(r) \/ LoadRun(r)
  <2>1. pc' \in [RunIds -> Pcs]
    BY <1>2 DEF TypeOK, Acquire, LoadRun
  <2>2. UNCHANGED <<task, run, lastTask, lastRun, lock, ctx, verdict, op, blind>>
    BY <1>2 DEF Acquire, LoadRun, RunFault
  <2>3. stuck' \subseteq RunIds
    BY <1>2 DEF TypeOK, Acquire, LoadRun, RunFault
  <2> QED BY <2>1, <2>2, <2>3 DEF TypeOK
<1>14. CASE Leave(r)
  <2>1. pc' \in [RunIds -> Pcs]
    BY <1>14 DEF TypeOK, Leave
  <2>2. ctx' \in [RunIds -> {"live", "cancelled", "expired"}]
    BY <1>14 DEF TypeOK, Leave
  <2>3. verdict' \in [RunIds -> TaskStatuses \cup RunStatuses]
    BY <1>14 DEF TypeOK, Leave
  <2>4. UNCHANGED <<task, run, lastTask, lastRun, lock, op, stuck, blind>>
    BY <1>14 DEF Leave
  <2> QED BY <2>1, <2>2, <2>3, <2>4 DEF TypeOK
<1>3. CASE Claim(r)
  <2>1. run' \in [RunIds -> RunRow]
    BY <1>1, <1>3, SetRunType DEF Claim, RunFault
  <2>2. pc' \in [RunIds -> Pcs]
    BY <1>3 DEF TypeOK, Claim
  <2>3. stuck' \subseteq RunIds
    BY <1>3 DEF TypeOK, Claim, RunFault
  <2>4. UNCHANGED <<task, lastTask, lastRun, lock, ctx, verdict, op, blind>>
    BY <1>3 DEF Claim
  <2> QED BY <2>1, <2>2, <2>3, <2>4 DEF TypeOK, RunRow
<1>4. CASE Prepare(r)
  <2>1. pc' \in [RunIds -> Pcs]
    BY <1>4 DEF TypeOK, Prepare
  <2>2. verdict' \in [RunIds -> TaskStatuses \cup RunStatuses]
    BY <1>4 DEF TypeOK, Prepare
  <2>3. UNCHANGED <<task, run, lastTask, lastRun, lock, ctx, op, stuck, blind>>
    BY <1>4 DEF Prepare
  <2> QED BY <2>1, <2>2, <2>3 DEF TypeOK
<1>5. CASE Scan(r)
  <2>1. pc' \in [RunIds -> Pcs]
    BY <1>5 DEF TypeOK, Scan
  <2>2. verdict' \in [RunIds -> TaskStatuses \cup RunStatuses]
    BY <1>5 DEF TypeOK, Scan
  <2>3. UNCHANGED <<task, run, lastTask, lastRun, lock, ctx, op, stuck, blind>>
    BY <1>5 DEF Scan
  <2> QED BY <2>1, <2>2, <2>3 DEF TypeOK
<1>6. CASE CheckContext(r)
  <2>1. pc' \in [RunIds -> Pcs]
    BY <1>6 DEF TypeOK, CheckContext
  <2>2. verdict' \in [RunIds -> TaskStatuses \cup RunStatuses]
    BY <1>6 DEF TypeOK, CheckContext
  <2>3. UNCHANGED <<task, run, lastTask, lastRun, lock, ctx, op, stuck, blind>>
    BY <1>6 DEF CheckContext
  <2> QED BY <2>1, <2>2, <2>3 DEF TypeOK
<1>7. CASE Collect(r)
  BY <1>1, <1>7 DEF TypeOK, Collect
<1>8. CASE EndCollect(r)
  BY <1>8 DEF TypeOK, EndCollect
<1>9. CASE Succeed(r)
  <2>1. run' \in [RunIds -> RunRow]
    BY <1>1, <1>9, SetRunType DEF Succeed
  <2>2. pc' \in [RunIds -> Pcs]
    BY <1>9 DEF TypeOK, Succeed
  <2>3. verdict' \in [RunIds -> TaskStatuses \cup RunStatuses]
    BY <1>9 DEF TypeOK, Succeed
  <2>4. UNCHANGED <<task, lastTask, lastRun, lock, ctx, op, stuck, blind>>
    BY <1>9 DEF Succeed
  <2> QED BY <2>1, <2>2, <2>3, <2>4 DEF TypeOK, RunRow
<1>10. CASE FinishRun(r)
  <2>1. verdict[r] \in RunStatuses
    BY <1>10 DEF FinishRun, VerdictFits
  <2>2. run' \in [RunIds -> RunRow] /\ stuck' \subseteq RunIds
    BY <1>10, <2>1, SettleType DEF FinishRun
  <2> QED BY <1>10, <2>2 DEF TypeOK, RunRow, FinishRun
<1>11. CASE RecTask(r)
  <2>3. task[run[r].task] \in TaskStatuses
    BY <1>1 DEF TypeOK
  <2>4. \/ verdict' = verdict
        \/ verdict' = [verdict EXCEPT ![r] = task[run[r].task]]
    BY <1>11 DEF RecTask
  <2>5. pc' \in [RunIds -> Pcs]
    BY <1>11 DEF TypeOK, RecTask
  <2>1. pc' \in [RunIds -> Pcs] /\ verdict' \in [RunIds -> TaskStatuses \cup RunStatuses]
    BY <2>3, <2>4, <2>5 DEF TypeOK
  <2>2. UNCHANGED <<task, run, lastTask, lastRun, lock, ctx, op, stuck, blind>>
    BY <1>11 DEF RecTask
  <2> QED BY <2>1, <2>2 DEF TypeOK
<1>12. CASE RecRuns(r)
  <2>1. PICK v \in TaskStatuses : verdict' = [verdict EXCEPT ![r] = v]
    BY <1>12, DerivedType DEF RecRuns
  <2> QED BY <1>12, <2>1 DEF TypeOK, RecRuns
<1>13. CASE RecWrite(r)
  <2>1. verdict[r] \in TaskStatuses
    BY <1>13 DEF RecWrite, VerdictFits
  <2>2. task' \in [Tasks -> TaskStatuses]
    BY <1>1, <1>13, <2>1, SetTaskType DEF RecWrite
  <2> QED BY <1>13, <2>2 DEF TypeOK, RecWrite
<1> QED BY <1>2, <1>3, <1>4, <1>5, <1>6, <1>7, <1>8, <1>9, <1>10, <1>11, <1>12, <1>13, <1>14
  DEF RunStep

(* A step of a handler keeps the types.                                    *)
LEMMA TypeOpStep ==
  ASSUME TypeOK, NEW o \in Ops, OpStep(o)
  PROVE  TypeOK'
<1> USE WordsTyped
<1>1. /\ run \in [RunIds -> RunRow] /\ op \in [Ops -> OpRecord] /\ op[o] \in OpRecord
      /\ lastRun \in 0..NRuns /\ NRuns \in Nat
  BY ScanAssumption DEF TypeOK, RunRow, OpRecord
<1>2. /\ op[o].task \in Tasks /\ op[o].item \in Items /\ op[o].target \in RunIds
      /\ op[o].todo \subseteq Items /\ op[o].targets \subseteq RunIds
      /\ op[o].made \subseteq RunIds
      /\ op[o].item.project \in Projects /\ op[o].item.attempt \in Nat
  BY <1>1 DEF OpRecord, Items
<1>3. CASE Lock(o)
  <2>1. PICK i \in op[o].todo :
          /\ lock' = [lock EXCEPT ![i.project] = o]
          /\ op' = [op EXCEPT ![o].pc = "check", ![o].item = i, ![o].todo = @ \ {i}]
    BY <1>3 DEF Lock
  <2>2. i \in Items /\ i.project \in Projects
    BY <1>2 DEF Items
  <2>3. [op[o] EXCEPT !.pc = "check", !.item = i, !.todo = @ \ {i}] \in OpRecord
    BY <1>1, <2>2 DEF OpRecord, OpPcs
  <2>4. op' \in [Ops -> OpRecord]
    BY <1>1, <2>1, <2>3
  <2> QED BY <1>3, <2>1, <2>2, <2>4 DEF TypeOK, OpRecord, Lock
<1>4. CASE Check(o)
  <2>1. op' \in [Ops -> OpRecord]
    BY <1>4, OpGotoType DEF Check, OpPcs
  <2>2. lock' \in [Projects -> Ops \cup RunIds \cup {Nobody}]
    BY <1>2, <1>4 DEF TypeOK, Check
  <2> QED BY <1>4, <2>1, <2>2 DEF TypeOK, OpRecord, Check
<1>5. CASE Insert(o)
  <2>1. lock' \in [Projects -> Ops \cup RunIds \cup {Nobody}]
    BY <1>2, <1>5 DEF TypeOK, Insert
  <2>2. CASE OpGoto(o, "lock") /\ UNCHANGED <<run, lastRun, blind>>
    <3>1. op' \in [Ops -> OpRecord]
      BY <2>2, OpGotoType DEF OpPcs
    <3> QED BY <1>5, <2>1, <2>2, <3>1 DEF TypeOK, OpRecord, Insert
  <2>3. CASE /\ lastRun < NRuns
             /\ lastRun' = lastRun + 1
             /\ run' = [run EXCEPT ![lastRun + 1] =
                          NewRun(o, IF op[o].pc = "skip" THEN "skipped" ELSE "queued")]
             /\ op' = [op EXCEPT ![o].pc = "lock",
                                 ![o].made = IF op[o].pc = "skip" THEN @
                                             ELSE @ \cup {lastRun + 1}]
             /\ blind' = IF op[o].pc = "blind" THEN blind \cup {lastRun + 1} ELSE blind
    <3>1. lastRun + 1 \in RunIds /\ lastRun' \in 0..NRuns
      BY <1>1, <2>3 DEF RunIds
    <3>2. NewRun(o, IF op[o].pc = "skip" THEN "skipped" ELSE "queued") \in RunRow
      BY <1>2 DEF NewRun, RunRow
    <3>3. run' \in [RunIds -> RunRow]
      BY <1>1, <2>3, <3>2
    <3>4. [op[o] EXCEPT !.pc = "lock", !.made = IF op[o].pc = "skip" THEN @
                                             ELSE @ \cup {lastRun + 1}] \in OpRecord
      BY <1>1, <3>1 DEF OpRecord, OpPcs
    <3>5. op' \in [Ops -> OpRecord]
      BY <1>1, <2>3, <3>4
    <3>6. blind' \subseteq RunIds
      BY <2>3, <3>1 DEF TypeOK
    <3> QED BY <1>5, <2>1, <3>1, <3>3, <3>5, <3>6 DEF TypeOK, OpRecord, RunRow, Insert
  <2> QED BY <1>5, <2>2, <2>3 DEF Insert
<1>6. CASE NothingMade(o)
  <2>1. op' \in [Ops -> OpRecord]
    BY <1>6, SetOpType, NoOpType DEF NothingMade
  <2>2. task' \in [Tasks -> TaskStatuses]
    BY <1>2, <1>6, SetTaskType DEF NothingMade, TypeOK
  <2> QED BY <1>6, <2>1, <2>2 DEF TypeOK, OpRecord, NothingMade
<1>7. CASE MarkRetried(o)
  <2>1. op' \in [Ops -> OpRecord]
    BY <1>7, OpGotoType DEF MarkRetried, OpPcs
  <2>2. task' \in [Tasks -> TaskStatuses]
    BY <1>2, <1>7, SetTaskType DEF MarkRetried
  <2> QED BY <1>7, <2>1, <2>2 DEF TypeOK, OpRecord, MarkRetried
<1>8. CASE Schedule(o)
  <2>1. op' \in [Ops -> OpRecord]
    BY <1>8, SetOpType, NoOpType DEF Schedule
  <2>2. pc' \in [RunIds -> Pcs]
    BY <1>8 DEF TypeOK, Schedule
  <2> QED BY <1>8, <2>1, <2>2 DEF TypeOK, OpRecord, Schedule
<1>9. CASE CancelFind(o)
  <2>1. PICK found \in SUBSET RunIds :
          op' = [op EXCEPT ![o].pc = "signal", ![o].targets = found]
    BY <1>9 DEF CancelFind, Search, RunsOf
  <2>3. [op[o] EXCEPT !.pc = "signal", !.targets = found] \in OpRecord
    BY <1>1 DEF OpRecord, OpPcs
  <2>2. op' \in [Ops -> OpRecord]
    BY <1>1, <2>1, <2>3
  <2> QED BY <1>9, <2>2 DEF TypeOK, OpRecord, CancelFind
<1>10. CASE CancelSignal(o)
  <2>1. PICK r \in op[o].targets :
          /\ ctx' = IF pc[r] \in Executing /\ ctx[r] = "live"
                    THEN [ctx EXCEPT ![r] = "cancelled"] ELSE ctx
          /\ op' = [op EXCEPT ![o].pc = "markRun", ![o].target = r, ![o].targets = @ \ {r}]
    BY <1>10 DEF CancelSignal
  <2>2. [op[o] EXCEPT !.pc = "markRun", !.target = r, !.targets = @ \ {r}] \in OpRecord
    BY <1>1, <1>2 DEF OpRecord, OpPcs
  <2>3. op' \in [Ops -> OpRecord]
    BY <1>1, <2>1, <2>2
  <2>4. ctx' \in [RunIds -> {"live", "cancelled", "expired"}]
    BY <2>1 DEF TypeOK
  <2> QED BY <1>10, <2>3, <2>4 DEF TypeOK, OpRecord, CancelSignal
<1>11. CASE CancelMark(o)
  <2>1. op' \in [Ops -> OpRecord]
    BY <1>11, OpGotoType DEF CancelMark, OpPcs
  <2>2. run' \in [RunIds -> RunRow] /\ stuck' \subseteq RunIds
    BY <1>2, <1>11, SettleType DEF CancelMark
  <2> QED BY <1>11, <2>1, <2>2 DEF TypeOK, OpRecord, RunRow, CancelMark
<1>12. CASE CancelWrite(o)
  <2>1. op' \in [Ops -> OpRecord]
    BY <1>12, SetOpType, NoOpType DEF CancelWrite
  <2>2. task' \in [Tasks -> TaskStatuses]
    BY <1>2, <1>12, SetTaskType DEF CancelWrite
  <2> QED BY <1>12, <2>1, <2>2 DEF TypeOK, OpRecord, CancelWrite
<1> QED BY <1>3, <1>4, <1>5, <1>6, <1>7, <1>8, <1>9, <1>10, <1>11, <1>12 DEF OpStep

(* So does the start of a request.                                         *)
LEMMA TypeBegin ==
  ASSUME TypeOK, NEW o \in Ops, Begin(o)
  PROVE  TypeOK'
<1> USE WordsTyped
<1>1. /\ run \in [RunIds -> RunRow] /\ op \in [Ops -> OpRecord]
      /\ task \in [Tasks -> TaskStatuses] /\ lastTask \in 0..NTasks /\ NTasks \in Nat
  BY ScanAssumption DEF TypeOK, RunRow, OpRecord
<1>2. CASE Trigger(o)
  <2>1. lastTask + 1 \in Tasks /\ lastTask' \in 0..NTasks
    BY <1>1, <1>2 DEF Trigger, Tasks
  <2>2. PICK ps \in SUBSET Projects \ {{}} :
          SetOp(o, [NoOp EXCEPT !.pc = "lock", !.kind = "trigger", !.task = lastTask + 1,
                                !.todo = [project : ps, attempt : {1}]])
    BY <1>2 DEF Trigger
  <2>3. [project : ps, attempt : {1}] \in SUBSET Items
    BY DEF Items
  <2>4. "lock" \in OpPcs /\ "trigger" \in RequestKinds
    BY DEF OpPcs, RequestKinds
  <2>5. op' \in [Ops -> OpRecord]
    BY <2>1, <2>2, <2>3, <2>4, FreshOpType, SetOpType
  <2>6. task' \in [Tasks -> TaskStatuses]
    BY <1>1, <1>2, <2>1 DEF Trigger
  <2> QED BY <1>2, <2>1, <2>5, <2>6 DEF TypeOK, OpRecord, Trigger
<1>3. CASE Retry(o)
  <2>1. PICK t \in Tasks, again \in SUBSET RunIds :
          SetOp(o, [NoOp EXCEPT !.pc = "lock", !.kind = "retry", !.task = t,
                    !.todo = {[project |-> run[r].project,
                               attempt |-> run[r].attempt + 1] : r \in again}])
    BY <1>3, LatestAreRuns DEF Retry
  <2>2. ASSUME NEW r \in again
        PROVE  [project |-> run[r].project, attempt |-> run[r].attempt + 1] \in Items
    BY <1>1 DEF RunRow, Items
  <2>3. {[project |-> run[r].project, attempt |-> run[r].attempt + 1] : r \in again}
          \in SUBSET Items
    BY <2>2
  <2>4. "lock" \in OpPcs /\ "retry" \in RequestKinds
    BY DEF OpPcs, RequestKinds
  <2>5. op' \in [Ops -> OpRecord]
    BY <2>1, <2>3, <2>4, FreshOpType, SetOpType
  <2> QED BY <1>3, <2>5 DEF TypeOK, OpRecord, Retry
<1>4. CASE CancelLoad(o)
  <2>1. PICK t \in Tasks :
          SetOp(o, [NoOp EXCEPT !.pc = "find", !.kind = "cancel", !.task = t])
    BY <1>4 DEF CancelLoad
  <2>2. [NoOp EXCEPT !.pc = "find", !.kind = "cancel", !.task = t] \in OpRecord
    BY NoOpType DEF OpRecord, OpPcs, RequestKinds
  <2>3. op' \in [Ops -> OpRecord]
    BY <2>1, <2>2, SetOpType
  <2> QED BY <1>4, <2>3 DEF TypeOK, OpRecord, CancelLoad
<1>5. CASE Delete(o)
  <2>1. PICK t \in Tasks :
          /\ task' = [task EXCEPT ![t] = "none"]
          /\ run' = [r \in RunIds |-> IF run[r].task = t /\ run[r].status # "none"
                                      THEN [run[r] EXCEPT !.status = "none"] ELSE run[r]]
    BY <1>5 DEF Delete
  <2>2. task' \in [Tasks -> TaskStatuses]
    BY <1>1, <2>1
  <2>3. ASSUME NEW r \in RunIds
        PROVE  [run[r] EXCEPT !.status = "none"] \in RunRow /\ run[r] \in RunRow
    BY <1>1 DEF RunRow
  <2>4. run' \in [RunIds -> RunRow]
    BY <2>1, <2>3
  <2> QED BY <1>5, <2>2, <2>4 DEF TypeOK, RunRow, Delete
<1> QED BY <1>2, <1>3, <1>4, <1>5 DEF Begin

(* A restart fails runs that were active, and leaves the others.           *)
LEMMA RestartRows ==
  ASSUME Restart, run \in [RunIds -> RunRow], NEW r \in RunIds
  PROVE  \/ run'[r] = run[r]
         \/ run[r].status \in Active /\ run'[r] = [run[r] EXCEPT !.status = "failed"]
<1>1. PICK old \in SUBSET {q \in RunIds : run[q].status = "running"} :
        \E stale \in Search(old \cup {q \in RunIds : run[q].status = "queued"}) :
          \/ run' = [q \in RunIds |-> IF q \in stale THEN [run[q] EXCEPT !.status = "failed"]
                                      ELSE run[q]]
          \/ UNCHANGED run
  BY DEF Restart
<1>2. PICK stale \in Search(old \cup {q \in RunIds : run[q].status = "queued"}) :
        \/ run' = [q \in RunIds |-> IF q \in stale THEN [run[q] EXCEPT !.status = "failed"]
                                    ELSE run[q]]
        \/ UNCHANGED run
  BY <1>1
<1>3. r \in stale => run[r].status \in Active
  BY DEF Search, Active
<1> QED BY <1>2, <1>3

(* The rows it leaves are those of all runs.                               *)
LEMMA RestartRowsType ==
  ASSUME Restart, run \in [RunIds -> RunRow]
  PROVE  run' \in [RunIds -> RunRow]
<1>1. ASSUME NEW r \in RunIds
      PROVE  [run[r] EXCEPT !.status = "failed"] \in RunRow /\ run[r] \in RunRow
  BY WordsTyped DEF RunRow
<1>2. \/ UNCHANGED run
      \/ \E stale : run' = [r \in RunIds |-> IF r \in stale
                              THEN [run[r] EXCEPT !.status = "failed"] ELSE run[r]]
  BY DEF Restart
<1> QED BY <1>1, <1>2

(* And so does a restart.                                                  *)
LEMMA TypeRestart ==
  ASSUME TypeOK, Restart
  PROVE  TypeOK'
<1> USE WordsTyped
<1>1. run \in [RunIds -> RunRow] /\ task \in [Tasks -> TaskStatuses]
  BY DEF TypeOK, RunRow
<1>3. run' \in [RunIds -> RunRow]
  BY <1>1, RestartRowsType
<1>4. \A t \in Tasks : task[t] \in TaskStatuses
  BY <1>1
<1>5. task' \in [Tasks -> TaskStatuses]
  BY <1>4, DerivedType DEF Restart
<1>6. /\ lock' \in [Projects -> Ops \cup RunIds \cup {Nobody}]
      /\ pc' \in [RunIds -> Pcs]
      /\ ctx' \in [RunIds -> {"live", "cancelled", "expired"}]
  BY DEF Restart
<1>7. /\ verdict' \in [RunIds -> TaskStatuses \cup RunStatuses]
      /\ op' \in [Ops -> OpRecord]
  BY NoOpType DEF Restart
<1>8. stuck' \subseteq RunIds /\ UNCHANGED <<lastTask, lastRun, blind>>
  BY DEF Restart
<1> QED BY <1>3, <1>5, <1>6, <1>7, <1>8 DEF TypeOK, RunRow, OpRecord

(* The initial state is typed.                                             *)
LEMMA TypeInit == Init => TypeOK /\ VerdictFits
<1> SUFFICES ASSUME Init PROVE TypeOK /\ VerdictFits
  OBVIOUS
<1> USE WordsTyped
<1>1. NoRun \in RunRow
  BY Ones DEF NoRun, RunRow
<1>2. run \in [RunIds -> RunRow] /\ op \in [Ops -> OpRecord]
  BY <1>1, NoOpType DEF Init
<1>3. /\ task \in [Tasks -> TaskStatuses] /\ pc \in [RunIds -> Pcs]
      /\ verdict \in [RunIds -> TaskStatuses \cup RunStatuses]
      /\ ctx \in [RunIds -> {"live", "cancelled", "expired"}]
      /\ lock \in [Projects -> Ops \cup RunIds \cup {Nobody}]
      /\ lastTask \in 0..NTasks /\ lastRun \in 0..NRuns
  BY ScanAssumption DEF Init
<1> QED BY <1>2, <1>3 DEF TypeOK, RunRow, OpRecord, Init, VerdictFits

(* What a goroutine holds goes on fitting what it will write.              *)
LEMMA VerdictNext ==
  ASSUME TypeOK, VerdictFits, [Next]_vars
  PROVE  VerdictFits'
<1> USE DEF VerdictFits
<1>1. CASE UNCHANGED vars
  BY <1>1 DEF vars
<1>2. ASSUME NEW r \in RunIds, RunStep(r)
      PROVE  VerdictFits'
  <2> USE DEF Goto, FinishAs
  <2>1. pc \in [RunIds -> Pcs] /\ verdict \in [RunIds -> TaskStatuses \cup RunStatuses]
    BY DEF TypeOK
  <2>2. /\ \A q \in RunIds \ {r} : pc'[q] = pc[q] /\ verdict'[q] = verdict[q]
        /\ pc'[r] = "finish" => verdict'[r] \in {"failed", "skipped"}
    <3>1. CASE Acquire(r) \/ LoadRun(r) \/ Claim(r) \/ Collect(r) \/ EndCollect(r)
      BY <2>1, <3>1 DEF Acquire, LoadRun, Claim, Collect, EndCollect
    <3>2. CASE Prepare(r) \/ Scan(r)
      BY <2>1, <3>2 DEF Prepare, Scan
    <3>3. CASE CheckContext(r) \/ Succeed(r)
      BY <2>1, <3>3 DEF CheckContext, Succeed
    <3>4. CASE FinishRun(r) \/ RecTask(r) \/ RecWrite(r) \/ Leave(r)
      BY <2>1, <3>4 DEF FinishRun, RecTask, RecWrite, Leave
    <3>5. CASE RecRuns(r)
      BY <2>1, <3>5 DEF RecRuns
    <3> QED BY <1>2, <3>1, <3>2, <3>3, <3>4, <3>5 DEF RunStep
  <2>3. pc'[r] = "recWrite" => verdict'[r] \in TaskStatuses
    <3>1. CASE RecRuns(r)
      BY <2>1, <3>1, DerivedType DEF RecRuns
    <3>2. CASE ~RecRuns(r)
      <4>1. CASE Acquire(r) \/ LoadRun(r) \/ Claim(r) \/ Collect(r) \/ EndCollect(r)
        BY <2>1, <4>1 DEF Acquire, LoadRun, Claim, Collect, EndCollect
      <4>2. CASE Prepare(r) \/ Scan(r)
        BY <2>1, <4>2 DEF Prepare, Scan
      <4>3. CASE CheckContext(r) \/ Succeed(r)
        BY <2>1, <4>3 DEF CheckContext, Succeed
      <4>4. CASE FinishRun(r) \/ RecTask(r) \/ RecWrite(r) \/ Leave(r)
        BY <2>1, <4>4 DEF FinishRun, RecTask, RecWrite, Leave
      <4> QED BY <1>2, <3>2, <4>1, <4>2, <4>3, <4>4 DEF RunStep
    <3> QED BY <3>1, <3>2
  <2> QED BY <2>2, <2>3
<1>3. ASSUME NEW r \in RunIds, Expire(r)
      PROVE  VerdictFits'
  BY <1>3 DEF Expire
<1>4. ASSUME NEW o \in Ops, OpStep(o) \/ Begin(o)
      PROVE  VerdictFits'
  <2>1. CASE Schedule(o)
    BY <2>1 DEF Schedule
  <2>2. CASE ~Schedule(o)
    BY <1>4, <2>2 DEF OpStep, Begin, Lock, Check, Insert, NothingMade, MarkRetried, CancelFind,
      CancelSignal, CancelMark, CancelWrite, Trigger, Retry, CancelLoad, Delete
  <2> QED BY <2>1, <2>2
<1>5. CASE Restart
  BY <1>5 DEF Restart
<1> QED BY <1>1, <1>2, <1>3, <1>4, <1>5 DEF Next

(* Every step keeps the types.                                             *)
LEMMA TypeNext ==
  ASSUME TypeOK, VerdictFits, [Next]_vars
  PROVE  TypeOK'
<1>1. CASE UNCHANGED vars
  BY <1>1 DEF vars, TypeOK
<1>2. ASSUME NEW r \in RunIds, Expire(r)
      PROVE  TypeOK'
  BY <1>2 DEF Expire, TypeOK
<1> QED BY <1>1, <1>2, TypeRunStep, TypeOpStep, TypeBegin, TypeRestart DEF Next

(* The variables keep their types: in particular the status a goroutine    *)
(* writes to a run, or recomputeTask to a task, is one of that table's.    *)
THEOREM TypeCorrect == Spec => [](TypeOK /\ VerdictFits)
<1>1. TypeOK /\ VerdictFits /\ [Next]_vars => (TypeOK /\ VerdictFits)'
  BY TypeNext, VerdictNext
<1> QED BY TypeInit, <1>1, PTL DEF Spec

-----------------------------------------------------------------------------
(* The mutex of a project.                                                 *)

(* A handler holds the project's mutex from the check to the insert, and   *)
(* what it found out stays true.                                           *)
Guarded ==
  \A o \in Ops :
    /\ op[o].pc \in {"check", "insert", "skip", "blind"} => lock[op[o].item.project] = o
    /\ op[o].pc = "insert" =>
         \A r \in RunIds : run[r].status \in Active => run[r].project # op[o].item.project

(* Only an insert makes a run active: all other steps at most end runs.    *)
NoNewActive ==
  \A r \in RunIds : run'[r].status \in Active =>
                      run[r].status \in Active /\ run'[r].project = run[r].project

-----------------------------------------------------------------------------
(* What the goroutines are at.                                             *)

Early   == {"waiting", "load", "claim"}
Working == {"prepare", "collect", "collecting", "scan", "check", "succeed", "finish"}
Making  == {"lock", "check", "insert", "skip", "blind", "spawn"}

(* A run that was not inserted yet has neither row nor goroutine; one that *)
(* was and is not scheduled yet has no goroutine, and only one handler     *)
(* will schedule it.                                                       *)
Fresh ==
  /\ \A r \in RunIds : r > lastRun => /\ run[r].status = "none"
                                      /\ pc[r] = "none" /\ ctx[r] = "live"
  /\ \A o \in Ops : \A r \in op[o].made : r <= lastRun /\ pc[r] = "none"
  /\ \A o \in Ops : op[o].made # {} => op[o].pc \in Making
  /\ \A o, p \in Ops : o # p => op[o].made \cap op[p].made = {}

(* Nothing but a cancellation or a deletion ends a run under its goroutine. *)
AtWork ==
  \A r \in RunIds : pc[r] \in Working => run[r].status \in {"running", "cancelled", "none"}

(* Whoever cancelled the context of an active run is about to mark it, or  *)
(* tried and failed.                                                       *)
Signalled ==
  \A r \in RunIds \ stuck : ctx[r] = "cancelled" /\ run[r].status \in Active =>
                      \E o \in Ops : op[o].pc = "markRun" /\ op[o].target = r

-----------------------------------------------------------------------------
(* The steps, by what they do to runs and goroutines.                      *)

(* What the goroutine of r may do to its run, its place and its context.   *)
RunMove(r) ==
  \/ /\ pc[r] \in Early /\ pc'[r] \in {"load", "claim", "leave"}
     /\ run[r].status = "queued" => pc'[r] \in {"load", "claim"} \/ r \in stuck'
     /\ UNCHANGED <<run, ctx>>
  \/ /\ pc[r] = "claim" /\ run[r].status = "queued" /\ pc'[r] = "prepare"
     /\ SetRun(r, "running") /\ UNCHANGED ctx
  \/ pc[r] \in Working /\ pc'[r] \in Working /\ UNCHANGED <<run, ctx>>
  \/ /\ pc[r] = "check" /\ ctx[r] = "cancelled" /\ pc'[r] = "recTask"
     /\ UNCHANGED <<run, ctx>>
  \/ /\ pc[r] \in {"succeed", "finish"} /\ pc'[r] = "recTask" /\ UNCHANGED ctx
     /\ \/ run' = run /\ (run[r].status \notin Active \/ r \in stuck')
        \/ \E s \in RunOutcomes : SetRun(r, s)
  \/ /\ pc[r] \notin Early \cup Working \cup {"none", "killed"}
     /\ pc'[r] \notin Early \cup Working \cup {"none"}
     /\ UNCHANGED run /\ (ctx'[r] = ctx[r] \/ ctx'[r] = "live")

(* Every step of a goroutine is one of these, and leaves the others alone. *)
LEMMA RunStepMoves ==
  ASSUME TypeOK, VerdictFits, NEW r \in RunIds, RunStep(r)
  PROVE  /\ RunMove(r)
         /\ \A q \in RunIds : q # r => pc'[q] = pc[q] /\ ctx'[q] = ctx[q]
         /\ UNCHANGED <<lastRun, op, blind>>
<1> USE DEF Goto, FinishAs, Early, Working
<1>1. pc \in [RunIds -> Pcs] /\ ctx \in [RunIds -> {"live", "cancelled", "expired"}]
  BY DEF TypeOK
<1>2. UNCHANGED <<lastRun, op, blind>>
  BY DEF RunStep, Acquire, LoadRun, Claim, Prepare, Collect, EndCollect, Scan, CheckContext,
    Succeed, FinishRun, RecTask, RecRuns, RecWrite, Leave
<1>3. CASE Acquire(r) \/ LoadRun(r)
  BY <1>1, <1>2, <1>3 DEF Acquire, LoadRun, RunFault, RunMove, Active
<1>4. CASE Claim(r)
  BY <1>1, <1>2, <1>4 DEF Claim, RunFault, RunMove, Active
<1>5. CASE Prepare(r) \/ Scan(r)
  <2>1. pc[r] \in Working /\ pc'[r] \in Working /\ UNCHANGED <<run, ctx>>
    BY <1>1, <1>5 DEF Prepare, Scan
  <2> QED BY <1>1, <1>2, <1>5, <2>1 DEF Prepare, Scan, RunMove
<1>6. CASE Collect(r) \/ EndCollect(r)
  BY <1>1, <1>2, <1>6 DEF Collect, EndCollect, RunMove
<1>7. CASE CheckContext(r)
  BY <1>1, <1>2, <1>7 DEF CheckContext, RunMove
<1>8. CASE Succeed(r)
  <2>1. CASE pc'[r] = "finish"
    BY <1>1, <1>2, <1>8, <2>1 DEF Succeed, RunMove
  <2>2. CASE pc'[r] # "finish"
    <3>1. \/ run' = run /\ run[r].status \notin Active
          \/ \E s \in RunOutcomes : SetRun(r, s)
      BY <1>1, <1>8, <2>2 DEF Succeed, Active, RunOutcomes
    <3> QED BY <1>1, <1>2, <1>8, <2>2, <3>1 DEF Succeed, RunMove
  <2> QED BY <2>1, <2>2
<1>9. CASE FinishRun(r)
  <2>1. verdict[r] \in RunOutcomes
    BY <1>9 DEF FinishRun, VerdictFits, RunOutcomes
  <2>2. \/ run' = run /\ (run[r].status \notin Active \/ r \in stuck')
        \/ \E s \in RunOutcomes : SetRun(r, s)
    BY <1>9, <2>1 DEF FinishRun, Settle, RunFault, SetRunIfActive, SetRun
  <2> QED BY <1>1, <1>2, <1>9, <2>2 DEF FinishRun, RunMove
<1>10. CASE RecTask(r) \/ RecRuns(r) \/ RecWrite(r)
  BY <1>1, <1>2, <1>10 DEF RecTask, RecRuns, RecWrite, RunMove
<1>11. CASE Leave(r)
  BY <1>1, <1>2, <1>11 DEF Leave, RunMove
<1> QED BY <1>3, <1>4, <1>5, <1>6, <1>7, <1>8, <1>9, <1>10, <1>11 DEF RunStep

(* What it does to run rows is to change the status of its own.            *)
LEMMA RunMoveRows ==
  ASSUME TypeOK, NEW r \in RunIds, RunMove(r)
  PROVE  /\ \A q \in RunIds : /\ run'[q].project = run[q].project
                              /\ q # r => run'[q] = run[q]
         /\ NoNewActive
<1>1. run \in [RunIds -> RunRow]
  BY DEF TypeOK, RunRow
<1>2. \/ run' = run
      \/ \E s : SetRun(r, s) /\ (s \in RunOutcomes \/ run[r].status = "queued")
  BY DEF RunMove
<1>3. CASE run' = run
  BY <1>3 DEF NoNewActive
<1>4. ASSUME NEW s, SetRun(r, s), s \in RunOutcomes \/ run[r].status = "queued"
      PROVE  /\ \A q \in RunIds : /\ run'[q].project = run[q].project
                                  /\ q # r => run'[q] = run[q]
             /\ NoNewActive
  <2>1. run[r] \in RunRow
    BY <1>1
  <2>2. run'[r] = [run[r] EXCEPT !.status = s] /\ \A q \in RunIds : q # r => run'[q] = run[q]
    BY <1>1, <1>4 DEF SetRun
  <2>3. run'[r].status = s /\ run'[r].project = run[r].project
    BY <2>1, <2>2 DEF RunRow
  <2>4. s \in RunOutcomes => s \notin Active
    BY DEF RunOutcomes, Active
  <2>5. "queued" \in Active
    BY DEF Active
  <2> QED BY <1>4, <2>2, <2>3, <2>4, <2>5 DEF NoNewActive
<1> QED BY <1>2, <1>3, <1>4

(* Handlers that are not inserting, and restarts, make no run active.      *)
LEMMA HandlersEndRuns ==
  ASSUME TypeOK,
         \/ \E o \in Ops : (OpStep(o) \/ Begin(o)) /\ ~Insert(o)
         \/ Restart
  PROVE  NoNewActive
<1>1. run \in [RunIds -> RunRow]
  BY DEF TypeOK, RunRow
<1>2. ASSUME NEW o \in Ops, CancelMark(o)
      PROVE  NoNewActive
  <2>1. op[o].target \in RunIds
    BY DEF TypeOK
  <2>2. "cancelled" \notin Active
    BY DEF Active
  <2> QED BY <1>1, <1>2, <2>1, <2>2 DEF CancelMark, Settle, RunFault, SetRunIfActive,
               NoNewActive, RunRow
<1>3. ASSUME NEW o \in Ops, Delete(o)
      PROVE  NoNewActive
  <2>1. ASSUME NEW r \in RunIds
        PROVE  run'[r] = run[r] \/ run'[r].status = "none"
    BY <1>1, <1>3 DEF Delete, RunRow
  <2> QED BY <2>1 DEF NoNewActive, Active
<1>4. CASE Restart
  <2>1. ASSUME NEW r \in RunIds
        PROVE  run'[r] = run[r] \/ run'[r].status = "failed"
    BY <1>1, <1>4, RestartRows DEF RunRow
  <2> QED BY <2>1 DEF NoNewActive, Active
<1>5. ASSUME NEW o \in Ops, OpStep(o) \/ Begin(o), ~Insert(o), ~CancelMark(o), ~Delete(o)
      PROVE  NoNewActive
  <2>1. run' = run
    BY <1>5 DEF OpStep, Begin, Lock, Check, NothingMade, MarkRetried, Schedule, CancelFind,
      CancelSignal, CancelWrite, Trigger, Retry, CancelLoad
  <2> QED BY <2>1 DEF NoNewActive
<1> QED BY <1>2, <1>3, <1>4, <1>5

(* An insert fills the next row, or nothing.                               *)
LEMMA InsertRow ==
  ASSUME TypeOK, NEW o \in Ops, Insert(o)
  PROVE  \/ UNCHANGED <<run, lastRun, blind>> /\ OpGoto(o, "lock")
         \/ /\ lastRun + 1 \in RunIds /\ lastRun' = lastRun + 1
            /\ \A r \in RunIds : r # lastRun + 1 => run'[r] = run[r]
            /\ run'[lastRun + 1].project = op[o].item.project
            /\ run'[lastRun + 1].status = IF op[o].pc = "skip" THEN "skipped" ELSE "queued"
            /\ op' = [op EXCEPT ![o].pc = "lock",
                                ![o].made = IF op[o].pc = "skip" THEN @
                                            ELSE @ \cup {lastRun + 1}]
            /\ blind' = IF op[o].pc = "blind" THEN blind \cup {lastRun + 1} ELSE blind
<1>1. run \in [RunIds -> RunRow] /\ lastRun \in 0..NRuns /\ NRuns \in Nat
  BY ScanAssumption DEF TypeOK, RunRow
<1>2. CASE lastRun < NRuns
  <2>1. lastRun + 1 \in RunIds
    BY <1>1, <1>2 DEF RunIds
  <2> QED BY <1>1, <2>1 DEF Insert, NewRun
<1>3. CASE ~(lastRun < NRuns)
  BY <1>3 DEF Insert
<1> QED BY <1>2, <1>3

-----------------------------------------------------------------------------
(* Mutual exclusion of a project's runs.                                   *)

(* A goroutine that collects or leaves never frees a handler's mutex.      *)
LEMMA RunsKeepLocks ==
  ASSUME TypeOK, NEW r \in RunIds, RunStep(r), NEW p \in Projects, lock[p] \in Ops
  PROVE  lock'[p] = lock[p]
<1>1. lock[p] # Nobody /\ lock[p] # r
  BY ScanAssumption
<1> QED BY <1>1 DEF TypeOK, RunStep, Acquire, LoadRun, Claim, Prepare, Collect, EndCollect, Scan,
  CheckContext, Succeed, FinishRun, RecTask, RecRuns, RecWrite, Leave, Goto, FinishAs

(* Steps that leave handlers and their mutexes alone keep them guarded.    *)
LEMMA GuardedFrame ==
  ASSUME TypeOK, Guarded, NoNewActive, NEW o \in Ops, op'[o] = op[o],
         \A p \in Projects : lock[p] = o => lock'[p] = o
  PROVE  /\ op'[o].pc \in {"check", "insert", "skip", "blind"} => lock'[op'[o].item.project] = o
         /\ op'[o].pc = "insert" =>
              \A r \in RunIds : run'[r].status \in Active => run'[r].project # op'[o].item.project
<1>1. op[o].item.project \in Projects
  BY DEF TypeOK, Items
<1> QED BY <1>1 DEF Guarded, NoNewActive

(* A step of one handler leaves the mutexes of the others.                 *)
LEMMA HandlersKeepLocks ==
  ASSUME TypeOK, Guarded, NEW o \in Ops, OpStep(o) \/ Begin(o), NEW p \in Projects,
         lock[p] \in Ops \ {o}
  PROVE  lock'[p] = lock[p]
<1>1. lock[p] # Nobody
  BY ScanAssumption
<1>2. op[o].pc \in {"check", "insert", "skip", "blind"} => lock[op[o].item.project] = o
  BY DEF Guarded
<1>3. CASE Lock(o) \/ Check(o) \/ Insert(o)
  BY <1>1, <1>2, <1>3 DEF TypeOK, Lock, Check, Insert
<1> QED BY <1>3 DEF OpStep, Begin, NothingMade, MarkRetried, Schedule, CancelFind,
  CancelSignal, CancelMark, CancelWrite, Trigger, Retry, CancelLoad, Delete

(* Where a handler that has just read its request stands.                  *)
LEMMA FreshPc ==
  /\ \A k, t, todo : [NoOp EXCEPT !.pc = "lock", !.kind = k, !.task = t, !.todo = todo].pc = "lock"
  /\ \A k, t : [NoOp EXCEPT !.pc = "find", !.kind = k, !.task = t].pc = "find"
BY DEF NoOp

(* Every step keeps the handlers guarded.                                  *)
LEMMA GuardedNext ==
  ASSUME TypeOK, VerdictFits, Guarded, [Next]_vars
  PROVE  Guarded'
<1>1. CASE UNCHANGED vars
  BY <1>1 DEF vars, Guarded, ActiveRuns
<1>2. ASSUME NEW r \in RunIds, RunStep(r) \/ Expire(r)
      PROVE  Guarded'
  <2>1. NoNewActive
    BY <1>2, RunStepMoves, RunMoveRows DEF Expire, NoNewActive
  <2>2. op' = op
    BY <1>2, RunStepMoves DEF Expire
  <2>3. \A o \in Ops, p \in Projects : lock[p] = o => lock'[p] = o
    BY <1>2, RunsKeepLocks DEF Expire
  <2> QED BY <2>1, <2>2, <2>3, GuardedFrame DEF Guarded
<1>3. ASSUME NEW o \in Ops, OpStep(o) \/ Begin(o)
      PROVE  Guarded'
  <2>1. \A q \in Ops : q # o => op'[q] = op[q]
    BY <1>3 DEF TypeOK, OpStep, Begin, Lock, Check, Insert, NothingMade, MarkRetried, Schedule,
      CancelFind, CancelSignal, CancelMark, CancelWrite, Trigger, Retry, CancelLoad, Delete,
      SetOp, OpGoto
  <2>2. \A q \in Ops, p \in Projects : q # o /\ lock[p] = q => lock'[p] = q
    BY <1>3, HandlersKeepLocks
  <2>3. ASSUME NEW q \in Ops, q # o
        PROVE  /\ op'[q].pc \in {"check", "insert", "skip", "blind"} => lock'[op'[q].item.project] = q
               /\ op'[q].pc = "insert" =>
                    \A r \in RunIds : run'[r].status \in Active =>
                                         run'[r].project # op'[q].item.project
    <3>1. CASE ~Insert(o)
      <4>1. NoNewActive
        BY <1>3, <3>1, HandlersEndRuns
      <4> QED BY <2>1, <2>2, <2>3, <4>1, GuardedFrame
    <3>2. CASE Insert(o)
      <4>1. /\ op[q].item.project \in Projects /\ op[o].item.project \in Projects
            /\ op[o].pc \in {"insert", "skip", "blind"}
        BY <3>2 DEF TypeOK, Items, Insert
      <4>2. op'[q].pc \in {"check", "insert", "skip", "blind"} => lock'[op'[q].item.project] = q
        BY <2>1, <2>2, <2>3, <4>1 DEF Guarded
      <4>3. ASSUME op[q].pc = "insert", NEW r \in RunIds, run'[r].status \in Active
            PROVE  run'[r].project # op[q].item.project
        <5>1. op[q].item.project # op[o].item.project
          BY <2>3, <4>1, <4>3 DEF Guarded
        <5>2. run[r].status \in Active => run[r].project # op[q].item.project
          BY <4>3 DEF Guarded
        <5> QED BY <3>2, <4>3, <5>1, <5>2, InsertRow
      <4> QED BY <2>1, <2>3, <4>2, <4>3
    <3> QED BY <3>1, <3>2
  <2>4. /\ op'[o].pc \in {"check", "insert", "skip", "blind"} => lock'[op'[o].item.project] = o
        /\ op'[o].pc = "insert" =>
             \A r \in RunIds : run'[r].status \in Active => run'[r].project # op'[o].item.project
    <3>1. /\ op \in [Ops -> OpRecord] /\ op[o] \in OpRecord
          /\ lock \in [Projects -> Ops \cup RunIds \cup {Nobody}]
      BY DEF TypeOK, OpRecord
    <3>2. CASE Lock(o)
      <4>1. PICK i \in op[o].todo :
              /\ lock' = [lock EXCEPT ![i.project] = o]
              /\ op' = [op EXCEPT ![o].pc = "check", ![o].item = i, ![o].todo = @ \ {i}]
        BY <3>2 DEF Lock
      <4>2. i.project \in Projects
        BY <3>1 DEF OpRecord, Items
      <4>3. op'[o].pc = "check" /\ op'[o].item = i
        BY <3>1, <4>1 DEF OpRecord
      <4> QED BY <3>1, <4>1, <4>2, <4>3
    <3>3. CASE Check(o)
      <4>1. /\ op'[o].pc \in {"insert", "skip", "blind", "lock"} /\ op'[o].item = op[o].item
            /\ op'[o].pc \in {"insert", "skip", "blind"} => UNCHANGED lock
            /\ op'[o].pc = "insert" => ActiveRuns(op[o].item.project) = {}
            /\ run' = run
        BY <3>1, <3>3 DEF Check, OpGoto, OpRecord
      <4> QED BY <3>3, <4>1 DEF Guarded, Check, ActiveRuns
    <3>4. CASE ~Lock(o) /\ ~Check(o) /\ ~Delete(o)
      <4>1. CASE Insert(o) \/ MarkRetried(o) \/ CancelFind(o) \/ CancelSignal(o) \/ CancelMark(o)
        <5>1. op'[o].pc \in {"lock", "spawn", "signal", "markRun"}
          <6>1. CASE Insert(o)
            BY <3>1, <6>1 DEF Insert, OpGoto, OpRecord
          <6>2. CASE MarkRetried(o)
            BY <3>1, <6>2 DEF MarkRetried, OpGoto, OpRecord
          <6>3. CASE CancelFind(o)
            <7>1. PICK found : op' = [op EXCEPT ![o].pc = "signal", ![o].targets = found]
              BY <6>3 DEF CancelFind
            <7> QED BY <3>1, <7>1 DEF OpRecord
          <6>4. CASE CancelSignal(o) \/ CancelMark(o)
            BY <3>1, <6>4, ZenonT(30) DEF CancelSignal, CancelMark, OpGoto, OpRecord
          <6> QED BY <4>1, <6>1, <6>2, <6>3, <6>4
        <5> QED BY <5>1
      <4>2. CASE NothingMade(o) \/ Schedule(o) \/ CancelWrite(o)
        <5>1. op'[o].pc = "idle"
          BY <3>1, <4>2 DEF NothingMade, Schedule, CancelWrite, SetOp, NoOp
        <5> QED BY <5>1
      <4>3. CASE Trigger(o) \/ Retry(o) \/ CancelLoad(o)
        <5>1. op'[o].pc \in {"lock", "find"}
          <6>1. CASE Trigger(o)
            BY <3>1, <6>1, FreshPc DEF Trigger, SetOp
          <6>2. CASE Retry(o)
            <7>1. PICK t, todo : SetOp(o, [NoOp EXCEPT !.pc = "lock", !.kind = "retry",
                                                       !.task = t, !.todo = todo])
              BY <6>2 DEF Retry
            <7> QED BY <3>1, <7>1, FreshPc DEF SetOp
          <6>3. CASE CancelLoad(o)
            BY <3>1, <6>3, FreshPc DEF CancelLoad, SetOp
          <6> QED BY <4>3, <6>1, <6>2, <6>3
        <5> QED BY <5>1
      <4> QED BY <1>3, <3>4, <4>1, <4>2, <4>3 DEF OpStep, Begin
    <3>5. CASE Delete(o)
      <4>1. op[o].pc = "idle" /\ op' = op
        BY <3>5 DEF Delete
      <4> QED BY <4>1
    <3> QED BY <3>2, <3>3, <3>4, <3>5
  <2> QED BY <2>3, <2>4 DEF Guarded
<1>4. CASE Restart
  <2>1. \A o \in Ops : op'[o].pc = "idle"
    BY <1>4 DEF Restart, NoOp
  <2> QED BY <2>1 DEF Guarded
<1> QED BY <1>1, <1>2, <1>3, <1>4 DEF Next

-----------------------------------------------------------------------------
(* Handlers, by what they do to runs and goroutines.                       *)

(* Making no run: everything but the marks, deletions, inserts and the     *)
(* start of goroutines.                                                    *)
Quiet(o) ==
  /\ UNCHANGED <<run, lastRun, pc, ctx>>
  /\ \A p \in Ops : p # o => op'[p] = op[p]
  /\ op[o].pc # "markRun"
  /\ op'[o].made = op[o].made
  /\ op[o].made # {} => op'[o].pc \in Making

Started(o) ==
  /\ pc' = [r \in RunIds |-> IF r \in op[o].made THEN "waiting" ELSE pc[r]]
  /\ op' = [op EXCEPT ![o] = NoOp] /\ op[o].pc \in {"spawn", "lock"}
  /\ UNCHANGED <<run, lastRun, ctx>>

Aimed(o) ==
  /\ op[o].pc = "signal"
  /\ \E r \in RunIds :
       /\ op'[o].pc = "markRun" /\ op'[o].target = r /\ op'[o].made = op[o].made
       /\ ctx' = IF pc[r] \in Executing /\ ctx[r] = "live"
                 THEN [ctx EXCEPT ![r] = "cancelled"] ELSE ctx
  /\ \A p \in Ops : p # o => op'[p] = op[p]
  /\ UNCHANGED <<run, lastRun, pc>>

Marked(o) ==
  /\ op[o].pc = "markRun" /\ op'[o].pc = "signal" /\ op'[o].made = op[o].made
  /\ \A p \in Ops : p # o => op'[p] = op[p]
  /\ \/ SetRunIfActive(op[o].target, "cancelled")
     \/ run' = run /\ (run[op[o].target].status \notin Active \/ op[o].target \in stuck')
  /\ UNCHANGED <<lastRun, pc, ctx>>

Deleted ==
  /\ \A r \in RunIds : run'[r] = run[r] \/ run'[r].status = "none"
  /\ UNCHANGED <<lastRun, pc, ctx, op>>

Inserted(o) ==
  LET new == lastRun + 1
  IN /\ new \in RunIds /\ lastRun' = new
     /\ \A r \in RunIds : r # new => run'[r] = run[r]
     /\ run'[new].status \in {"queued", "skipped"}
     /\ op[o].pc \in {"insert", "skip", "blind"} /\ op'[o].pc = "lock"
     /\ op'[o].made = op[o].made \/ op'[o].made = op[o].made \cup {new}
     /\ run'[new].status = "queued" => new \in op'[o].made
     /\ \A p \in Ops : p # o => op'[p] = op[p]
     /\ UNCHANGED <<pc, ctx>>

(* Every step of a handler is one of these.                                *)
LEMMA HandlerMoves ==
  ASSUME TypeOK, Fresh, NEW o \in Ops, OpStep(o) \/ Begin(o)
  PROVE  Quiet(o) \/ Started(o) \/ Aimed(o) \/ Marked(o) \/ Deleted \/ Inserted(o)
<1>1. op \in [Ops -> OpRecord] /\ op[o] \in OpRecord /\ run \in [RunIds -> RunRow]
  BY DEF TypeOK, OpRecord, RunRow
<1>2. op[o].made # {} => op[o].pc \in Making
  BY DEF Fresh
<1>3. NoOp.made = {}
  BY DEF NoOp
<1>4. CASE Lock(o)
  <2>1. op'[o].pc = "check" /\ op'[o].made = op[o].made /\ op[o].pc = "lock"
    BY <1>1, <1>4 DEF Lock, OpRecord
  <2>2. UNCHANGED <<run, lastRun, pc, ctx>> /\ \A p \in Ops : p # o => op'[p] = op[p]
    BY <1>1, <1>4 DEF Lock
  <2> QED BY <2>1, <2>2 DEF Quiet, Making
<1>5. ASSUME NEW l \in Making, Check(o) \/ MarkRetried(o) \/ Insert(o), OpGoto(o, l),
             UNCHANGED <<run, lastRun, pc, ctx>>
      PROVE  Quiet(o)
  <2>1. op[o].pc # "markRun"
    BY <1>5 DEF Check, MarkRetried, Insert
  <2>2. /\ op'[o].pc = l /\ op'[o].made = op[o].made
        /\ \A p \in Ops : p # o => op'[p] = op[p]
    BY <1>1, <1>5 DEF OpGoto, OpRecord
  <2> QED BY <1>5, <2>1, <2>2 DEF Quiet
<1>6. CASE Check(o) \/ MarkRetried(o)
  <2>1. PICK l \in Making : OpGoto(o, l)
    BY <1>6 DEF Check, MarkRetried, Making
  <2>2. UNCHANGED <<run, lastRun, pc, ctx>>
    BY <1>6 DEF Check, MarkRetried
  <2> QED BY <1>5, <1>6, <2>1, <2>2
<1>7. CASE Insert(o)
  <2>1. CASE UNCHANGED <<run, lastRun, blind>> /\ OpGoto(o, "lock")
    <3>1. "lock" \in Making /\ UNCHANGED <<pc, ctx>>
      BY <1>7 DEF Making, Insert
    <3> QED BY <1>5, <1>7, <2>1, <3>1
  <2>2. CASE ~(UNCHANGED <<run, lastRun, blind>> /\ OpGoto(o, "lock"))
    <3>1. op' = [op EXCEPT ![o].pc = "lock",
                           ![o].made = IF op[o].pc = "skip" THEN @ ELSE @ \cup {lastRun + 1}]
      BY <1>7, <2>2, InsertRow
    <3>2. /\ op'[o].pc = "lock" /\ \A p \in Ops : p # o => op'[p] = op[p]
          /\ op'[o].made = IF op[o].pc = "skip" THEN op[o].made
                           ELSE op[o].made \cup {lastRun + 1}
      BY <1>1, <3>1 DEF OpRecord
    <3>3. op[o].pc \in {"insert", "skip", "blind"} /\ UNCHANGED <<pc, ctx>>
      BY <1>7 DEF Insert
    <3> QED BY <1>7, <2>2, <3>2, <3>3, InsertRow DEF Inserted
  <2> QED BY <2>1, <2>2
<1>8. CASE NothingMade(o) \/ CancelWrite(o)
  <2>1. op[o].made = {} /\ op[o].pc # "markRun" /\ op' = [op EXCEPT ![o] = NoOp]
    BY <1>2, <1>8 DEF NothingMade, CancelWrite, SetOp, Making
  <2>2. UNCHANGED <<run, lastRun, pc, ctx>>
    BY <1>8 DEF NothingMade, CancelWrite
  <2> QED BY <1>1, <1>3, <2>1, <2>2 DEF Quiet
<1>9. CASE Schedule(o)
  BY <1>9 DEF Schedule, Started, SetOp
<1>10. CASE CancelFind(o)
  <2>1. op[o].made = {} /\ op[o].pc # "markRun"
    BY <1>2, <1>10 DEF CancelFind, Making
  <2>2. op'[o].made = op[o].made /\ \A p \in Ops : p # o => op'[p] = op[p]
    BY <1>1, <1>10 DEF CancelFind, OpRecord
  <2> QED BY <1>10, <2>1, <2>2 DEF Quiet, CancelFind
<1>11. CASE CancelSignal(o)
  <2>1. PICK r \in op[o].targets :
          /\ ctx' = IF pc[r] \in Executing /\ ctx[r] = "live"
                    THEN [ctx EXCEPT ![r] = "cancelled"] ELSE ctx
          /\ op' = [op EXCEPT ![o].pc = "markRun", ![o].target = r, ![o].targets = @ \ {r}]
    BY <1>11 DEF CancelSignal
  <2>2. r \in RunIds
    BY <1>1 DEF OpRecord
  <2>3. /\ op'[o].pc = "markRun" /\ op'[o].target = r /\ op'[o].made = op[o].made
        /\ \A p \in Ops : p # o => op'[p] = op[p]
    BY <1>1, <2>1 DEF OpRecord
  <2> QED BY <1>11, <2>1, <2>2, <2>3 DEF Aimed, CancelSignal
<1>12. CASE CancelMark(o)
  <2>1. /\ op'[o].pc = "signal" /\ op'[o].made = op[o].made
        /\ \A p \in Ops : p # o => op'[p] = op[p]
    BY <1>1, <1>12 DEF CancelMark, OpGoto, OpRecord
  <2> QED BY <1>12, <2>1 DEF Marked, CancelMark, Settle, RunFault
<1>13. CASE Trigger(o) \/ Retry(o) \/ CancelLoad(o)
  <2>1. \E new : new.made = {} /\ SetOp(o, new)
    <3>1. \A l, k, t, todo : [NoOp EXCEPT !.pc = l, !.kind = k, !.task = t, !.todo = todo].made = {}
      BY DEF NoOp
    <3>2. \A l, k, t : [NoOp EXCEPT !.pc = l, !.kind = k, !.task = t].made = {}
      BY DEF NoOp
    <3>3. CASE Trigger(o)
      <4>1. PICK t, todo : SetOp(o, [NoOp EXCEPT !.pc = "lock", !.kind = "trigger",
                                                 !.task = t, !.todo = todo])
        BY <3>3 DEF Trigger
      <4> QED BY <3>1, <4>1
    <3>4. CASE Retry(o)
      <4>1. PICK t, todo : SetOp(o, [NoOp EXCEPT !.pc = "lock", !.kind = "retry",
                                                 !.task = t, !.todo = todo])
        BY <3>4 DEF Retry
      <4> QED BY <3>1, <4>1
    <3>5. CASE CancelLoad(o)
      <4>1. PICK t : SetOp(o, [NoOp EXCEPT !.pc = "find", !.kind = "cancel", !.task = t])
        BY <3>5 DEF CancelLoad
      <4> QED BY <3>2, <4>1
    <3> QED BY <1>13, <3>3, <3>4, <3>5
  <2>2. op[o].pc = "idle" /\ UNCHANGED <<run, lastRun, pc, ctx>>
    BY <1>13 DEF Trigger, Retry, CancelLoad
  <2>3. op[o].made = {}
    BY <1>2, <2>2 DEF Making
  <2>4. op'[o].made = {} /\ \A p \in Ops : p # o => op'[p] = op[p]
    BY <1>1, <2>1 DEF SetOp
  <2> QED BY <2>2, <2>3, <2>4 DEF Quiet
<1>14. CASE Delete(o)
  <2>1. ASSUME NEW r \in RunIds
        PROVE  run'[r] = run[r] \/ run'[r].status = "none"
    BY <1>1, <1>14 DEF Delete, RunRow
  <2> QED BY <1>14, <2>1 DEF Delete, Deleted
<1> QED BY <1>4, <1>6, <1>7, <1>8, <1>9, <1>10, <1>11, <1>12, <1>13, <1>14 DEF OpStep, Begin

(* A row fits in the table before it is inserted, and a goroutine has one. *)
LEMMA WorkersHaveRows ==
  ASSUME TypeOK, Fresh, NEW r \in RunIds, pc[r] # "none"
  PROVE  r <= lastRun
BY DEF TypeOK, Fresh, RunIds

(* What a step of a goroutine leaves fresh.                                *)
LEMMA FreshRunStep ==
  ASSUME TypeOK, VerdictFits, Fresh, NEW r \in RunIds, RunStep(r)
  PROVE  Fresh'
<1>1. /\ RunMove(r) /\ UNCHANGED <<lastRun, op>>
      /\ \A q \in RunIds : q # r => pc'[q] = pc[q] /\ ctx'[q] = ctx[q] /\ run'[q] = run[q]
  BY RunStepMoves, RunMoveRows
<1>2. pc[r] # "none"
  BY <1>1 DEF RunMove, Early, Working
<1>3. r <= lastRun /\ ~(r > lastRun)
  BY <1>2, WorkersHaveRows DEF TypeOK, RunIds
<1>4. \A q \in RunIds : q > lastRun => q # r
  BY <1>3
<1>5. \A o \in Ops : \A q \in op[o].made : q \in RunIds /\ q # r
  BY <1>2 DEF Fresh, TypeOK
<1> QED BY <1>1, <1>4, <1>5 DEF Fresh

(* What a step of a handler leaves fresh.                                  *)
LEMMA FreshHandler ==
  ASSUME TypeOK, Fresh, NEW o \in Ops, OpStep(o) \/ Begin(o)
  PROVE  Fresh'
<1>1. /\ lastRun \in Nat /\ \A p \in Ops : op[p].made \subseteq RunIds
      /\ op \in [Ops -> OpRecord] /\ pc \in [RunIds -> Pcs]
      /\ ctx \in [RunIds -> {"live", "cancelled", "expired"}]
      /\ RunIds \subseteq Nat
  BY DEF TypeOK, OpRecord, RunIds
<1>2. CASE Quiet(o)
  BY <1>2 DEF Quiet, Fresh
<1>3. CASE Started(o)
  <2>1. op'[o].made = {} /\ \A p \in Ops : p # o => op'[p] = op[p]
    BY <1>1, <1>3 DEF Started, NoOp
  <2>2. ASSUME NEW r \in RunIds, r > lastRun, r \in op[o].made
        PROVE  FALSE
    <3>1. r <= lastRun
      BY <2>2 DEF Fresh
    <3>2. r \in Nat /\ lastRun \in Nat
      BY <1>1
    <3> QED BY <2>2, <3>1, <3>2
  <2>3. \A r \in RunIds : r \notin op[o].made => pc'[r] = pc[r]
    BY <1>3 DEF Started
  <2>4. \A p \in Ops : p # o => \A r \in op[p].made : r \in RunIds /\ r \notin op[o].made
    BY <1>1 DEF Fresh
  <2>5. UNCHANGED <<run, lastRun, ctx>>
    BY <1>3 DEF Started
  <2>6. \A r \in RunIds : r > lastRun' => /\ run'[r].status = "none"
                                          /\ pc'[r] = "none" /\ ctx'[r] = "live"
    BY <2>2, <2>3, <2>5 DEF Fresh
  <2>7. \A p \in Ops : \A r \in op'[p].made : r <= lastRun' /\ pc'[r] = "none"
    BY <2>1, <2>3, <2>4, <2>5 DEF Fresh
  <2>8. /\ \A p \in Ops : op'[p].made # {} => op'[p].pc \in Making
        /\ \A p, q \in Ops : p # q => op'[p].made \cap op'[q].made = {}
    BY <2>1 DEF Fresh
  <2> QED BY <2>6, <2>7, <2>8 DEF Fresh
<1>4. CASE Aimed(o)
  <2>1. op[o].made = {}
    BY <1>4 DEF Aimed, Fresh, Making
  <2>2. \A r \in RunIds : pc[r] = "none" => ctx'[r] = ctx[r]
    <3>1. "none" \notin Executing
      BY DEF Executing
    <3> QED BY <1>1, <1>4, <3>1 DEF Aimed
  <2> QED BY <1>4, <2>1, <2>2 DEF Aimed, Fresh
<1>5. CASE Marked(o)
  <2>1. op[o].made = {}
    BY <1>5 DEF Marked, Fresh, Making
  <2>2. ASSUME NEW r \in RunIds, run[r].status = "none"
        PROVE  run'[r].status = "none"
    <3>1. "none" \notin Active
      BY DEF Active
    <3> QED BY <1>5, <2>2, <3>1 DEF Marked, SetRunIfActive, TypeOK
  <2> QED BY <1>5, <2>1, <2>2 DEF Marked, Fresh
<1>6. CASE Deleted
  BY <1>6 DEF Deleted, Fresh
<1>7. CASE Inserted(o)
  <2>1. lastRun' = lastRun + 1 /\ lastRun + 1 \in RunIds /\ UNCHANGED <<pc, ctx>>
    BY <1>7 DEF Inserted
  <2>2. pc[lastRun + 1] = "none"
    BY <1>1, <2>1 DEF Fresh
  <2>3. \A r \in RunIds : r > lastRun' => /\ run'[r].status = "none"
                                          /\ pc'[r] = "none" /\ ctx'[r] = "live"
    BY <1>1, <1>7 DEF Inserted, Fresh
  <2>4. \A p \in Ops : \/ op'[p].made = op[p].made
                       \/ p = o /\ op'[p].made = op[p].made \cup {lastRun + 1}
    BY <1>7 DEF Inserted
  <2>5. ASSUME NEW p \in Ops, NEW r \in op'[p].made
        PROVE  r <= lastRun' /\ pc'[r] = "none"
    <3>1. CASE r = lastRun + 1
      BY <1>1, <2>1, <2>2, <3>1
    <3>2. CASE r \in op[p].made
      <4>1. r <= lastRun /\ pc[r] = "none"
        BY <3>2 DEF Fresh
      <4>2. r \in Nat /\ lastRun \in Nat
        BY <1>1, <3>2
      <4> QED BY <2>1, <4>1, <4>2
    <3> QED BY <2>4, <2>5, <3>1, <3>2
  <2>6. \A p \in Ops : op'[p].made # {} => op'[p].pc \in Making
    BY <1>7 DEF Inserted, Fresh, Making
  <2>7. \A p \in Ops : lastRun + 1 \notin op[p].made
    BY <1>1 DEF Fresh
  <2>8. \A p, q \in Ops : p # q => op'[p].made \cap op'[q].made = {}
    BY <2>4, <2>7 DEF Fresh
  <2> QED BY <2>3, <2>5, <2>6, <2>8 DEF Fresh
<1> QED BY <1>2, <1>3, <1>4, <1>5, <1>6, <1>7, HandlerMoves

(* Every step leaves fresh what has no goroutine.                          *)
LEMMA FreshNext ==
  ASSUME TypeOK, VerdictFits, Fresh, [Next]_vars
  PROVE  Fresh'
<1>1. CASE UNCHANGED vars
  BY <1>1 DEF vars, Fresh
<1>2. ASSUME NEW r \in RunIds, Expire(r)
      PROVE  Fresh'
  <2>1. \A q \in RunIds : pc[q] = "none" => ctx'[q] = ctx[q]
    BY <1>2 DEF Expire, TypeOK
  <2> QED BY <1>2, <2>1 DEF Expire, Fresh
<1>3. CASE Restart
  <2>1. \A r \in RunIds : run[r].status = "none" => run'[r].status = "none"
    BY <1>3, RestartRows DEF Active, TypeOK, RunRow
  <2>2. UNCHANGED lastRun /\ \A o \in Ops : op'[o].made = {}
    BY <1>3 DEF Restart, NoOp
  <2>3. \A r \in RunIds : /\ ctx'[r] = "live"
                          /\ pc[r] = "none" /\ r > lastRun => pc'[r] = "none"
    BY <1>3 DEF Restart
  <2> QED BY <2>1, <2>2, <2>3 DEF Fresh
<1> QED BY <1>1, <1>2, <1>3, FreshRunStep, FreshHandler DEF Next

-----------------------------------------------------------------------------
(* Outcomes.                                                               *)

(* How a step of a goroutine moves the status of its run.                  *)
LEMMA RunMoveStatus ==
  ASSUME TypeOK, NEW r \in RunIds, RunMove(r)
  PROVE  \/ run' = run
         \/ /\ pc[r] = "claim" /\ run[r].status = "queued" /\ pc'[r] = "prepare"
            /\ run'[r].status = "running" /\ UNCHANGED ctx
         \/ /\ pc[r] \in {"succeed", "finish"} /\ pc'[r] = "recTask"
            /\ run'[r].status \in RunOutcomes
<1>1. run \in [RunIds -> RunRow] /\ run[r] \in RunRow
  BY DEF TypeOK, RunRow
<1>2. ASSUME NEW s, SetRun(r, s)
      PROVE  run'[r].status = s
  BY <1>1, <1>2 DEF SetRun, RunRow
<1> QED BY <1>2 DEF RunMove

(* Nothing but a cancellation or a deletion ends a run at work: preserved. *)
LEMMA AtWorkNext ==
  ASSUME TypeOK, VerdictFits, Fresh, AtWork, [Next]_vars
  PROVE  AtWork'
<1>1. CASE UNCHANGED vars
  BY <1>1 DEF vars, AtWork
<1>2. ASSUME NEW r \in RunIds, RunStep(r)
      PROVE  AtWork'
  <2>1. /\ RunMove(r)
        /\ \A q \in RunIds : q # r => pc'[q] = pc[q] /\ run'[q] = run[q]
    BY <1>2, RunStepMoves, RunMoveRows
  <2>2. pc'[r] \in Working => run'[r].status \in {"running", "cancelled", "none"}
    <3>1. CASE run' = run
      <4>1. pc'[r] \in Working => pc[r] \in Working
        <5>1. /\ pc'[r] \in {"load", "claim", "leave", "recTask"} => pc'[r] \notin Working
              /\ pc'[r] \notin Early \cup Working \cup {"none"} => pc'[r] \notin Working
          BY DEF Working
        <5>2. pc[r] = "claim" /\ SetRun(r, "running") /\ run[r].status = "queued" => run' # run
          <6>1. run[r].status = "queued" => [run EXCEPT ![r].status = "running"] # run
            BY DEF TypeOK
          <6> QED BY <6>1 DEF SetRun
        <5> QED BY <2>1, <3>1, <5>1, <5>2 DEF RunMove
      <4> QED BY <3>1, <4>1 DEF AtWork
    <3>2. CASE run' # run
      BY <2>1, <3>2, RunMoveStatus DEF Working
    <3> QED BY <3>1, <3>2
  <2> QED BY <2>1, <2>2 DEF AtWork
<1>3. ASSUME NEW r \in RunIds, Expire(r)
      PROVE  AtWork'
  BY <1>3 DEF Expire, AtWork
<1>4. ASSUME NEW o \in Ops, OpStep(o) \/ Begin(o)
      PROVE  AtWork'
  <2>1. CASE Quiet(o) \/ Aimed(o)
    BY <2>1 DEF Quiet, Aimed, AtWork
  <2>2. CASE Started(o)
    BY <2>2 DEF Started, AtWork, Working
  <2>3. CASE Marked(o)
    <3>1. ASSUME NEW r \in RunIds
          PROVE  run'[r] = run[r] \/ run'[r].status = "cancelled"
      BY <2>3 DEF Marked, SetRunIfActive, TypeOK
    <3> QED BY <2>3, <3>1 DEF Marked, AtWork
  <2>4. CASE Deleted
    BY <2>4 DEF Deleted, AtWork
  <2>5. CASE Inserted(o)
    <3>1. pc[lastRun + 1] = "none" /\ UNCHANGED pc
      BY <2>5 DEF Inserted, Fresh, TypeOK
    <3>2. \A r \in RunIds : r # lastRun + 1 => run'[r] = run[r]
      BY <2>5 DEF Inserted
    <3>3. "none" \notin Working
      BY DEF Working
    <3> QED BY <3>1, <3>2, <3>3 DEF AtWork
  <2> QED BY <1>4, <2>1, <2>2, <2>3, <2>4, <2>5, HandlerMoves
<1>5. CASE Restart
  <2>1. \A r \in RunIds : pc'[r] \notin Working
    BY <1>5 DEF Restart, Working
  <2> QED BY <2>1 DEF AtWork
<1> QED BY <1>1, <1>2, <1>3, <1>4, <1>5 DEF Next

Settled == {"success", "failed", "skipped"}

(* A step leaves the outcome of a run, or deletes it.                      *)
LEMMA OutcomeStep ==
  ASSUME TypeOK, VerdictFits, Fresh, AtWork, [Next]_vars,
         NEW r \in RunIds, run[r].status \in Settled
  PROVE  run'[r].status \in {run[r].status, "none"}
<1>1. CASE UNCHANGED vars
  BY <1>1 DEF vars
<1>2. ASSUME NEW q \in RunIds, RunStep(q)
      PROVE  run'[r].status = run[r].status
  <2>1. RunMove(q) /\ (q # r => run'[r] = run[r])
    BY <1>2, RunStepMoves, RunMoveRows
  <2>2. CASE q = r
    <3>1. pc[r] \notin {"succeed", "finish"} /\ run[r].status # "queued"
      BY DEF AtWork, Working, Settled
    <3> QED BY <2>1, <2>2, <3>1, RunMoveStatus
  <2> QED BY <2>1, <2>2
<1>3. ASSUME NEW q \in RunIds, Expire(q)
      PROVE  run'[r].status = run[r].status
  BY <1>3 DEF Expire
<1>4. ASSUME NEW o \in Ops, OpStep(o) \/ Begin(o)
      PROVE  run'[r].status \in {run[r].status, "none"}
  <2>1. CASE Quiet(o) \/ Aimed(o) \/ Started(o)
    BY <2>1 DEF Quiet, Aimed, Started
  <2>2. CASE Marked(o)
    <3>1. run[r].status \notin Active
      BY DEF Active, Settled
    <3> QED BY <2>2, <3>1 DEF Marked, SetRunIfActive, TypeOK
  <2>3. CASE Deleted
    BY <2>3 DEF Deleted
  <2>4. CASE Inserted(o)
    <3>1. r # lastRun + 1
      BY DEF Fresh, Settled, TypeOK
    <3> QED BY <2>4, <3>1 DEF Inserted
  <2> QED BY <1>4, <2>1, <2>2, <2>3, <2>4, HandlerMoves
<1>5. CASE Restart
  <2>1. run[r].status \notin Active
    BY DEF Settled, Active
  <2> QED BY <1>5, <2>1, RestartRows DEF TypeOK, RunRow
<1> QED BY <1>1, <1>2, <1>3, <1>4, <1>5 DEF Next

(* In the first state nothing was created.                                 *)
LEMMA FreshInit == Init => Fresh /\ AtWork
<1> SUFFICES ASSUME Init PROVE Fresh /\ AtWork
  OBVIOUS
<1>1. Fresh
  BY DEF Init, Fresh, NoRun, NoOp
<1>2. AtWork
  BY DEF Init, AtWork, Working
<1> QED BY <1>1, <1>2

(* A run that ended by itself keeps its outcome until its task is deleted, *)
(* although the last update of execute has no condition (scan.go:329): the *)
(* goroutine reaches it only while the run is running or was cancelled.    *)
THEOREM OutcomesAreFinal == Spec => RunOutcomeStands
<1> DEFINE Inv == TypeOK /\ VerdictFits /\ Fresh /\ AtWork
<1>1. Init => Inv
  BY TypeInit, FreshInit
<1>2. Inv /\ [Next]_vars => Inv'
  BY TypeNext, VerdictNext, FreshNext, AtWorkNext
<1>3. Inv /\ [Next]_vars =>
        [\A r \in RunIds : run[r].status \in {"success", "failed", "skipped"} =>
           run'[r].status \in {run[r].status, "none"}]_vars
  BY OutcomeStep DEF Settled
<1> QED BY <1>1, <1>2, <1>3, PTL DEF Spec, RunOutcomeStands

-----------------------------------------------------------------------------
(* One active run per project.                                             *)

(* Only an insert by a handler that could not look adds to the unseen.     *)
LEMMA BlindGrows ==
  ASSUME [Next]_vars
  PROVE  blind \subseteq blind'
<1>1. ASSUME NEW r \in RunIds, RunStep(r) \/ Expire(r)
      PROVE  UNCHANGED blind
  <2>1. CASE \/ Acquire(r) \/ LoadRun(r) \/ Claim(r) \/ Prepare(r) \/ Collect(r)
             \/ EndCollect(r) \/ Scan(r)
    BY <2>1 DEF Acquire, LoadRun, Claim, Prepare, Collect, EndCollect, Scan
  <2>2. CASE \/ CheckContext(r) \/ Succeed(r) \/ FinishRun(r) \/ RecTask(r) \/ RecRuns(r)
             \/ RecWrite(r) \/ Leave(r) \/ Expire(r)
    BY <2>2 DEF CheckContext, Succeed, FinishRun, RecTask, RecRuns, RecWrite, Leave, Expire
  <2> QED BY <1>1, <2>1, <2>2 DEF RunStep
<1>2. ASSUME NEW o \in Ops, OpStep(o) \/ Begin(o)
      PROVE  blind \subseteq blind'
  <2>1. CASE Insert(o)
    BY <2>1 DEF Insert
  <2>2. CASE Lock(o) \/ Check(o) \/ NothingMade(o) \/ MarkRetried(o) \/ Schedule(o)
    BY <2>2 DEF Lock, Check, NothingMade, MarkRetried, Schedule
  <2>3. CASE CancelFind(o) \/ CancelSignal(o) \/ CancelMark(o) \/ CancelWrite(o)
    BY <2>3 DEF CancelFind, CancelSignal, CancelMark, CancelWrite
  <2>4. CASE Begin(o)
    BY <2>4 DEF Begin, Trigger, Retry, CancelLoad, Delete
  <2> QED BY <1>2, <2>1, <2>2, <2>3, <2>4 DEF OpStep
<1>3. CASE Restart
  BY <1>3 DEF Restart
<1>4. CASE UNCHANGED vars
  BY <1>4 DEF vars
<1> QED BY <1>1, <1>2, <1>3, <1>4 DEF Next

(* Every step keeps the active runs of a project apart: the new one comes  *)
(* from a handler that has the mutex and found none, or that could not     *)
(* look, and it is the newest of all.                                      *)
LEMMA OneActiveNext ==
  ASSUME TypeOK, VerdictFits, Guarded, Fresh, AtMostOneActive, [Next]_vars
  PROVE  AtMostOneActive'
<1>0. blind \subseteq blind'
  BY BlindGrows
<1>1. ASSUME NoNewActive
      PROVE  AtMostOneActive'
  BY <1>0, <1>1 DEF NoNewActive, AtMostOneActive
<1>2. CASE UNCHANGED vars
  BY <1>2 DEF vars, AtMostOneActive
<1>3. ASSUME NEW r \in RunIds, RunStep(r) \/ Expire(r)
      PROVE  NoNewActive
  BY <1>3, RunStepMoves, RunMoveRows DEF Expire, NoNewActive
<1>4. ASSUME NEW o \in Ops, Insert(o)
      PROVE  AtMostOneActive'
  <2>1. CASE UNCHANGED run
    BY <1>0, <2>1 DEF AtMostOneActive
  <2>2. CASE op[o].pc = "skip" /\ ~UNCHANGED run
    <3>1. "skipped" \notin Active
      BY DEF Active
    <3>2. /\ \A r \in RunIds : r # lastRun + 1 => run'[r] = run[r]
          /\ run'[lastRun + 1].status = "skipped"
      BY <1>4, <2>2, InsertRow
    <3>3. \A r \in RunIds : run'[r].status \in Active => run'[r] = run[r]
      BY <3>1, <3>2
    <3> QED BY <1>0, <3>3 DEF AtMostOneActive
  <2>3. CASE op[o].pc # "skip" /\ ~UNCHANGED run
    <3>1. op[o].pc = "insert" =>
            \A r \in RunIds : run[r].status \in Active => run[r].project # op[o].item.project
      BY DEF Guarded
    <3>2. /\ lastRun + 1 \in RunIds
          /\ \A r \in RunIds : r # lastRun + 1 => run'[r] = run[r]
          /\ run'[lastRun + 1].project = op[o].item.project
          /\ op[o].pc = "blind" => lastRun + 1 \in blind'
      BY <1>4, <2>3, InsertRow
    <3>3. ASSUME NEW q \in RunIds, NEW r \in RunIds, run'[q].status \in Active,
                 run'[r].status \in Active, run'[q].project = run'[r].project, q < r
          PROVE  r \in blind'
      <4>1. CASE q # lastRun + 1 /\ r # lastRun + 1
        BY <1>0, <3>2, <3>3, <4>1 DEF AtMostOneActive
      <4>2. CASE r = lastRun + 1
        <5>1. q # r
          BY <3>3 DEF RunIds
        <5>2. op[o].pc # "insert"
          BY <3>1, <3>2, <3>3, <4>2, <5>1
        <5> QED BY <1>4, <2>3, <3>2, <4>2, <5>2 DEF Insert
      <4>3. CASE q = lastRun + 1
        <5>1. r > lastRun /\ r # lastRun + 1
          BY <3>3, <4>3 DEF RunIds, TypeOK
        <5>2. run'[r].status = "none"
          BY <3>2, <5>1 DEF Fresh
        <5> QED BY <3>3, <5>2 DEF Active
      <4> QED BY <4>1, <4>2, <4>3
    <3> QED BY <3>3 DEF AtMostOneActive
  <2> QED BY <1>4, <2>1, <2>2, <2>3 DEF Insert
<1> QED BY <1>1, <1>2, <1>3, <1>4, HandlersEndRuns DEF Next

(* Of two active runs of a project (scan.go:86) the later was queued after *)
(* a search for active ones that failed: the mutex is held from the check  *)
(* to the insert by all who create runs, and nothing else makes a run      *)
(* active.                                                                 *)
THEOREM RunsExcludeEachOther == Spec => []AtMostOneActive
<1> DEFINE Inv == TypeOK /\ VerdictFits /\ Guarded /\ Fresh /\ AtMostOneActive
<1>1. Init => Guarded /\ AtMostOneActive
  BY DEF Init, Guarded, AtMostOneActive, NoOp, NoRun, Active
<1>2. Init => Inv
  BY <1>1, TypeInit, FreshInit
<1>3. Inv /\ [Next]_vars => Inv'
  BY TypeNext, VerdictNext, GuardedNext, FreshNext, OneActiveNext
<1> QED BY <1>2, <1>3, PTL DEF Spec

-----------------------------------------------------------------------------
(* Executors.                                                              *)

AboutToMark(r) == \E o \in Ops : op[o].pc = "markRun" /\ op[o].target = r

(* A run that was left by a failing statement stays so while it is active. *)
LEMMA StuckStay ==
  ASSUME TypeOK, VerdictFits, [Next]_vars, ~Restart, NEW r \in RunIds, r \in stuck,
         run'[r].status \in Active
  PROVE  r \in stuck'
<1>1. ASSUME NEW q \in RunIds, NEW s \in RunOutcomes, Settle(q, s)
      PROVE  r \in stuck'
  <2>1. CASE RunFault(q)
    BY <2>1 DEF RunFault
  <2>2. CASE SetRunIfActive(q, s) /\ stuck' = stuck \ {q}
    <3>1. s \notin Active
      BY DEF Active, RunOutcomes
    <3>2. run'[q].status \notin Active
      BY <2>2, <3>1 DEF SetRunIfActive, TypeOK
    <3> QED BY <2>2, <3>2
  <2> QED BY <1>1, <2>1, <2>2 DEF Settle
<1>2. ASSUME NEW q \in RunIds, FinishRun(q)
      PROVE  r \in stuck'
  <2>1. verdict[q] \in RunOutcomes
    BY <1>2 DEF FinishRun, VerdictFits, RunOutcomes
  <2> QED BY <1>1, <1>2, <2>1 DEF FinishRun
<1>3. ASSUME NEW o \in Ops, CancelMark(o)
      PROVE  r \in stuck'
  <2>1. op[o].target \in RunIds /\ "cancelled" \in RunOutcomes
    BY DEF TypeOK, RunOutcomes
  <2> QED BY <1>1, <1>3, <2>1 DEF CancelMark
<1>4. ASSUME NEW q \in RunIds, RunStep(q) \/ Expire(q), ~FinishRun(q)
      PROVE  r \in stuck'
  BY <1>4 DEF RunStep, Acquire, LoadRun, Claim, RunFault, Prepare, Collect, EndCollect, Scan,
    CheckContext, Succeed, RecTask, RecRuns, RecWrite, Leave, Expire
<1>5. ASSUME NEW o \in Ops, OpStep(o) \/ Begin(o), ~CancelMark(o)
      PROVE  stuck' = stuck
  BY <1>5 DEF OpStep, Begin, Lock, Check, Insert, NothingMade, MarkRetried, Schedule,
    CancelFind, CancelSignal, CancelWrite, Trigger, Retry, CancelLoad, Delete
<1> QED BY <1>2, <1>3, <1>4, <1>5 DEF Next, vars

(* A handler that is about to mark a run stays so until it has.            *)
LEMMA MarkersStay ==
  ASSUME TypeOK, VerdictFits, Fresh, [Next]_vars, ~Restart,
         NEW r \in RunIds, AboutToMark(r), run'[r].status \in Active, r \notin stuck'
  PROVE  AboutToMark(r)'
<1>1. PICK o \in Ops : op[o].pc = "markRun" /\ op[o].target = r
  BY DEF AboutToMark
<1>2. ASSUME op'[o] = op[o]
      PROVE  AboutToMark(r)'
  BY <1>1, <1>2 DEF AboutToMark
<1>3. CASE UNCHANGED vars \/ \E q \in RunIds : RunStep(q) \/ Expire(q)
  BY <1>2, <1>3, RunStepMoves DEF vars, Expire
<1>4. ASSUME NEW p \in Ops, OpStep(p) \/ Begin(p)
      PROVE  op'[o] = op[o]
  <2>1. CASE p # o
    BY <1>4, <2>1, HandlerMoves DEF Quiet, Started, Aimed, Marked, Deleted, Inserted, TypeOK
  <2>2. CASE p = o
    <3>1. CASE Marked(o)
      <4>1. run'[r].status \notin Active
        <5>1. "cancelled" \notin Active
          BY DEF Active
        <5> QED BY <1>1, <3>1, <5>1 DEF Marked, SetRunIfActive, TypeOK
      <4> QED BY <4>1
    <3>2. CASE Deleted
      BY <3>2 DEF Deleted
    <3>3. ~Quiet(o) /\ ~Started(o) /\ ~Aimed(o) /\ ~Inserted(o)
      BY <1>1 DEF Quiet, Started, Aimed, Inserted
    <3> QED BY <1>4, <2>2, <3>1, <3>2, <3>3, HandlerMoves
  <2> QED BY <2>1, <2>2
<1> QED BY <1>2, <1>3, <1>4 DEF Next

(* Every step keeps the cancelled contexts explained.                      *)
LEMMA SignalledNext ==
  ASSUME TypeOK, VerdictFits, Fresh, Signalled, [Next]_vars
  PROVE  Signalled'
<1>1. CASE Restart
  BY <1>1 DEF Restart, Signalled
<1>2. CASE ~Restart
  <2>1. ASSUME NEW r \in RunIds, r \notin stuck', ctx'[r] = "cancelled",
               run'[r].status \in Active
        PROVE  AboutToMark(r)'
    <3>0. r \notin stuck
      BY <1>2, <2>1, StuckStay
    <3>1. CASE ctx[r] = "cancelled" /\ run[r].status \in Active
      <4>1. AboutToMark(r)
        BY <3>0, <3>1 DEF Signalled, AboutToMark
      <4> QED BY <1>2, <2>1, <4>1, MarkersStay
    <3>2. CASE ~(ctx[r] = "cancelled" /\ run[r].status \in Active)
      <4>1. CASE UNCHANGED vars
        BY <2>1, <3>2, <4>1 DEF vars
      <4>2. ASSUME NEW q \in RunIds, RunStep(q)
            PROVE  FALSE
        <5>1. NoNewActive /\ RunMove(q) /\ (q # r => ctx'[r] = ctx[r])
          BY <4>2, RunStepMoves, RunMoveRows
        <5>2. ctx'[r] = "cancelled" => ctx[r] = "cancelled"
          BY <5>1 DEF RunMove
        <5> QED BY <2>1, <3>2, <5>1, <5>2 DEF NoNewActive
      <4>3. ASSUME NEW q \in RunIds, Expire(q)
            PROVE  FALSE
        BY <2>1, <3>2, <4>3 DEF Expire, TypeOK
      <4>4. ASSUME NEW o \in Ops, OpStep(o) \/ Begin(o)
            PROVE  AboutToMark(r)'
        <5>1. CASE Aimed(o)
          <6>1. ctx'[r] # ctx[r]
            BY <2>1, <3>2, <5>1 DEF Aimed
          <6>2. op'[o].pc = "markRun" /\ op'[o].target = r
            BY <5>1, <6>1 DEF Aimed, TypeOK
          <6> QED BY <6>2 DEF AboutToMark
        <5>2. CASE Inserted(o)
          <6>1. UNCHANGED ctx /\ \A q \in RunIds : q # lastRun + 1 => run'[q] = run[q]
            BY <5>2 DEF Inserted
          <6>2. ctx[lastRun + 1] # "cancelled"
            BY <5>2 DEF Inserted, Fresh, TypeOK
          <6> QED BY <2>1, <3>2, <6>1, <6>2
        <5>3. CASE Quiet(o) \/ Started(o) \/ Deleted
          <6>1. "none" \notin Active
            BY DEF Active
          <6> QED BY <2>1, <3>2, <5>3, <6>1 DEF Quiet, Started, Deleted
        <5>4. CASE Marked(o)
          <6>1. "cancelled" \notin Active
            BY DEF Active
          <6> QED BY <2>1, <3>2, <5>4, <6>1 DEF Marked, SetRunIfActive, TypeOK
        <5> QED BY <4>4, <5>1, <5>2, <5>3, <5>4, HandlerMoves
      <4> QED BY <1>2, <4>1, <4>2, <4>3, <4>4 DEF Next
    <3> QED BY <3>1, <3>2
  <2> QED BY <2>1 DEF Signalled, AboutToMark
<1> QED BY <1>1, <1>2

(* A run a dead server left behind is never queued, and nobody starts it.  *)
LEMMA KilledNext ==
  ASSUME TypeOK, VerdictFits, Fresh, ActiveHasExecutor, [Next]_vars, ~Restart,
         NEW r \in RunIds \ stuck, pc[r] = "killed"
  PROVE  pc'[r] = "killed" /\ run'[r].status # "queued"
<1>1. \A o \in Ops : r \notin op[o].made
  BY DEF Fresh
<1>2. run[r].status # "queued"
  BY <1>1 DEF ActiveHasExecutor
<1>3. CASE UNCHANGED vars
  BY <1>2, <1>3 DEF vars
<1>4. ASSUME NEW q \in RunIds, RunStep(q)
      PROVE  pc'[r] = pc[r] /\ run'[r] = run[r]
  <2>1. RunMove(q) /\ (q # r => pc'[r] = pc[r] /\ run'[r] = run[r])
    BY <1>4, RunStepMoves, RunMoveRows
  <2>2. q # r
    BY <2>1 DEF RunMove, Early, Working
  <2> QED BY <2>1, <2>2
<1>5. ASSUME NEW q \in RunIds, Expire(q)
      PROVE  pc' = pc /\ run' = run
  BY <1>5 DEF Expire
<1>6. ASSUME NEW o \in Ops, OpStep(o) \/ Begin(o)
      PROVE  pc'[r] = "killed" /\ run'[r].status # "queued"
  <2>1. CASE Quiet(o) \/ Aimed(o)
    BY <1>2, <2>1 DEF Quiet, Aimed
  <2>2. CASE Deleted
    BY <1>2, <2>2 DEF Deleted
  <2>3. CASE Marked(o)
    BY <1>2, <2>3 DEF Marked, SetRunIfActive, TypeOK
  <2>4. CASE Inserted(o)
    <3>1. lastRun + 1 > lastRun
      BY DEF TypeOK
    <3>2. r # lastRun + 1
      BY <2>4, <3>1 DEF Inserted, Fresh
    <3> QED BY <1>2, <2>4, <3>2 DEF Inserted
  <2>5. CASE Started(o)
    BY <1>1, <1>2, <2>5 DEF Started
  <2> QED BY <1>6, <2>1, <2>2, <2>3, <2>4, <2>5, HandlerMoves
<1> QED BY <1>2, <1>3, <1>4, <1>5, <1>6 DEF Next

(* A restart leaves no run queued unless its recovery failed, and those    *)
(* that ran to nobody.                                                     *)
LEMMA ExecutorRestart ==
  ASSUME TypeOK, Fresh, Restart
  PROVE  ActiveHasExecutor'
<1>1. ASSUME NEW r \in RunIds, run'[r].status = "running"
      PROVE  pc'[r] = "killed"
  <2>2. run[r] \in RunRow /\ run \in [RunIds -> RunRow]
    BY DEF TypeOK, RunRow
  <2>3. run'[r] = run[r] \/ run'[r] = [run[r] EXCEPT !.status = "failed"]
    BY <2>2, RestartRows
  <2>4. run[r].status = "running"
    BY <1>1, <2>2, <2>3 DEF RunRow
  <2>5. pc[r] # "none" \/ ~(r > lastRun)
    BY <2>4 DEF Fresh
  <2>6. pc' = [q \in RunIds |-> IF pc[q] = "none" /\ q > lastRun THEN "none" ELSE "killed"]
    BY DEF Restart
  <2> QED BY <2>5, <2>6
<1>2. \A r \in RunIds : run'[r].status = "queued" => r \in stuck'
  BY DEF Restart
<1> QED BY <1>1, <1>2 DEF ActiveHasExecutor

(* Every step leaves an active run with an executor.                       *)
LEMMA ExecutorNext ==
  ASSUME TypeOK, VerdictFits, Fresh, Signalled, ActiveHasExecutor, [Next]_vars, ~Restart
  PROVE  ActiveHasExecutor'
<1>0. ASSUME NEW r \in RunIds \ stuck, pc[r] = "killed"
      PROVE  pc'[r] = "killed" /\ run'[r].status # "queued"
  BY <1>0, KilledNext
<1> DEFINE Awaited(r) == pc[r] \in Early \/ \E o \in Ops : r \in op[o].made
<1>1. SUFFICES ASSUME NEW r \in RunIds, r \notin stuck, r \notin stuck', pc[r] # "killed"
               PROVE  /\ run'[r].status = "queued" =>
                           pc'[r] \in Early \/ \E o \in Ops : r \in op'[o].made
                      /\ run'[r].status = "running" =>
                           pc'[r] \in Working \/ AboutToMark(r)'
  <2>1. ASSUME NEW r \in RunIds, r \notin stuck'
        PROVE  /\ run'[r].status = "queued" =>
                    pc'[r] \in Early \/ \E o \in Ops : r \in op'[o].made
               /\ run'[r].status = "running" =>
                    pc'[r] \in Working \cup {"killed"} \/ AboutToMark(r)'
    <3>1. CASE r \in stuck
      <4>1. run'[r].status \notin Active
        BY <2>1, <3>1, StuckStay
      <4> QED BY <4>1 DEF Active
    <3>2. CASE r \notin stuck
      BY <1>0, <1>1, <2>1, <3>2
    <3> QED BY <3>1, <3>2
  <2> QED BY <2>1 DEF ActiveHasExecutor, AboutToMark, Early, Working
<1>2. /\ run[r].status = "queued" => Awaited(r)
      /\ run[r].status = "running" => pc[r] \in Working \/ AboutToMark(r)
  BY <1>1 DEF ActiveHasExecutor, AboutToMark, Early, Working
<1>3. run'[r].status = "running" /\ AboutToMark(r) => AboutToMark(r)'
  BY <1>1, MarkersStay DEF Active
<1>4. CASE pc' = pc /\ run'[r].status \in {run[r].status, "none", "cancelled"}
           /\ \A o \in Ops : op[o].made \subseteq op'[o].made
  BY <1>2, <1>3, <1>4
<1>5. CASE UNCHANGED vars
  BY <1>4, <1>5 DEF vars
<1>6. ASSUME NEW q \in RunIds, Expire(q)
      PROVE  /\ pc' = pc /\ run'[r].status \in {run[r].status, "none", "cancelled"}
             /\ \A o \in Ops : op[o].made \subseteq op'[o].made
  BY <1>6 DEF Expire
<1>7. ASSUME NEW q \in RunIds, RunStep(q)
      PROVE  /\ run'[r].status = "queued" =>
                  pc'[r] \in Early \/ \E o \in Ops : r \in op'[o].made
             /\ run'[r].status = "running" => pc'[r] \in Working \/ AboutToMark(r)'
  <2>1. /\ RunMove(q) /\ UNCHANGED op
        /\ q # r => pc'[r] = pc[r] /\ run'[r] = run[r]
    BY <1>7, RunStepMoves, RunMoveRows
  <2>2. CASE q # r
    BY <1>2, <1>3, <2>1, <2>2
  <2>3. CASE q = r
    <3>1. pc[r] # "none"
      BY <2>1, <2>3 DEF RunMove, Early, Working
    <3>2. \A o \in Ops : r \notin op[o].made
      BY <3>1 DEF Fresh
    <3>3. CASE run' = run
      <4>1. CASE run[r].status = "queued"
        <5>1. pc[r] \in Early
          BY <1>2, <3>2, <4>1
        <5>2. pc[r] \notin Working
          BY <5>1 DEF Early, Working
        <5>3. pc'[r] \in {"load", "claim", "prepare"}
          BY <1>1, <2>1, <2>3, <4>1, <5>1, <5>2 DEF RunMove, Early, Working
        <5>4. pc'[r] # "prepare"
          <6>1. SetRun(r, "running") => run'[r].status = "running"
            BY DEF SetRun, TypeOK
          <6> QED BY <2>1, <2>3, <3>3, <4>1, <5>1, <5>2, <6>1 DEF RunMove, Early, Working
        <5> QED BY <3>3, <4>1, <5>3, <5>4 DEF Early
      <4>2. CASE run[r].status = "running" /\ ~AboutToMark(r)
        <5>1. pc[r] \in Working /\ pc[r] \notin Early
          BY <1>2, <4>2 DEF Early, Working
        <5>2. ctx[r] # "cancelled"
          BY <1>1, <4>2 DEF Signalled, AboutToMark, Active
        <5>3. CASE pc[r] \in {"succeed", "finish"} /\ pc'[r] = "recTask"
          <6>1. ASSUME NEW s \in RunOutcomes, SetRun(r, s)
                PROVE  run'[r].status # "running"
            BY <6>1 DEF SetRun, TypeOK, RunOutcomes
          <6>2. "running" \in Active /\ "recTask" \notin Working
            BY DEF Active, Working
          <6> QED BY <1>1, <2>1, <2>3, <3>3, <4>2, <5>1, <5>2, <5>3, <6>1, <6>2 DEF RunMove
        <5>4. CASE ~(pc[r] \in {"succeed", "finish"} /\ pc'[r] = "recTask")
          <6>1. pc[r] # "claim"
            BY <5>1 DEF Working
          <6>2. pc'[r] \in Working
            BY <2>1, <2>3, <5>1, <5>2, <5>4, <6>1 DEF RunMove
          <6> QED BY <3>3, <4>2, <6>2
        <5> QED BY <5>3, <5>4
      <4> QED BY <1>3, <3>3, <4>1, <4>2
    <3>4. CASE run' # run
      <4>1. \/ pc'[r] = "prepare" /\ run'[r].status = "running"
            \/ run'[r].status \in RunOutcomes
        BY <2>1, <2>3, <3>4, RunMoveStatus
      <4> QED BY <4>1 DEF Working, RunOutcomes
    <3> QED BY <3>3, <3>4
  <2> QED BY <2>2, <2>3
<1>8. ASSUME NEW o \in Ops, OpStep(o) \/ Begin(o)
      PROVE  /\ run'[r].status = "queued" =>
                  pc'[r] \in Early \/ \E p \in Ops : r \in op'[p].made
             /\ run'[r].status = "running" => pc'[r] \in Working \/ AboutToMark(r)'
  <2>1. CASE Quiet(o) \/ Aimed(o)
    <3>1. \A p \in Ops : op[p].made \subseteq op'[p].made
      BY <2>1 DEF Quiet, Aimed
    <3> QED BY <1>4, <2>1, <3>1 DEF Quiet, Aimed
  <2>2. CASE Deleted
    BY <1>4, <2>2 DEF Deleted
  <2>3. CASE Marked(o)
    <3>1. run'[r].status \in {run[r].status, "cancelled"}
      BY <2>3 DEF Marked, SetRunIfActive, TypeOK
    <3>2. \A p \in Ops : op[p].made \subseteq op'[p].made
      BY <2>3 DEF Marked
    <3> QED BY <1>4, <2>3, <3>1, <3>2 DEF Marked
  <2>4. CASE Inserted(o)
    <3>1. CASE r = lastRun + 1
      BY <2>4, <3>1 DEF Inserted
    <3>2. CASE r # lastRun + 1
      <4>1. \A p \in Ops : op[p].made \subseteq op'[p].made
        BY <2>4 DEF Inserted
      <4> QED BY <1>4, <2>4, <3>2, <4>1 DEF Inserted
    <3> QED BY <3>1, <3>2
  <2>5. CASE Started(o)
    <3>1. run' = run /\ \A p \in Ops : p # o => op'[p] = op[p]
      BY <2>5 DEF Started, TypeOK
    <3>2. CASE r \in op[o].made
      <4>1. pc'[r] = "waiting" /\ pc[r] = "none"
        BY <2>5, <3>2 DEF Started, Fresh
      <4>2. pc'[r] \in Early /\ pc[r] \notin Working
        BY <4>1 DEF Early, Working
      <4> QED BY <1>2, <1>3, <3>1, <4>2
    <3>3. CASE r \notin op[o].made
      <4>1. pc'[r] = pc[r]
        BY <2>5, <3>3 DEF Started
      <4> QED BY <1>2, <1>3, <3>1, <3>3, <4>1
    <3> QED BY <3>2, <3>3
  <2> QED BY <1>8, <2>1, <2>2, <2>3, <2>4, <2>5, HandlerMoves
<1> QED BY <1>4, <1>5, <1>6, <1>7, <1>8 DEF Next

(* A queued run is on its way to be claimed and a running run to be        *)
(* finished or marked: no interleaving of claims, cancellations, deletions *)
(* and retries leaves one behind, a restart only those that ran, and else  *)
(* only the failure of the very statement that would have claimed or       *)
(* settled it.                                                             *)
THEOREM ActiveRunsAreExecuted == Spec => []ActiveHasExecutor
<1> DEFINE Inv == TypeOK /\ VerdictFits /\ Fresh /\ Signalled /\ ActiveHasExecutor
<1>1. Init => Inv
  <2>1. Init => Signalled /\ ActiveHasExecutor
    BY DEF Init, Signalled, ActiveHasExecutor, NoRun, Active
  <2> QED BY <2>1, TypeInit, FreshInit
<1>2. Inv /\ [Next]_vars => Inv'
  BY TypeNext, VerdictNext, FreshNext, SignalledNext, ExecutorNext, ExecutorRestart
<1> QED BY <1>1, <1>2, PTL DEF Spec

-----------------------------------------------------------------------------
(* The runs seen without those who handle them.                            *)

(* What the abstract specification sees of the state.                      *)
PhaseOf == [r \in RunIds |-> run[r].status]
OwnerOf == [r \in RunIds |-> run[r].project]
DeadOf  == {r \in RunIds : pc[r] = "killed"}

Invs == TypeOK /\ VerdictFits /\ Guarded /\ Fresh /\ AtWork

(* A step that the abstract specification cannot see.                      *)
LEMMA UnseenStep ==
  ASSUME UNCHANGED <<run, lastRun, DeadOf, blind>>
  PROVE  UNCHANGED Runs!vars
BY DEF Runs!vars, DeadOf

(* Writing the status of a run.                                            *)
LEMMA PutStep ==
  ASSUME TypeOK, NEW r \in RunIds, NEW s \in RunStatuses, SetRun(r, s)
  PROVE  Runs!Put(r, s) /\ OwnerOf' = OwnerOf
<1>1. run \in [RunIds -> RunRow] /\ run[r] \in RunRow
  BY DEF TypeOK, RunRow
<1>2. /\ \A q \in RunIds : q # r => run'[q] = run[q]
      /\ run'[r] = [run[r] EXCEPT !.status = s]
  BY <1>1 DEF SetRun
<1>3. run'[r].status = s /\ run'[r].project = run[r].project
  BY <1>1, <1>2 DEF RunRow
<1>4. PhaseOf' = [PhaseOf EXCEPT ![r] = s]
  BY <1>2, <1>3 DEF PhaseOf
<1>5. OwnerOf' = OwnerOf
  BY <1>2, <1>3 DEF OwnerOf
<1> QED BY <1>4, <1>5 DEF Runs!Put, PhaseOf

(* Only a server that dies changes who is dead.                            *)
LEMMA DeadStay ==
  ASSUME TypeOK, VerdictFits, Fresh, [Next]_vars, ~Restart
  PROVE  DeadOf' = DeadOf
<1>1. ASSUME NEW r \in RunIds, RunStep(r) PROVE DeadOf' = DeadOf
  <2>1. pc[r] # "killed" /\ pc'[r] # "killed"
    BY <1>1 DEF TypeOK, RunStep, Acquire, LoadRun, Claim, Prepare, Collect, EndCollect, Scan,
       CheckContext, Succeed, FinishRun, RecTask, RecRuns, RecWrite, Leave, Goto, FinishAs
  <2>2. \A q \in RunIds : q # r => pc'[q] = pc[q]
    BY <1>1, RunStepMoves
  <2> QED BY <2>1, <2>2 DEF DeadOf
<1>2. ASSUME NEW o \in Ops, OpStep(o) \/ Begin(o) PROVE DeadOf' = DeadOf
  <2>1. CASE Started(o)
    <3>1. \A r \in op[o].made : pc[r] = "none"
      BY DEF Fresh
    <3>2. \A r \in RunIds : pc'[r] = "killed" <=> pc[r] = "killed"
      BY <2>1, <3>1 DEF Started
    <3> QED BY <3>2 DEF DeadOf
  <2>2. CASE pc' = pc
    BY <2>2 DEF DeadOf
  <2> QED BY <1>2, <2>1, <2>2, HandlerMoves DEF Quiet, Aimed, Marked, Deleted, Inserted
<1>3. CASE pc' = pc
  BY <1>3 DEF DeadOf
<1> QED BY <1>1, <1>2, <1>3 DEF Next, Expire, vars

(* A goroutine claims its run, ends it, or does nothing to it.             *)
LEMMA GoroutineStep ==
  ASSUME Invs, NEW r \in RunIds, RunStep(r), DeadOf' = DeadOf
  PROVE  [Runs!Next]_(Runs!vars)
<1> USE WordsTyped DEF Invs
<1>1. UNCHANGED <<lastRun, op, blind>> /\ RunMove(r)
  BY RunStepMoves
<1>2. CASE UNCHANGED run
  BY <1>1, <1>2, UnseenStep
<1>3. pc[r] # "killed"
  BY <1>1 DEF RunStep, Acquire, LoadRun, Claim, Prepare, Collect, EndCollect, Scan,
     CheckContext, Succeed, FinishRun, RecTask, RecRuns, RecWrite, Leave
<1>4. r \notin DeadOf
  BY <1>3 DEF DeadOf
<1>5. CASE Claim(r) /\ ~UNCHANGED run
  <2>1. SetRun(r, "running") /\ run[r].status = "queued"
    BY <1>5 DEF Claim, RunFault
  <2>2. Runs!Put(r, "running") /\ OwnerOf' = OwnerOf /\ PhaseOf[r] = "queued"
    BY <2>1, PutStep DEF PhaseOf
  <2>3. Runs!Claim(r)
    BY <1>1, <1>4, <2>2 DEF Runs!Claim, PhaseOf, OwnerOf, DeadOf
  <2> QED BY <2>3 DEF Runs!Next, Runs!RunIds, RunIds
<1>6. CASE Succeed(r) /\ ~UNCHANGED run
  <2>1. SetRun(r, "success") /\ run[r].status \in {"running", "cancelled"}
    BY <1>6 DEF Succeed, AtWork, Working
  <2>2. /\ Runs!Put(r, "success") /\ OwnerOf' = OwnerOf
        /\ PhaseOf[r] = "running" \/ PhaseOf[r] = "cancelled"
    BY <2>1, PutStep DEF PhaseOf
  <2>3. Runs!End(r)
    BY <1>1, <1>4, <2>2 DEF Runs!End, PhaseOf, OwnerOf, DeadOf
  <2> QED BY <2>3 DEF Runs!Next, Runs!RunIds, RunIds
<1>7. CASE FinishRun(r) /\ ~UNCHANGED run
  <2>1. PICK s \in {"failed", "skipped"} : s = verdict[r]
    BY <1>7 DEF FinishRun, VerdictFits
  <2>2. SetRun(r, s) /\ run[r].status \in Active
    BY <1>7, <2>1 DEF FinishRun, Settle, RunFault, SetRunIfActive, SetRun
  <2>3. run[r].status = "running"
    BY <1>7, <2>2 DEF FinishRun, AtWork, Working, Active
  <2>4. /\ Runs!Put(r, s) /\ OwnerOf' = OwnerOf /\ PhaseOf[r] = "running"
    BY <2>2, <2>3, PutStep DEF PhaseOf
  <2>5. Runs!End(r)
    BY <1>1, <1>4, <2>4 DEF Runs!End, PhaseOf, OwnerOf, DeadOf
  <2> QED BY <2>5 DEF Runs!Next, Runs!RunIds, RunIds
<1> QED BY <1>2, <1>5, <1>6, <1>7 DEF RunStep, Acquire, LoadRun, RunFault, Prepare, Collect,
       EndCollect, Scan, CheckContext, RecTask, RecRuns, RecWrite, Leave

(* A handler that inserts a row queues a run where there was none.         *)
LEMMA InsertStep ==
  ASSUME Invs, NEW o \in Ops, Insert(o), DeadOf' = DeadOf
  PROVE  [Runs!Next]_(Runs!vars)
<1> USE DEF Invs
<1>1. CASE UNCHANGED <<run, lastRun, blind>>
  BY <1>1, UnseenStep
<1>2. CASE ~UNCHANGED <<run, lastRun, blind>>
  <2>1. PICK p \in Projects : p = op[o].item.project
    BY DEF TypeOK, Items
  <2>2. PICK s \in {"skipped", "queued"} : s = IF op[o].pc = "skip" THEN "skipped" ELSE "queued"
    OBVIOUS
  <2>3. /\ lastRun + 1 \in RunIds /\ lastRun' = lastRun + 1
        /\ \A r \in RunIds : r # lastRun + 1 => run'[r] = run[r]
        /\ run'[lastRun + 1].project = p
        /\ run'[lastRun + 1].status = s
        /\ blind' = IF op[o].pc = "blind" THEN blind \cup {lastRun + 1} ELSE blind
    BY <1>2, <2>1, <2>2, InsertRow
  <2>4. lastRun \in Nat /\ NRuns \in Nat /\ lastRun < NRuns
    BY <2>3, ScanAssumption DEF TypeOK, RunIds
  <2>5. /\ PhaseOf' = [PhaseOf EXCEPT ![lastRun + 1] = s]
        /\ OwnerOf' = [OwnerOf EXCEPT ![lastRun + 1] = p]
    BY <2>3 DEF PhaseOf, OwnerOf
  <2>6. Runs!Make(p, s)
    BY <2>3, <2>4, <2>5 DEF Runs!Make, Runs!Put, PhaseOf, OwnerOf, DeadOf
  <2>7. CASE s = "skipped"
    BY <2>2, <2>3, <2>6, <2>7 DEF Runs!Next, Runs!Record
  <2>9. CASE s = "queued" /\ op[o].pc = "blind"
    <3>1. Runs!QueueUnseen(p)
      BY <2>3, <2>6, <2>9 DEF Runs!QueueUnseen
    <3> QED BY <3>1 DEF Runs!Next
  <2>8. CASE s = "queued" /\ op[o].pc # "blind"
    <3>1. op[o].pc = "insert"
      BY <2>2, <2>8 DEF Insert
    <3>2. \A r \in RunIds : PhaseOf[r] \in Active => OwnerOf[r] # p
      BY <2>1, <3>1 DEF Guarded, PhaseOf, OwnerOf
    <3>3. Runs!Queue(p)
      BY <2>3, <2>6, <2>8, <3>2 DEF Runs!Queue, Runs!RunIds, RunIds, Runs!Active, Active,
         PhaseOf, OwnerOf
    <3> QED BY <3>3 DEF Runs!Next
  <2> QED BY <2>2, <2>7, <2>8, <2>9
<1> QED BY <1>1, <1>2

(* A handler that cancels a task marks runs that are still active.         *)
LEMMA MarkStep ==
  ASSUME Invs, NEW o \in Ops, CancelMark(o), DeadOf' = DeadOf
  PROVE  [Runs!Next]_(Runs!vars)
<1> USE WordsTyped DEF Invs
<1>1. PICK r \in RunIds : r = op[o].target
  BY DEF TypeOK
<1>2. /\ UNCHANGED run \/ SetRunIfActive(r, "cancelled")
      /\ UNCHANGED <<lastRun, blind>>
  BY <1>1 DEF CancelMark, Settle, RunFault
<1>3. CASE run[r].status \in Active /\ ~UNCHANGED run
  <2>1. Runs!Put(r, "cancelled") /\ OwnerOf' = OwnerOf /\ PhaseOf[r] \in Active
    BY <1>2, <1>3, PutStep DEF SetRunIfActive, SetRun, PhaseOf
  <2>2. Runs!Cancel(r)
    BY <1>2, <2>1 DEF Runs!Cancel, Runs!Active, Active, PhaseOf, OwnerOf, DeadOf
  <2> QED BY <2>2 DEF Runs!Next, Runs!RunIds, RunIds
<1>4. CASE run[r].status \notin Active \/ UNCHANGED run
  BY <1>2, <1>4, UnseenStep DEF SetRunIfActive
<1> QED BY <1>3, <1>4

(* A handler that deletes a task removes its runs.                         *)
LEMMA DeleteStep ==
  ASSUME Invs, NEW o \in Ops, Delete(o), DeadOf' = DeadOf
  PROVE  Runs!Next
<1> USE DEF Invs
<1>1. PICK t \in Tasks :
        run' = [r \in RunIds |-> IF run[r].task = t /\ run[r].status # "none"
                                 THEN [run[r] EXCEPT !.status = "none"] ELSE run[r]]
  BY DEF Delete
<1>2. PICK some \in SUBSET RunIds : some = {r \in RunIds : run[r].task = t}
  OBVIOUS
<1>3. \A r \in RunIds : run[r] \in RunRow
  BY DEF TypeOK, RunRow
<1>4. \A r \in RunIds : /\ run'[r].project = run[r].project
                        /\ run'[r].status = IF r \in some THEN "none" ELSE run[r].status
  BY <1>1, <1>2, <1>3 DEF RunRow
<1>5. /\ PhaseOf' = [r \in RunIds |-> IF r \in some THEN "none" ELSE PhaseOf[r]]
      /\ OwnerOf' = OwnerOf
  BY <1>4 DEF PhaseOf, OwnerOf
<1>6. Runs!Remove(some)
  BY <1>5 DEF Delete, Runs!Remove, Runs!RunIds, RunIds, PhaseOf, OwnerOf, DeadOf
<1> QED BY <1>6 DEF Runs!Next, Runs!RunIds, RunIds

(* The next server fails what was queued, and what it takes for stale.     *)
LEMMA RecoverStep ==
  ASSUME Invs, Restart
  PROVE  Runs!Next
<1> USE DEF Invs
<1>1. PICK stale \in SUBSET RunIds :
        /\ run' = [r \in RunIds |-> IF r \in stale THEN [run[r] EXCEPT !.status = "failed"]
                                   ELSE run[r]]
        /\ \/ stale = {}
           \/ \E old \in SUBSET {r \in RunIds : run[r].status = "running"} :
                stale = old \cup {q \in RunIds : run[q].status = "queued"}
  <2>0. PICK old \in SUBSET {r \in RunIds : run[r].status = "running"} :
          \E stale \in Search(old \cup {r \in RunIds : run[r].status = "queued"}) :
            \/ run' = [r \in RunIds |-> IF r \in stale THEN [run[r] EXCEPT !.status = "failed"]
                                        ELSE run[r]]
            \/ UNCHANGED run
    BY DEF Restart
  <2>1. PICK stale \in Search(old \cup {r \in RunIds : run[r].status = "queued"}) :
          \/ run' = [r \in RunIds |-> IF r \in stale THEN [run[r] EXCEPT !.status = "failed"]
                                      ELSE run[r]]
          \/ UNCHANGED run
    BY <2>0
  <2>2. \/ stale = {}
        \/ stale = old \cup {q \in RunIds : run[q].status = "queued"}
    BY DEF Search
  <2>3. UNCHANGED run => run' = [r \in RunIds |-> IF r \in {}
                                 THEN [run[r] EXCEPT !.status = "failed"] ELSE run[r]]
    BY DEF TypeOK
  <2> QED BY <2>1, <2>2, <2>3
<1>3. \A r \in RunIds : run[r] \in RunRow
  BY DEF TypeOK, RunRow
<1>4. \A r \in RunIds : /\ run'[r].project = run[r].project
                        /\ run'[r].status = IF r \in stale THEN "failed" ELSE run[r].status
  BY <1>1, <1>3 DEF RunRow
<1>5. /\ PhaseOf' = [r \in RunIds |-> IF r \in stale THEN "failed" ELSE PhaseOf[r]]
      /\ OwnerOf' = OwnerOf
  BY <1>4 DEF PhaseOf, OwnerOf
<1>6. /\ \A r \in stale : PhaseOf[r] \in Active
      /\ stale # {} => \A r \in RunIds : PhaseOf[r] = "queued" => r \in stale
  BY <1>1 DEF PhaseOf, Active
<1>7. DeadOf' = 1..lastRun
  <2>1. \A r \in RunIds : pc'[r] = "killed" <=> ~(pc[r] = "none" /\ r > lastRun)
    BY DEF Restart
  <2>2. lastRun \in 0..NRuns /\ NRuns \in Nat
    BY ScanAssumption DEF TypeOK
  <2>3. \A r \in RunIds : pc'[r] = "killed" <=> r <= lastRun
    BY <2>1, <2>2 DEF Fresh, RunIds
  <2> QED BY <2>2, <2>3 DEF DeadOf, RunIds
<1>8. Runs!Recover(stale)
  BY <1>5, <1>6, <1>7 DEF Restart, Runs!Recover, Runs!RunIds, RunIds, Runs!Active, Active,
     PhaseOf, OwnerOf, DeadOf
<1> QED BY <1>8 DEF Runs!Next, Runs!RunIds, RunIds

(* Every step is one of the abstract runs, or nothing they show.           *)
LEMMA RunsNext ==
  ASSUME Invs, [Next]_vars
  PROVE  [Runs!Next]_(Runs!vars)
<1>1. CASE Restart
  BY <1>1, RecoverStep
<1>2. CASE ~Restart
  <2>1. DeadOf' = DeadOf
    BY <1>2, DeadStay DEF Invs
  <2>2. CASE UNCHANGED <<run, lastRun, blind>>
    BY <2>1, <2>2, UnseenStep
  <2>3. ASSUME NEW r \in RunIds, RunStep(r) PROVE [Runs!Next]_(Runs!vars)
    BY <2>1, <2>3, GoroutineStep
  <2>4. ASSUME NEW o \in Ops, Insert(o) \/ CancelMark(o) \/ Delete(o)
        PROVE  [Runs!Next]_(Runs!vars)
    BY <2>1, <2>4, InsertStep, MarkStep, DeleteStep
  <2> QED BY <1>2, <2>2, <2>3, <2>4 DEF Next, vars, Expire, OpStep, Begin, Lock, Check,
             NothingMade, MarkRetried, Schedule, CancelFind, CancelSignal, CancelWrite,
             Trigger, Retry, CancelLoad
<1> QED BY <1>1, <1>2

LEMMA RunsInit == Init => Runs!Init
<1> SUFFICES ASSUME Init PROVE Runs!Init
  OBVIOUS
<1>1. PhaseOf = [r \in RunIds |-> "none"] /\ DeadOf = {} /\ lastRun = 0 /\ blind = {}
  BY DEF Init, PhaseOf, DeadOf, NoRun
<1>2. OwnerOf \in [RunIds -> Projects]
  BY Ones DEF Init, OwnerOf, NoRun
<1> QED BY <1>1, <1>2 DEF Runs!Init, Runs!RunIds, RunIds, PhaseOf, OwnerOf, DeadOf

(* Whatever overlaps, a run is queued only where none is active or nobody  *)
(* could tell, claimed once, and ends once, but for a cancelled one that   *)
(* still succeeds.                                                         *)
THEOREM ScansImplementRuns == Spec => ImplementsRuns
<1>1. Init => Invs
  <2>1. Init => Guarded
    BY DEF Init, Guarded, NoOp
  <2> QED BY <2>1, TypeInit, FreshInit DEF Invs
<1>2. Invs /\ [Next]_vars => Invs'
  BY TypeNext, VerdictNext, GuardedNext, FreshNext, AtWorkNext DEF Invs
<1>3. Invs /\ [Next]_vars => [Runs!Next]_(Runs!vars)
  BY RunsNext
<1> QED BY <1>1, <1>2, <1>3, RunsInit, PTL DEF Spec, ImplementsRuns, Runs!Spec
=============================================================================
