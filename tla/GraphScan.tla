------------------------------- MODULE GraphScan -------------------------------
(***************************************************************************)
(* Full scans of ONE project's symbol graph: TriggerScan, the goroutine    *)
(* runScan, CancelScan, the nightly scan, and the overview with its cache. *)
(*   backend/internal/service/graphscan/scan_service.go                    *)
(*   backend/internal/graph/sqlite_storage.go                              *)
(*                                                                         *)
(* Projects share nothing here.  Abstracted: parsing and building (a graph *)
(* is known by the scan that built it), counts and messages, and errors of *)
(* the database, which the code ignores.                                   *)
(***************************************************************************)
EXTENDS Naturals

CONSTANTS
  NTasks,   \* rows of graph_scan_tasks (bound)
  Ops,      \* requests in progress (bound)
  Readers   \* overviews being computed (bound)

Tasks == 1..NTasks

ASSUME ScanAssumption == NTasks \in Nat \ {0}

VARIABLES
  status,    \* graph_scan_tasks.status
  project,   \* projects.graph_scan_status
  registry,  \* runningTasks of the API's service: the scan it can cancel, or 0
  cron,      \* the scans started by the nightly service, which has its own map
  done,      \* the scans whose context was cancelled
  pc,        \* where the goroutine of each scan is
  op,        \* the requests
  stored,    \* the scan whose graph the project's SQLite file holds, or 0
  overview,  \* overviewCache of the API's service
  reader     \* GetGraphOverview calls

scanVars == <<status, project, registry, cron, done, pc, op>>
viewVars == <<overview, reader>>
vars     == <<scanVars, stored, viewVars>>

Terminal == {"completed", "failed", "cancelled"}
Statuses == {"none", "pending", "running"} \cup Terminal

(* "created": the row is there, the goroutine not yet.                     *)
Pcs == {"none", "created", "start", "mark", "show", "walk", "save", "resave",
        "uncache", "built", "complete", "fail", "showFailed", "cancel", "showCancelled",
        "leave", "ended", "killed"}

(* A graph is loaded by one query for its nodes and one for the rest.      *)
View   == [nodes : 0..NTasks, rels : 0..NTasks]
NoView == [nodes |-> 0, rels |-> 0]

Idle == [at |-> "idle", task |-> 0, cron |-> FALSE, pending |-> FALSE]
Op   == [at : {"idle", "insert", "go", "call", "cancel", "show"},
         task : 0..NTasks, cron : BOOLEAN, pending : BOOLEAN]

TypeOK ==
  /\ status \in [Tasks -> Statuses]
  /\ project \in {"none", "running", "completed", "failed"}
  /\ registry \in 0..NTasks
  /\ cron \subseteq Tasks /\ done \subseteq Tasks
  /\ pc \in [Tasks -> Pcs]
  /\ op \in [Ops -> Op]
  /\ stored \in 0..NTasks
  /\ overview \in View
  /\ reader \in [Readers -> [at : {"idle", "nodes", "rels"}, view : View]]

Init ==
  /\ status = [t \in Tasks |-> "none"]
  /\ project = "none"
  /\ registry = 0 /\ cron = {} /\ done = {}
  /\ pc = [t \in Tasks |-> "none"]
  /\ op = [o \in Ops |-> Idle]
  /\ stored = 0
  /\ overview = NoView
  /\ reader = [r \in Readers |-> [at |-> "idle", view |-> NoView]]

Goto(t, l)  == pc' = [pc EXCEPT ![t] = l]
Write(t, s) == status' = [status EXCEPT ![t] = s]
Leave(o)    == op' = [op EXCEPT ![o] = Idle]

-----------------------------------------------------------------------------
(* TriggerScan: scans that run are counted first, the row is created as    *)
(* pending after that.  The nightly one looks at the project before.       *)
Trigger(o) ==
  /\ op[o] = Idle
  /\ \A t \in Tasks : status[t] # "running"
  /\ \E byCron \in BOOLEAN :
       /\ byCron => project = "completed"
       /\ op' = [op EXCEPT ![o] = [Idle EXCEPT !.at = "insert", !.cron = byCron]]
  /\ UNCHANGED <<status, project, registry, cron, done, pc, stored, viewVars>>

Create(o) ==
  /\ op[o].at = "insert"
  /\ \E t \in Tasks :
       /\ pc[t] = "none" /\ \A u \in Tasks : u < t => pc[u] # "none"
       /\ Write(t, "pending") /\ Goto(t, "created")
       /\ op' = [op EXCEPT ![o].at = "go", ![o].task = t]
       /\ cron' = IF op[o].cron THEN cron \cup {t} ELSE cron
  /\ UNCHANGED <<project, registry, done, stored, viewVars>>

CreateFails(o) ==
  /\ op[o].at = "insert"
  /\ Leave(o)
  /\ UNCHANGED <<status, project, registry, cron, done, pc, stored, viewVars>>

(* The entry of another scan of the project is overwritten.                *)
Go(o) ==
  /\ op[o].at = "go"
  /\ registry' = IF op[o].cron THEN registry ELSE op[o].task
  /\ Goto(op[o].task, "start")
  /\ Leave(o)
  /\ UNCHANGED <<status, project, cron, done, stored, viewVars>>

-----------------------------------------------------------------------------
(* runScan.                                                                *)

StartCancelled(t) ==               \* mutant: a cancelled scan just returns
  /\ pc[t] = "start"
  /\ Goto(t, IF t \in done THEN "leave" ELSE "mark")
  /\ UNCHANGED <<status, project, registry, cron, done, op, stored, viewVars>>

Start(t) ==
  /\ pc[t] = "start"
  /\ Goto(t, IF t \in done THEN "cancel" ELSE "mark")
  /\ UNCHANGED <<status, project, registry, cron, done, op, stored, viewVars>>

(* Whatever the row says by now.                                           *)
Mark(t) ==
  /\ pc[t] = "mark"
  /\ Write(t, "running")
  /\ Goto(t, "show")
  /\ UNCHANGED <<project, registry, cron, done, op, stored, viewVars>>

Show(t) ==
  /\ pc[t] = "show"
  /\ project' = "running"
  /\ Goto(t, "walk")
  /\ UNCHANGED <<status, registry, cron, done, op, stored, viewVars>>

(* The project and its repository are needed; a cancelled walk stops, and  *)
(* no graph is built from it.  Building may fail.                          *)
Walk(t) ==
  /\ pc[t] = "walk"
  /\ \/ Goto(t, "fail")
     \/ Goto(t, IF t \in done THEN "cancel" ELSE "save")
  /\ UNCHANGED <<status, project, registry, cron, done, op, stored, viewVars>>

(* SaveBaseline of the graph, which has to succeed.                        *)
Save(t) ==
  /\ pc[t] = "save"
  /\ \/ stored' = t /\ Goto(t, "resave")
     \/ UNCHANGED stored /\ Goto(t, "fail")
  /\ UNCHANGED <<status, project, registry, cron, done, op, viewVars>>

(* Twice more, with the metadata and with the taint paths; errors are only *)
(* logged.                                                                 *)
Resave(t) ==
  /\ pc[t] = "resave"
  /\ stored' \in {stored, t}
  /\ Goto(t, "uncache")
  /\ UNCHANGED <<status, project, registry, cron, done, op, viewVars>>

Uncache(t) ==
  /\ pc[t] = "uncache"
  /\ overview' = IF t \in cron THEN overview ELSE NoView
  /\ Goto(t, "built")
  /\ UNCHANGED <<status, project, registry, cron, done, op, stored, reader>>

Built(t) ==
  /\ pc[t] = "built"
  /\ project' = "completed"
  /\ Goto(t, "complete")
  /\ UNCHANGED <<status, registry, cron, done, op, stored, viewVars>>

CompleteYetCancel(t) ==            \* mutant: a late cancel is still obeyed
  /\ pc[t] = "complete"
  /\ Write(t, "completed")
  /\ Goto(t, IF t \in done THEN "cancel" ELSE "leave")
  /\ UNCHANGED <<project, registry, cron, done, op, stored, viewVars>>

Complete(t) ==
  /\ pc[t] = "complete"
  /\ Write(t, "completed")
  /\ Goto(t, "leave")
  /\ UNCHANGED <<project, registry, cron, done, op, stored, viewVars>>

FailTask(t) ==
  \/ /\ pc[t] = "fail"
     /\ Write(t, "failed") /\ Goto(t, "showFailed")
     /\ UNCHANGED <<project, registry, cron, done, op, stored, viewVars>>
  \/ /\ pc[t] = "showFailed"
     /\ project' = "failed" /\ Goto(t, "leave")
     /\ UNCHANGED <<status, registry, cron, done, op, stored, viewVars>>

HideNothing == UNCHANGED project   \* mutant: the project is forgotten

HideIfRunning == project' = IF project = "running" THEN "none" ELSE project

CancelTask(t) ==
  \/ /\ pc[t] = "cancel"
     /\ Write(t, "cancelled") /\ Goto(t, "showCancelled")
     /\ UNCHANGED <<project, registry, cron, done, op, stored, viewVars>>
  \/ /\ pc[t] = "showCancelled"
     /\ HideIfRunning /\ Goto(t, "leave")
     /\ UNCHANGED <<status, registry, cron, done, op, stored, viewVars>>

LeaveEntry(t) ==                   \* mutant: the entry is left behind
  /\ pc[t] = "leave"
  /\ Goto(t, "ended")
  /\ UNCHANGED <<status, project, registry, cron, done, op, stored, viewVars>>

(* The deferred delete takes out whatever scan's entry is there.           *)
LeaveScan(t) ==
  /\ pc[t] = "leave"
  /\ registry' = IF t \in cron THEN registry ELSE 0
  /\ Goto(t, "ended")
  /\ UNCHANGED <<status, project, cron, done, op, stored, viewVars>>

ScanStep(t) ==
  \/ Start(t) \/ Mark(t) \/ Show(t) \/ Walk(t) \/ Save(t) \/ Resave(t) \/ Uncache(t) \/ Built(t)
  \/ Complete(t) \/ FailTask(t) \/ CancelTask(t) \/ LeaveScan(t)

-----------------------------------------------------------------------------
(* CancelScan, which only the API offers: the row is read, the project's   *)
(* cancel function is called, and a scan read as pending is marked.        *)
Cancel(o) ==
  /\ op[o] = Idle
  /\ \E t \in Tasks :
       /\ status[t] \in {"pending", "running"}
       /\ op' = [op EXCEPT ![o] = [at |-> "call", task |-> t, cron |-> FALSE,
                                   pending |-> status[t] = "pending"]]
  /\ UNCHANGED <<status, project, registry, cron, done, pc, stored, viewVars>>

CallCancel(o) ==
  /\ op[o].at = "call"
  /\ done' = IF registry = 0 THEN done ELSE done \cup {registry}
  /\ IF op[o].pending THEN op' = [op EXCEPT ![o].at = "cancel"] ELSE Leave(o)
  /\ UNCHANGED <<status, project, registry, cron, pc, stored, viewVars>>

CancelPending(o) ==
  \/ /\ op[o].at = "cancel"
     /\ Write(op[o].task, "cancelled")
     /\ op' = [op EXCEPT ![o].at = "show"]
     /\ UNCHANGED <<project, registry, cron, done, pc, stored, viewVars>>
  \/ /\ op[o].at = "show"
     /\ HideIfRunning
     /\ Leave(o)
     /\ UNCHANGED <<status, registry, cron, done, pc, stored, viewVars>>

OpStep(o) == Create(o) \/ CreateFails(o) \/ Go(o) \/ CallCancel(o) \/ CancelPending(o)

-----------------------------------------------------------------------------
(* GetGraphOverview.  A cached view is served without a trace here.        *)

LoadNodes(r) ==
  /\ reader[r].at = "idle" /\ overview = NoView /\ stored # 0
  /\ reader' = [reader EXCEPT ![r] = [at |-> "nodes", view |-> [NoView EXCEPT !.nodes = stored]]]
  /\ UNCHANGED <<scanVars, stored, overview>>

(* Not in a transaction with the first query.                              *)
LoadRels(r) ==
  /\ reader[r].at = "nodes"
  /\ reader' = [reader EXCEPT ![r].at = "rels", ![r].view.rels = stored]
  /\ UNCHANGED <<scanVars, stored, overview>>

Publish(r) ==
  /\ reader[r].at = "rels"
  /\ overview' = reader[r].view
  /\ reader' = [reader EXCEPT ![r] = [at |-> "idle", view |-> NoView]]
  /\ UNCHANGED <<scanVars, stored>>

ReadStep(r) == LoadRels(r) \/ Publish(r)

ExpireNever ==                     \* mutant: an entry is valid for ever
  /\ FALSE /\ UNCHANGED vars

(* Five seconds pass.                                                      *)
Expire ==
  /\ overview # NoView
  /\ overview' = NoView
  /\ UNCHANGED <<scanVars, stored, reader>>

-----------------------------------------------------------------------------
(* The server dies; rows and the SQLite file stay, and nothing looks at    *)
(* them when it starts again.                                              *)
Restart ==
  /\ pc' = [t \in Tasks |-> IF pc[t] \in {"none", "ended"} THEN pc[t] ELSE "killed"]
  /\ registry' = 0
  /\ op' = [o \in Ops |-> Idle]
  /\ overview' = NoView
  /\ reader' = [r \in Readers |-> [at |-> "idle", view |-> NoView]]
  /\ UNCHANGED <<status, project, cron, done, stored>>

Next ==
  \/ \E o \in Ops : Trigger(o) \/ Cancel(o) \/ OpStep(o)
  \/ \E t \in Tasks : ScanStep(t)
  \/ \E r \in Readers : LoadNodes(r) \/ ReadStep(r)
  \/ Expire \/ Restart

Spec == Init /\ [][Next]_vars

(* Goroutines and requests are scheduled; a walk and a load end; time goes.*)
LiveSpec ==
  /\ Spec
  /\ \A t \in Tasks : WF_vars(ScanStep(t))
  /\ \A o \in Ops : WF_vars(OpStep(o))
  /\ \A r \in Readers : WF_vars(ReadStep(r))
  /\ WF_vars(Expire)

-----------------------------------------------------------------------------
(* Properties.                                                             *)

(* The scans that showed the project as running and have not said yet how  *)
(* that ended.                                                             *)
Showing == {"walk", "save", "resave", "uncache", "built",
            "fail", "showFailed", "cancel", "showCancelled"}

(* A project is shown as being scanned only while a scan is under way, in  *)
(* whatever order scans that overlap, which TriggerScan does not exclude   *)
(* (line 89), and requests to cancel them write its status; only a server  *)
(* that dies may leave it so.                                              *)
ProjectShown ==
  project = "running" => \E t \in Tasks : pc[t] \in Showing \cup {"killed"}

(* A scan that is over is shown as completed, failed or cancelled, however *)
(* late a request to cancel it or another scan writes.                     *)
EndedIsSettled == \A t \in Tasks : pc[t] = "ended" => status[t] \in Terminal

(* The cancel function that CancelScan finds belongs to a scan that is     *)
(* still running: overlapping scans may lose each other's entries, and     *)
(* with it the chance to be cancelled, but none is left behind.            *)
NoStaleCancel == registry # 0 => pc[registry] \notin {"none", "created", "ended", "killed"}

(* What a scan came to gives way only to a request to cancel that had read *)
(* the row as pending, before the scan began, and writes only now: never   *)
(* to another scan, or to a step of its own.  And a scan is called         *)
(* cancelled only by such a request or after its context was cancelled.    *)
Withdrawing(t) == \E o \in Ops : op[o].at = "cancel" /\ op[o].task = t

OutcomesStand ==
  [][\A t \in Tasks : status'[t] # status[t] =>
       /\ status[t] \in {"completed", "failed"} => status'[t] = "cancelled" /\ Withdrawing(t)
       /\ status'[t] = "cancelled" => t \in done \/ Withdrawing(t)]_vars

(* Every scan that was accepted settles, unless the server dies.           *)
ScansSettle ==
  \A t \in Tasks : status[t] = "pending" ~> status[t] \in Terminal \/ pc[t] = "killed"

(* An overview computed from two different saves, or from one that was     *)
(* replaced meanwhile, is not what users go on to see.                     *)
Current(v) == v \in {NoView, [nodes |-> stored, rels |-> stored]}
OverviewHeals == <>[][UNCHANGED stored]_vars => <>[]Current(overview)
=============================================================================
