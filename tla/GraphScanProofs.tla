---------------------------- MODULE GraphScanProofs ----------------------------
(* Theorems about GraphScan, for any number of scans, requests and readers *)
(* of the overview, with restarts.                                         *)
EXTENDS GraphScan, TLAPS

(* A request about to start a scan is the only one that will, and knows    *)
(* whether the scan is the nightly service's.                              *)
Going ==
  /\ \A o \in Ops : op[o].at = "go" =>
       /\ op[o].task \in Tasks /\ pc[op[o].task] = "created"
       /\ op[o].cron <=> op[o].task \in cron
  /\ \A o, u \in Ops :
       op[o].at = "go" /\ op[u].at = "go" /\ op[o].task = op[u].task => o = u

(* A request to cancel is about a scan.                                    *)
Cancelling ==
  \A o \in Ops : op[o].at \in {"call", "cancel", "show"} => op[o].task \in Tasks

(* The nightly service's scans exist, and are not in the API's map.        *)
Nightly ==
  /\ \A t \in cron : pc[t] # "none"
  /\ registry # 0 => registry \notin cron

(* A scan's row has its final status before anything else is done about it.*)
Settling ==
  \A t \in Tasks :
    pc[t] \in {"showFailed", "showCancelled", "leave", "ended"} => status[t] \in Terminal

Inv == TypeOK /\ Going /\ Cancelling /\ Nightly /\ Settling /\ NoStaleCancel /\ ProjectShown

-----------------------------------------------------------------------------
(* Initially.                                                              *)
LEMMA InitInv == Init => Inv
<1> SUFFICES ASSUME Init PROVE Inv
  OBVIOUS
<1>1. TypeOK
  BY ScanAssumption DEF Init, TypeOK, Statuses, Pcs, Op, Idle, View, NoView
<1>2. Going /\ Cancelling
  BY DEF Init, Going, Cancelling, Idle
<1>3. Nightly /\ Settling /\ NoStaleCancel /\ ProjectShown
  BY DEF Init, Nightly, Settling, NoStaleCancel, ProjectShown
<1> QED BY <1>1, <1>2, <1>3 DEF Inv

-----------------------------------------------------------------------------
(* What a step of a scan does to the rest.  A move takes the scan along    *)
(* its states, and settles its row before it hides the project.            *)

Moves(t, l, m) ==
  /\ pc[t] = l /\ pc' = [pc EXCEPT ![t] = m]
  /\ UNCHANGED <<cron, done, op>>

(* The states of the goroutine in which its row is not settled yet.        *)
Early == {"start", "mark", "show", "walk", "save", "resave", "uncache", "built", "complete",
          "fail", "cancel"}
Late  == {"showFailed", "showCancelled", "leave", "ended"}

ScanMoves(t) ==
  \E l \in Early \cup Late : \E m \in Early \cup Late :
    /\ Moves(t, l, m)
    /\ l # "ended"
    /\ \/ status' = status /\ (m \in Late => l \in Late)
       \/ status' = [status EXCEPT ![t] = "running"] /\ m \in Early
       \/ \E s \in Terminal : status' = [status EXCEPT ![t] = s]
    /\ \/ project' = project /\ (l \in Showing => m \in Showing)
       \/ project' = "running" /\ m \in Showing
       \/ project' \in {"none", "completed", "failed"}
    /\ \/ registry' = registry /\ (m = "ended" => t \in cron)
       \/ registry' = 0
    /\ stored' \in {stored, t} /\ overview' \in {overview, NoView} /\ reader' = reader

LEMMA ScanStepMoves ==
  ASSUME TypeOK, NEW t \in Tasks, ScanStep(t)
  PROVE  ScanMoves(t)
<1> USE DEF ScanMoves, Moves, Goto, Early, Late, Showing, viewVars
<1>1. CASE Start(t)
  BY <1>1 DEF Start
<1>2. CASE Mark(t)
  BY <1>2 DEF Mark, Write
<1>3. CASE Show(t)
  BY <1>3 DEF Show
<1>4. CASE Walk(t)
  BY <1>4 DEF Walk
<1>5. CASE Save(t)
  BY <1>5 DEF Save
<1>6. CASE Resave(t)
  BY <1>6 DEF Resave
<1>7. CASE Uncache(t)
  BY <1>7 DEF Uncache
<1>8. CASE Built(t)
  BY <1>8 DEF Built
<1>9. CASE Complete(t)
  BY <1>9 DEF Complete, Write, Terminal
<1>10. CASE FailTask(t)
  BY <1>10 DEF FailTask, Write, Terminal
<1>11. CASE CancelTask(t)
  BY <1>11 DEF CancelTask, Write, Terminal, HideIfRunning, TypeOK
<1>12. CASE LeaveScan(t)
  BY <1>12 DEF LeaveScan
<1> QED BY <1>1, <1>2, <1>3, <1>4, <1>5, <1>6, <1>7, <1>8, <1>9, <1>10, <1>11, <1>12
        DEF ScanStep

LEMMA ScanKeepsInv ==
  ASSUME Inv, NEW t \in Tasks, ScanStep(t)
  PROVE  Inv'
<1> USE DEF Inv
<1>1. PICK l \in Early \cup Late, m \in Early \cup Late :
        /\ Moves(t, l, m)
        /\ l # "ended"
        /\ \/ status' = status /\ (m \in Late => l \in Late)
           \/ status' = [status EXCEPT ![t] = "running"] /\ m \in Early
           \/ \E s \in Terminal : status' = [status EXCEPT ![t] = s]
        /\ \/ project' = project /\ (l \in Showing => m \in Showing)
           \/ project' = "running" /\ m \in Showing
           \/ project' \in {"none", "completed", "failed"}
        /\ \/ registry' = registry /\ (m = "ended" => t \in cron)
           \/ registry' = 0
        /\ stored' \in {stored, t} /\ overview' \in {overview, NoView} /\ reader' = reader
  BY ScanStepMoves DEF ScanMoves
<1>2. /\ pc \in [Tasks -> Pcs] /\ pc[t] = l /\ pc' = [pc EXCEPT ![t] = m]
      /\ status \in [Tasks -> Statuses] /\ UNCHANGED <<cron, done, op>>
  BY <1>1 DEF Moves, TypeOK
<1>3. TypeOK'
  <2>1. m \in Pcs /\ Terminal \cup {"running"} \subseteq Statuses
    BY DEF Early, Late, Pcs, Statuses
  <2>2. status' \in [Tasks -> Statuses] /\ pc' \in [Tasks -> Pcs]
    BY <1>1, <1>2, <2>1
  <2>3. /\ project' \in {"none", "running", "completed", "failed"}
        /\ registry' \in 0..NTasks /\ stored' \in 0..NTasks /\ overview' \in View
    BY <1>1, ScanAssumption DEF TypeOK, NoView, View, Tasks
  <2> QED BY <1>1, <1>2, <2>2, <2>3 DEF TypeOK
<1>4. Going' /\ Cancelling'
  <2>1. l # "created"
    BY DEF Early, Late
  <2> QED BY <1>2, <2>1 DEF Going, Cancelling
<1>5. Nightly'
  <2>1. m # "none" /\ l # "none"
    BY DEF Early, Late
  <2> QED BY <1>1, <1>2, <2>1 DEF Nightly
<1>6. Settling'
  <2> SUFFICES ASSUME NEW u \in Tasks, pc'[u] \in Late
               PROVE  status'[u] \in Terminal
    BY DEF Settling, Late
  <2>1. CASE u # t
    BY <1>1, <1>2, <2>1 DEF Settling, Late
  <2>2. CASE u = t
    <3>1. m \in Late
      BY <1>2, <2>2
    <3>2. m \notin Early
      BY <3>1 DEF Early, Late
    <3>3. l \in Late => status[t] \in Terminal
      BY <1>2 DEF Settling, Late
    <3> QED BY <1>1, <1>2, <2>2, <3>1, <3>2, <3>3
  <2> QED BY <2>1, <2>2
<1>7. NoStaleCancel'
  <2> SUFFICES ASSUME registry' # 0
               PROVE  pc'[registry'] \notin {"none", "created", "ended", "killed"}
    BY DEF NoStaleCancel
  <2>1. \/ registry' = registry /\ (m = "ended" => t \in cron) /\ registry # t
        \/ m # "ended"
    BY <1>1 DEF Nightly
  <2>2. registry' = registry /\ registry \in Tasks
    BY <1>1 DEF TypeOK, Tasks
  <2>3. CASE registry = t
    <3>1. m # "ended"
      BY <1>1, <2>2, <2>3 DEF Nightly
    <3> QED BY <1>2, <2>2, <2>3, <3>1 DEF Early, Late
  <2>4. CASE registry # t
    BY <1>2, <2>2, <2>4 DEF NoStaleCancel
  <2> QED BY <2>3, <2>4
<1>8. ProjectShown'
  <2> SUFFICES ASSUME project' = "running"
               PROVE  \E u \in Tasks : pc'[u] \in Showing \cup {"killed"}
    BY DEF ProjectShown
  <2>1. CASE project' = project /\ (l \in Showing => m \in Showing)
    <3>1. PICK u \in Tasks : pc[u] \in Showing \cup {"killed"}
      BY <2>1 DEF ProjectShown
    <3>2. l # "killed"
      BY DEF Early, Late
    <3> QED BY <1>2, <2>1, <3>1, <3>2
  <2>2. CASE m \in Showing
    BY <1>2, <2>2
  <2> QED BY <1>1, <2>1, <2>2
<1> QED BY <1>3, <1>4, <1>5, <1>6, <1>7, <1>8

-----------------------------------------------------------------------------
(* The requests.                                                           *)

LEMMA TriggerKeepsInv ==
  ASSUME Inv, NEW o \in Ops, Trigger(o)
  PROVE  Inv'
<1> USE DEF Inv, Trigger, viewVars, Idle
<1>1. PICK c \in BOOLEAN :
        op' = [op EXCEPT ![o] = [at |-> "insert", task |-> 0, cron |-> c, pending |-> FALSE]]
  OBVIOUS
<1>2. TypeOK'
  <2>1. [at |-> "insert", task |-> 0, cron |-> c, pending |-> FALSE] \in Op
    BY <1>1, ScanAssumption DEF Op
  <2>2. op' \in [Ops -> Op]
    BY <1>1, <2>1 DEF TypeOK
  <2> QED BY <2>2 DEF TypeOK
<1>3. Going' /\ Cancelling'
  BY <1>1 DEF Going, Cancelling, TypeOK
<1>4. Nightly' /\ Settling' /\ NoStaleCancel' /\ ProjectShown'
  BY DEF Nightly, Settling, NoStaleCancel, ProjectShown
<1> QED BY <1>2, <1>3, <1>4

LEMMA CreateKeepsInv ==
  ASSUME Inv, NEW o \in Ops, Create(o)
  PROVE  Inv'
<1> USE DEF Inv, Create, viewVars, Write, Goto
<1>1. PICK t \in Tasks :
        /\ pc[t] = "none" /\ op[o].at = "insert"
        /\ status' = [status EXCEPT ![t] = "pending"] /\ pc' = [pc EXCEPT ![t] = "created"]
        /\ op' = [op EXCEPT ![o].at = "go", ![o].task = t]
        /\ cron' = IF op[o].cron THEN cron \cup {t} ELSE cron
  OBVIOUS
<1>2. UNCHANGED <<project, registry, done, stored, overview, reader>>
  OBVIOUS
<1>3. TypeOK'
  <2>1. op[o] \in Op /\ t \in 0..NTasks
    BY DEF TypeOK, Tasks
  <2>2. [op[o] EXCEPT !.at = "go", !.task = t] \in Op
    BY <2>1 DEF Op
  <2>3. op' = [op EXCEPT ![o] = [op[o] EXCEPT !.at = "go", !.task = t]]
    BY <1>1 DEF TypeOK
  <2>4. op' \in [Ops -> Op]
    BY <2>2, <2>3 DEF TypeOK
  <2> QED BY <1>1, <1>2, <2>4 DEF TypeOK, Statuses, Pcs
<1>4. t \notin cron
  BY <1>1 DEF Nightly
<1>5. Going'
  BY <1>1, <1>4 DEF Going, TypeOK
<1>6. Cancelling'
  BY <1>1 DEF Cancelling, TypeOK
<1>7. Nightly'
  <2>1. registry # 0 => registry # t
    BY <1>1 DEF NoStaleCancel
  <2> QED BY <1>1, <1>2, <2>1 DEF Nightly, TypeOK
<1>8. Settling' /\ NoStaleCancel'
  <2>1. registry # 0 => registry # t /\ registry \in Tasks
    BY <1>1 DEF NoStaleCancel, TypeOK, Tasks
  <2> QED BY <1>1, <1>2, <2>1 DEF Settling, NoStaleCancel, TypeOK
<1>9. ProjectShown'
  BY <1>1, <1>2 DEF ProjectShown, TypeOK, Showing
<1> QED BY <1>3, <1>5, <1>6, <1>7, <1>8, <1>9

LEMMA CreateFailsKeepsInv ==
  ASSUME Inv, NEW o \in Ops, CreateFails(o)
  PROVE  Inv'
<1> USE DEF Inv, CreateFails, viewVars, Idle, Leave
<1>1. TypeOK'
  BY ScanAssumption DEF TypeOK, Op
<1>2. Going' /\ Cancelling'
  BY DEF Going, Cancelling, TypeOK
<1>3. Nightly' /\ Settling' /\ NoStaleCancel' /\ ProjectShown'
  BY DEF Nightly, Settling, NoStaleCancel, ProjectShown
<1> QED BY <1>1, <1>2, <1>3

LEMMA GoKeepsInv ==
  ASSUME Inv, NEW o \in Ops, Go(o)
  PROVE  Inv'
<1> USE DEF Inv, Go, viewVars, Idle, Leave, Goto
<1> DEFINE t == op[o].task
<1>1. t \in Tasks /\ pc[t] = "created" /\ (op[o].cron <=> t \in cron) /\ t # 0
  BY DEF Going, Tasks
<1>2. pc' = [pc EXCEPT ![t] = "start"] /\ registry' \in {registry, t}
  OBVIOUS
<1>3. TypeOK'
  <2>1. op' \in [Ops -> Op]
    BY ScanAssumption DEF TypeOK, Op
  <2> QED BY <1>1, <1>2, <2>1 DEF TypeOK, Pcs, Tasks
<1>4. Going'
  BY <1>1 DEF Going, TypeOK
<1>5. Cancelling'
  BY DEF Cancelling, TypeOK
<1>6. Nightly'
  BY <1>1, <1>2 DEF Nightly, TypeOK
<1>7. Settling' /\ ProjectShown'
  BY <1>1, <1>2 DEF Settling, ProjectShown, TypeOK, Showing
<1>8. NoStaleCancel'
  <2>1. registry # 0 => registry # t /\ registry \in Tasks
    BY <1>1 DEF NoStaleCancel, TypeOK, Tasks
  <2> QED BY <1>1, <1>2, <2>1 DEF NoStaleCancel, TypeOK
<1> QED BY <1>3, <1>4, <1>5, <1>6, <1>7, <1>8

LEMMA CancelKeepsInv ==
  ASSUME Inv, NEW o \in Ops, Cancel(o) \/ CallCancel(o)
  PROVE  Inv'
<1> USE DEF Inv, Cancel, CallCancel, viewVars, Idle, Leave
<1>1. UNCHANGED <<status, project, registry, cron, pc, stored, overview, reader>>
  OBVIOUS
<1>2. op' \in [Ops -> Op] /\ Going' /\ Cancelling'
  <2>1. CASE Cancel(o)
    <3>1. PICK t \in Tasks :
            op' = [op EXCEPT ![o] = [at |-> "call", task |-> t, cron |-> FALSE,
                                     pending |-> status[t] = "pending"]]
      BY <2>1
    <3>2. [at |-> "call", task |-> t, cron |-> FALSE, pending |-> status[t] = "pending"] \in Op
      BY DEF Op, Tasks
    <3>3. op' \in [Ops -> Op]
      BY <3>1, <3>2 DEF TypeOK
    <3> QED BY <1>1, <3>1, <3>3 DEF TypeOK, Going, Cancelling
  <2>2. CASE CallCancel(o)
    <3>1. op[o].at = "call" /\ op[o] \in Op /\ op \in [Ops -> Op]
      BY <2>2 DEF TypeOK
    <3>2. [op[o] EXCEPT !.at = "cancel"] \in Op
      BY <3>1 DEF Op
    <3>3. [at |-> "idle", task |-> 0, cron |-> FALSE, pending |-> FALSE] \in Op
      BY ScanAssumption DEF Op
    <3>4. \/ op' = [op EXCEPT ![o] = [op[o] EXCEPT !.at = "cancel"]]
          \/ op' = [op EXCEPT ![o] = [at |-> "idle", task |-> 0, cron |-> FALSE,
                                      pending |-> FALSE]]
      <4>1. CASE op[o].pending
        <5>1. op' = [op EXCEPT ![o].at = "cancel"]
          BY <2>2, <4>1
        <5> QED BY <3>1, <5>1
      <4>2. CASE ~op[o].pending
        BY <2>2, <4>2
      <4> QED BY <4>1, <4>2
    <3>5. op' \in [Ops -> Op]
      BY <3>1, <3>2, <3>3, <3>4
    <3>6. /\ op'[o].at \in {"idle", "cancel"} /\ (op'[o].at = "cancel" => op'[o].task = op[o].task)
          /\ \A u \in Ops : u # o => op'[u] = op[u]
      BY <3>1, <3>4 DEF Op
    <3>7. Going'
      BY <1>1, <3>6 DEF Going
    <3>8. Cancelling'
      BY <1>1, <3>1, <3>6 DEF Cancelling
    <3> QED BY <3>5, <3>7, <3>8
  <2> QED BY <2>1, <2>2
<1>3. done' \subseteq Tasks
  BY DEF TypeOK, Tasks
<1>4. TypeOK'
  BY <1>1, <1>2, <1>3 DEF TypeOK
<1>5. Nightly' /\ Settling' /\ NoStaleCancel' /\ ProjectShown'
  BY <1>1 DEF Nightly, Settling, NoStaleCancel, ProjectShown
<1> QED BY <1>2, <1>4, <1>5

LEMMA CancelPendingKeepsInv ==
  ASSUME Inv, NEW o \in Ops, CancelPending(o)
  PROVE  Inv'
<1> USE DEF Inv, viewVars, Idle
<1>1. CASE /\ op[o].at = "cancel"
           /\ Write(op[o].task, "cancelled")
           /\ op' = [op EXCEPT ![o].at = "show"]
           /\ UNCHANGED <<project, registry, cron, done, pc, stored, viewVars>>
  <2> USE <1>1 DEF Write
  <2>1. op[o].task \in Tasks
    BY DEF Cancelling
  <2>2. TypeOK'
    BY <2>1 DEF TypeOK, Op, Statuses, Terminal
  <2>3. Going' /\ Cancelling'
    BY DEF Going, Cancelling, TypeOK
  <2>4. Settling'
    BY <2>1 DEF Settling, TypeOK, Terminal
  <2>5. Nightly' /\ NoStaleCancel' /\ ProjectShown'
    BY DEF Nightly, NoStaleCancel, ProjectShown
  <2> QED BY <2>2, <2>3, <2>4, <2>5
<1>2. CASE /\ op[o].at = "show"
           /\ HideIfRunning
           /\ Leave(o)
           /\ UNCHANGED <<status, registry, cron, done, pc, stored, viewVars>>
  <2> USE <1>2 DEF HideIfRunning, Leave
  <2>1. TypeOK'
    BY ScanAssumption DEF TypeOK, Op
  <2>2. Going' /\ Cancelling'
    BY DEF Going, Cancelling, TypeOK
  <2>3. Nightly' /\ Settling' /\ NoStaleCancel' /\ ProjectShown'
    BY DEF Nightly, Settling, NoStaleCancel, ProjectShown
  <2> QED BY <2>1, <2>2, <2>3
<1> QED BY <1>1, <1>2 DEF CancelPending

-----------------------------------------------------------------------------
(* The overview and restarts.                                              *)

LEMMA ViewKeepsInv ==
  ASSUME Inv, (\E r \in Readers : LoadNodes(r) \/ ReadStep(r)) \/ Expire
  PROVE  Inv'
<1> USE DEF Inv
<1>1. UNCHANGED <<scanVars, stored>>
  BY DEF LoadNodes, ReadStep, LoadRels, Publish, Expire
<1>2. overview' \in View
    /\ reader' \in [Readers -> [at : {"idle", "nodes", "rels"}, view : View]]
  <2>1. CASE Expire
    BY <2>1, ScanAssumption DEF Expire, TypeOK, NoView, View
  <2>2. ASSUME NEW r \in Readers, LoadNodes(r)
        PROVE  <1>2!:
    BY <2>2, ScanAssumption DEF LoadNodes, TypeOK, NoView, View
  <2>3. ASSUME NEW r \in Readers, LoadRels(r)
        PROVE  <1>2!:
    BY <2>3, ZenonT(30) DEF LoadRels, TypeOK, View
  <2>4. ASSUME NEW r \in Readers, Publish(r)
        PROVE  <1>2!:
    BY <2>4, ScanAssumption DEF Publish, TypeOK, NoView, View
  <2> QED BY <2>1, <2>2, <2>3, <2>4 DEF ReadStep
<1>3. TypeOK'
  BY <1>1, <1>2 DEF TypeOK, scanVars
<1>4. Going' /\ Cancelling' /\ Nightly' /\ Settling' /\ NoStaleCancel' /\ ProjectShown'
  BY <1>1 DEF Going, Cancelling, Nightly, Settling, NoStaleCancel, ProjectShown, scanVars
<1> QED BY <1>3, <1>4

LEMMA RestartKeepsInv ==
  ASSUME Inv, Restart
  PROVE  Inv'
<1> USE DEF Inv, Restart, Idle
<1>1. TypeOK'
  BY ScanAssumption DEF TypeOK, Op, Pcs, NoView, View
<1>2. Going' /\ Cancelling'
  BY DEF Going, Cancelling
<1>3. Nightly' /\ Settling' /\ NoStaleCancel'
  BY DEF Nightly, Settling, NoStaleCancel, TypeOK
<1>4. ProjectShown'
  BY DEF ProjectShown, Showing, TypeOK
<1> QED BY <1>1, <1>2, <1>3, <1>4

-----------------------------------------------------------------------------
(* All together.                                                           *)

LEMMA NextKeepsInv == Inv /\ [Next]_vars => Inv'
<1> SUFFICES ASSUME Inv, [Next]_vars PROVE Inv'
  OBVIOUS
<1>1. ASSUME NEW o \in Ops, Trigger(o) \/ Cancel(o) \/ OpStep(o)
      PROVE  Inv'
  BY <1>1, TriggerKeepsInv, CreateKeepsInv, CreateFailsKeepsInv, GoKeepsInv, CancelKeepsInv,
     CancelPendingKeepsInv DEF OpStep
<1>2. CASE UNCHANGED vars
  BY <1>2 DEF vars, scanVars, viewVars, Inv, TypeOK, Going, Cancelling, Nightly, Settling,
              NoStaleCancel, ProjectShown
<1> QED BY <1>1, <1>2, ScanKeepsInv, ViewKeepsInv, RestartKeepsInv DEF Next

(* The rows, the map, the requests and the overview keep their types.      *)
THEOREM TypeCorrect == Spec => []TypeOK
<1>1. Inv => TypeOK
  BY DEF Inv
<1> QED BY <1>1, InitInv, NextKeepsInv, PTL DEF Spec

(* TriggerScan, CancelScan and runScan: a project is shown as being        *)
(* scanned only while a scan is under way or after a crash, with any       *)
(* number of overlapping scans and requests to cancel.                     *)
THEOREM ShownWhileScanned == Spec => []ProjectShown
<1>1. Inv => ProjectShown
  BY DEF Inv
<1> QED BY <1>1, InitInv, NextKeepsInv, PTL DEF Spec

(* runScan: a scan that is over has a final status, whatever late requests *)
(* wrote into its row.                                                     *)
THEOREM OverScansAreSettled == Spec => []EndedIsSettled
<1>1. Inv => EndedIsSettled
  BY DEF Inv, Settling, EndedIsSettled
<1> QED BY <1>1, InitInv, NextKeepsInv, PTL DEF Spec

(* runningTasks: the entry CancelScan finds is that of a live scan.        *)
THEOREM CancelFindsLiveScan == Spec => []NoStaleCancel
<1>1. Inv => NoStaleCancel
  BY DEF Inv
<1> QED BY <1>1, InitInv, NextKeepsInv, PTL DEF Spec

-----------------------------------------------------------------------------
(* What a scan came to.                                                    *)

(* A row says completed or failed only when the goroutine has nothing left *)
(* to say about it, and a goroutine cancels only what it was told to.      *)
Open ==
  \A t \in Tasks :
    /\ status[t] \in {"completed", "failed"} => pc[t] \in Late \cup {"killed"}
    /\ pc[t] = "cancel" => t \in done

(* What OutcomesStand says of a step.                                      *)
Outcome ==
  \A t \in Tasks : status'[t] # status[t] =>
    /\ status[t] \in {"completed", "failed"} => status'[t] = "cancelled" /\ Withdrawing(t)
    /\ status'[t] = "cancelled" => t \in done \/ Withdrawing(t)

(* A step of a scan says once what became of it.                           *)
Says(t, m) ==
  /\ pc' = [pc EXCEPT ![t] = m] /\ done' = done
  /\ \/ status' = status /\ (pc[t] \in Late => m \in Late) /\ (m = "cancel" => t \in done)
     \/ /\ pc[t] \in Early /\ m \in Early \ {"cancel"}
        /\ status' = [status EXCEPT ![t] = "running"]
     \/ /\ pc[t] \in Early /\ m \in Late
        /\ \E s \in Terminal :
             status' = [status EXCEPT ![t] = s] /\ (s = "cancelled" => pc[t] = "cancel")

LEMMA ScanStepSays ==
  ASSUME TypeOK, NEW t \in Tasks, ScanStep(t)
  PROVE  \E m \in Early \cup Late : Says(t, m)
<1> USE DEF Says, Goto, Early, Late
<1>1. CASE Start(t)
  <2>1. CASE t \in done
    BY <1>1, <2>1 DEF Start
  <2>2. CASE t \notin done
    BY <1>1, <2>2 DEF Start
  <2> QED BY <2>1, <2>2
<1>2. CASE Mark(t)
  BY <1>2 DEF Mark, Write
<1>3. CASE Show(t)
  BY <1>3 DEF Show
<1>4. CASE Walk(t)
  BY <1>4 DEF Walk
<1>5. CASE Save(t)
  BY <1>5 DEF Save
<1>6. CASE Resave(t)
  BY <1>6 DEF Resave
<1>7. CASE Uncache(t)
  BY <1>7 DEF Uncache
<1>8. CASE Built(t)
  BY <1>8 DEF Built
<1>9. CASE Complete(t)
  BY <1>9 DEF Complete, Write, Terminal
<1>10. CASE FailTask(t)
  BY <1>10 DEF FailTask, Write, Terminal
<1>11. CASE CancelTask(t)
  BY <1>11 DEF CancelTask, Write, Terminal
<1>12. CASE LeaveScan(t)
  BY <1>12 DEF LeaveScan
<1> QED BY <1>1, <1>2, <1>3, <1>4, <1>5, <1>6, <1>7, <1>8, <1>9, <1>10, <1>11, <1>12
        DEF ScanStep

LEMMA ScanOutcome ==
  ASSUME TypeOK, Open, NEW t \in Tasks, ScanStep(t)
  PROVE  Open' /\ Outcome
<1>1. PICK m \in Early \cup Late : Says(t, m)
  BY ScanStepSays
<1>2. /\ pc' = [pc EXCEPT ![t] = m] /\ done' = done
      /\ pc \in [Tasks -> Pcs] /\ status \in [Tasks -> Statuses]
  BY <1>1 DEF Says, TypeOK
<1>3. Early \cap (Late \cup {"killed"}) = {} /\ "cancel" \notin Late
  BY DEF Early, Late
<1>4. status[t] \in {"completed", "failed"} => pc[t] \in Late \cup {"killed"}
  BY DEF Open
<1>5. CASE /\ status' = status
           /\ pc[t] \in Late => m \in Late
           /\ m = "cancel" => t \in done
  <2>1. pc[t] # "killed"
    BY DEF ScanStep, Start, Mark, Show, Walk, Save, Resave, Uncache, Built, Complete, FailTask,
           CancelTask, LeaveScan
  <2> QED BY <1>2, <1>4, <1>5, <2>1 DEF Open, Outcome
<1>6. CASE /\ pc[t] \in Early /\ m \in Early \ {"cancel"}
           /\ status' = [status EXCEPT ![t] = "running"]
  <2>1. status[t] \notin {"completed", "failed"}
    BY <1>3, <1>4, <1>6
  <2>2. Open'
    BY <1>2, <1>6 DEF Open
  <2> QED BY <1>2, <1>6, <2>1, <2>2 DEF Outcome
<1>7. CASE /\ pc[t] \in Early /\ m \in Late
           /\ \E s \in Terminal :
                status' = [status EXCEPT ![t] = s] /\ (s = "cancelled" => pc[t] = "cancel")
  <2>1. PICK s \in Terminal :
          status' = [status EXCEPT ![t] = s] /\ (s = "cancelled" => pc[t] = "cancel")
    BY <1>7
  <2>2. status[t] \notin {"completed", "failed"} /\ (pc[t] = "cancel" => t \in done)
    BY <1>3, <1>4, <1>7 DEF Open
  <2>3. Open'
    BY <1>2, <1>3, <1>7, <2>1 DEF Open
  <2> QED BY <1>2, <2>1, <2>2, <2>3 DEF Outcome
<1> QED BY <1>1, <1>5, <1>6, <1>7 DEF Says

LEMMA RequestOutcome ==
  ASSUME Inv, Open, NEW o \in Ops, Trigger(o) \/ Cancel(o) \/ OpStep(o)
  PROVE  Open' /\ Outcome
<1>1. pc \in [Tasks -> Pcs] /\ status \in [Tasks -> Statuses]
  BY DEF Inv, TypeOK
<1>2. CASE Trigger(o) \/ Cancel(o) \/ CreateFails(o)
  BY <1>2 DEF Trigger, Cancel, CreateFails, Open, Outcome
<1>3. CASE Create(o)
  <2>1. PICK t \in Tasks :
          /\ pc[t] = "none"
          /\ status' = [status EXCEPT ![t] = "pending"] /\ pc' = [pc EXCEPT ![t] = "created"]
    BY <1>3 DEF Create, Write, Goto
  <2>2. status[t] \notin {"completed", "failed"}
    BY <2>1 DEF Open, Late
  <2>3. done' = done
    BY <1>3 DEF Create
  <2> QED BY <1>1, <2>1, <2>2, <2>3 DEF Open, Outcome
<1>4. CASE Go(o)
  <2>1. op[o].task \in Tasks /\ pc[op[o].task] = "created"
    BY <1>4 DEF Go, Inv, Going
  <2>2. status[op[o].task] \notin {"completed", "failed"}
    BY <2>1 DEF Open, Late
  <2>3. status' = status /\ done' = done /\ pc' = [pc EXCEPT ![op[o].task] = "start"]
    BY <1>4 DEF Go, Goto
  <2> QED BY <1>1, <2>1, <2>2, <2>3 DEF Open, Outcome
<1>5. CASE CallCancel(o)
  BY <1>5 DEF CallCancel, Open, Outcome
<1>6. CASE CancelPending(o)
  <2>1. CASE op[o].at = "cancel" /\ status' = [status EXCEPT ![op[o].task] = "cancelled"]
    <3>1. Withdrawing(op[o].task)
      BY <2>1 DEF Withdrawing
    <3>2. pc' = pc /\ done' = done
      BY <1>6 DEF CancelPending
    <3> QED BY <1>1, <2>1, <3>1, <3>2 DEF Open, Outcome
  <2>2. CASE status' = status
    BY <1>6, <2>2 DEF CancelPending, Open, Outcome
  <2> QED BY <1>6, <2>1, <2>2 DEF CancelPending, Write
<1> QED BY <1>2, <1>3, <1>4, <1>5, <1>6 DEF OpStep

LEMMA NextOutcome == Inv /\ Open /\ [Next]_vars => Open' /\ Outcome
<1> SUFFICES ASSUME Inv, Open, [Next]_vars PROVE Open' /\ Outcome
  OBVIOUS
<1>1. ASSUME NEW r \in Readers, LoadNodes(r) \/ ReadStep(r)
      PROVE  Open' /\ Outcome
  BY <1>1 DEF LoadNodes, ReadStep, LoadRels, Publish, scanVars, Open, Outcome
<1>2. CASE Expire
  BY <1>2 DEF Expire, scanVars, Open, Outcome
<1>3. CASE Restart
  <2>1. pc \in [Tasks -> Pcs] /\ status' = status /\ done' = done
    BY <1>3 DEF Restart, Inv, TypeOK
  <2>2. \A t \in Tasks : pc'[t] = IF pc[t] \in {"none", "ended"} THEN pc[t] ELSE "killed"
    BY <1>3 DEF Restart
  <2> QED BY <2>1, <2>2 DEF Open, Outcome, Late
<1>4. CASE UNCHANGED vars
  BY <1>4 DEF vars, scanVars, Open, Outcome
<1> QED BY <1>1, <1>2, <1>3, <1>4, ScanOutcome, RequestOutcome DEF Next, Inv

(* runScan, CancelScan and the nightly scan: completed and failed give way *)
(* only to the request to cancel that came before the scan began and       *)
(* writes after it, and nothing is called cancelled that no one cancelled. *)
THEOREM ScanOutcomesStand == Spec => OutcomesStand
<1>1. Init => Open
  BY DEF Init, Open
<1>2. Outcome => \A t \in Tasks : status'[t] # status[t] =>
        /\ status[t] \in {"completed", "failed"} => status'[t] = "cancelled" /\ Withdrawing(t)
        /\ status'[t] = "cancelled" => t \in done \/ Withdrawing(t)
  BY DEF Outcome
<1> QED BY <1>1, <1>2, InitInv, NextKeepsInv, NextOutcome, PTL DEF Spec, OutcomesStand
=============================================================================
