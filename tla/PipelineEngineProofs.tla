------------------------- MODULE PipelineEngineProofs -------------------------
(* Theorems about PipelineEngine, for every stage table, configuration and *)
(* number of overlapping runs.                                             *)
EXTENDS PipelineEngine, SequenceTheorems, TLAPS

(* The row a run holds while it is at a stage: its own row of that stage,  *)
(* waiting or being executed unless Retry has deleted it.                  *)
Waiting == {"deps", "unmet", "mark"}

HoldsRow(r) ==
  /\ at[r] \in Stages
  /\ mine[r] \in 1..Len(table)
  /\ table[mine[r]].run = r /\ table[mine[r]].stage = at[r]
  /\ ~table[mine[r]].gone =>
       table[mine[r]].state = IF pc[r] \in Waiting THEN "pending" ELSE "running"

AtRow == \A r \in Runs : pc[r] \in AtStage => HoldsRow(r)

(* Every stage that stage s requires has a successful row of this round.   *)
Met(s) == \A d \in Requires[s] : \E i \in Present(d) : table[i].state = "success"

(* A run about to execute a stage has found what the stage requires.       *)
Checked ==
  \A r \in Runs : pc[r] = "mark" /\ ~table[mine[r]].gone => Met(at[r])

(* Only a stage that requires something is left for want of it.            *)
UnmetRequires == \A r \in Runs : pc[r] = "unmet" => Requires[at[r]] # {}

-----------------------------------------------------------------------------
(* What the operations on the table do, row by row.                        *)

(* A new row is pending, and the others stay as they are.                 *)
LEMMA CreateRows ==
  ASSUME TypeOK, NEW r \in Runs, at[r] \in Stages, NEW s \in RowStates, Create(r, s)
  PROVE  /\ table' \in Seq(Rows) /\ Len(table') = Len(table) + 1
         /\ \A i \in 1..Len(table) : table'[i] = table[i]
         /\ table'[Len(table) + 1] = [stage |-> at[r], state |-> s, run |-> r, gone |-> FALSE]
<1>1. [stage |-> at[r], state |-> s, run |-> r, gone |-> FALSE] \in Rows
  BY DEF Rows
<1> QED BY <1>1 DEF TypeOK, Create

(* An update changes at most the row the run holds.                        *)
LEMMA MarkRows ==
  ASSUME TypeOK, NEW r \in Runs, mine[r] \in 1..Len(table), NEW s \in RowStates, Mark(r, s)
  PROVE  /\ table' \in Seq(Rows) /\ Len(table') = Len(table)
         /\ \A i \in 1..Len(table) : i # mine[r] => table'[i] = table[i]
         /\ table'[mine[r]] = IF table[mine[r]].gone THEN table[mine[r]]
                              ELSE [table[mine[r]] EXCEPT !.state = s]
<1> DEFINE new == [table[mine[r]] EXCEPT !.state = s]
<1>0. table \in Seq(Rows)
  BY DEF TypeOK
<1>1. table[mine[r]] \in Rows
  BY <1>0, ElementOfSeq
<1>2. new \in Rows
  BY <1>1 DEF Rows
<1>3. table' = IF table[mine[r]].gone THEN table ELSE [table EXCEPT ![mine[r]] = new]
  BY DEF Mark
<1> HIDE DEF new
<1>4. /\ [table EXCEPT ![mine[r]] = new] \in Seq(Rows)
      /\ Len([table EXCEPT ![mine[r]] = new]) = Len(table)
      /\ \A j \in 1..Len(table) :
           [table EXCEPT ![mine[r]] = new][j] = IF j = mine[r] THEN new ELSE table[j]
  BY <1>0, <1>2, ExceptSeq
<1>5. /\ table' \in Seq(Rows) /\ Len(table') = Len(table)
      /\ \A i \in 1..Len(table) : i # mine[r] => table'[i] = table[i]
      /\ table'[mine[r]] = IF table[mine[r]].gone THEN table[mine[r]] ELSE new
  BY <1>0, <1>3, <1>4
<1> QED BY <1>5 DEF new

(* A save brings the row the run holds back.                               *)
LEMMA SaveRows ==
  ASSUME TypeOK, NEW r \in Runs, mine[r] \in 1..Len(table), NEW s \in RowStates, Save(r, s)
  PROVE  /\ table' \in Seq(Rows) /\ Len(table') = Len(table)
         /\ \A i \in 1..Len(table) : i # mine[r] => table'[i] = table[i]
         /\ table'[mine[r]] = [table[mine[r]] EXCEPT !.state = s, !.gone = FALSE]
<1> DEFINE new == [table[mine[r]] EXCEPT !.state = s, !.gone = FALSE]
<1>0. table \in Seq(Rows)
  BY DEF TypeOK
<1>1. table[mine[r]] \in Rows
  BY <1>0, ElementOfSeq
<1>2. new \in Rows
  BY <1>1 DEF Rows
<1>3. table' = [table EXCEPT ![mine[r]] = new]
  BY <1>0 DEF Save
<1> HIDE DEF new
<1>4. /\ [table EXCEPT ![mine[r]] = new] \in Seq(Rows)
      /\ Len([table EXCEPT ![mine[r]] = new]) = Len(table)
      /\ \A j \in 1..Len(table) :
           [table EXCEPT ![mine[r]] = new][j] = IF j = mine[r] THEN new ELSE table[j]
  BY <1>0, <1>2, ExceptSeq
<1>5. /\ table' \in Seq(Rows) /\ Len(table') = Len(table)
      /\ \A i \in 1..Len(table) : i # mine[r] => table'[i] = table[i]
      /\ table'[mine[r]] = new
  BY <1>3, <1>4
<1> QED BY <1>5 DEF new

(* Retry deletes every row and changes nothing else of it.                 *)
LEMMA RetryRows ==
  ASSUME TypeOK, Retry
  PROVE  /\ table' \in Seq(Rows) /\ Len(table') = Len(table)
         /\ \A i \in 1..Len(table) : table'[i] = [table[i] EXCEPT !.gone = TRUE]
<1>1. table \in Seq(Rows) /\ DOMAIN table = 1..Len(table) /\ Len(table) \in Nat
  BY LenProperties DEF TypeOK
<1>2. \A i \in 1..Len(table) : table[i] \in Rows
  BY <1>1, ElementOfSeq
<1>3. \A i \in 1..Len(table) : [table[i] EXCEPT !.gone = TRUE] \in Rows
  BY <1>2 DEF Rows
<1>4. table' = [i \in 1..Len(table) |-> [table[i] EXCEPT !.gone = TRUE]]
  BY <1>1 DEF Retry
<1>5. table' \in [1..Len(table) -> Rows]
  BY <1>3, <1>4
<1>6. table' \in Seq(Rows) /\ Len(table') = Len(table)
  BY <1>1, <1>5, SeqDef, LenProperties
<1> QED BY <1>4, <1>6

-----------------------------------------------------------------------------
(* Types.                                                                  *)

(* Going to another place keeps a run typed.                               *)
LEMMA GotoType ==
  ASSUME TypeOK, NEW r \in Runs, NEW l \in Pcs, Goto(r, l)
  PROVE  pc' \in [Runs -> Pcs]
BY DEF TypeOK, Goto

(* Going on to the next stage keeps the types.                             *)
LEMMA NextStageType ==
  ASSUME TypeOK, NEW r \in Runs, at[r] \in Stages, NextStage(r)
  PROVE  /\ pc' \in [Runs -> Pcs] /\ at' \in [Runs -> 1..(NStages + 1)]
         /\ mine' \in [Runs -> Nat]
<1>1. at[r] + 1 \in 1..(NStages + 1)
  BY EngineAssumption DEF Stages
<1> QED BY <1>1 DEF TypeOK, NextStage, Goto, Pcs

(* The words used for states and places are among those declared.          *)
LEMMA WordsTyped ==
  /\ {"start", "register", "enter", "next", "deps", "unmet", "mark", "exec", "passed",
      "broken", "fail", "leave", "ended", "killed", "none"} \subseteq Pcs
  /\ {"pending", "running", "success", "failed", "skipped"} \subseteq RowStates
  /\ {"pending", "running", "success", "failed", "stopped", "timeout"} \subseteq Statuses
BY DEF Pcs, RowStates, Statuses

(* A run that is at a stage holds a row, so its stage and row exist.       *)
LEMMA AtRowFacts ==
  ASSUME AtRow, NEW r \in Runs, pc[r] \in AtStage
  PROVE  at[r] \in Stages /\ mine[r] \in 1..Len(table)
BY DEF AtRow, HoldsRow

(* A step of a run keeps the types.                                        *)
LEMMA EngineStepType ==
  ASSUME TypeOK, AtRow, NEW r \in Runs, EngineStep(r)
  PROVE  TypeOK'
<1> USE WordsTyped
<1>1. CASE Start(r)
  BY <1>1, GotoType DEF Start, TypeOK
<1>2. CASE Register(r)
  BY <1>2, GotoType DEF Register, TypeOK
<1>3. CASE GiveUp(r)
  BY <1>3, GotoType DEF GiveUp, SetIfRunning, TypeOK
<1>4. CASE Enter(r)
  <2>1. enabled' \in [Runs -> SUBSET Stages]
    BY <1>4, EngineAssumption DEF Enter, WithUpstream, TypeOK
  <2> QED BY <1>4, <2>1, GotoType DEF Enter, TypeOK
<1>5. CASE SeeCancel(r)
  BY <1>5, GotoType DEF SeeCancel, SetIfRunning, TypeOK
<1>6. CASE PassOver(r)
  BY <1>6, NextStageType DEF PassOver, TypeOK
<1>7. CASE SkipDisabled(r)
  <2>1. at[r] \in Stages
    BY <1>7, EngineAssumption DEF SkipDisabled
  <2> QED BY <1>7, <2>1, NextStageType, CreateRows DEF SkipDisabled, TypeOK
<1>8. CASE CreateRow(r)
  <2>1. at[r] \in Stages /\ Len(table) + 1 \in Nat
    BY <1>8, EngineAssumption DEF CreateRow, TypeOK
  <2>2. table' \in Seq(Rows)
    BY <1>8, <2>1, CreateRows DEF CreateRow
  <2>3. pc' \in [Runs -> Pcs]
    BY <1>8, GotoType DEF CreateRow
  <2> QED BY <1>8, <2>1, <2>2, <2>3 DEF CreateRow, TypeOK
<1>9. CASE CheckDeps(r)
  <2>1. pc' \in [Runs -> Pcs]
    BY <1>9, GotoType DEF CheckDeps
  <2> QED BY <1>9, <2>1 DEF CheckDeps, TypeOK
<1>10. CASE Unmet(r)
  <2>1. at[r] \in Stages /\ mine[r] \in 1..Len(table)
    BY <1>10, AtRowFacts DEF Unmet, AtStage
  <2>2. table' \in Seq(Rows)
    BY <1>10, <2>1, SaveRows DEF Unmet
  <2> QED BY <1>10, <2>1, <2>2, NextStageType DEF Unmet, TypeOK
<1>11. CASE MarkRunning(r)
  <2>1. mine[r] \in 1..Len(table)
    BY <1>11, AtRowFacts DEF MarkRunning, AtStage
  <2>2. table' \in Seq(Rows)
    BY <1>11, <2>1, MarkRows DEF MarkRunning
  <2> QED BY <1>11, <2>2, GotoType DEF MarkRunning, TypeOK
<1>12. CASE StageReturns(r)
  BY <1>12, GotoType DEF StageReturns, TypeOK
<1>13. CASE MarkSuccess(r)
  <2>1. at[r] \in Stages /\ mine[r] \in 1..Len(table)
    BY <1>13, AtRowFacts DEF MarkSuccess, AtStage
  <2>2. table' \in Seq(Rows)
    BY <1>13, <2>1, MarkRows DEF MarkSuccess
  <2> QED BY <1>13, <2>1, <2>2, NextStageType DEF MarkSuccess, TypeOK
<1>14. CASE MarkFailed(r)
  <2>1. mine[r] \in 1..Len(table)
    BY <1>14, AtRowFacts DEF MarkFailed, AtStage
  <2>2. table' \in Seq(Rows)
    BY <1>14, <2>1, MarkRows DEF MarkFailed
  <2> QED BY <1>14, <2>2, GotoType DEF MarkFailed, TypeOK
<1>15. CASE MarkTaskFailed(r)
  BY <1>15, GotoType DEF MarkTaskFailed, SetIfRunning, TypeOK
<1>16. CASE MarkTaskSuccess(r)
  BY <1>16, GotoType DEF MarkTaskSuccess, SetIfRunning, TypeOK
<1>17. CASE Leave(r)
  BY <1>17, GotoType DEF Leave, TypeOK
<1> QED BY <1>1, <1>2, <1>3, <1>4, <1>5, <1>6, <1>7, <1>8, <1>9, <1>10, <1>11, <1>12,
           <1>13, <1>14, <1>15, <1>16, <1>17 DEF EngineStep

(* Every step keeps the types.                                             *)
LEMMA TypeNext == TypeOK /\ AtRow /\ [Next]_vars => TypeOK'
<1> SUFFICES ASSUME TypeOK, AtRow, [Next]_vars PROVE TypeOK'
  OBVIOUS
<1> USE WordsTyped
<1>1. ASSUME NEW r \in Runs, EngineStep(r) PROVE TypeOK'
  BY <1>1, EngineStepType
<1>2. ASSUME NEW r \in Runs, TellLoop(r) \/ TellStage(r) PROVE TypeOK'
  BY <1>2 DEF TellLoop, TellStage, TypeOK
<1>3. CASE Stop
  BY <1>3 DEF Stop, SetIfRunning, TypeOK
<1>4. CASE TimeOut
  BY <1>4 DEF TimeOut, TypeOK
<1>5. CASE Retry
  <2>1. table' \in Seq(Rows)
    BY <1>5, RetryRows
  <2>2. pc' \in [Runs -> Pcs]
    BY <1>5, GotoType DEF Retry
  <2> QED BY <1>5, <2>1, <2>2 DEF Retry, TypeOK
<1>6. CASE Restart
  BY <1>6 DEF Restart, TypeOK
<1>7. CASE UNCHANGED vars
  BY <1>7 DEF vars, TypeOK
<1> QED BY <1>1, <1>2, <1>3, <1>4, <1>5, <1>6, <1>7 DEF Next

-----------------------------------------------------------------------------
(* Every run at a stage holds its row.                                     *)

(* Two runs never hold the same row.                                       *)
LEMMA RowsApart ==
  ASSUME AtRow, NEW q \in Runs, NEW r \in Runs, q # r, pc[q] \in AtStage, pc[r] \in AtStage
  PROVE  mine[q] # mine[r]
BY DEF AtRow, HoldsRow

(* A run keeps its row through a step that leaves it and its row alone.    *)
LEMMA StillHolds ==
  ASSUME AtRow, NEW q \in Runs, pc[q] \in AtStage, HoldsRow(q),
         pc'[q] = pc[q], at'[q] = at[q], mine'[q] = mine[q],
         mine[q] \in 1..Len(table'), table'[mine[q]] = table[mine[q]]
  PROVE  HoldsRow(q)'
BY DEF HoldsRow

(* Steps of r that only move it, not to a stage.                           *)
LEMMA MoveAway ==
  ASSUME TypeOK, AtRow, NEW r \in Runs, NEW l \in Pcs \ AtStage, pc' = [pc EXCEPT ![r] = l],
         UNCHANGED table, \A q \in Runs \ {r} : at'[q] = at[q] /\ mine'[q] = mine[q]
  PROVE  AtRow'
<1> SUFFICES ASSUME NEW q \in Runs, pc'[q] \in AtStage PROVE HoldsRow(q)'
  BY DEF AtRow
<1>1. q # r /\ pc'[q] = pc[q]
  BY DEF TypeOK
<1>2. HoldsRow(q) /\ at'[q] = at[q] /\ mine'[q] = mine[q]
  BY <1>1 DEF AtRow
<1>3. mine[q] \in 1..Len(table') /\ table'[mine[q]] = table[mine[q]]
  BY <1>2 DEF HoldsRow
<1> QED BY <1>1, <1>2, <1>3, StillHolds

(* Steps of r from one place at its stage to another.                      *)
LEMMA MoveOn ==
  ASSUME TypeOK, AtRow, NEW r \in Runs, NEW l \in AtStage, pc[r] \in AtStage, Goto(r, l),
         l \in Waiting <=> pc[r] \in Waiting, UNCHANGED <<at, mine, table>>
  PROVE  AtRow'
<1> SUFFICES ASSUME NEW q \in Runs, pc'[q] \in AtStage PROVE HoldsRow(q)'
  BY DEF AtRow
<1>1. CASE q = r
  BY <1>1 DEF AtRow, HoldsRow, Goto, TypeOK
<1>2. CASE q # r
  <2>1. pc'[q] = pc[q]
    BY <1>2 DEF Goto, TypeOK
  <2> QED BY <2>1 DEF AtRow, HoldsRow
<1> QED BY <1>1, <1>2

(* Steps of r that settle its row and leave the stage.                     *)
LEMMA SettleRow ==
  ASSUME TypeOK, AtRow, NEW r \in Runs, pc[r] \in AtStage, NEW s \in RowStates,
         Mark(r, s) \/ Save(r, s), NEW l \in Pcs \ AtStage, pc' = [pc EXCEPT ![r] = l],
         \A q \in Runs \ {r} : at'[q] = at[q] /\ mine'[q] = mine[q]
  PROVE  AtRow'
<1> SUFFICES ASSUME NEW q \in Runs, pc'[q] \in AtStage PROVE HoldsRow(q)'
  BY DEF AtRow
<1>1. q # r /\ pc'[q] = pc[q]
  BY DEF TypeOK
<1>2. HoldsRow(q) /\ at'[q] = at[q] /\ mine'[q] = mine[q] /\ mine[q] # mine[r]
  BY <1>1, RowsApart DEF AtRow
<1>3. mine[r] \in 1..Len(table) /\ mine[q] \in 1..Len(table)
  BY <1>2, AtRowFacts DEF HoldsRow
<1>4. mine[q] \in 1..Len(table') /\ table'[mine[q]] = table[mine[q]]
  BY <1>2, <1>3, MarkRows, SaveRows
<1> QED BY <1>1, <1>2, <1>4, StillHolds

(* A step of one run takes no row from any run.                            *)
LEMMA EngineStepHolds ==
  ASSUME TypeOK, AtRow, NEW r \in Runs, EngineStep(r)
  PROVE  AtRow'
<1> USE WordsTyped
<1>1. CASE Start(r)
  BY <1>1, MoveAway DEF Start, Goto, AtStage
<1>2. CASE Register(r)
  BY <1>2, MoveAway DEF Register, Goto, AtStage
<1>3. CASE GiveUp(r)
  BY <1>3, MoveAway DEF GiveUp, Goto, AtStage
<1>4. CASE Enter(r)
  BY <1>4, MoveAway DEF Enter, Goto, AtStage
<1>5. CASE SeeCancel(r)
  BY <1>5, MoveAway DEF SeeCancel, Goto, AtStage
<1>6. CASE PassOver(r)
  BY <1>6, MoveAway DEF PassOver, NextStage, Goto, AtStage, TypeOK
<1>7. CASE SkipDisabled(r)
  <2>1. at[r] \in Stages
    BY <1>7, EngineAssumption DEF SkipDisabled
  <2>2. Len(table') = Len(table) + 1 /\ \A i \in 1..Len(table) : table'[i] = table[i]
    BY <1>7, <2>1, CreateRows DEF SkipDisabled
  <2> SUFFICES ASSUME NEW q \in Runs, pc'[q] \in AtStage PROVE HoldsRow(q)'
    BY DEF AtRow
  <2>3. q # r /\ pc'[q] = pc[q] /\ at'[q] = at[q] /\ mine'[q] = mine[q]
    BY <1>7 DEF SkipDisabled, NextStage, Goto, AtStage, TypeOK
  <2>4. HoldsRow(q) /\ mine[q] \in 1..Len(table)
    BY <2>3 DEF AtRow, HoldsRow
  <2>5. mine[q] \in 1..Len(table')
    BY <2>2, <2>4 DEF TypeOK
  <2> QED BY <2>2, <2>3, <2>4, <2>5, StillHolds
<1>8. CASE CreateRow(r)
  <2>1. at[r] \in Stages /\ Len(table) \in Nat
    BY <1>8, EngineAssumption DEF CreateRow, TypeOK
  <2>2. /\ Len(table') = Len(table) + 1 /\ \A i \in 1..Len(table) : table'[i] = table[i]
        /\ table'[Len(table) + 1] = [stage |-> at[r], state |-> "pending", run |-> r, gone |-> FALSE]
    BY <1>8, <2>1, CreateRows DEF CreateRow
  <2> SUFFICES ASSUME NEW q \in Runs, pc'[q] \in AtStage PROVE HoldsRow(q)'
    BY DEF AtRow
  <2>a. CASE q = r
    <3>1. pc'[r] = "deps" /\ at'[r] = at[r] /\ mine'[r] = Len(table) + 1
      BY <1>8 DEF CreateRow, Goto, TypeOK
    <3>2. mine'[r] \in 1..Len(table')
      BY <3>1, <2>1, <2>2
    <3> QED BY <2>a, <3>1, <3>2, <2>1, <2>2 DEF HoldsRow, Waiting
  <2>b. CASE q # r
    <3>1. pc'[q] = pc[q] /\ at'[q] = at[q] /\ mine'[q] = mine[q]
      BY <1>8, <2>b DEF CreateRow, Goto, TypeOK
    <3>2. HoldsRow(q) /\ mine[q] \in 1..Len(table)
      BY <3>1 DEF AtRow, HoldsRow
    <3>3. mine[q] \in 1..Len(table')
      BY <2>1, <2>2, <3>2
    <3> QED BY <2>2, <3>1, <3>2, <3>3, StillHolds
  <2> QED BY <2>a, <2>b
<1>9. CASE CheckDeps(r)
  <2>1. PICK l \in {"mark", "unmet"} : Goto(r, l)
    BY <1>9 DEF CheckDeps
  <2> QED BY <1>9, <2>1, MoveOn DEF CheckDeps, AtStage, Waiting
<1>10. CASE Unmet(r)
  <2>1. PICK s \in RowStates : Save(r, s)
    BY <1>10 DEF Unmet
  <2> QED BY <1>10, <2>1, SettleRow DEF Unmet, NextStage, Goto, AtStage, TypeOK
<1>11. CASE MarkRunning(r)
  <2>1. mine[r] \in 1..Len(table) /\ HoldsRow(r)
    BY <1>11, AtRowFacts DEF MarkRunning, AtStage, AtRow
  <2>2. /\ Len(table') = Len(table)
        /\ \A i \in 1..Len(table) : i # mine[r] => table'[i] = table[i]
        /\ table'[mine[r]] = IF table[mine[r]].gone THEN table[mine[r]]
                             ELSE [table[mine[r]] EXCEPT !.state = "running"]
    BY <1>11, <2>1, MarkRows DEF MarkRunning
  <2>3. table[mine[r]] \in Rows
    BY <2>1, ElementOfSeq DEF TypeOK
  <2> SUFFICES ASSUME NEW q \in Runs, pc'[q] \in AtStage PROVE HoldsRow(q)'
    BY DEF AtRow
  <2>a. CASE q = r
    <3>1. pc'[r] = "exec" /\ at'[r] = at[r] /\ mine'[r] = mine[r]
      BY <1>11 DEF MarkRunning, Goto, TypeOK
    <3> QED BY <2>a, <3>1, <2>1, <2>2, <2>3 DEF HoldsRow, Waiting, Rows
  <2>b. CASE q # r
    <3>1. pc'[q] = pc[q] /\ at'[q] = at[q] /\ mine'[q] = mine[q]
      BY <1>11, <2>b DEF MarkRunning, Goto, TypeOK
    <3>2. pc[r] \in AtStage
      BY <1>11 DEF MarkRunning, AtStage
    <3>3. HoldsRow(q) /\ mine[q] \in 1..Len(table) /\ mine[q] # mine[r]
      BY <2>b, <3>1, <3>2, RowsApart DEF AtRow, HoldsRow
    <3> QED BY <2>2, <3>1, <3>3, StillHolds
  <2> QED BY <2>a, <2>b
<1>12. CASE StageReturns(r)
  <2>1. PICK l \in {"broken", "passed"} : Goto(r, l)
    BY <1>12 DEF StageReturns
  <2> QED BY <1>12, <2>1, MoveOn DEF StageReturns, AtStage, Waiting
<1>13. CASE MarkSuccess(r)
  BY <1>13, SettleRow DEF MarkSuccess, NextStage, Goto, AtStage, TypeOK
<1>14. CASE MarkFailed(r)
  BY <1>14, SettleRow DEF MarkFailed, Goto, AtStage, TypeOK
<1>15. CASE MarkTaskFailed(r)
  BY <1>15, MoveAway DEF MarkTaskFailed, Goto, AtStage
<1>16. CASE MarkTaskSuccess(r)
  BY <1>16, MoveAway DEF MarkTaskSuccess, Goto, AtStage
<1>17. CASE Leave(r)
  BY <1>17, MoveAway DEF Leave, Goto, AtStage
<1> QED BY <1>1, <1>2, <1>3, <1>4, <1>5, <1>6, <1>7, <1>8, <1>9, <1>10, <1>11, <1>12,
           <1>13, <1>14, <1>15, <1>16, <1>17 DEF EngineStep

(* Every step leaves each run its row.                                     *)
LEMMA AtRowNext == TypeOK /\ AtRow /\ [Next]_vars => AtRow'
<1> SUFFICES ASSUME TypeOK, AtRow, [Next]_vars PROVE AtRow'
  OBVIOUS
<1>1. ASSUME NEW r \in Runs, EngineStep(r) PROVE AtRow'
  BY <1>1, EngineStepHolds
<1>2. CASE UNCHANGED <<pc, at, mine, table>>
  BY <1>2 DEF AtRow, HoldsRow
<1>3. CASE Retry
  <2> SUFFICES ASSUME NEW q \in Runs, pc'[q] \in AtStage PROVE HoldsRow(q)'
    BY DEF AtRow
  <2>1. pc'[q] = pc[q] /\ at' = at /\ mine' = mine
    BY <1>3 DEF Retry, Goto, AtStage, TypeOK
  <2>2. HoldsRow(q) /\ mine[q] \in 1..Len(table)
    BY <2>1 DEF AtRow, HoldsRow
  <2>3. Len(table') = Len(table) /\ table'[mine[q]] = [table[mine[q]] EXCEPT !.gone = TRUE]
    BY <1>3, <2>2, RetryRows
  <2>4. table[mine[q]] \in Rows
    BY <2>2, ElementOfSeq DEF TypeOK
  <2> QED BY <2>1, <2>2, <2>3, <2>4 DEF HoldsRow, Rows
<1>4. CASE Restart
  BY <1>4 DEF Restart, AtRow, AtStage, TypeOK
<1> QED BY <1>1, <1>2, <1>3, <1>4 DEF Next, vars, TellLoop, TellStage, Stop, TimeOut

(* Every variable keeps its type, and a run that is at a stage holds its   *)
(* own row of that stage.                                                  *)
THEOREM TypeCorrect == Spec => [](TypeOK /\ AtRow)
<1>1. Init => TypeOK /\ AtRow
  <2>1. <<>> \in Seq(Rows)
    BY EmptySeq
  <2>2. 1 \in 1..(NStages + 1)
    BY EngineAssumption
  <2> QED BY <2>1, <2>2 DEF Init, TypeOK, Statuses, Pcs, AtRow, AtStage
<1>2. TypeOK /\ AtRow /\ [Next]_vars => (TypeOK /\ AtRow)'
  BY TypeNext, AtRowNext
<1> QED BY <1>1, <1>2, PTL DEF Spec

-----------------------------------------------------------------------------
(* What one step of a run does to one row.                                 *)

Same(i)        == i \in 1..Len(table) /\ table'[i] = table[i]
Added(r, i, s) ==
  /\ i = Len(table) + 1
  /\ table'[i] = [stage |-> at[r], state |-> s, run |-> r, gone |-> FALSE]
Marked(r, i, s) ==
  /\ i = mine[r] /\ i \in 1..Len(table) /\ ~table[i].gone
  /\ table'[i] = [table[i] EXCEPT !.state = s]
Saved(r, i, s) ==
  /\ i = mine[r] /\ i \in 1..Len(table)
  /\ table'[i] = [table[i] EXCEPT !.state = s, !.gone = FALSE]

(* The row was left as it is, although it may be the one r holds.          *)
Kept(r, i) ==
  /\ Same(i)
  /\ i = mine[r] => ~Unmet(r)
  /\ i = mine[r] /\ ~table[i].gone => ~MarkRunning(r) /\ ~MarkSuccess(r) /\ ~MarkFailed(r)

(* An update leaves a row as it is, or marks the one the run holds.        *)
LEMMA MarkChange ==
  ASSUME TypeOK, AtRow, NEW r \in Runs, pc[r] \in AtStage, NEW s \in RowStates, Mark(r, s),
         NEW i \in 1..Len(table')
  PROVE  \/ Same(i) /\ (i = mine[r] => table[i].gone)
         \/ Marked(r, i, s)
<1>1. mine[r] \in 1..Len(table)
  BY AtRowFacts
<1> QED BY <1>1, MarkRows DEF Same, Marked

(* All that a step of a run may do to one row.                             *)
LEMMA RowChange ==
  ASSUME TypeOK, AtRow, NEW r \in Runs, EngineStep(r), NEW i \in 1..Len(table')
  PROVE  \/ Kept(r, i)
         \/ SkipDisabled(r) /\ Added(r, i, "skipped")
         \/ CreateRow(r) /\ Added(r, i, "pending")
         \/ Unmet(r) /\ \E s \in {"skipped", "failed"} : Saved(r, i, s)
         \/ MarkRunning(r) /\ Marked(r, i, "running")
         \/ MarkSuccess(r) /\ Marked(r, i, "success")
         \/ MarkFailed(r) /\ Marked(r, i, "failed")
<1> USE WordsTyped
<1>1. CASE SkipDisabled(r) \/ CreateRow(r)
  <2>1. PICK s \in {"skipped", "pending"} :
          /\ Create(r, s)
          /\ (SkipDisabled(r) /\ s = "skipped") \/ (CreateRow(r) /\ s = "pending")
    BY <1>1 DEF SkipDisabled, CreateRow
  <2>2. at[r] \in Stages /\ s \in RowStates /\ Len(table) \in Nat
    <3>1. at[r] \in Stages
      BY <1>1, EngineAssumption DEF SkipDisabled, CreateRow
    <3>2. s \in RowStates
      BY <2>1 DEF RowStates
    <3>3. Len(table) \in Nat
      BY LenProperties DEF TypeOK
    <3> QED BY <3>1, <3>2, <3>3
  <2>3. /\ Len(table') = Len(table) + 1
        /\ \A k \in 1..Len(table) : table'[k] = table[k]
        /\ table'[Len(table) + 1] = [stage |-> at[r], state |-> s, run |-> r, gone |-> FALSE]
    BY <2>1, <2>2, CreateRows
  <2>4. Same(i) \/ Added(r, i, s)
    BY <2>2, <2>3 DEF Same, Added
  <2>5. pc[r] = "next"
    BY <1>1 DEF SkipDisabled, CreateRow
  <2>6. ~Unmet(r) /\ ~MarkRunning(r) /\ ~MarkSuccess(r) /\ ~MarkFailed(r)
    BY <2>5 DEF Unmet, MarkRunning, MarkSuccess, MarkFailed
  <2>7. Kept(r, i) \/ Added(r, i, s)
    BY <2>4, <2>6 DEF Kept
  <2> QED BY <2>1, <2>7
<1>2. CASE Unmet(r)
  <2>1. PICK s \in {"skipped", "failed"} : Save(r, s)
    BY <1>2 DEF Unmet
  <2>2. mine[r] \in 1..Len(table) /\ pc[r] = "unmet"
    BY <1>2, AtRowFacts DEF Unmet, AtStage
  <2>s. s \in RowStates
    BY <2>1 DEF RowStates
  <2>3. /\ Len(table') = Len(table)
        /\ \A k \in 1..Len(table) : k # mine[r] => table'[k] = table[k]
        /\ table'[mine[r]] = [table[mine[r]] EXCEPT !.state = s, !.gone = FALSE]
    BY <2>1, <2>2, <2>s, SaveRows
  <2>4. CASE i = mine[r]
    BY <1>2, <2>2, <2>3, <2>4 DEF Saved
  <2>5. CASE i # mine[r]
    BY <2>3, <2>5 DEF Kept, Same
  <2> QED BY <2>4, <2>5
<1>3. CASE MarkRunning(r)
  BY <1>3, MarkChange DEF MarkRunning, Kept, AtStage, Unmet, MarkSuccess, MarkFailed
<1>4. CASE MarkSuccess(r)
  BY <1>4, MarkChange DEF MarkSuccess, Kept, AtStage, Unmet, MarkRunning, MarkFailed
<1>5. CASE MarkFailed(r)
  BY <1>5, MarkChange DEF MarkFailed, Kept, AtStage, Unmet, MarkRunning, MarkSuccess
<1>6. CASE ~SkipDisabled(r) /\ ~CreateRow(r) /\ ~Unmet(r) /\ ~MarkRunning(r)
           /\ ~MarkSuccess(r) /\ ~MarkFailed(r)
  <2>1. table' = table
    BY <1>6 DEF EngineStep, Start, Register, GiveUp, Enter, SeeCancel, PassOver, CheckDeps,
                StageReturns, MarkTaskFailed, MarkTaskSuccess, Leave
  <2> QED BY <1>6, <2>1 DEF Kept, Same
<1> QED BY <1>1, <1>2, <1>3, <1>4, <1>5, <1>6

(* A step of r moves no other run.                                         *)
LEMMA OthersStay ==
  ASSUME TypeOK, NEW r \in Runs, EngineStep(r), NEW q \in Runs \ {r}
  PROVE  pc'[q] = pc[q] /\ at'[q] = at[q] /\ mine'[q] = mine[q]
BY DEF EngineStep, Start, Register, GiveUp, Enter, SeeCancel, PassOver, SkipDisabled, CreateRow,
       CheckDeps, Unmet, MarkRunning, StageReturns, MarkSuccess, MarkFailed, MarkTaskFailed,
       MarkTaskSuccess, Leave, NextStage, Goto, TypeOK

(* The rows of the table are rows.                                         *)
LEMMA RowsTyped ==
  ASSUME TypeOK
  PROVE  /\ Len(table) \in Nat /\ DOMAIN table = 1..Len(table)
         /\ \A i \in 1..Len(table) : table[i] \in Rows
BY LenProperties, ElementOfSeq DEF TypeOK

-----------------------------------------------------------------------------
(* No way out of a run leaves a row unsettled.                             *)

(* A run that is at a stage and does not write its row stays with it.      *)
LEMMA StaysAtStage ==
  ASSUME TypeOK, NEW r \in Runs, EngineStep(r), pc[r] \in AtStage,
         ~Unmet(r), ~MarkRunning(r), ~MarkSuccess(r), ~MarkFailed(r)
  PROVE  pc'[r] \in AtStage /\ mine'[r] = mine[r]
<1>1. CheckDeps(r) \/ StageReturns(r)
  BY DEF EngineStep, AtStage, Start, Register, GiveUp, Enter, SeeCancel, PassOver, SkipDisabled,
         CreateRow, MarkTaskFailed, MarkTaskSuccess, Leave
<1> QED BY <1>1 DEF CheckDeps, StageReturns, Goto, AtStage, TypeOK

(* A step of a run leaves no row unsettled.                                *)
LEMMA RowsSettledStep ==
  ASSUME TypeOK, AtRow, RowsSettled, NEW r \in Runs, EngineStep(r)
  PROVE  RowsSettled'
<1>0. TypeOK'
  BY TypeNext DEF Next
<1>1. /\ DOMAIN table = 1..Len(table) /\ DOMAIN table' = 1..Len(table')
      /\ \A i \in 1..Len(table) : table[i] \in Rows
  BY <1>0, RowsTyped, LenProperties DEF TypeOK
<1> SUFFICES ASSUME NEW i \in 1..Len(table'), table'[i].state \in Active, ~table'[i].gone
             PROVE  /\ pc'[table'[i].run] \in AtStage \cup {"killed"}
                    /\ mine'[table'[i].run] = i
  BY <1>1 DEF RowsSettled
<1>2. CASE Kept(r, i)
  <2>1. /\ table'[i] = table[i] /\ table[i].run \in Runs
        /\ pc[table[i].run] \in AtStage \cup {"killed"} /\ mine[table[i].run] = i
    BY <1>1, <1>2 DEF Kept, Same, RowsSettled, Rows
  <2>2. CASE table[i].run # r
    BY <2>1, <2>2, OthersStay
  <2>3. CASE table[i].run = r
    <3>1. pc[r] # "killed"
      BY DEF EngineStep, Start, Register, GiveUp, Enter, SeeCancel, PassOver, SkipDisabled,
             CreateRow, CheckDeps, Unmet, MarkRunning, StageReturns, MarkSuccess, MarkFailed,
             MarkTaskFailed, MarkTaskSuccess, Leave
    <3> QED BY <1>2, <2>1, <2>3, <3>1, StaysAtStage DEF Kept
  <2> QED BY <2>2, <2>3
<1>3. CASE CreateRow(r) /\ Added(r, i, "pending")
  BY <1>3 DEF CreateRow, Added, Goto, AtStage, TypeOK
<1>4. CASE MarkRunning(r) /\ Marked(r, i, "running")
  <2>1. HoldsRow(r) /\ table[i] \in Rows /\ pc'[r] = "exec" /\ mine' = mine
    BY <1>1, <1>4 DEF MarkRunning, Marked, Goto, AtRow, AtStage, TypeOK
  <2>2. table'[i].run = r
    BY <1>4, <2>1 DEF HoldsRow, Marked, Rows
  <2> QED BY <1>4, <2>1, <2>2 DEF Marked, AtStage
<1>5. CASE \/ SkipDisabled(r) /\ Added(r, i, "skipped")
           \/ Unmet(r) /\ \E s \in {"skipped", "failed"} : Saved(r, i, s)
           \/ MarkSuccess(r) /\ Marked(r, i, "success")
           \/ MarkFailed(r) /\ Marked(r, i, "failed")
  <2>1. table'[i].state \in {"skipped", "failed", "success"}
    <3>1. CASE Added(r, i, "skipped")
      BY <3>1 DEF Added
    <3>2. ASSUME NEW s \in {"skipped", "failed"}, Saved(r, i, s) PROVE table'[i].state = s
      BY <1>1, <3>2 DEF Saved, Rows
    <3>3. ASSUME NEW s \in {"success", "failed"}, Marked(r, i, s) PROVE table'[i].state = s
      BY <1>1, <3>3 DEF Marked, Rows
    <3> QED BY <1>5, <3>1, <3>2, <3>3
  <2> QED BY <2>1 DEF Active
<1> QED BY <1>2, <1>3, <1>4, <1>5, RowChange

(* No step leaves a row unsettled; a restart leaves them where they were.  *)
LEMMA RowsSettledNext ==
  ASSUME TypeOK, AtRow, RowsSettled, [Next]_vars
  PROVE  RowsSettled'
<1>1. ASSUME NEW r \in Runs, EngineStep(r) PROVE RowsSettled'
  BY <1>1, RowsSettledStep
<1>2. CASE UNCHANGED <<pc, mine, table>>
  BY <1>2 DEF RowsSettled
<1>3. CASE Retry
  <2>1. TypeOK'
    BY TypeNext
  <2>2. DOMAIN table' = 1..Len(table')
    BY <2>1, LenProperties DEF TypeOK
  <2>3. \A i \in 1..Len(table') : table'[i].gone
    BY <1>3, RetryRows, RowsTyped DEF Rows
  <2> QED BY <2>2, <2>3 DEF RowsSettled
<1>4. CASE Restart
  <2>1. /\ table' = table /\ mine' = mine
        /\ \A q \in Runs : pc[q] \in AtStage \cup {"killed"} => pc'[q] = "killed"
    BY <1>4 DEF Restart, AtStage, TypeOK
  <2>2. \A i \in DOMAIN table : table[i].run \in Runs
    BY RowsTyped DEF Rows
  <2> QED BY <2>1, <2>2 DEF RowsSettled
<1> QED BY <1>1, <1>2, <1>3, <1>4 DEF Next, vars, TellLoop, TellStage, Stop, TimeOut

(* No row is shown as waiting or running unless a run is at it, or was     *)
(* when the server died.                                                   *)
THEOREM NoRowLeftBehind == Spec => []RowsSettled
<1>1. Init => RowsSettled
  BY DEF Init, RowsSettled
<1>2. TypeOK /\ AtRow /\ RowsSettled /\ [Next]_vars => RowsSettled'
  BY RowsSettledNext
<1>3. Spec => [](TypeOK /\ AtRow)
  BY TypeCorrect
<1> QED BY <1>1, <1>2, <1>3, PTL DEF Spec

-----------------------------------------------------------------------------
(* A stage runs after the stages it requires.                              *)

Ordered == StageAfterDependencies /\ Checked

(* The table before and after a step.                                      *)
LEMMA TableDomain ==
  ASSUME TypeOK, AtRow, [Next]_vars
  PROVE  /\ DOMAIN table = 1..Len(table) /\ DOMAIN table' = 1..Len(table')
         /\ \A i \in 1..Len(table) : table[i] \in Rows
         /\ \A i \in 1..Len(table') : table'[i] \in Rows
         /\ Len(table) \in Nat /\ Len(table') \in Nat
<1>1. TypeOK'
  BY TypeNext
<1>2. table \in Seq(Rows) /\ table' \in Seq(Rows)
  BY <1>1 DEF TypeOK
<1> QED BY <1>2, LenProperties, ElementOfSeq

(* A step of a run is a step of the system.                                *)
LEMMA StepIsNext ==
  ASSUME NEW r \in Runs, EngineStep(r)
  PROVE  [Next]_vars
BY DEF Next

(* A step of a run takes no row out of the table.                          *)
LEMMA TableGrows ==
  ASSUME TypeOK, AtRow, NEW r \in Runs, EngineStep(r)
  PROVE  Len(table) <= Len(table')
<1> USE WordsTyped
<1>0. Len(table) \in Nat
  BY RowsTyped
<1>1. CASE SkipDisabled(r) \/ CreateRow(r)
  <2>1. at[r] \in Stages
    BY <1>1, EngineAssumption DEF SkipDisabled, CreateRow
  <2>2. PICK s \in {"skipped", "pending"} : Create(r, s)
    BY <1>1 DEF SkipDisabled, CreateRow
  <2>3. s \in RowStates
    BY <2>2 DEF RowStates
  <2>4. Len(table') = Len(table) + 1
    BY <2>1, <2>2, <2>3, CreateRows
  <2> QED BY <1>0, <2>4
<1>2. CASE Unmet(r) \/ MarkRunning(r) \/ MarkSuccess(r) \/ MarkFailed(r)
  <2>1. mine[r] \in 1..Len(table)
    BY <1>2, AtRowFacts DEF Unmet, MarkRunning, MarkSuccess, MarkFailed, AtStage
  <2>2. PICK s \in {"skipped", "running", "success", "failed"} : Save(r, s) \/ Mark(r, s)
    BY <1>2 DEF Unmet, MarkRunning, MarkSuccess, MarkFailed
  <2>3. s \in RowStates
    BY <2>2 DEF RowStates
  <2>4. Len(table') = Len(table)
    BY <2>1, <2>2, <2>3, SaveRows, MarkRows
  <2> QED BY <1>0, <2>4
<1>3. CASE ~SkipDisabled(r) /\ ~CreateRow(r) /\ ~Unmet(r) /\ ~MarkRunning(r)
           /\ ~MarkSuccess(r) /\ ~MarkFailed(r)
  <2>1. table' = table
    BY <1>3 DEF EngineStep, Start, Register, GiveUp, Enter, SeeCancel, PassOver, CheckDeps,
                StageReturns, MarkTaskFailed, MarkTaskSuccess, Leave
  <2> QED BY <1>0, <2>1
<1> QED BY <1>1, <1>2, <1>3

(* A success that is present stays so until the next Retry.                *)
LEMMA SuccessStays ==
  ASSUME TypeOK, AtRow, NEW r \in Runs, EngineStep(r), NEW i \in 1..Len(table),
         ~table[i].gone, table[i].state = "success"
  PROVE  i \in 1..Len(table') /\ table'[i] = table[i]
<1>1. i \in 1..Len(table') /\ Len(table) \in Nat
  BY TableGrows, TableDomain, StepIsNext
<1>2. pc[r] \in AtStage => mine[r] # i
  BY DEF AtRow, HoldsRow
<1>3. Unmet(r) \/ MarkRunning(r) \/ MarkSuccess(r) \/ MarkFailed(r) => pc[r] \in AtStage
  BY DEF Unmet, MarkRunning, MarkSuccess, MarkFailed, AtStage
<1>4. \A s : ~Added(r, i, s)
  BY <1>1 DEF Added
<1>5. pc[r] \in AtStage => \A s : ~Marked(r, i, s) /\ ~Saved(r, i, s)
  BY <1>2 DEF Marked, Saved
<1>6. Kept(r, i)
  BY <1>1, <1>3, <1>4, <1>5, RowChange
<1> QED BY <1>1, <1>6 DEF Kept, Same

(* What a stage requires stays met until the next Retry.                   *)
LEMMA MetStays ==
  ASSUME TypeOK, AtRow, NEW r \in Runs, EngineStep(r), NEW s \in Stages, Met(s)
  PROVE  Met(s)'
<1> SUFFICES ASSUME NEW d \in Requires[s]
             PROVE  \E i \in Present(d)' : table'[i].state = "success"
  BY DEF Met
<1>1. PICK i \in Present(d) : table[i].state = "success"
  BY DEF Met
<1>2. DOMAIN table = 1..Len(table) /\ DOMAIN table' = 1..Len(table')
  BY TableDomain, StepIsNext
<1>3. i \in 1..Len(table) /\ ~table[i].gone /\ table[i].stage = d
  BY <1>2 DEF Present
<1>4. i \in 1..Len(table') /\ table'[i] = table[i]
  BY <1>1, <1>3, SuccessStays
<1> QED BY <1>1, <1>2, <1>3, <1>4 DEF Present

(* A step of a run leaves every checked run what its stage requires.       *)
LEMMA CheckedStep ==
  ASSUME TypeOK, AtRow, Checked, NEW r \in Runs, EngineStep(r)
  PROVE  Checked'
<1> SUFFICES ASSUME NEW q \in Runs, pc'[q] = "mark", ~table'[mine'[q]].gone
             PROVE  Met(at[q])' /\ at'[q] = at[q]
  BY DEF Checked, Met
<1>1. CASE q = r
  <2>1. CheckDeps(r)
    BY <1>1 DEF EngineStep, Start, Register, GiveUp, Enter, SeeCancel, PassOver, SkipDisabled,
                CreateRow, Unmet, MarkRunning, StageReturns, MarkSuccess, MarkFailed,
                MarkTaskFailed, MarkTaskSuccess, Leave, NextStage, Goto, TypeOK
  <2>2. \A d \in Requires[at[r]] : Succeeded(d)
    BY <1>1, <2>1 DEF CheckDeps, Goto, TypeOK
  <2>3. Met(at[r])
    BY <2>2 DEF Met, Succeeded
  <2> QED BY <1>1, <2>1, <2>3 DEF CheckDeps, Met, Present
<1>2. CASE q # r
  <2>1. pc[q] = "mark" /\ mine'[q] = mine[q] /\ at'[q] = at[q]
    BY <1>2, OthersStay
  <2>2. HoldsRow(q) /\ mine[q] \in 1..Len(table) /\ at[q] \in Stages
    BY <2>1 DEF AtRow, AtStage, HoldsRow
  <2>3. mine[q] \in 1..Len(table') /\ table[mine[q]] \in Rows
    BY <2>2, TableGrows, TableDomain, StepIsNext
  <2>4. pc[r] \in AtStage => mine[r] # mine[q]
    BY <1>2, <2>1, <2>2, RowsApart DEF AtRow, HoldsRow
  <2>5. Unmet(r) => pc[r] \in AtStage
    BY DEF Unmet, AtStage
  <2>6. \A s : ~Added(r, mine[q], s)
    BY <2>2, RowsTyped DEF Added
  <2>7. \A s : Saved(r, mine[q], s) => mine[r] = mine[q]
    BY DEF Saved
  <2>8. ~table[mine[q]].gone
    BY <1>2, <2>1, <2>3, <2>4, <2>5, <2>6, <2>7, RowChange, ZenonT(30) DEF Kept, Same, Marked
  <2>9. Met(at[q])
    BY <2>1, <2>8 DEF Checked
  <2> QED BY <2>1, <2>2, <2>9, MetStays DEF Met
<1> QED BY <1>1, <1>2

(* A step of a run starts no stage before those it requires.               *)
LEMMA DependenciesStep ==
  ASSUME TypeOK, AtRow, Ordered, NEW r \in Runs, EngineStep(r)
  PROVE  StageAfterDependencies'
<1>0. /\ DOMAIN table = 1..Len(table) /\ DOMAIN table' = 1..Len(table')
      /\ \A i \in 1..Len(table) : table[i] \in Rows
  BY TableDomain, StepIsNext
<1> SUFFICES ASSUME NEW j \in 1..Len(table'),
                    table'[j].state \in {"running", "success"}, ~table'[j].gone
             PROVE  Met(table[j].stage)'
  BY <1>0 DEF StageAfterDependencies, Met
<1>1. /\ j \in 1..Len(table) /\ table'[j].stage = table[j].stage
      /\ Met(table[j].stage)
  <2>1. CASE Kept(r, j)
    BY <1>0, <2>1 DEF Kept, Same, Ordered, StageAfterDependencies, Met
  <2>2. CASE MarkRunning(r) /\ Marked(r, j, "running")
    <3>1. HoldsRow(r) /\ pc[r] = "mark" /\ j = mine[r] /\ ~table[mine[r]].gone
      BY <2>2 DEF MarkRunning, Marked, AtRow, AtStage
    <3>2. Met(at[r]) /\ table[j].stage = at[r]
      BY <3>1 DEF Ordered, Checked, HoldsRow
    <3> QED BY <1>0, <2>2, <3>2 DEF Marked, Rows
  <2>3. CASE MarkSuccess(r) /\ Marked(r, j, "success")
    <3>1. HoldsRow(r) /\ pc[r] = "passed" /\ j = mine[r] /\ ~table[mine[r]].gone
      BY <2>3 DEF MarkSuccess, Marked, AtRow, AtStage
    <3>2. table[j].state = "running"
      BY <3>1 DEF HoldsRow, Waiting
    <3> QED BY <1>0, <2>3, <3>1, <3>2 DEF Marked, Rows, Ordered, StageAfterDependencies, Met
  <2>4. CASE \/ SkipDisabled(r) /\ Added(r, j, "skipped")
             \/ CreateRow(r) /\ Added(r, j, "pending")
    BY <2>4 DEF Added
  <2>5. CASE Unmet(r) /\ \E s \in {"skipped", "failed"} : Saved(r, j, s)
    BY <1>0, <2>5 DEF Saved, Rows
  <2>6. CASE MarkFailed(r) /\ Marked(r, j, "failed")
    BY <1>0, <2>6 DEF Marked, Rows
  <2> QED BY <2>1, <2>2, <2>3, <2>4, <2>5, <2>6, RowChange
<1>2. table[j].stage \in Stages
  BY <1>0, <1>1 DEF Rows
<1>3. \A s \in Stages : Met(s) => Met(s)'
  BY MetStays
<1> QED BY <1>1, <1>2, <1>3 DEF Met

(* No step starts a stage before those it requires.                        *)
LEMMA OrderedNext == TypeOK /\ AtRow /\ Ordered /\ [Next]_vars => Ordered'
<1> SUFFICES ASSUME TypeOK, AtRow, Ordered, [Next]_vars PROVE Ordered'
  OBVIOUS
<1>0. /\ DOMAIN table = 1..Len(table) /\ DOMAIN table' = 1..Len(table')
      /\ \A i \in 1..Len(table) : table[i] \in Rows
  BY TableDomain
<1>1. ASSUME NEW r \in Runs, EngineStep(r) PROVE Ordered'
  BY <1>1, CheckedStep, DependenciesStep DEF Ordered
<1>2. CASE UNCHANGED <<pc, at, mine, table>>
  BY <1>2 DEF Ordered, StageAfterDependencies, Checked, Met, Present
<1>3. CASE Retry
  <2>1. \A i \in 1..Len(table') : i \in 1..Len(table) /\ table'[i].gone
    BY <1>0, <1>3, RetryRows DEF Rows
  <2>2. Len(table') = Len(table)
    BY <1>3, RetryRows
  <2>3. \A q \in Runs : pc'[q] = "mark" => table'[mine'[q]].gone
    <3> SUFFICES ASSUME NEW q \in Runs, pc'[q] = "mark" PROVE table'[mine'[q]].gone
      OBVIOUS
    <3>1. pc[q] = "mark" /\ mine' = mine
      BY <1>3 DEF Retry, Goto, TypeOK
    <3>2. mine[q] \in 1..Len(table)
      BY <3>1, AtRowFacts DEF AtStage
    <3> QED BY <2>1, <2>2, <3>1, <3>2
  <2> QED BY <1>0, <2>1, <2>3 DEF Ordered, StageAfterDependencies, Checked
<1>4. CASE Restart
  <2>1. \A q \in Runs : pc'[q] # "mark"
    BY <1>4 DEF Restart, TypeOK
  <2>2. table' = table
    BY <1>4 DEF Restart
  <2> QED BY <2>1, <2>2 DEF Ordered, StageAfterDependencies, Checked, Present
<1> QED BY <1>1, <1>2, <1>3, <1>4 DEF Next, vars, TellLoop, TellStage, Stop, TimeOut

(* However many runs of the task walk the stages at once, none executes a  *)
(* stage, or leaves it as a success, without a success of this round of    *)
(* the task for every stage that one requires.                             *)
THEOREM DependenciesComeFirst == Spec => []StageAfterDependencies
<1>1. Init => Ordered
  BY DEF Init, Ordered, StageAfterDependencies, Checked
<1>2. TypeOK /\ AtRow /\ Ordered /\ [Next]_vars => Ordered'
  BY OrderedNext
<1>3. Spec => [](TypeOK /\ AtRow)
  BY TypeCorrect
<1>4. Ordered => StageAfterDependencies
  BY DEF Ordered
<1> QED BY <1>1, <1>2, <1>3, <1>4, PTL DEF Spec

-----------------------------------------------------------------------------
(* A run that reaches the end of the table failed at no stage.             *)

Clean == WholeRunsAreClean /\ UnmetRequires

(* Only a stage that requires something is found unmet.                    *)
LEMMA UnmetRequiresStep ==
  ASSUME TypeOK, UnmetRequires, NEW r \in Runs, EngineStep(r)
  PROVE  UnmetRequires'
<1> SUFFICES ASSUME NEW q \in Runs, pc'[q] = "unmet" PROVE Requires[at'[q]] # {}
  BY DEF UnmetRequires
<1>1. CASE q # r
  BY <1>1, OthersStay DEF UnmetRequires
<1>2. CASE q = r
  <2>1. CheckDeps(r)
    BY <1>2 DEF EngineStep, Start, Register, GiveUp, Enter, SeeCancel, PassOver, SkipDisabled,
                CreateRow, Unmet, MarkRunning, StageReturns, MarkSuccess, MarkFailed,
                MarkTaskFailed, MarkTaskSuccess, Leave, NextStage, Goto, TypeOK
  <2> QED BY <1>2, <2>1 DEF CheckDeps, Goto, TypeOK
<1> QED BY <1>1, <1>2

(* A step of a run takes no run past a stage it failed at.                 *)
LEMMA CleanStep ==
  ASSUME TypeOK, AtRow, Clean, NEW r \in Runs, EngineStep(r)
  PROVE  Clean'
<1>0. /\ DOMAIN table = 1..Len(table) /\ DOMAIN table' = 1..Len(table')
      /\ \A i \in 1..Len(table) : table[i] \in Rows
  BY TableDomain, StepIsNext
<1>1. UnmetRequires'
  BY UnmetRequiresStep DEF Clean
<1>2. WholeRunsAreClean'
  <2> SUFFICES ASSUME NEW i \in 1..Len(table'),
                      table'[i].state = "failed", Requires[table'[i].stage] = {}
               PROVE  pc'[table'[i].run] \in {"fail", "leave", "ended", "killed"}
                      /\ at'[table'[i].run] = table'[i].stage
    BY <1>0 DEF WholeRunsAreClean
  <2>1. CASE Kept(r, i)
    <3>1. /\ table'[i] = table[i] /\ table[i].run \in Runs
          /\ pc[table[i].run] \in {"fail", "leave", "ended", "killed"} /\ at[table[i].run] = table[i].stage
      BY <1>0, <2>1 DEF Kept, Same, Clean, WholeRunsAreClean, Rows
    <3>2. CASE table[i].run # r
      BY <3>1, <3>2, OthersStay
    <3>3. CASE table[i].run = r
      <4>1. MarkTaskFailed(r) \/ Leave(r)
        BY <3>1, <3>3 DEF EngineStep, Start, Register, GiveUp, Enter, SeeCancel, PassOver,
             SkipDisabled, CreateRow, CheckDeps, Unmet, MarkRunning, StageReturns, MarkSuccess,
             MarkFailed, MarkTaskSuccess
      <4> QED BY <3>1, <3>3, <4>1 DEF MarkTaskFailed, Leave, Goto, TypeOK
    <3> QED BY <3>2, <3>3
  <2>2. CASE MarkFailed(r) /\ Marked(r, i, "failed")
    <3>1. HoldsRow(r) /\ i = mine[r] /\ i \in 1..Len(table)
      BY <2>2 DEF MarkFailed, Marked, AtRow, AtStage
    <3>2. table'[i].run = r /\ table'[i].stage = at[r]
      BY <1>0, <2>2, <3>1 DEF Marked, HoldsRow, Rows
    <3> QED BY <2>2, <3>2 DEF MarkFailed, Goto, TypeOK
  <2>3. CASE Unmet(r) /\ \E s \in {"skipped", "failed"} : Saved(r, i, s)
    <3>1. HoldsRow(r) /\ i = mine[r] /\ i \in 1..Len(table) /\ pc[r] = "unmet"
      BY <2>3 DEF Unmet, Saved, AtRow, AtStage
    <3>2. table'[i].stage = at[r]
      BY <1>0, <2>3, <3>1 DEF Saved, HoldsRow, Rows
    <3> QED BY <3>1, <3>2 DEF Clean, UnmetRequires
  <2>4. CASE \/ SkipDisabled(r) /\ Added(r, i, "skipped")
             \/ CreateRow(r) /\ Added(r, i, "pending")
    BY <2>4 DEF Added
  <2>5. CASE \/ MarkRunning(r) /\ Marked(r, i, "running")
             \/ MarkSuccess(r) /\ Marked(r, i, "success")
    BY <1>0, <2>5 DEF Marked, Rows
  <2> QED BY <2>1, <2>2, <2>3, <2>4, <2>5, RowChange
<1> QED BY <1>1, <1>2 DEF Clean

(* No step takes a run past a stage it failed at.                          *)
LEMMA CleanNext == TypeOK /\ AtRow /\ Clean /\ [Next]_vars => Clean'
<1> SUFFICES ASSUME TypeOK, AtRow, Clean, [Next]_vars PROVE Clean'
  OBVIOUS
<1>0. /\ DOMAIN table = 1..Len(table) /\ DOMAIN table' = 1..Len(table')
      /\ \A i \in 1..Len(table) : table[i] \in Rows
  BY TableDomain
<1>1. ASSUME NEW r \in Runs, EngineStep(r) PROVE Clean'
  BY <1>1, CleanStep
<1>2. CASE UNCHANGED <<pc, at, table>>
  BY <1>2 DEF Clean, WholeRunsAreClean, UnmetRequires
<1>3. CASE Retry
  <2>1. \A q \in Runs : pc'[q] = pc[q] \/ (pc[q] = "none" /\ pc'[q] = "start")
    BY <1>3 DEF Retry, Goto, TypeOK
  <2>2. at' = at
    BY <1>3 DEF Retry
  <2>3. Len(table') = Len(table)
        /\ \A i \in 1..Len(table) : table'[i] = [table[i] EXCEPT !.gone = TRUE]
    BY <1>3, RetryRows
  <2>4. \A i \in 1..Len(table') :
          /\ i \in 1..Len(table) /\ table[i].run \in Runs /\ table'[i].run = table[i].run
          /\ table'[i].stage = table[i].stage /\ table'[i].state = table[i].state
    BY <1>0, <2>3 DEF Rows
  <2>5. UnmetRequires'
    BY <2>1, <2>2 DEF Clean, UnmetRequires
  <2>6. WholeRunsAreClean'
    BY <1>0, <2>1, <2>2, <2>4 DEF Clean, WholeRunsAreClean
  <2> QED BY <2>5, <2>6 DEF Clean
<1>4. CASE Restart
  <2>1. \A q \in Runs : pc'[q] \in {"none", "ended", "killed"}
           /\ (pc[q] # "none" => pc'[q] \in {"ended", "killed"})
    BY <1>4 DEF Restart, TypeOK
  <2>2. at' = at /\ table' = table
    BY <1>4 DEF Restart
  <2> QED BY <1>0, <2>1, <2>2 DEF Clean, WholeRunsAreClean, UnmetRequires, Rows
<1> QED BY <1>1, <1>2, <1>3, <1>4 DEF Next, vars, TellLoop, TellStage, Stop, TimeOut

(* A run that failed at a stage requiring nothing stops there: it never    *)
(* reaches the end of the stages, where alone the task is made a success.  *)
THEOREM FailedRunsStop == Spec => []WholeRunsAreClean
<1>1. Init => Clean
  BY DEF Init, Clean, WholeRunsAreClean, UnmetRequires
<1>2. TypeOK /\ AtRow /\ Clean /\ [Next]_vars => Clean'
  BY CleanNext
<1>3. Spec => [](TypeOK /\ AtRow)
  BY TypeCorrect
<1>4. Clean => WholeRunsAreClean
  BY DEF Clean
<1> QED BY <1>1, <1>2, <1>3, <1>4, PTL DEF Spec
-----------------------------------------------------------------------------
(* Rows move forward.                                                       *)

(* A run that has not begun its stage holds a pending row, deleted or not. *)
PendingBefore == \A r \in Runs : pc[r] \in Waiting => table[mine[r]].state = "pending"

(* Rows are only added to the table.                                       *)
LEMMA RowsRemain ==
  ASSUME TypeOK, AtRow, NEW r \in Runs, EngineStep(r), NEW i \in 1..Len(table)
  PROVE  i \in 1..Len(table')
BY TableGrows, TableDomain, StepIsNext

(* A step of a run leaves the rows of the runs that wait pending.          *)
LEMMA PendingStep ==
  ASSUME TypeOK, AtRow, PendingBefore, NEW r \in Runs, EngineStep(r)
  PROVE  PendingBefore'
<1> SUFFICES ASSUME NEW q \in Runs, pc'[q] \in Waiting PROVE table'[mine'[q]].state = "pending"
  BY DEF PendingBefore
<1>0. Len(table) \in Nat
  BY RowsTyped
<1>1. CASE q # r
  <2>1. pc[q] \in Waiting /\ mine'[q] = mine[q]
    BY <1>1, OthersStay
  <2>2. pc[q] \in AtStage /\ mine[q] \in 1..Len(table) /\ mine[q] \in 1..Len(table')
    <3>1. pc[q] \in AtStage
      BY <2>1 DEF Waiting, AtStage
    <3> QED BY <3>1, AtRowFacts, RowsRemain
  <2>3. pc[r] \in AtStage => mine[q] # mine[r]
    BY <1>1, <2>2, RowsApart
  <2>4. Kept(r, mine[q])
    <3>1. Unmet(r) \/ MarkRunning(r) \/ MarkSuccess(r) \/ MarkFailed(r) => mine[q] # mine[r]
      BY <2>3 DEF Unmet, MarkRunning, MarkSuccess, MarkFailed, AtStage
    <3>2. \A s : ~Added(r, mine[q], s)
      BY <1>0, <2>2 DEF Added
    <3>3. mine[q] # mine[r] => \A s : ~Marked(r, mine[q], s) /\ ~Saved(r, mine[q], s)
      BY DEF Marked, Saved
    <3> QED BY <2>2, <3>1, <3>2, <3>3, RowChange
  <2>5. table[mine[q]].state = "pending"
    BY <2>1 DEF PendingBefore
  <2> QED BY <2>1, <2>4, <2>5 DEF Kept, Same
<1>2. CASE q = r
  <2>1. CreateRow(r) \/ CheckDeps(r)
    BY <1>2 DEF EngineStep, Start, Register, GiveUp, Enter, SeeCancel, PassOver, SkipDisabled,
       Unmet, MarkRunning, StageReturns, MarkSuccess, MarkFailed, MarkTaskFailed, MarkTaskSuccess,
       Leave, NextStage, Goto, TypeOK, Waiting
  <2>2. CASE CreateRow(r)
    <3>1. at[r] \in Stages /\ "pending" \in RowStates
      BY <2>2, WordsTyped, EngineAssumption DEF CreateRow
    <3>2. table'[Len(table) + 1]
            = [stage |-> at[r], state |-> "pending", run |-> r, gone |-> FALSE]
      BY <2>2, <3>1, CreateRows DEF CreateRow
    <3>3. mine'[r] = Len(table) + 1
      BY <2>2 DEF CreateRow, TypeOK
    <3> QED BY <1>2, <3>2, <3>3
  <2>3. CASE CheckDeps(r)
    BY <1>2, <2>3 DEF CheckDeps, PendingBefore, Waiting
  <2> QED BY <2>1, <2>2, <2>3
<1> QED BY <1>1, <1>2

(* So does every other step.                                               *)
LEMMA PendingNext == TypeOK /\ AtRow /\ PendingBefore /\ [Next]_vars => PendingBefore'
<1> SUFFICES ASSUME TypeOK, AtRow, PendingBefore, [Next]_vars PROVE PendingBefore'
  OBVIOUS
<1>1. ASSUME NEW r \in Runs, EngineStep(r) PROVE PendingBefore'
  BY <1>1, PendingStep
<1>2. CASE UNCHANGED <<pc, mine, table>>
  BY <1>2 DEF PendingBefore
<1>3. CASE Retry
  <2> SUFFICES ASSUME NEW q \in Runs, pc'[q] \in Waiting PROVE table'[mine'[q]].state = "pending"
    BY DEF PendingBefore
  <2>1. pc[q] \in Waiting /\ mine'[q] = mine[q]
    BY <1>3 DEF Retry, Goto, TypeOK, Waiting
  <2>2. mine[q] \in 1..Len(table)
    BY <2>1, AtRowFacts DEF Waiting, AtStage
  <2>3. table'[mine[q]] = [table[mine[q]] EXCEPT !.gone = TRUE] /\ table[mine[q]] \in Rows
    BY <1>3, <2>2, RetryRows, RowsTyped
  <2> QED BY <2>1, <2>3 DEF PendingBefore, Rows
<1>4. CASE Restart
  BY <1>4 DEF Restart, PendingBefore, Waiting, TypeOK
<1> QED BY <1>1, <1>2, <1>3, <1>4 DEF Next, vars, TellLoop, TellStage, Stop, TimeOut

(* What the property asks of one row.                                      *)
RowMoves(i) ==
  LET old == table[i] new == table'[i] IN
    /\ new.stage = old.stage /\ new.run = old.run
    /\ new.state # old.state => /\ <<old.state, new.state>> \in Forward
                               /\ ~new.gone /\ mine[old.run] = i
    /\ old.gone /\ ~new.gone => new.state \in {"skipped", "failed"}

(* A run that writes its row moves it forward.                             *)
LEMMA RowMovesStep ==
  ASSUME TypeOK, AtRow, PendingBefore, NEW r \in Runs, EngineStep(r), NEW i \in 1..Len(table)
  PROVE  RowMoves(i)
<1>0. i \in 1..Len(table') /\ table[i] \in Rows /\ Len(table) \in Nat
  BY RowsRemain, RowsTyped
<1>1. CASE Kept(r, i)
  BY <1>1 DEF Kept, Same, RowMoves
<1>2. CASE \E s \in {"skipped", "pending"} : Added(r, i, s)
  BY <1>0, <1>2 DEF Added
<1>3. CASE Unmet(r) /\ \E s \in {"skipped", "failed"} : Saved(r, i, s)
  <2>1. PICK s \in {"skipped", "failed"} : Saved(r, i, s)
    BY <1>3
  <2>2. pc[r] \in Waiting /\ pc[r] \in AtStage /\ i = mine[r]
    BY <1>3, <2>1 DEF Unmet, Saved, Waiting, AtStage
  <2>3. table[i].state = "pending" /\ table[i].run = r
    BY <2>2 DEF PendingBefore, AtRow, HoldsRow
  <2>4. table'[i].state = s /\ ~table'[i].gone
        /\ table'[i].stage = table[i].stage /\ table'[i].run = table[i].run
    BY <1>0, <2>1 DEF Saved, Rows
  <2> QED BY <2>2, <2>3, <2>4 DEF RowMoves, Forward
<1>4. CASE MarkRunning(r) /\ Marked(r, i, "running")
  <2>1. pc[r] = "mark" /\ i = mine[r] /\ ~table[i].gone
    BY <1>4 DEF MarkRunning, Marked
  <2>2. table[i].state = "pending" /\ table[i].run = r
    BY <2>1 DEF PendingBefore, AtRow, HoldsRow, Waiting, AtStage
  <2>3. table'[i].state = "running" /\ ~table'[i].gone
        /\ table'[i].stage = table[i].stage /\ table'[i].run = table[i].run
    BY <1>0, <1>4, <2>1 DEF Marked, Rows
  <2> QED BY <2>1, <2>2, <2>3 DEF RowMoves, Forward
<1>5. ASSUME NEW s \in {"success", "failed"}, pc[r] \in {"passed", "broken"}, Marked(r, i, s)
      PROVE  RowMoves(i)
  <2>1. i = mine[r] /\ ~table[i].gone
    BY <1>5 DEF Marked
  <2>2. table[i].state = "running" /\ table[i].run = r
    BY <1>5, <2>1 DEF AtRow, HoldsRow, Waiting, AtStage
  <2>3. table'[i].state = s /\ ~table'[i].gone
        /\ table'[i].stage = table[i].stage /\ table'[i].run = table[i].run
    BY <1>0, <1>5, <2>1 DEF Marked, Rows
  <2> QED BY <2>1, <2>2, <2>3 DEF RowMoves, Forward
<1>6. CASE MarkSuccess(r) /\ Marked(r, i, "success")
  BY <1>5, <1>6 DEF MarkSuccess
<1>7. CASE MarkFailed(r) /\ Marked(r, i, "failed")
  BY <1>5, <1>7 DEF MarkFailed
<1> QED BY <1>0, <1>1, <1>2, <1>3, <1>4, <1>6, <1>7, RowChange

(* Every step moves the rows forward, or deletes them.                     *)
LEMMA RowMovesNext ==
  ASSUME TypeOK, AtRow, PendingBefore, [Next]_vars, NEW i \in DOMAIN table
  PROVE  RowMoves(i)
<1>0. i \in 1..Len(table) /\ table[i] \in Rows
  BY RowsTyped
<1>1. ASSUME NEW r \in Runs, EngineStep(r) PROVE RowMoves(i)
  BY <1>0, <1>1, RowMovesStep
<1>2. CASE UNCHANGED table
  BY <1>2 DEF RowMoves
<1>3. CASE Retry
  <2>1. table'[i] = [table[i] EXCEPT !.gone = TRUE]
    BY <1>0, <1>3, RetryRows
  <2> QED BY <1>0, <2>1 DEF RowMoves, Rows
<1> QED BY <1>1, <1>2, <1>3 DEF Next, vars, TellLoop, TellStage, Stop, TimeOut, Restart

(* What a stage came to stands: rows are written by the run that made them, *)
(* from pending to running to an outcome, however many runs of the task     *)
(* overlap and whatever Retry deletes under them.                           *)
THEOREM StageOutcomesStand == Spec => RowsMoveForward
<1>1. Init => PendingBefore
  BY DEF Init, PendingBefore, Waiting
<1>2. Spec => [](TypeOK /\ AtRow)
  BY TypeCorrect
<1>3. Spec => []PendingBefore
  BY <1>1, <1>2, PendingNext, PTL DEF Spec
<1>4. TypeOK /\ AtRow /\ PendingBefore /\ [Next]_vars
        => [\A i \in DOMAIN table : LET old == table[i] new == table'[i] IN
              /\ new.stage = old.stage /\ new.run = old.run
              /\ new.state # old.state => /\ <<old.state, new.state>> \in Forward
                                         /\ ~new.gone /\ mine[old.run] = i
              /\ old.gone /\ ~new.gone => new.state \in {"skipped", "failed"}]_vars
  BY RowMovesNext DEF RowMoves
<1> QED BY <1>2, <1>3, <1>4, PTL DEF Spec, RowsMoveForward

-----------------------------------------------------------------------------
(* The contract of the task's row.                                          *)

(* The kinds of step the contract knows, in terms of the pipeline.         *)
LEMMA TakeStep ==
  ASSUME TypeOK, status' = "running", Owned'
  PROVE  OnDuty
<1>1. Contract!Take(1)
  BY DEF Contract!Take, Contract!Put, TypeOK, Statuses
<1> QED BY <1>1 DEF OnDuty

LEMMA JoinStep ==
  ASSUME TypeOK, status' = status, status # "running", Owned'
  PROVE  OnDuty
<1>1. Contract!Join(1)
  BY DEF Contract!Join, TypeOK, Statuses
<1> QED BY <1>1 DEF OnDuty

LEMMA SettleStep ==
  ASSUME TypeOK, status = "running", status' \in {"success", "failed", "stopped", "timeout"},
         Owned' => Owned
  PROVE  OnDuty
<1>1. Contract!Settle(1)
  BY DEF Contract!Settle, Contract!Put, Contract!Outcomes
<1> QED BY <1>1 DEF OnDuty

LEMMA LeaveStep ==
  ASSUME TypeOK, status' = status, status # "running", ~Owned'
  PROVE  OnDuty
<1>1. Contract!Leave(1)
  BY DEF Contract!Leave
<1> QED BY <1>1 DEF OnDuty

LEMMA StutterStep ==
  ASSUME status' = status, Owned' = Owned
  PROVE  UNCHANGED Contract!vars
BY DEF Contract!vars

(* A run that ends writes an outcome unless the task is not running.       *)
LEMMA EndingStep ==
  ASSUME TypeOK, NEW s \in {"success", "failed", "stopped"}, SetIfRunning(s), Owned' => Owned
  PROVE  [OnDuty]_(Contract!vars)
<1>1. CASE status = "running"
  BY <1>1, SettleStep DEF SetIfRunning
<1>2. CASE status # "running" /\ Owned' = Owned
  BY <1>2, StutterStep DEF SetIfRunning
<1>3. CASE status # "running" /\ Owned' # Owned
  BY <1>3, LeaveStep DEF SetIfRunning, Owned
<1> QED BY <1>1, <1>2, <1>3

(* Where a run goes tells whether the task is still owned.                 *)
LEMMA OwnedAfter ==
  ASSUME TypeOK, NEW r \in Runs, NEW l \in Pcs, pc' = [pc EXCEPT ![r] = l]
  PROVE  /\ l \in Owning => Owned'
         /\ l \notin Owning => (Owned' => Owned)
         /\ (l \in Owning <=> pc[r] \in Owning) => Owned' = Owned
<1>1. pc'[r] = l /\ \A q \in Runs : q # r => pc'[q] = pc[q]
  BY DEF TypeOK
<1> QED BY <1>1 DEF Owned

(* A step of a run is a step of the contract, or nothing it can see.       *)
LEMMA ContractStep ==
  ASSUME TypeOK, NEW r \in Runs, EngineStep(r)
  PROVE  [OnDuty]_(Contract!vars)
<1> USE WordsTyped
<1>1. CASE Start(r)
  <2>1. Owned'
    BY <1>1, OwnedAfter DEF Start, Goto, Owning
  <2>2. CASE status' = "running"
    BY <2>1, <2>2, TakeStep
  <2>3. CASE status' # "running"
    BY <1>1, <2>1, <2>3, JoinStep DEF Start
  <2> QED BY <2>2, <2>3
<1>2. CASE Enter(r)
  <2>1. Owned'
    BY <1>2, OwnedAfter DEF Enter, Goto, Owning
  <2> QED BY <1>2, <2>1, TakeStep DEF Enter
<1>3. CASE GiveUp(r) \/ SeeCancel(r) \/ MarkTaskFailed(r) \/ MarkTaskSuccess(r)
  <2>1. PICK s \in {"success", "failed", "stopped"} : SetIfRunning(s)
    BY <1>3 DEF GiveUp, SeeCancel, MarkTaskFailed, MarkTaskSuccess
  <2>2. PICK l \in {"leave", "ended"} : pc' = [pc EXCEPT ![r] = l]
    BY <1>3 DEF GiveUp, SeeCancel, MarkTaskFailed, MarkTaskSuccess, Goto
  <2>3. Owned' => Owned
    BY <2>2, OwnedAfter DEF Owning, AtStage
  <2> QED BY <2>1, <2>3, EndingStep
<1>4. CASE \/ Register(r) \/ PassOver(r) \/ SkipDisabled(r) \/ CreateRow(r) \/ CheckDeps(r)
           \/ Unmet(r) \/ MarkRunning(r) \/ StageReturns(r) \/ MarkSuccess(r) \/ MarkFailed(r)
  <2>1. pc[r] \in Owning /\ status' = status
    BY <1>4 DEF Register, PassOver, SkipDisabled, CreateRow, CheckDeps, Unmet, MarkRunning,
       StageReturns, MarkSuccess, MarkFailed, Owning, AtStage
  <2>2. \E l \in {"enter", "next", "deps", "mark", "unmet", "exec", "passed", "broken", "fail"} :
          pc' = [pc EXCEPT ![r] = l]
    BY <1>4 DEF Register, PassOver, SkipDisabled, CreateRow, CheckDeps, Unmet, MarkRunning,
       StageReturns, MarkSuccess, MarkFailed, NextStage, Goto
  <2>3. Owned' = Owned
    BY <2>1, <2>2, OwnedAfter DEF Owning, AtStage
  <2> QED BY <2>1, <2>3, StutterStep
<1>5. CASE Leave(r)
  <2>1. Owned' = Owned
    BY <1>5, OwnedAfter DEF Leave, Goto, Owning, AtStage
  <2> QED BY <1>5, <2>1, StutterStep DEF Leave
<1> QED BY <1>1, <1>2, <1>3, <1>4, <1>5 DEF EngineStep

(* Every step is.                                                          *)
LEMMA ContractNext ==
  TypeOK /\ [Next]_vars => [IF Restart THEN Contract!Die ELSE OnDuty]_(Contract!vars)
<1> SUFFICES ASSUME TypeOK, [Next]_vars
             PROVE  IF Restart THEN Contract!Die ELSE [OnDuty]_(Contract!vars)
  OBVIOUS
<1>0. SUFFICES ASSUME ~Restart PROVE [OnDuty]_(Contract!vars)
  <2>1. ASSUME Restart PROVE Contract!Die
    <3>1. ~Owned'
      BY <2>1 DEF Restart, Owned, Owning, AtStage, TypeOK
    <3> QED BY <2>1, <3>1 DEF Restart, Contract!Die
  <2> QED BY <2>1
<1>1. ASSUME NEW r \in Runs, EngineStep(r) PROVE [OnDuty]_(Contract!vars)
  BY <1>1, ContractStep
<1>2. CASE UNCHANGED <<status, pc>>
  BY <1>2, StutterStep DEF Owned
<1>3. CASE Stop
  BY <1>3, EndingStep DEF Stop, Owned
<1>4. CASE TimeOut
  BY <1>4, SettleStep DEF TimeOut, Owned
<1>5. CASE Retry
  <2>1. Owned' = Owned
    <3>1. PICK n \in Runs : pc[n] = "none" /\ pc' = [pc EXCEPT ![n] = "start"]
      BY <1>5 DEF Retry, Goto
    <3> QED BY <3>1, WordsTyped, OwnedAfter DEF Owning, AtStage
  <2>2. Contract!Enqueue(1)
    BY <1>5, <2>1 DEF Retry, Contract!Enqueue, Contract!Put
  <2> QED BY <2>2 DEF OnDuty
<1> QED BY <1>0, <1>1, <1>2, <1>3, <1>4, <1>5 DEF Next, vars, TellLoop, TellStage

(* The pipeline keeps the contract of the task's row, stage by stage, that  *)
(* TaskLifecycle keeps with a pipeline as one step: both views of a task    *)
(* implement one specification.                                             *)
THEOREM PipelineKeepsContract == Spec => KeepsContract
<1>1. Spec => [](TypeOK /\ AtRow)
  BY TypeCorrect
<1> QED BY <1>1, ContractNext, PTL DEF Spec, KeepsContract
=============================================================================
