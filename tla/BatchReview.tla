----------------------------- MODULE BatchReview -----------------------------
(***************************************************************************)
(* The stage batch_review_frame: the files of a merge request are split    *)
(* into batches, and the batches reviewed in waves of parallel goroutines. *)
(*   backend/internal/service/pipeline/executors.go, agentic_state.go,     *)
(*   batch_algorithm.go, context.go                                        *)
(*                                                                         *)
(* In agentic mode a batch is first given to a conversation with tools; a  *)
(* batch whose conversation fails is collected with one call instead.  If  *)
(* that fails too, or the task was cancelled, the agentic review as a      *)
(* whole fails and the stage starts over in plain mode, with every batch.  *)
(* Each attempt at a batch has a child row in task_pipeline_executions.    *)
(*                                                                         *)
(* Abstracted: how files are split and prompts built, what a review says,  *)
(* token numbers (only how often those of a batch are added), the progress *)
(* a page is shown (it steers nothing), snapshots and broadcasts.  Inside  *)
(* a conversation: module AgenticBatch.                                    *)
(***************************************************************************)
EXTENDS Naturals, FiniteSets

CONSTANTS
  MaxBatches,   \* batches a plan may have (bound)
  MaxParallel   \* _batch_parallel_max

ASSUME ReviewAssumption ==
  MaxBatches \in Nat \ {0} /\ MaxParallel \in Nat \ {0}

VARIABLES
  count,      \* plan.BatchCount, and 0 before the plan
  planRow,    \* status of the child row batch_plan
  mode,       \* where Execute is
  first,      \* the first batch of the wave being executed
  pc,         \* the goroutine of each batch
  row,        \* status of the child rows of each batch
  result,     \* batchResults: the attempt each result came from
  counted,    \* how often the tokens of each batch were added to the stage
  cancelled,  \* ctx.Done() is closed
  doomed      \* batches whose call was made after that

vars == <<count, planRow, mode, first, pc, row, result, counted, cancelled, doomed>>

Batches  == 1..MaxBatches
Attempts == {"agentic", "fallback", "plain"}
Statuses == {"none", "running", "success", "failed", "skipped"}
Modes    == {"start", "agentic", "plain", "ok", "failed"}
Pcs      == {"idle", "check", "chat", "collect", "store", "ended", "broken"}

Reviewing == {"agentic", "plain"}

TypeOK ==
  /\ count \in 0..MaxBatches
  /\ planRow \in Statuses
  /\ mode \in Modes
  /\ first \in 1..MaxBatches
  /\ pc \in [Batches -> Pcs]
  /\ row \in [Batches -> [Attempts -> Statuses]]
  /\ result \in [Batches -> Attempts \cup {"none"}]
  /\ counted \in [Batches -> 0..1]
  /\ cancelled \in BOOLEAN
  /\ doomed \subseteq Batches

Init ==
  /\ count = 0 /\ planRow = "none" /\ mode = "start" /\ first = 1
  /\ pc = [b \in Batches |-> "idle"]
  /\ row = [b \in Batches |-> [a \in Attempts |-> "none"]]
  /\ result = [b \in Batches |-> "none"]
  /\ counted = [b \in Batches |-> 0]
  /\ cancelled = FALSE /\ doomed = {}

-----------------------------------------------------------------------------
(* GroupBatchesIntoWaves.                                                  *)

Wave(f, n)    == {b \in Batches : f <= b /\ b < f + MaxParallel /\ b <= n}
WaveOf(b)     == (b - 1) \div MaxParallel
Launched(f, n) == [b \in Batches |-> IF b \in Wave(f, n) THEN "check" ELSE "idle"]

(* executeBatchPlan, which finds no batch when there are no files, and the *)
(* choice of the mode: agentic review has to be configured and the model   *)
(* of the task to know tools.                                              *)
Plan ==
  /\ mode = "start"
  /\ planRow' = "success"
  /\ \E n \in 0..MaxBatches : count' = n /\ pc' = Launched(1, n)
  /\ mode' \in Reviewing
  /\ UNCHANGED <<first, row, result, counted, cancelled, doomed>>

(* diff_files is missing.                                                  *)
PlanFails ==
  /\ mode = "start"
  /\ planRow' = "failed"
  /\ mode' = "failed"
  /\ UNCHANGED <<count, first, pc, row, result, counted, cancelled, doomed>>

-----------------------------------------------------------------------------
(* The goroutine of one batch.                                             *)

Goto(b, l)    == pc' = [pc EXCEPT ![b] = l]
MarkRow(b, a, s) == row' = [row EXCEPT ![b][a] = s]

(* A call made with a context that is done fails at once.                  *)
StartCall(b) == doomed' = IF cancelled THEN doomed \cup {b} ELSE doomed

(* The only batch of a plain review is collected without a goroutine, and  *)
(* without a look at the context.                                          *)
Alone == mode = "plain" /\ count = 1

SeeCancel(b) ==
  /\ pc[b] = "check" /\ cancelled /\ ~Alone
  /\ Goto(b, "broken")
  /\ UNCHANGED <<count, planRow, mode, first, row, result, counted, cancelled, doomed>>

Begin(b) ==
  /\ pc[b] = "check" /\ (~cancelled \/ Alone)
  /\ Goto(b, IF mode = "agentic" THEN "chat" ELSE "collect")
  /\ MarkRow(b, mode, "running")
  /\ StartCall(b)
  /\ UNCHANGED <<count, planRow, mode, first, result, counted, cancelled>>

(* executeAgenticBatch returns a result; parseAgenticResult marked the row.*)
ChatOk(b) ==
  /\ pc[b] = "chat"
  /\ MarkRow(b, "agentic", "success")
  /\ Goto(b, "store")
  /\ UNCHANGED <<count, planRow, mode, first, result, counted, cancelled, doomed>>

(* It returns an error: its row is skipped and the batch collected.        *)
ChatFails(b) ==
  /\ pc[b] = "chat"
  /\ row' = [row EXCEPT ![b]["agentic"] = "skipped", ![b]["fallback"] = "running"]
  /\ StartCall(b)
  /\ Goto(b, "collect")
  /\ UNCHANGED <<count, planRow, mode, first, result, counted, cancelled>>

(* The attempt executeBatchCollection is made for.                         *)
Collected == IF mode = "agentic" THEN "fallback" ELSE "plain"

CollectOk(b) ==
  /\ pc[b] = "collect" /\ b \notin doomed
  /\ MarkRow(b, Collected, "success")
  /\ Goto(b, "store")
  /\ UNCHANGED <<count, planRow, mode, first, result, counted, cancelled, doomed>>

CollectFailsBlocked(b) ==            \* mutant: errCh has no buffer, and no reader yet
  /\ pc[b] = "collect" /\ row[b][Collected] = "running"
  /\ MarkRow(b, Collected, "failed")
  /\ UNCHANGED <<count, planRow, mode, first, pc, result, counted, cancelled, doomed>>

(* The call fails, or its answer is empty, refused or cannot be parsed.    *)
CollectFails(b) ==
  /\ pc[b] = "collect"
  /\ MarkRow(b, Collected, "failed")
  /\ Goto(b, "broken")
  /\ UNCHANGED <<count, planRow, mode, first, result, counted, cancelled, doomed>>

(* Under the mutex; a plain review adds the tokens here.  What is left to  *)
(* the goroutine is to report its progress.                                *)
Store(b) ==
  /\ pc[b] = "store"
  /\ result' = [result EXCEPT ![b] =
       IF mode = "agentic" /\ row[b]["agentic"] = "success" THEN "agentic" ELSE Collected]
  /\ counted' = IF mode = "plain" THEN [counted EXCEPT ![b] = @ + 1] ELSE counted
  /\ Goto(b, "ended")
  /\ UNCHANGED <<count, planRow, mode, first, row, cancelled, doomed>>

BatchStep(b) ==
  \/ SeeCancel(b) \/ Begin(b) \/ ChatOk(b) \/ ChatFails(b) \/ CollectOk(b)
  \/ CollectFails(b) \/ Store(b)

-----------------------------------------------------------------------------
(* Execute, after wg.Wait().                                               *)

Current  == Wave(first, count)
WaveDone == mode \in Reviewing /\ \A b \in Current : pc[b] \in {"ended", "broken"}
Unbroken == \A b \in Current : pc[b] = "ended"
IsLast   == first + MaxParallel > count

NextWaveAnyway ==                    \* mutant: errCh is read after the last wave only
  /\ WaveDone /\ ~IsLast
  /\ first' = first + MaxParallel
  /\ pc' = [b \in Batches |-> IF b \in Wave(first', count) THEN "check" ELSE pc[b]]
  /\ UNCHANGED <<count, planRow, mode, row, result, counted, cancelled, doomed>>

NextWave ==
  /\ WaveDone /\ Unbroken /\ ~IsLast
  /\ first' = first + MaxParallel
  /\ pc' = [b \in Batches |-> IF b \in Wave(first', count) THEN "check" ELSE pc[b]]
  /\ UNCHANGED <<count, planRow, mode, row, result, counted, cancelled, doomed>>

(* The results become the output of the stage.  Only an agentic review     *)
(* adds up the tokens.                                                     *)
Finish ==
  /\ WaveDone /\ Unbroken /\ IsLast
  /\ mode' = "ok"
  /\ counted' = IF mode = "plain" THEN counted
                ELSE [b \in Batches |-> IF b <= count THEN counted[b] + 1 ELSE counted[b]]
  /\ UNCHANGED <<count, planRow, first, pc, row, result, cancelled, doomed>>

StartOverWithResults ==              \* mutant: the finished batches are not redone
  /\ WaveDone /\ ~Unbroken /\ mode = "agentic"
  /\ mode' = "plain"
  /\ first' = 1
  /\ pc' = [b \in Batches |-> IF pc[b] = "ended" THEN "ended" ELSE Launched(1, count)[b]]
  /\ UNCHANGED <<count, planRow, row, result, counted, cancelled, doomed>>

(* executeAgenticReview returns the error of a batch, and nothing of what  *)
(* the others achieved: the plain review that follows starts from zero.    *)
StartOver ==
  /\ WaveDone /\ ~Unbroken /\ mode = "agentic"
  /\ mode' = "plain"
  /\ first' = 1
  /\ pc' = Launched(1, count)
  /\ result' = [b \in Batches |-> "none"]
  /\ UNCHANGED <<count, planRow, row, counted, cancelled, doomed>>

Fail ==
  /\ WaveDone /\ ~Unbroken /\ mode = "plain"
  /\ mode' = "failed"
  /\ UNCHANGED <<count, planRow, first, pc, row, result, counted, cancelled, doomed>>

StageStep == Plan \/ PlanFails \/ NextWave \/ Finish \/ StartOver \/ Fail

(* Abort, the deadline of the stage, or that of the pipeline.              *)
Cancel ==
  /\ mode \notin {"ok", "failed"} /\ ~cancelled
  /\ cancelled' = TRUE
  /\ UNCHANGED <<count, planRow, mode, first, pc, row, result, counted, doomed>>

Next == StageStep \/ Cancel \/ \E b \in Batches : BatchStep(b)

Spec == Init /\ [][Next]_vars

(* Each goroutine, and Execute once it has all of them back, goes on.  No  *)
(* fairness makes a call succeed or a user abort.                          *)
LiveSpec ==
  /\ Spec
  /\ WF_vars(StageStep)
  /\ \A b \in Batches : WF_vars(BatchStep(b))

-----------------------------------------------------------------------------
(* Properties.                                                             *)

(* What the stage hands to the arbitration is whole: each batch has the    *)
(* result of a call whose row says success, its tokens are counted once,   *)
(* whatever attempts were given up before; and an ended stage, successful  *)
(* or not, leaves no row of a batch running (executors.go:1115).           *)
OutputsComplete ==
  /\ mode = "ok" => \A b \in 1..count :
       /\ result[b] # "none" /\ row[b][result[b]] = "success"
       /\ counted[b] = 1
  /\ mode \in {"ok", "failed"} => \A b \in Batches, a \in Attempts : row[b][a] # "running"

(* A wave starts when all batches of the waves before it have a result,    *)
(* so that no call is paid for once a batch has failed (executors.go:1107) *)
(* and never more than MaxParallel batches are under way.                  *)
WavesInOrder ==
  mode \in Reviewing => \A a, b \in 1..count :
    WaveOf(a) < WaveOf(b) /\ pc[b] # "idle" => pc[a] = "ended" /\ result[a] # "none"

(* The stage ends, however its calls go and whenever it is cancelled: each *)
(* attempt ends in a result or in an error, and an error is followed by at *)
(* most one more attempt of each kind.                                     *)
StageEnds == mode \in Reviewing ~> mode \in {"ok", "failed"}
=============================================================================
