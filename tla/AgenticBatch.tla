---------------------------- MODULE AgenticBatch -----------------------------
(***************************************************************************)
(* The conversation an agentic review of a batch consists of, inside the   *)
(* stage BatchReview describes.                                            *)
(*   backend/internal/service/pipeline/agentic_state.go                    *)
(*                                                                         *)
(* BatchReview lets a batch in "chat" end one way or the other.  Here each *)
(* round is a call of the model, and its answer a tool call, a submission, *)
(* a text, or one of the ways a call goes wrong; the loop keeps a budget   *)
(* of rounds, of tool calls and of reminders, and a history the next call  *)
(* sends along, which is truncated when it grows too long.                 *)
(*                                                                         *)
(* Abstracted: what messages say; token counts, so that truncation may     *)
(* happen before any round; what tools find; snapshots and metrics.        *)
(***************************************************************************)
EXTENDS BatchReview, Sequences, FiniteSetsExt

CONSTANTS
  MaxRounds,     \* getAgenticMaxRounds
  MaxTools,      \* getAgenticMaxTools
  MaxMessages,   \* getAgenticMaxMessages
  MaxCalls,      \* tool calls one answer may hold (bound)
  Talking        \* batches whose conversation is followed (bound); those of
                 \* the others are the single steps of BatchReview

ASSUME TalkAssumption ==
  /\ {MaxRounds, MaxTools, MaxMessages} \subseteq Nat /\ MaxCalls \in Nat \ {0}
  /\ Talking \subseteq Batches

VARIABLE talk   \* AgenticReviewState of the batches in "chat"

allVars == <<vars, talk>>

maxSubmitNudges == 2

Answer(n)  == [role |-> "assistant", calls |-> n]
ToolResult == [role |-> "tool", calls |-> 0]
UserText   == [role |-> "user", calls |-> 0]

Messages == [role : {"assistant", "tool", "user"}, calls : 0..MaxCalls \cup {1}]

Talks ==
  [at       : {"none", "loop", "asked", "retry", "final"},
   round    : 0..MaxRounds,                      \* CurrentRound
   force    : BOOLEAN,                           \* ForceFinalRound
   left     : (0 - MaxCalls)..MaxTools,          \* ToolCallsLeft
   nudges   : 0..maxSubmitNudges,                \* SubmitNudges
   filtered : 0..1,                              \* ContentFilterTries
   history  : Seq(Messages),                     \* Messages
   asked    : Nat]                               \* calls of the model made

NoTalk == [at |-> "none", round |-> 0, force |-> FALSE, left |-> 0, nudges |-> 0,
           filtered |-> 0, history |-> <<>>, asked |-> 0]

(* The system prompt counts as one more text of the user.                  *)
NewTalk == [NoTalk EXCEPT !.at = "loop", !.left = MaxTools, !.history = <<UserText, UserText>>]

AllTypesOK == TypeOK /\ talk \in [Batches -> Talks]

InitTalk == Init /\ talk = [b \in Batches |-> NoTalk]

-----------------------------------------------------------------------------
(* Operators on the history.                                               *)

TruncateLastAnswer(h) ==             \* mutant: the results go, their call stays
  LET results == {i \in 3..Len(h) : h[i] = ToolResult}
  IN  IF Len(h) <= 4 \/ results = {} THEN h
      ELSE SubSeq(h, 1, Min(results) - 1) \o SubSeq(h, Min(results) + 1, Len(h))

(* truncateHistory: the first answer that a tool result follows goes, with *)
(* that one result; without any, the two oldest messages after the prompts.*)
truncateHistory(h) ==
  LET pairs == {i \in 3..Len(h) - 1 : h[i].role = "assistant" /\ h[i+1] = ToolResult}
      i     == IF pairs = {} THEN 3 ELSE Min(pairs)
  IN  IF Len(h) <= 4 THEN h ELSE SubSeq(h, 1, i - 1) \o SubSeq(h, i + 2, Len(h))

(* An answer with n calls and a result for each of them.                   *)
Exchange(n) == <<Answer(n)>> \o [i \in 1..n |-> ToolResult]

-----------------------------------------------------------------------------
(* How a conversation starts and ends.                                     *)

Quiet == UNCHANGED vars

Turn(b, new) == talk' = [talk EXCEPT ![b] = new]
End(b)       == Turn(b, NoTalk)

BeginTalk(b) ==
  Begin(b) /\ Turn(b, IF mode = "agentic" /\ b \in Talking THEN NewTalk ELSE NoTalk)

AcceptOpen(b) ==                     \* mutant: the row is left to the deferred MarkSkipped
  /\ pc[b] = "chat"
  /\ MarkRow(b, "agentic", "skipped")
  /\ Goto(b, "store")
  /\ UNCHANGED <<count, planRow, mode, first, result, counted, cancelled, doomed>>
  /\ End(b)

(* parseAgenticResult marks the row; the result goes to the stage.         *)
Accept(b) == ChatOk(b) /\ End(b)

(* Every error ends the conversation, and the batch is collected instead.  *)
GiveUp(b) == ChatFails(b) /\ End(b)

NudgeForever(b, h) ==                \* mutant: SubmitNudges is not counted
  /\ Quiet
  /\ Turn(b, [talk[b] EXCEPT !.at = "loop", !.history = Append(h, UserText)])

(* nudgeToSubmit, after the messages h.                                    *)
Nudge(b, h) ==
  \/ /\ talk[b].nudges < maxSubmitNudges
     /\ Quiet
     /\ Turn(b, [talk[b] EXCEPT !.at = "loop", !.nudges = @ + 1, !.history = Append(h, UserText)])
  \/ /\ talk[b].nudges >= maxSubmitNudges
     /\ GiveUp(b)

-----------------------------------------------------------------------------
(* The head of the loop.                                                   *)

(* callLLMWithTools.                                                       *)
Ask(b) ==
  LET t == talk[b] IN
  /\ t.at = "loop" /\ t.round < MaxRounds /\ ~cancelled
  /\ \E h \in {t.history, truncateHistory(t.history)} :
       Turn(b, [t EXCEPT !.at = "asked", !.round = @ + 1, !.history = h, !.asked = @ + 1,
                         !.force = @ \/ Len(h) > MaxMessages])
  /\ Quiet

(* forceFinalRound.                                                        *)
AskFinal(b) ==
  LET t == talk[b] IN
  /\ t.at = "loop" /\ t.round = MaxRounds /\ ~cancelled
  /\ Turn(b, [t EXCEPT !.at = "final", !.history = Append(@, UserText), !.asked = @ + 1])
  /\ Quiet

(* A call with a context that is done fails; forceFinalRound looks first.  *)
AskCancelled(b) == talk[b].at = "loop" /\ cancelled /\ GiveUp(b)

-----------------------------------------------------------------------------
(* The answers.                                                            *)

Asked(b) == talk[b].at = "asked"

(* The call fails in any of the three places it is made.                   *)
CallFails(b) == talk[b].at \in {"asked", "retry", "final"} /\ GiveUp(b)

(* A text that is a result, or a submission that is one.                   *)
Completes(b) == talk[b].at \in {"asked", "retry", "final"} /\ Accept(b)

(* A text that is a result but not complete, or nothing at all.            *)
Incomplete(b) == talk[b].at \in {"asked", "retry"} /\ Nudge(b, talk[b].history)

(* The final answer has to be complete.                                    *)
IncompleteFinal(b) == talk[b].at = "final" /\ GiveUp(b)

(* A text that cannot be parsed: parseAgenticResultWithRetry asks again.   *)
Broken(b) ==
  /\ Asked(b) /\ ~cancelled
  /\ Turn(b, [talk[b] EXCEPT !.at = "retry", !.history = Append(@, UserText), !.asked = @ + 1])
  /\ Quiet

BrokenCancelled(b) == Asked(b) /\ cancelled /\ GiveUp(b)

BrokenAgain(b) == talk[b].at \in {"retry", "final"} /\ GiveUp(b)

(* tryHandleSubmitReview, with a submission that is not complete.          *)
SubmitIncomplete(b) == Asked(b) /\ Nudge(b, talk[b].history \o Exchange(1))

(* Tools are out of reach in the final round and when the budget is spent: *)
(* recordSkippedToolCalls, which does nothing without calls.               *)
NoTools(b) == talk[b].force \/ talk[b].left <= 0

SkipTools(b) ==
  /\ Asked(b) /\ NoTools(b)
  /\ \E n \in 0..MaxCalls :
       Nudge(b, talk[b].history \o IF n = 0 THEN <<>> ELSE Exchange(n))

(* executeToolCalls: all calls of the answer, though the last may take     *)
(* ToolCallsLeft below zero.                                               *)
RunTools(b) ==
  /\ Asked(b) /\ ~NoTools(b)
  /\ \E n \in 0..MaxCalls :
       Turn(b, [talk[b] EXCEPT !.at = "loop", !.left = @ - n, !.history = @ \o Exchange(n)])
  /\ Quiet

TooLong(b) ==
  /\ Asked(b) /\ ~talk[b].force
  /\ Turn(b, [talk[b] EXCEPT !.at = "loop", !.force = TRUE, !.history = Append(@, UserText)])
  /\ Quiet

TooLongAgain(b) == Asked(b) /\ talk[b].force /\ GiveUp(b)

Filtered(b) ==
  /\ Asked(b) /\ talk[b].filtered = 0
  /\ Turn(b, [talk[b] EXCEPT !.at = "loop", !.filtered = 1, !.history = Append(@, UserText)])
  /\ Quiet

FilteredAgain(b) == Asked(b) /\ talk[b].filtered = 1 /\ GiveUp(b)

TalkStep(b) ==
  \/ Ask(b) \/ AskFinal(b) \/ AskCancelled(b)
  \/ CallFails(b) \/ Completes(b) \/ Incomplete(b) \/ IncompleteFinal(b)
  \/ Broken(b) \/ BrokenCancelled(b) \/ BrokenAgain(b)
  \/ SubmitIncomplete(b) \/ SkipTools(b) \/ RunTools(b)
  \/ TooLong(b) \/ TooLongAgain(b) \/ Filtered(b) \/ FilteredAgain(b)

-----------------------------------------------------------------------------
(* The goroutine of a batch, with its conversation.                        *)
GoroutineStep(b) ==
  \/ BeginTalk(b)
  \/ TalkStep(b)
  \/ /\ b \notin Talking /\ (ChatOk(b) \/ ChatFails(b))
     /\ UNCHANGED talk
  \/ /\ SeeCancel(b) \/ CollectOk(b) \/ CollectFails(b) \/ Store(b)
     /\ UNCHANGED talk

NextTalk ==
  \/ (StageStep \/ Cancel) /\ UNCHANGED talk
  \/ \E b \in Batches : GoroutineStep(b)

TalkSpec ==
  /\ InitTalk /\ [][NextTalk]_allVars
  /\ WF_allVars(StageStep /\ UNCHANGED talk)
  /\ \A b \in Batches : WF_allVars(GoroutineStep(b))

-----------------------------------------------------------------------------
(* Properties.                                                             *)

(* What a call of the model sends along is accepted by its provider only   *)
(* if each tool call an answer made is followed by its result: skipped     *)
(* calls get one as well, and truncation takes no result away from a call  *)
(* that stays (agentic_state.go:34, 1221).                                 *)
CallsAnswered ==
  \A b \in Batches : talk[b].at \in {"asked", "retry", "final"} =>
    \A i \in DOMAIN talk[b].history :
      \A k \in 1..talk[b].history[i].calls :
        i + k <= Len(talk[b].history) /\ talk[b].history[i + k] = ToolResult

(* What the conversation about a batch can cost: at most one call per      *)
(* round, three when answers had to be asked for again or finally, and not *)
(* more tool calls than the budget and the rest of the answer that used it *)
(* up.  The one call that replaces a conversation that failed comes on top *)
(* (agentic_state.go:386).                                                 *)
TalkIsBounded ==
  \A b \in Batches :
    /\ talk[b].asked <= MaxRounds + maxSubmitNudges + 1
    /\ talk[b].left > 0 - MaxCalls

(* A conversation is one long step of the stage: it ends, in a result with *)
(* a row that says success or in an error with a row that says skipped,    *)
(* and changes nothing else.  Hence what holds of the stage whatever a     *)
(* batch does holds with conversations, and the stage ends.                *)
ImplementsStage == LiveSpec
=============================================================================
