------------------------------- MODULE LLMCalls -------------------------------
(***************************************************************************)
(* Calls of language models: along the chain of the primary model and its  *)
(* backups, of one model that was asked for, or with tools, each with      *)
(* retries and each handing a record to CallRecorder.                      *)
(*   backend/internal/service/llm.go                                       *)
(*                                                                         *)
(* Abstracted: which models there are, so that a primary may be missing    *)
(* and any number of backups up to MaxBackups be found when they are read; *)
(* contents and token counts; delays.  A context that is done and a client *)
(* that timed out look the same to the chain.                              *)
(***************************************************************************)
EXTENDS CallRecorder

CONSTANTS
  Calls,        \* the calls made (bound)
  Kinds,        \* ways of calling
  MaxBackups,   \* backups found (bound)
  MaxAttempts   \* SysCfgLLMRetryMaxAttempts

ASSUME CallsAssumption ==
  /\ MaxBackups \in Nat /\ MaxAttempts \in Nat \ {0}
  /\ Kinds \subseteq {"chain", "model", "tools"}
  /\ Records = Calls \X (1..MaxBackups + 1)

VARIABLE call

callVars == <<recorder, call>>

Call == [at : {"idle", "backups", "next", "attempt", "sleep", "record", "send", "done"},
         kind : Kinds \cup {"none"}, read : BOOLEAN, left : 0..MaxBackups,
         made : 0..MaxBackups + 1, n : 0..MaxAttempts,
         out : {"none", "ok", "failed", "stopped"}]

NoCall == [at |-> "idle", kind |-> "none", read |-> FALSE, left |-> 0,
           made |-> 0, n |-> 0, out |-> "none"]

CallsTypeOK == RecorderTypeOK /\ call \in [Calls -> Call]

CallsInit ==
  /\ RecorderInit
  /\ call = [c \in Calls |-> NoCall]

Record(c)   == <<c, call[c].made>>
Turn(c, f)  == call' = [call EXCEPT ![c] = f]
Quiet       == UNCHANGED recorder
At(c, l)    == Running /\ call[c].at = l

(* callLLMAPI and ChatWithToolCalls begin with the model they were given.  *)
Using(f) == [f EXCEPT !.at = "attempt", !.n = 1, !.made = @ + 1]

(* The call returns; the models it used are kept for their records.        *)
Return(f) == [NoCall EXCEPT !.at = "done", !.made = f.made]

(* The backups that are left, or the end of the chain.                     *)
Rest(f) == IF f.left = 0 THEN Return(f) ELSE [f EXCEPT !.at = "next", !.n = 0]

-----------------------------------------------------------------------------
(* ChatCompletion, ChatCompletionStructured and ChatWithToolCalls.         *)
(* A model without a key fails before its record is prepared; tools do     *)
(* not look.                                                               *)

Begin(c) ==
  /\ At(c, "idle") /\ Quiet
  /\ \E k \in Kinds :
       LET f == [call[c] EXCEPT !.kind = k] IN
       \/ Turn(c, Using(f))
       \/ k = "chain" /\ Turn(c, [f EXCEPT !.at = "backups"])
       \/ k # "chain" /\ Turn(c, Return(f))

(* The primary has been tried, or there is none.                           *)
ReadBackups(c) ==
  /\ At(c, "backups") /\ Quiet
  /\ \E m \in 0..MaxBackups : Turn(c, Rest([call[c] EXCEPT !.read = TRUE, !.left = m]))

NextModel(c) ==
  LET f == [call[c] EXCEPT !.left = @ - 1] IN
  /\ At(c, "next") /\ Quiet
  /\ Turn(c, Using(f)) \/ Turn(c, Rest(f))

-----------------------------------------------------------------------------
(* One model.                                                              *)

Attempt(c) ==
  LET f == call[c] IN
  /\ At(c, "attempt") /\ Quiet
  /\ \/ \E o \in {"ok", "failed", "stopped"} : Turn(c, [f EXCEPT !.at = "record", !.out = o])
     \/ f.n < MaxAttempts /\ Turn(c, [f EXCEPT !.at = "sleep"])

(* What the caller makes of the outcome: the chain goes on after a failure.*)
Back(f) ==
  IF f.kind # "chain" \/ f.out # "failed"
    THEN Return(f)
    ELSE IF f.read THEN Rest(f) ELSE [f EXCEPT !.at = "backups", !.n = 0]

StopQuietly(c) ==                  \* mutant: a cancelled wait is not recorded
  LET f == call[c] IN
  /\ At(c, "sleep") /\ Quiet
  /\ \/ Turn(c, [f EXCEPT !.at = "attempt", !.n = @ + 1])
     \/ Turn(c, Back([f EXCEPT !.out = "stopped"]))

(* Before the attempt is repeated.                                         *)
Sleep(c) ==
  LET f == call[c] IN
  /\ At(c, "sleep") /\ Quiet
  /\ \/ Turn(c, [f EXCEPT !.at = "attempt", !.n = @ + 1])
     \/ Turn(c, [f EXCEPT !.at = "record", !.out = "stopped"])

(* The deferred Record, in its two steps, the first of which may return.   *)
HandOver(c) ==
  /\ At(c, "record") /\ Check(Record(c))
  /\ Turn(c, IF started THEN [call[c] EXCEPT !.at = "send"] ELSE Back(call[c]))

HandedOver(c) ==
  /\ At(c, "send") /\ Send(Record(c))
  /\ Turn(c, Back(call[c]))

CallStep(c) ==
  \/ Begin(c) \/ ReadBackups(c) \/ NextModel(c)
  \/ Attempt(c) \/ Sleep(c) \/ HandOver(c) \/ HandedOver(c)

CallsNext ==
  \/ \E c \in Calls : CallStep(c)
  \/ /\ \E w \in Workers : WorkerStep(w)
     /\ UNCHANGED call
  \/ (ClearStarted \/ CloseStopCh \/ Exit) /\ UNCHANGED call

(* The workers are goroutines of their own with a ticker, and Stop, once   *)
(* called, goes on; the signal that leads to it need not come.             *)
CallsSpec ==
  /\ CallsInit /\ [][CallsNext]_callVars
  /\ \A w \in Workers : WF_callVars(WorkerStep(w) /\ UNCHANGED call)
  /\ WF_callVars((CloseStopCh \/ Exit) /\ UNCHANGED call)

-----------------------------------------------------------------------------
(* Properties.                                                             *)

(* Every use of a model is recorded once, whichever way it ended: with an  *)
(* answer, an error, after its retries, or by cancellation in the middle   *)
(* of a wait (llm.go, line 308).                                           *)
CallsRecorded ==
  \A c \in Calls : call[c].at = "done" =>
    \A k \in 1..MaxBackups + 1 :
      k <= call[c].made <=> rec[<<c, k>>] \in {"handed", "late", "ignored"}
=============================================================================
