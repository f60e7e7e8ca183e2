----------------------------- MODULE CallRecorder -----------------------------
(***************************************************************************)
(* The recorder of LLM calls: callers hand over a record without waiting,  *)
(* workers collect records from a bounded channel and write them in        *)
(* batches, and the server drains the channel before it exits.             *)
(*   backend/pkg/llmcall/recorder.go, the end of backend/cmd/main.go       *)
(*                                                                         *)
(* Abstracted: what a record says; the order of the channel, which no      *)
(* worker depends on; backoffs.  The database is there (Start is called    *)
(* after it), but a statement may fail, and fail without the server being  *)
(* able to tell whether it took effect: it has a timeout of its own.       *)
(***************************************************************************)
EXTENDS Naturals, FiniteSets

CONSTANTS
  Records,            \* the records callers may hand over (bound)
  Workers,            \* workerCount of them
  channelBufferSize,
  flushBatchSize

ASSUME RecorderAssumption ==
  /\ channelBufferSize \in Nat \ {0} /\ flushBatchSize \in Nat \ {0}
  /\ Workers # {}

maxAttempts == 3

VARIABLES
  main,     \* how far the end of main has come
  rec,      \* where the call of Record for each record is
  logChan,  \* the channel
  worker,   \* each worker, its batch and the attempts of flushBatch
  rows,     \* how many rows of llm_call_logs each record has
  dropped,  \* the channel was full
  lost,     \* flushBatch gave up
  doubted   \* a statement that reported an error did write it

recorder == <<main, rec, logChan, worker, rows, dropped, lost, doubted>>

Worker == [at : {"select", "drain", "write", "exited"}, batch : SUBSET Records,
           tries : 0..maxAttempts - 1, then : {"select", "drain", "exited"}]

RecorderTypeOK ==
  /\ main \in {"serving", "stopping", "stopped", "exited"}
  /\ rec \in [Records -> {"none", "checked", "handed", "late", "ignored"}]
  /\ logChan \subseteq Records
  /\ worker \in [Workers -> Worker]
  /\ rows \in [Records -> Nat]
  /\ dropped \subseteq Records /\ lost \subseteq Records /\ doubted \subseteq Records

RecorderInit ==
  /\ main = "serving"
  /\ rec = [r \in Records |-> "none"]
  /\ logChan = {}
  /\ worker = [w \in Workers |-> [at |-> "select", batch |-> {}, tries |-> 0, then |-> "select"]]
  /\ rows = [r \in Records |-> 0]
  /\ dropped = {} /\ lost = {} /\ doubted = {}

started == main = "serving"
Running == main # "exited"

-----------------------------------------------------------------------------
(* Record: the flag is read first and the record sent afterwards, without  *)
(* waiting: a send that is late has begun before the flag was cleared.     *)

Check(r) ==
  /\ Running /\ rec[r] = "none"
  /\ rec' = [rec EXCEPT ![r] = IF started THEN "checked" ELSE "ignored"]
  /\ UNCHANGED <<main, logChan, worker, rows, dropped, lost, doubted>>

Send(r) ==
  /\ Running /\ rec[r] = "checked"
  /\ rec' = [rec EXCEPT ![r] = IF started THEN "handed" ELSE "late"]
  /\ IF Cardinality(logChan) < channelBufferSize
       THEN logChan' = logChan \cup {r} /\ UNCHANGED dropped
       ELSE dropped' = dropped \cup {r} /\ UNCHANGED logChan
  /\ UNCHANGED <<main, worker, rows, lost, doubted>>

-----------------------------------------------------------------------------
(* The workers.                                                            *)

(* flush, and where the worker goes on.                                    *)
Flush(f, l) == [f EXCEPT !.at = IF f.batch = {} THEN l ELSE "write", !.tries = 0, !.then = l]

(* A record received while the worker is at l.                             *)
Received(f, r, l) ==
  LET g == [f EXCEPT !.batch = @ \cup {r}]
  IN  IF Cardinality(g.batch) >= flushBatchSize THEN Flush(g, l) ELSE g

Receive(w, l) ==
  /\ Running /\ worker[w].at = l
  /\ \E r \in logChan :
       /\ logChan' = logChan \ {r}
       /\ worker' = [worker EXCEPT ![w] = Received(@, r, l)]
  /\ UNCHANGED <<main, rec, rows, dropped, lost, doubted>>

TickIfFull(w) ==                   \* mutant: a batch waits until it is full
  /\ Running /\ worker[w].at = "select" /\ Cardinality(worker[w].batch) >= flushBatchSize
  /\ worker' = [worker EXCEPT ![w] = Flush(@, "select")]
  /\ UNCHANGED <<main, rec, logChan, rows, dropped, lost, doubted>>

Tick(w) ==
  /\ Running /\ worker[w].at = "select" /\ worker[w].batch # {}
  /\ worker' = [worker EXCEPT ![w] = Flush(@, "select")]
  /\ UNCHANGED <<main, rec, logChan, rows, dropped, lost, doubted>>

ExitOnStop(w) ==                   \* mutant: the channel is left as it is
  /\ Running /\ worker[w].at = "select" /\ main = "stopped"
  /\ worker' = [worker EXCEPT ![w] = Flush(@, "exited")]
  /\ UNCHANGED <<main, rec, logChan, rows, dropped, lost, doubted>>

SeeStop(w) ==
  /\ Running /\ worker[w].at = "select" /\ main = "stopped"
  /\ worker' = [worker EXCEPT ![w].at = "drain"]
  /\ UNCHANGED <<main, rec, logChan, rows, dropped, lost, doubted>>

(* The channel is not looked at again after the last flush.                *)
Drained(w) ==
  /\ Running /\ worker[w].at = "drain" /\ logChan = {}
  /\ worker' = [worker EXCEPT ![w] = Flush(@, "exited")]
  /\ UNCHANGED <<main, rec, logChan, rows, dropped, lost, doubted>>

(* flushBatch: an attempt writes the batch, or fails, with or without      *)
(* effect; after the last one the batch is gone all the same.              *)
Added(b) == [r \in Records |-> IF r \in b THEN rows[r] + 1 ELSE rows[r]]
Empty(f) == [f EXCEPT !.at = f.then, !.batch = {}, !.tries = 0]

WriteKeep(w) ==                    \* mutant: batch = batch[:0] is missing
  /\ Running /\ worker[w].at = "write"
  /\ rows' = Added(worker[w].batch)
  /\ worker' = [worker EXCEPT ![w].at = worker[w].then, ![w].tries = 0]
  /\ UNCHANGED <<main, rec, logChan, dropped, lost, doubted>>

Write(w) ==
  /\ Running /\ worker[w].at = "write"
  /\ rows' = Added(worker[w].batch)
  /\ worker' = [worker EXCEPT ![w] = Empty(@)]
  /\ UNCHANGED <<main, rec, logChan, dropped, lost, doubted>>

WriteFails(w) ==
  /\ Running /\ worker[w].at = "write"
  /\ \/ UNCHANGED <<rows, doubted>>
     \/ /\ rows' = Added(worker[w].batch)
        /\ doubted' = doubted \cup worker[w].batch
  /\ IF worker[w].tries + 1 < maxAttempts
       THEN worker' = [worker EXCEPT ![w].tries = @ + 1] /\ UNCHANGED lost
       ELSE worker' = [worker EXCEPT ![w] = Empty(@)] /\ lost' = lost \cup worker[w].batch
  /\ UNCHANGED <<main, rec, logChan, dropped>>

WorkerStep(w) ==
  \/ Receive(w, "select") \/ Tick(w) \/ SeeStop(w)
  \/ Receive(w, "drain") \/ Drained(w) \/ Write(w) \/ WriteFails(w)

-----------------------------------------------------------------------------
(* The end of main: Stop clears the flag, closes stopCh and waits for the  *)
(* workers; the process exits with whatever its goroutines are doing.      *)

ClearStarted ==
  /\ main = "serving" /\ main' = "stopping"
  /\ UNCHANGED <<rec, logChan, worker, rows, dropped, lost, doubted>>

CloseStopCh ==
  /\ main = "stopping" /\ main' = "stopped"
  /\ UNCHANGED <<rec, logChan, worker, rows, dropped, lost, doubted>>

Exit ==
  /\ main = "stopped" /\ main' = "exited"
  /\ \A w \in Workers : worker[w].at = "exited"
  /\ UNCHANGED <<rec, logChan, worker, rows, dropped, lost, doubted>>

RecorderNext ==
  \/ \E r \in Records : Check(r) \/ Send(r)
  \/ \E w \in Workers : WorkerStep(w)
  \/ ClearStarted \/ CloseStopCh \/ Exit

RecorderSpec == RecorderInit /\ [][RecorderNext]_recorder

-----------------------------------------------------------------------------
(* Properties.                                                             *)

Settled(r) == rows[r] > 0 \/ r \in dropped \/ r \in lost

(* A record has a second row only if a statement that reported an error    *)
(* wrote it nevertheless and the attempt after it wrote it again: no batch *)
(* is written by both workers, or twice by one.                            *)
StoredOnce == \A r \in Records : rows[r] > 1 => r \in doubted

(* When main leaves Stop, what was handed over before Stop was called is   *)
(* in the table, or was dropped with a warning: nothing of it is left in   *)
(* the channel or in a batch (recorder.go, line 10).  What a call of       *)
(* Record that overlapped Stop has sent may be left there.                 *)
StopDrains == main = "exited" => \A r \in Records : rec[r] = "handed" => Settled(r)

(* Every record that was handed over is written, or dropped with a         *)
(* warning, whatever the load and whenever the server stops.               *)
RecordsSettle == \A r \in Records : rec[r] = "handed" ~> Settled(r)
=============================================================================
