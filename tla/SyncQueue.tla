------------------------------- MODULE SyncQueue -------------------------------
(***************************************************************************)
(* The licence and import-name synchronization queue of the dependency     *)
(* audit: a background worker and "synchronize now" requests drain one     *)
(* table under a compare-and-swap flag, while they and the scans add the   *)
(* coordinates the local library lacks.                                    *)
(*   backend/internal/service/depaudit/queue.go, local_license.go          *)
(*                                                                         *)
(* A coordinate stands for one row key (ecosystem, name, version, kind).   *)
(* Abstracted: the registries' answers (a nondeterministic outcome), the   *)
(* length of a back-off and of the retention (either passes at some later  *)
(* step), the order in which a batch takes due rows, job logs.  The items  *)
(* of a batch are handled concurrently; each touches its own row only, so  *)
(* their steps (the answer is stored, the row is marked) come in any order.*)
(***************************************************************************)
EXTENDS Naturals, FiniteSets, Sequences

CONSTANTS
  Coords,       \* the coordinates the organization's snapshots mention
  ImportNames,  \* those of kind import_name; the others are licences
  Worker,       \* the background worker
  Callers,      \* requests and scans in progress (bound)
  Calls,        \* what the callers ask, a subset of CallKinds
  BatchSize,    \* syncBatchSize
  MaxAttempts,  \* syncMaxAttempts
  Faults        \* BOOLEAN: an item may panic, a statement may fail, and
                \* the process may restart

Syncers   == Callers \cup {Worker}
CallKinds == {"syncNow", "importNow", "scan"}
OfKind(k) == IF k = "import" THEN ImportNames ELSE Coords \ ImportNames

ASSUME QueueAssumption ==
  /\ IsFiniteSet(Coords) /\ ImportNames \subseteq Coords
  /\ Worker \notin Callers /\ Calls \subseteq CallKinds
  /\ BatchSize \in Nat \ {0} /\ MaxAttempts \in Nat \ {0}
  /\ Faults \in BOOLEAN

VARIABLES
  row,      \* dependency_audit_sync_queue
  library,  \* coordinates the local licence and import-name tables hold
  guard,    \* syncGuard
  pc,       \* what each syncer does
  call,     \* the call each syncer serves
  adds,     \* the kinds it has still to look for and add
  drains,   \* the kinds it has still to drain, the current one first
  missing,  \* the coordinates it found missing in the library
  batch,    \* the rows of its batch still to be handled, as it read them
  answered, \* the coordinates of these whose answer it got and stored
  full      \* whether that batch had BatchSize rows

vars == <<row, library, guard, pc, call, adds, drains, missing, batch, answered, full>>

(* due: next_retry_at of a pending row, or the retention of one that is    *)
(* done or skipped, has passed.                                            *)
Row    == [status : {"none", "pending", "done", "skipped", "failed"},
           attempts : 0..MaxAttempts, due : BOOLEAN]
NoRow  == [status |-> "none", attempts |-> 0, due |-> FALSE]
NewRow == [status |-> "pending", attempts |-> 0, due |-> TRUE]

Plans == {<<>>, <<"license">>, <<"import">>, <<"license", "import">>}
Read  == [coord : Coords, attempts : 0..MaxAttempts]

TypeOK ==
  /\ row \in [Coords -> Row]
  /\ library \subseteq Coords
  /\ guard \in BOOLEAN
  /\ pc \in [Syncers -> {"idle", "look", "add", "try", "drain"}]
  /\ call \in [Syncers -> CallKinds \cup {"tick"}]
  /\ adds \in [Syncers -> Plans] /\ drains \in [Syncers -> Plans]
  /\ missing \in [Syncers -> SUBSET Coords]
  /\ batch \in [Syncers -> SUBSET Read]
  /\ answered \in [Syncers -> SUBSET Coords]
  /\ full \in [Syncers -> BOOLEAN]

Init ==
  /\ row = [c \in Coords |-> NoRow]
  /\ library = {}
  /\ guard = FALSE
  /\ pc = [s \in Syncers |-> "idle"]
  /\ call = [s \in Syncers |-> "tick"]
  /\ adds = [s \in Syncers |-> <<>>] /\ drains = [s \in Syncers |-> <<>>]
  /\ missing = [s \in Syncers |-> {}]
  /\ batch = [s \in Syncers |-> {}]
  /\ answered = [s \in Syncers |-> {}]
  /\ full = [s \in Syncers |-> FALSE]

Goto(s, l) == pc' = [pc EXCEPT ![s] = l]

-----------------------------------------------------------------------------
(* Starting: a tick of the worker, RunSyncNow, RunImportNameSyncNow, or    *)
(* the EnqueueMissingItems of a scan, which drains nothing.                *)

Start(s, k, l, what, then) ==
  /\ pc[s] = "idle"
  /\ Goto(s, l)
  /\ call' = [call EXCEPT ![s] = k]
  /\ adds' = [adds EXCEPT ![s] = what]
  /\ drains' = [drains EXCEPT ![s] = then]
  /\ UNCHANGED <<row, library, guard, missing, batch, answered, full>>

Tick == Start(Worker, "tick", "try", <<>>, <<"license", "import">>)

Request(s) ==
  \/ /\ "syncNow" \in Calls
     /\ Start(s, "syncNow", "look", <<"license", "import">>, <<"license", "import">>)
  \/ /\ "importNow" \in Calls
     /\ Start(s, "importNow", "look", <<"import">>, <<"import">>)
  \/ /\ "scan" \in Calls
     /\ Start(s, "scan", "look", <<"license", "import">>, <<>>)

-----------------------------------------------------------------------------
(* Adding what is missing.                                                 *)

(* The library is read first; a scan does not ask it about import names,   *)
(* and a read that fails finds nothing in it.                              *)
Look(s) ==
  /\ pc[s] = "look" /\ adds[s] # <<>>
  /\ LET k == Head(adds[s])
     IN \/ missing' = [missing EXCEPT ![s] =
             IF call[s] = "scan" /\ k = "import" THEN OfKind(k) ELSE OfKind(k) \ library]
        \/ Faults /\ missing' = [missing EXCEPT ![s] = OfKind(k)]
  /\ Goto(s, "add")
  /\ UNCHANGED <<row, library, guard, call, adds, drains, batch, answered, full>>

(* The snapshots cannot be read: synchronize-now gives up before it drains *)
(* anything, the request for import names drains without adding.           *)
LookFails(s) ==
  /\ Faults
  /\ pc[s] = "look" /\ adds[s] # <<>> /\ adds[s] = drains[s]     \* nothing added yet
  /\ adds' = [adds EXCEPT ![s] = <<>>]
  /\ drains' = IF call[s] = "syncNow" THEN [drains EXCEPT ![s] = <<>>] ELSE drains
  /\ UNCHANGED <<row, library, guard, pc, call, missing, batch, answered, full>>

(* INSERT ... ON CONFLICT DO NOTHING; its failure is only logged.          *)
Add(s) ==
  /\ pc[s] = "add"
  /\ \/ row' = [c \in Coords |-> IF c \in missing[s] /\ row[c].status = "none"
                                 THEN NewRow ELSE row[c]]
     \/ Faults /\ UNCHANGED row
  /\ adds' = [adds EXCEPT ![s] = Tail(@)]
  /\ missing' = [missing EXCEPT ![s] = {}]
  /\ Goto(s, "look")
  /\ UNCHANGED <<library, guard, call, drains, batch, answered, full>>

Added(s) ==
  /\ pc[s] = "look" /\ adds[s] = <<>>
  /\ Goto(s, IF drains[s] = <<>> THEN "idle" ELSE "try")
  /\ UNCHANGED <<row, library, guard, call, adds, drains, missing, batch, answered, full>>

-----------------------------------------------------------------------------
(* Draining.                                                               *)

TryLockUnguarded(s) ==               \* mutant: the flag is set, not tested
  /\ pc[s] = "try"
  /\ guard' = TRUE /\ Goto(s, "drain")
  /\ UNCHANGED <<row, library, call, adds, drains, missing, batch, answered, full>>

(* tryLockSync; whoever does not get the flag leaves the work to the other.*)
TryLock(s) ==
  /\ pc[s] = "try"
  /\ guard' = TRUE
  /\ IF guard THEN Goto(s, "idle") ELSE Goto(s, "drain")
  /\ drains' = IF guard THEN [drains EXCEPT ![s] = <<>>] ELSE drains
  /\ UNCHANGED <<row, library, call, adds, missing, batch, answered, full>>

DueRows(k) == {c \in OfKind(k) : row[c].status = "pending" /\ row[c].due}

(* ProcessSyncBatch reads up to BatchSize rows; fewer end the kind, and so *)
(* does a read that fails.                                                 *)
Fetch(s) ==
  /\ pc[s] = "drain" /\ batch[s] = {} /\ drains[s] # <<>>
  /\ \E b \in SUBSET DueRows(Head(drains[s])) :
       /\ \/ Cardinality(b) = BatchSize
          \/ b = DueRows(Head(drains[s])) /\ Cardinality(b) < BatchSize
          \/ Faults /\ b = {}
       /\ batch' = [batch EXCEPT ![s] = {[coord |-> c, attempts |-> row[c].attempts] : c \in b}]
       /\ full' = [full EXCEPT ![s] = Cardinality(b) = BatchSize]
       /\ drains' = IF b = {} THEN [drains EXCEPT ![s] = Tail(@)] ELSE drains
  /\ UNCHANGED <<row, library, guard, pc, call, adds, missing, answered>>

(* What is left of the loop of drainKind once item i has been handled.     *)
Handled(s, i) ==
  /\ batch' = [batch EXCEPT ![s] = @ \ {i}]
  /\ answered' = [answered EXCEPT ![s] = @ \ {i.coord}]
  /\ drains' = IF batch[s] = {i} /\ ~full[s] THEN [drains EXCEPT ![s] = Tail(@)] ELSE drains
  /\ UNCHANGED <<library, guard, pc, call, adds, missing, full>>

(* The answer of a registry is stored; an error in storing import names is *)
(* ignored.                                                                *)
Store(s) ==
  /\ pc[s] = "drain"
  /\ \E i \in batch[s] :
       /\ i.coord \notin answered[s]
       /\ answered' = [answered EXCEPT ![s] = @ \cup {i.coord}]
       /\ \/ library' = library \cup {i.coord}
          \/ i.coord \in ImportNames /\ UNCHANGED library
  /\ UNCHANGED <<row, guard, pc, call, adds, drains, missing, batch, full>>

Mark(c, status) == row' = [row EXCEPT ![c].status = status, ![c].due = FALSE]

RetryForever(i) ==                   \* mutant: attempts are not counted
  row' = [row EXCEPT ![i.coord] = [@ EXCEPT !.status = "pending", !.due = FALSE]]

(* markQueue with retry: attempts as read with the batch, plus one.        *)
Retry(i) ==
  LET n == i.attempts + 1 IN
  row' = [row EXCEPT ![i.coord] =
    IF n >= MaxAttempts THEN [@ EXCEPT !.status = "failed", !.attempts = n, !.due = FALSE]
                        ELSE [@ EXCEPT !.status = "pending", !.attempts = n, !.due = FALSE]]

LicenseUnstored(s, i) ==             \* mutant: an error in storing it is ignored
  /\ i.coord \notin ImportNames
  /\ \/ Mark(i.coord, "done")
     \/ i.coord \notin answered[s] /\ (Retry(i) \/ Mark(i.coord, "skipped"))

(* A licence that is stored is done.  It is tried again when there was no  *)
(* answer or it could not be stored, and skipped without a version.        *)
License(s, i) ==
  /\ i.coord \notin ImportNames
  /\ \/ i.coord \in answered[s] /\ Mark(i.coord, "done")
     \/ i.coord \notin answered[s] /\ (Retry(i) \/ Mark(i.coord, "skipped"))

(* Import names are never tried again.                                     *)
Import(s, i) ==
  /\ i.coord \in ImportNames
  /\ Mark(i.coord, IF i.coord \in answered[s] THEN "done" ELSE "skipped")

(* The row of an item is marked; a panic, which is recovered, and a mark   *)
(* that fails, which nobody notices, leave it as it was.                   *)
Process(s) ==
  /\ pc[s] = "drain"
  /\ \E i \in batch[s] :
       /\ \/ License(s, i) \/ Import(s, i)
          \/ Faults /\ UNCHANGED row
       /\ Handled(s, i)

Unlock(s) ==
  /\ pc[s] = "drain" /\ batch[s] = {} /\ drains[s] = <<>>
  /\ guard' = FALSE
  /\ Goto(s, "idle")
  /\ UNCHANGED <<row, library, call, adds, drains, missing, batch, answered, full>>

-----------------------------------------------------------------------------
(* The rest of the system.                                                 *)

(* next_retry_at passes.                                                   *)
Due(c) ==
  /\ row[c].status = "pending" /\ ~row[c].due
  /\ row' = [row EXCEPT ![c].due = TRUE]
  /\ UNCHANGED <<library, guard, pc, call, adds, drains, missing, batch, answered, full>>

(* The retention, counted in days, passes; no drain lasts as long.         *)
Age(c) ==
  /\ row[c].status \in {"done", "skipped"} /\ ~row[c].due /\ ~guard
  /\ row' = [row EXCEPT ![c].due = TRUE]
  /\ UNCHANGED <<library, guard, pc, call, adds, drains, missing, batch, answered, full>>

(* CleanupExpiredTasks deletes old rows that are done or skipped.          *)
Cleanup ==
  /\ \E c \in Coords : row[c].status \in {"done", "skipped"} /\ row[c].due
  /\ row' = [c \in Coords |-> IF row[c].status \in {"done", "skipped"} /\ row[c].due
                              THEN NoRow ELSE row[c]]
  /\ UNCHANGED <<library, guard, pc, call, adds, drains, missing, batch, answered, full>>

Restart ==
  /\ Faults
  /\ guard' = FALSE
  /\ pc' = [s \in Syncers |-> "idle"]
  /\ call' = [s \in Syncers |-> "tick"]
  /\ adds' = [s \in Syncers |-> <<>>] /\ drains' = [s \in Syncers |-> <<>>]
  /\ missing' = [s \in Syncers |-> {}]
  /\ batch' = [s \in Syncers |-> {}]
  /\ answered' = [s \in Syncers |-> {}]
  /\ full' = [s \in Syncers |-> FALSE]
  /\ UNCHANGED <<row, library>>

SyncStep(s) ==
  \/ Look(s) \/ LookFails(s) \/ Add(s) \/ Added(s)
  \/ TryLock(s) \/ Fetch(s) \/ Store(s) \/ Process(s) \/ Unlock(s)

Next ==
  \/ Tick \/ \E s \in Callers : Request(s)
  \/ \E s \in Syncers : SyncStep(s)
  \/ \E c \in Coords : Due(c) \/ Age(c)
  \/ Cleanup \/ Restart

Spec == Init /\ [][Next]_vars

(* The ticker fires, goroutines are scheduled, a back-off passes; and the  *)
(* requests, which people make, do not hold the flag at every single tick. *)
LiveSpec ==
  /\ Spec
  /\ \A s \in Syncers : WF_vars(SyncStep(s))
  /\ SF_vars(~guard /\ Tick) /\ SF_vars(~guard /\ TryLock(Worker))
  /\ \A c \in Coords : WF_vars(Due(c))

-----------------------------------------------------------------------------
(* Properties.                                                             *)

(* The worker and the "synchronize now" calls never handle the same row at *)
(* the same time (queue.go:260), and a row in a batch is still as it was   *)
(* read: pending, with the attempts the back-off is counted from.          *)
NoDoubleProcessing ==
  \A s \in Syncers : \A i \in batch[s] :
    /\ row[i.coord].status = "pending" /\ row[i.coord].attempts = i.attempts
    /\ \A u \in Syncers : \A j \in batch[u] : j.coord = i.coord => u = s

(* A row is failed exactly when all its attempts are used up: the limit    *)
(* neither cuts a row short nor lets it be tried once more (queue.go:238). *)
FailedWhenUsedUp ==
  \A c \in Coords : row[c].status = "failed" <=> row[c].attempts = MaxAttempts

(* A licence reported as done can be found in the local library, so that   *)
(* the next scan does not miss it; for import names the code does not make *)
(* sure of that.                                                           *)
DoneIsStored ==
  \A c \in Coords \ ImportNames : row[c].status = "done" => c \in library

(* Seen without the syncers, the flag and the batches as they were read,   *)
(* all this is a queue that one hand at a time takes due items from.       *)
Queue == INSTANCE WorkQueue WITH
  Items  <- Coords,
  Once   <- ImportNames,
  Limit  <- MaxAttempts,
  Size   <- BatchSize,
  state  <- [c \in Coords |-> row[c].status],
  tries  <- [c \in Coords |-> row[c].attempts],
  ripe   <- {c \in Coords : row[c].status = "pending" /\ row[c].due},
  hand   <- {c \in Coords : \E s \in Syncers : \E i \in batch[s] : i.coord = c},
  stored <- library

(* The worker, the requests and the scans, interleaved in any way and with *)
(* crashes and panics, do nothing that this queue does not do.             *)
ImplementsQueue == Queue!Spec

(* A restart, an item that panics or whose mark fails and that leaves its  *)
(* batch as it came, or a read that fails and ends a kind with rows due.   *)
Fault ==
  \/ Restart
  \/ \E s \in Syncers : batch[s] # {} /\ batch'[s] # batch[s] /\ UNCHANGED row
  \/ \E s \in Syncers :
       /\ pc[s] = "drain" /\ batch[s] = {} /\ batch'[s] = {}
       /\ drains'[s] # drains[s] /\ DueRows(Head(drains[s])) # {}

(* Once items stop panicking, statements succeed and the server stays up,  *)
(* every queued coordinate gets a final status, whatever a crash left      *)
(* behind.                                                                 *)
QueueDrains ==
  <>[][~Fault]_vars =>
    \A c \in Coords : row[c].status = "pending" ~> row[c].status # "pending"
=============================================================================
