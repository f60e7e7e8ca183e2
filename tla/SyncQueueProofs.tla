--------------------------- MODULE SyncQueueProofs ---------------------------
(* Theorems about SyncQueue, for any set of coordinates and callers, any   *)
(* batch size and any limit on attempts, with panics and restarts.         *)
EXTENDS SyncQueue, FiniteSetTheorems, TLAPS

(* Who holds the flag: a batch is only in the hands of the one syncer that *)
(* drains, and that one has the flag.                                      *)
Held ==
  /\ \A s \in Syncers : pc[s] = "drain" => guard
  /\ \A s, u \in Syncers : pc[s] = "drain" /\ pc[u] = "drain" => s = u
  /\ \A s \in Syncers : batch[s] # {} => pc[s] = "drain"

(* A row in a batch is still as it was when the batch was read.            *)
AsRead ==
  \A s \in Syncers : \A i \in batch[s] :
    row[i.coord].status = "pending" /\ row[i.coord].attempts = i.attempts

(* Whoever adds has a kind to add, whoever has a batch a kind to drain.    *)
Planned ==
  \A s \in Syncers : /\ pc[s] = "add" => adds[s] # <<>>
                     /\ batch[s] # {} => drains[s] # <<>>

(* What a syncer takes for stored is stored, import names excepted.        *)
AnswersKept == \A s \in Syncers : answered[s] \ ImportNames \subseteq library

Inv == TypeOK /\ Held /\ AsRead /\ Planned /\ FailedWhenUsedUp /\ AnswersKept /\ DoneIsStored

-----------------------------------------------------------------------------
(* Types.                                                                  *)

(* What is left of a plan is a plan.                                       *)
LEMMA PlanTail ==
  ASSUME NEW p \in Plans, p # <<>>
  PROVE  Head(p) \in {"license", "import"} /\ Tail(p) \in Plans
<1>1. CASE p = <<"license">>
  BY <1>1 DEF Plans
<1>2. CASE p = <<"import">>
  BY <1>2 DEF Plans
<1>3. CASE p = <<"license", "import">>
  <2>1. Head(p) = "license" /\ Tail(p) = <<"import">>
    BY <1>3
  <2> QED BY <2>1 DEF Plans
<1> QED BY <1>1, <1>2, <1>3 DEF Plans

(* A pending row has an attempt left, and so has its copy in a batch.      *)
LEMMA AttemptLeft ==
  ASSUME Inv, NEW s \in Syncers, NEW i \in batch[s]
  PROVE  /\ i.coord \in Coords /\ i.attempts \in Nat /\ i.attempts + 1 \in 0..MaxAttempts
         /\ row[i.coord] \in Row /\ row[i.coord].status = "pending"
         /\ row[i.coord].attempts = i.attempts
<1>1. i \in Read
  BY DEF Inv, TypeOK
<1>2. i.coord \in Coords /\ i.attempts \in 0..MaxAttempts
  BY <1>1 DEF Read
<1>3. row[i.coord] \in Row
  BY <1>2 DEF Inv, TypeOK
<1>4. row[i.coord].status = "pending" /\ row[i.coord].attempts = i.attempts
  BY DEF Inv, AsRead
<1>5. i.attempts # MaxAttempts
  BY <1>2, <1>4 DEF Inv, FailedWhenUsedUp
<1> QED BY <1>2, <1>3, <1>4, <1>5, QueueAssumption

(* What handling an item does to its row: it is done, skipped, tried again *)
(* or failed, or left alone by a panic.                                    *)
Outcome(i) ==
  \/ row' = row
  \/ \E new \in Row :
       /\ row' = [row EXCEPT ![i.coord] = new]
       /\ \/ new.status \in {"done", "skipped"} /\ new.attempts = i.attempts
          \/ new.status = "pending" /\ new.attempts = i.attempts + 1
               /\ i.attempts + 1 < MaxAttempts
          \/ new.status = "failed" /\ new.attempts = i.attempts + 1
               /\ i.attempts + 1 = MaxAttempts

(* Marking a row as done or skipped is an outcome,                         *)
LEMMA MarkOutcome ==
  ASSUME Inv, NEW s \in Syncers, NEW i \in batch[s], NEW st \in {"done", "skipped"},
         Mark(i.coord, st)
  PROVE  Outcome(i)
<1> DEFINE new == [row[i.coord] EXCEPT !.status = st, !.due = FALSE]
<1>1. new \in Row /\ new.status = st /\ new.attempts = i.attempts
  BY AttemptLeft DEF Row
<1>2. row' = [row EXCEPT ![i.coord] = new]
  BY AttemptLeft DEF Mark, Inv, TypeOK
<1> QED BY <1>1, <1>2 DEF Outcome

(* and so is trying it again, unless that was the last attempt.            *)
LEMMA RetryOutcome ==
  ASSUME Inv, NEW s \in Syncers, NEW i \in batch[s], Retry(i)
  PROVE  Outcome(i)
<1> DEFINE n == i.attempts + 1
           failed == [row[i.coord] EXCEPT !.status = "failed", !.attempts = n, !.due = FALSE]
           again == [row[i.coord] EXCEPT !.status = "pending", !.attempts = n, !.due = FALSE]
<1>1. n \in 0..MaxAttempts /\ row[i.coord] \in Row
  BY AttemptLeft
<1>2. /\ failed \in Row /\ failed.status = "failed" /\ failed.attempts = n
      /\ again \in Row /\ again.status = "pending" /\ again.attempts = n
  BY <1>1 DEF Row
<1>3. CASE n >= MaxAttempts
  <2>1. n = MaxAttempts
    BY <1>1, <1>3, QueueAssumption
  <2>2. row' = [row EXCEPT ![i.coord] = failed]
    BY <1>3 DEF Retry
  <2> QED BY <1>2, <2>1, <2>2 DEF Outcome
<1>4. CASE ~(n >= MaxAttempts)
  <2>1. n < MaxAttempts
    BY <1>1, <1>4, QueueAssumption
  <2>2. row' = [row EXCEPT ![i.coord] = again]
    BY <1>4 DEF Retry
  <2> QED BY <1>2, <2>1, <2>2 DEF Outcome
<1> QED BY <1>3, <1>4

(* An item is handled: its row has one of these outcomes, and a licence is *)
(* done only when the syncer has stored it.                                *)
LEMMA ProcessOutcome ==
  ASSUME Inv, NEW s \in Syncers, Process(s)
  PROVE  \E i \in batch[s] :
           /\ Outcome(i) /\ Handled(s, i)
           /\ i.coord \notin ImportNames /\ row'[i.coord].status = "done"
                => i.coord \in answered[s]
<1>1. PICK i \in batch[s] :
        /\ License(s, i) \/ Import(s, i) \/ UNCHANGED row
        /\ Handled(s, i)
  BY DEF Process
<1>2. /\ i.coord \in Coords /\ row[i.coord].status = "pending"
      /\ row \in [Coords -> Row]
  BY AttemptLeft DEF Inv, TypeOK
<1>3. CASE License(s, i)
  <2>1. CASE i.coord \in answered[s] /\ Mark(i.coord, "done")
    BY <1>1, <2>1, MarkOutcome
  <2>2. CASE Mark(i.coord, "skipped")
    <3>1. row'[i.coord].status = "skipped"
      BY <1>2, <2>2, AttemptLeft DEF Mark, Row
    <3> QED BY <1>1, <2>2, <3>1, MarkOutcome
  <2>3. CASE Retry(i)
    <3>1. row'[i.coord].status # "done"
      BY <1>2, <2>3, AttemptLeft DEF Retry, Row
    <3> QED BY <1>1, <2>3, <3>1, RetryOutcome
  <2> QED BY <1>3, <2>1, <2>2, <2>3 DEF License
<1>4. CASE Import(s, i)
  BY <1>1, <1>4, MarkOutcome DEF Import
<1>5. CASE UNCHANGED row
  BY <1>1, <1>2, <1>5 DEF Outcome
<1> QED BY <1>1, <1>3, <1>4, <1>5

(* An outcome keeps the rows typed and leaves the other rows alone.        *)
LEMMA OutcomeRows ==
  ASSUME Inv, NEW s \in Syncers, NEW i \in batch[s], Outcome(i)
  PROVE  /\ row' \in [Coords -> Row]
         /\ \A c \in Coords : c # i.coord => row'[c] = row[c]
         /\ \/ row'[i.coord] = row[i.coord]
            \/ /\ row'[i.coord].status \in {"done", "skipped"}
               /\ row'[i.coord].attempts = i.attempts
            \/ /\ row'[i.coord].status = "pending"
               /\ row'[i.coord].attempts = i.attempts + 1 /\ i.attempts + 1 < MaxAttempts
            \/ /\ row'[i.coord].status = "failed"
               /\ row'[i.coord].attempts = i.attempts + 1 /\ i.attempts + 1 = MaxAttempts
<1>1. i.coord \in Coords /\ row \in [Coords -> Row]
  BY AttemptLeft DEF Inv, TypeOK
<1>2. CASE row' = row
  BY <1>1, <1>2
<1>3. ASSUME NEW new \in Row, row' = [row EXCEPT ![i.coord] = new]
      PROVE  /\ row' \in [Coords -> Row] /\ row'[i.coord] = new
             /\ \A c \in Coords : c # i.coord => row'[c] = row[c]
  BY <1>1, <1>3
<1> QED BY <1>2, <1>3 DEF Outcome

(* Every step keeps the types.                                             *)
LEMMA TypeNext ==
  ASSUME Inv, [Next]_vars
  PROVE  TypeOK'
<1> USE DEF Goto
<1>0. TypeOK
  BY DEF Inv
<1>1. CASE Tick
  BY <1>0, <1>1 DEF TypeOK, Tick, Start, Syncers, Plans
<1>2. ASSUME NEW s \in Callers, Request(s) PROVE TypeOK'
  BY <1>0, <1>2 DEF TypeOK, Request, Start, Syncers, Plans, CallKinds
<1>3. ASSUME NEW s \in Syncers, Look(s) PROVE TypeOK'
  <2>1. PICK cs \in SUBSET Coords : missing' = [missing EXCEPT ![s] = cs]
    BY <1>3, QueueAssumption DEF Look, OfKind
  <2> QED BY <1>0, <1>3, <2>1 DEF TypeOK, Look
<1>14. ASSUME NEW s \in Syncers, LookFails(s) PROVE TypeOK'
  BY <1>0, <1>14 DEF TypeOK, LookFails, Plans
<1>15. ASSUME NEW s \in Syncers, Store(s) PROVE TypeOK'
  <2>1. PICK i \in batch[s] :
          /\ answered' = [answered EXCEPT ![s] = @ \cup {i.coord}]
          /\ library' = library \cup {i.coord} \/ UNCHANGED library
    BY <1>15 DEF Store
  <2>2. i.coord \in Coords
    BY AttemptLeft
  <2> QED BY <1>0, <1>15, <2>1, <2>2 DEF TypeOK, Store
<1>4. ASSUME NEW s \in Syncers, Add(s) PROVE TypeOK'
  <2>1. Tail(adds[s]) \in Plans
    <3>1. adds[s] \in Plans /\ adds[s] # <<>>
      BY <1>4 DEF Inv, TypeOK, Planned, Add
    <3> QED BY <3>1, PlanTail
  <2>2. NewRow \in Row
    BY QueueAssumption DEF NewRow, Row
  <2>3. row' \in [Coords -> Row]
    BY <1>0, <1>4, <2>2 DEF TypeOK, Add
  <2> QED BY <1>0, <1>4, <2>1, <2>3 DEF TypeOK, Add
<1>5. ASSUME NEW s \in Syncers, Added(s) PROVE TypeOK'
  BY <1>0, <1>5 DEF TypeOK, Added
<1>6. ASSUME NEW s \in Syncers, TryLock(s) PROVE TypeOK'
  BY <1>0, <1>6 DEF TypeOK, TryLock, Plans
<1>7. ASSUME NEW s \in Syncers, Fetch(s) PROVE TypeOK'
  <2>1. drains[s] \in Plans /\ drains[s] # <<>>
    BY <1>0, <1>7 DEF TypeOK, Fetch
  <2>2. Tail(drains[s]) \in Plans /\ Head(drains[s]) \in {"license", "import"}
    BY <2>1, PlanTail
  <2>3. drains' \in [Syncers -> Plans]
    BY <1>0, <1>7, <2>2 DEF TypeOK, Fetch
  <2>4. PICK b \in SUBSET DueRows(Head(drains[s])) :
          /\ batch' = [batch EXCEPT ![s] = {[coord |-> c, attempts |-> row[c].attempts] : c \in b}]
          /\ full' = [full EXCEPT ![s] = Cardinality(b) = BatchSize]
    BY <1>7 DEF Fetch
  <2>5. DueRows(Head(drains[s])) \subseteq Coords
    BY QueueAssumption DEF DueRows, OfKind
  <2>6. \A c \in Coords : row[c].attempts \in 0..MaxAttempts
    BY <1>0 DEF TypeOK, Row
  <2>7. {[coord |-> c, attempts |-> row[c].attempts] : c \in b} \subseteq Read
    BY <2>5, <2>6 DEF Read
  <2>8. batch' \in [Syncers -> SUBSET Read]
    BY <1>0, <2>4, <2>7 DEF TypeOK
  <2>9. full' \in [Syncers -> BOOLEAN]
    BY <1>0, <2>4 DEF TypeOK
  <2>10. UNCHANGED <<row, library, guard, pc, call, adds, missing, answered>>
    BY <1>7 DEF Fetch
  <2> QED BY <1>0, <2>3, <2>8, <2>9, <2>10 DEF TypeOK
<1>8. ASSUME NEW s \in Syncers, Process(s) PROVE TypeOK'
  <2>1. PICK i \in batch[s] : Outcome(i) /\ Handled(s, i)
    BY <1>8, ProcessOutcome
  <2>2. row' \in [Coords -> Row]
    BY <2>1, OutcomeRows
  <2>3. batch' \in [Syncers -> SUBSET Read] /\ answered' \in [Syncers -> SUBSET Coords]
    BY <1>0, <2>1 DEF TypeOK, Handled
  <2>4. drains' \in [Syncers -> Plans]
    <3>1. drains[s] \in Plans /\ drains[s] # <<>>
      BY <1>0 DEF TypeOK, Inv, Planned
    <3> QED BY <1>0, <2>1, <3>1, PlanTail DEF TypeOK, Handled
  <2>5. UNCHANGED <<library, guard, pc, call, adds, missing, full>>
    BY <2>1 DEF Handled
  <2> QED BY <1>0, <2>1, <2>2, <2>3, <2>4, <2>5 DEF TypeOK
<1>9. ASSUME NEW s \in Syncers, Unlock(s) PROVE TypeOK'
  BY <1>0, <1>9 DEF TypeOK, Unlock
<1>10. ASSUME NEW c \in Coords, Due(c) \/ Age(c) PROVE TypeOK'
  BY <1>0, <1>10, ZenonT(30) DEF TypeOK, Due, Age, Row
<1>11. CASE Cleanup
  <2>1. NoRow \in Row
    BY QueueAssumption DEF NoRow, Row
  <2> QED BY <1>0, <1>11, <2>1 DEF TypeOK, Cleanup
<1>12. CASE Restart
  BY <1>0, <1>12 DEF TypeOK, Restart, Plans
<1>13. CASE UNCHANGED vars
  BY <1>0, <1>13 DEF TypeOK, vars
<1> QED BY <1>1, <1>2, <1>3, <1>4, <1>5, <1>6, <1>7, <1>8, <1>9, <1>10, <1>11, <1>12, <1>13,
           <1>14, <1>15 DEF Next, SyncStep

-----------------------------------------------------------------------------
(* The flag and the batches.                                               *)

(* No step lets two syncers drain, or leaves a batch with one that does    *)
(* not.                                                                    *)
LEMMA HeldNext ==
  ASSUME Inv, [Next]_vars
  PROVE  Held'
<1> USE DEF Goto
<1>0. TypeOK /\ Held
  BY DEF Inv
<1>1. CASE \/ Tick \/ \E s \in Callers : Request(s)
           \/ \E s \in Syncers : Look(s) \/ Add(s) \/ Added(s)
  BY <1>0, <1>1 DEF TypeOK, Held, Tick, Request, Start, Look, Add, Added, Syncers
<1>2. ASSUME NEW s \in Syncers, TryLock(s) PROVE Held'
  BY <1>0, <1>2 DEF TypeOK, Held, TryLock
<1>3. ASSUME NEW s \in Syncers, Fetch(s) PROVE Held'
  <2>1. /\ UNCHANGED <<pc, guard>> /\ pc[s] = "drain"
        /\ \A u \in Syncers \ {s} : batch'[u] = batch[u]
    BY <1>0, <1>3 DEF TypeOK, Fetch
  <2> QED BY <1>0, <2>1 DEF Held
<1>4. ASSUME NEW s \in Syncers, Process(s) PROVE Held'
  <2>1. /\ UNCHANGED <<pc, guard>> /\ pc[s] = "drain"
        /\ \A u \in Syncers \ {s} : batch'[u] = batch[u]
    BY <1>0, <1>4 DEF TypeOK, Process, Handled
  <2> QED BY <1>0, <2>1 DEF Held
<1>5. ASSUME NEW s \in Syncers, Unlock(s) PROVE Held'
  BY <1>0, <1>5 DEF TypeOK, Held, Unlock
<1>6. CASE Restart
  BY <1>0, <1>6 DEF TypeOK, Held, Restart
<1>7. CASE UNCHANGED <<pc, guard, batch>>
  BY <1>0, <1>7 DEF Held
<1> QED BY <1>1, <1>2, <1>3, <1>4, <1>5, <1>6, <1>7
        DEF Next, SyncStep, LookFails, Store, Due, Age, Cleanup, vars

(* Nor does one leave a syncer without a plan for what it is doing.        *)
LEMMA PlannedNext ==
  ASSUME Inv, [Next]_vars
  PROVE  Planned'
<1> USE DEF Goto
<1>0. TypeOK /\ Held /\ Planned
  BY DEF Inv
<1>1. CASE Tick \/ \E s \in Callers : Request(s)
  <2>1. PICK s \in Syncers : pc[s] = "idle" /\ \A u \in Syncers \ {s} :
          pc'[u] = pc[u] /\ adds'[u] = adds[u] /\ drains'[u] = drains[u]
    BY <1>0, <1>1 DEF TypeOK, Tick, Request, Start, Syncers
  <2>2. batch' = batch /\ batch[s] = {} /\ pc'[s] # "add"
    BY <1>0, <1>1, <2>1 DEF TypeOK, Held, Tick, Request, Start, Syncers
  <2> QED BY <1>0, <2>1, <2>2 DEF Planned
<1>2. ASSUME NEW s \in Syncers, Look(s) PROVE Planned'
  BY <1>0, <1>2 DEF TypeOK, Planned, Look
<1>10. ASSUME NEW s \in Syncers, LookFails(s) PROVE Planned'
  BY <1>0, <1>10 DEF TypeOK, Held, Planned, LookFails
<1>3. ASSUME NEW s \in Syncers, Add(s) \/ Added(s) PROVE Planned'
  BY <1>0, <1>3 DEF TypeOK, Planned, Add, Added
<1>4. ASSUME NEW s \in Syncers, TryLock(s) PROVE Planned'
  BY <1>0, <1>4 DEF TypeOK, Held, Planned, TryLock
<1>5. ASSUME NEW s \in Syncers, Fetch(s) PROVE Planned'
  <2>1. /\ UNCHANGED <<pc, adds>> /\ drains[s] # <<>>
        /\ \A u \in Syncers \ {s} : batch'[u] = batch[u] /\ drains'[u] = drains[u]
    BY <1>0, <1>5 DEF TypeOK, Fetch
  <2>2. batch'[s] # {} => drains' = drains
    <3>1. PICK b \in SUBSET DueRows(Head(drains[s])) :
            /\ batch'[s] = {[coord |-> c, attempts |-> row[c].attempts] : c \in b}
            /\ b # {} => drains' = drains
      BY <1>0, <1>5 DEF TypeOK, Fetch
    <3> QED BY <3>1
  <2> QED BY <1>0, <2>1, <2>2 DEF Planned
<1>6. ASSUME NEW s \in Syncers, Process(s) PROVE Planned'
  <2>1. PICK i \in batch[s] : Handled(s, i)
    BY <1>6 DEF Process
  <2>2. batch'[s] = batch[s] \ {i} /\ \A u \in Syncers \ {s} : batch'[u] = batch[u]
    BY <1>0, <2>1 DEF TypeOK, Handled
  <2>3. /\ UNCHANGED <<pc, adds>> /\ (batch'[s] # {} => drains' = drains)
        /\ \A u \in Syncers \ {s} : drains'[u] = drains[u]
    BY <1>0, <2>1, <2>2 DEF TypeOK, Handled
  <2> QED BY <1>0, <2>2, <2>3 DEF Planned
<1>7. ASSUME NEW s \in Syncers, Unlock(s) PROVE Planned'
  BY <1>0, <1>7 DEF TypeOK, Planned, Unlock
<1>8. CASE Restart
  BY <1>0, <1>8 DEF TypeOK, Planned, Restart
<1>9. CASE UNCHANGED <<pc, adds, drains, batch>>
  BY <1>0, <1>9 DEF Planned
<1> QED BY <1>1, <1>2, <1>3, <1>4, <1>5, <1>6, <1>7, <1>8, <1>9, <1>10
        DEF Next, SyncStep, Store, Due, Age, Cleanup, vars

-----------------------------------------------------------------------------
(* The rows.                                                               *)

(* Two copies of one row in a batch are the same.                          *)
LEMMA CopiesAgree ==
  ASSUME Inv, NEW s \in Syncers, NEW i \in batch[s], NEW j \in batch[s], i.coord = j.coord
  PROVE  i = j
<1>1. i \in Read /\ j \in Read
  BY DEF Inv, TypeOK
<1>2. i.attempts = j.attempts
  BY AttemptLeft
<1> QED BY <1>1, <1>2 DEF Read

(* What a step other than the handling of an item may do to a row: it is   *)
(* new, becomes due, or is cleaned up.                                     *)
LEMMA RowMoves ==
  ASSUME Inv, [Next]_vars, NEW c \in Coords
  PROVE  \/ \E s \in Syncers : Process(s)
         \/ row'[c] = row[c]
         \/ row[c].status = "none" /\ row'[c] = NewRow
         \/ row'[c].status = row[c].status /\ row'[c].attempts = row[c].attempts
         \/ row[c].status \in {"done", "skipped"} /\ row'[c] = NoRow
<1>0. row \in [Coords -> Row] /\ row[c] \in Row
  BY DEF Inv, TypeOK
<1>1. ASSUME NEW s \in Syncers, Add(s)
      PROVE  row'[c] = row[c] \/ (row[c].status = "none" /\ row'[c] = NewRow)
  BY <1>0, <1>1 DEF Add
<1>2. ASSUME NEW d \in Coords, Due(d) \/ Age(d)
      PROVE  row'[c].status = row[c].status /\ row'[c].attempts = row[c].attempts
  BY <1>0, <1>2 DEF Due, Age, Row
<1>3. CASE Cleanup
  BY <1>0, <1>3 DEF Cleanup
<1>4. CASE UNCHANGED row
  BY <1>4
<1> QED BY <1>1, <1>2, <1>3, <1>4 DEF Next, SyncStep, Tick, Request, Start, Look, LookFails,
           Added, TryLock, Fetch, Store, Unlock, Restart, vars

(* Nothing leaves the library, and what a syncer takes for stored was put  *)
(* there by it.                                                            *)
LEMMA AnswersNext ==
  ASSUME Inv, [Next]_vars
  PROVE  library \subseteq library' /\ AnswersKept'
<1>0. TypeOK /\ AnswersKept
  BY DEF Inv
<1>1. ASSUME NEW s \in Syncers, Store(s) PROVE library \subseteq library' /\ AnswersKept'
  <2>1. PICK i \in batch[s] :
          /\ answered' = [answered EXCEPT ![s] = @ \cup {i.coord}]
          /\ library' = library \cup {i.coord} \/ (i.coord \in ImportNames /\ UNCHANGED library)
    BY <1>1 DEF Store
  <2>2. \A u \in Syncers : answered'[u] \subseteq answered[u] \cup {i.coord}
    BY <1>0, <2>1 DEF TypeOK
  <2>3. library \subseteq library' /\ (i.coord \in ImportNames \/ i.coord \in library')
    BY <2>1
  <2> QED BY <1>0, <2>2, <2>3 DEF AnswersKept
<1>2. CASE library' = library /\ \A u \in Syncers : answered'[u] \subseteq answered[u]
  BY <1>0, <1>2 DEF AnswersKept
<1>3. ASSUME NEW s \in Syncers, Process(s)
      PROVE  library' = library /\ \A u \in Syncers : answered'[u] \subseteq answered[u]
  BY <1>0, <1>3 DEF TypeOK, Process, Handled
<1>4. CASE Restart
  BY <1>4, <1>2 DEF Restart
<1>5. CASE UNCHANGED <<library, answered>>
  BY <1>5, <1>2
<1> QED BY <1>1, <1>2, <1>3, <1>4, <1>5 DEF Next, SyncStep, Tick, Request, Start, Look, LookFails,
           Add, Added, TryLock, Fetch, Unlock, Due, Age, Cleanup, vars

(* No step touches a row that is in a batch but the one that handles it.   *)
LEMMA AsReadNext ==
  ASSUME Inv, [Next]_vars
  PROVE  AsRead'
<1>0. TypeOK /\ Held /\ AsRead
  BY DEF Inv
<1>1. ASSUME NEW s \in Syncers, Process(s) PROVE AsRead'
  <2>1. PICK i \in batch[s] : Outcome(i) /\ Handled(s, i)
    BY <1>1, ProcessOutcome
  <2>2. /\ batch'[s] = batch[s] \ {i}
        /\ \A u \in Syncers \ {s} : batch'[u] = {}
    BY <1>0, <1>1, <2>1 DEF TypeOK, Held, Handled, Process
  <2>3. \A j \in batch[s] \ {i} : row'[j.coord] = row[j.coord]
    BY <2>1, CopiesAgree, OutcomeRows, AttemptLeft
  <2> QED BY <1>0, <2>2, <2>3 DEF AsRead
<1>2. ASSUME NEW s \in Syncers, Fetch(s) PROVE AsRead'
  <2>1. PICK b \in SUBSET DueRows(Head(drains[s])) :
          batch'[s] = {[coord |-> c, attempts |-> row[c].attempts] : c \in b}
    BY <1>0, <1>2 DEF TypeOK, Fetch
  <2>2. row' = row /\ \A u \in Syncers \ {s} : batch'[u] = batch[u]
    BY <1>0, <1>2 DEF TypeOK, Fetch
  <2>3. \A i \in batch'[s] : row[i.coord].status = "pending" /\ row[i.coord].attempts = i.attempts
    BY <2>1 DEF DueRows
  <2> QED BY <1>0, <2>2, <2>3 DEF AsRead
<1>3. CASE Restart
  BY <1>3 DEF Restart, AsRead
<1>4. CASE batch' = batch /\ ~(\E s \in Syncers : Process(s))
  <2> SUFFICES ASSUME NEW s \in Syncers, NEW i \in batch[s]
               PROVE  row'[i.coord].status = "pending" /\ row'[i.coord].attempts = i.attempts
    BY <1>4 DEF AsRead
  <2>1. /\ i.coord \in Coords /\ row[i.coord].status = "pending"
        /\ row[i.coord].attempts = i.attempts
    BY AttemptLeft
  <2> QED BY <1>4, <2>1, RowMoves
<1> QED BY <1>1, <1>2, <1>3, <1>4 DEF Next, SyncStep, Tick, Request, Start, Look, LookFails,
           Add, Added, TryLock, Store, Unlock, Due, Age, Cleanup, vars

(* No step fails a row before its attempts are used up, or leaves it when  *)
(* they are.                                                               *)
LEMMA LimitNext ==
  ASSUME Inv, [Next]_vars
  PROVE  FailedWhenUsedUp'
<1> SUFFICES ASSUME NEW c \in Coords
             PROVE  row'[c].status = "failed" <=> row'[c].attempts = MaxAttempts
  BY DEF FailedWhenUsedUp
<1>0. row[c].status = "failed" <=> row[c].attempts = MaxAttempts
  BY DEF Inv, FailedWhenUsedUp
<1>1. ASSUME NEW s \in Syncers, Process(s)
      PROVE  row'[c].status = "failed" <=> row'[c].attempts = MaxAttempts
  <2>1. PICK i \in batch[s] : Outcome(i)
    BY <1>1, ProcessOutcome
  <2>2. CASE c # i.coord
    BY <1>0, <2>1, <2>2, OutcomeRows
  <2>3. CASE c = i.coord
    <3>1. i.attempts \in Nat /\ i.attempts + 1 \in 0..MaxAttempts /\ MaxAttempts \in Nat
      BY AttemptLeft, QueueAssumption
    <3>2. i.attempts # MaxAttempts
      BY <3>1
    <3> QED BY <1>0, <2>1, <2>3, <3>1, <3>2, OutcomeRows
  <2> QED BY <2>2, <2>3
<1>2. /\ NewRow.status # "failed" /\ NewRow.attempts # MaxAttempts
      /\ NoRow.status # "failed" /\ NoRow.attempts # MaxAttempts
  BY QueueAssumption DEF NewRow, NoRow
<1> QED BY <1>0, <1>1, <1>2, RowMoves

(* No step reports a licence as done that is not stored.                   *)
LEMMA StoredNext ==
  ASSUME Inv, [Next]_vars
  PROVE  DoneIsStored'
<1> SUFFICES ASSUME NEW c \in Coords \ ImportNames, row'[c].status = "done" PROVE c \in library'
  BY DEF DoneIsStored
<1>0. row[c].status = "done" => c \in library'
  BY AnswersNext DEF Inv, DoneIsStored
<1>1. ASSUME NEW s \in Syncers, Process(s) PROVE c \in library'
  <2>1. PICK i \in batch[s] : /\ Outcome(i)
                              /\ i.coord \notin ImportNames /\ row'[i.coord].status = "done"
                                   => i.coord \in answered[s]
    BY <1>1, ProcessOutcome
  <2>2. answered[s] \ ImportNames \subseteq library'
    BY AnswersNext DEF Inv, AnswersKept
  <2> QED BY <1>0, <2>1, <2>2, OutcomeRows
<1>2. NewRow.status # "done" /\ NoRow.status # "done"
  BY DEF NewRow, NoRow
<1> QED BY <1>0, <1>1, <1>2, RowMoves

-----------------------------------------------------------------------------
(* The queue's invariants hold together: each step that one of them        *)
(* constrains relies on the others.                                        *)
LEMMA Invariance == Spec => []Inv
<1>1. Init => Inv
  <2> SUFFICES ASSUME Init PROVE Inv
    OBVIOUS
  <2>1. NoRow \in Row /\ NoRow.status = "none" /\ NoRow.attempts = 0
    BY QueueAssumption DEF NoRow, Row
  <2>2. TypeOK
    BY <2>1 DEF Init, TypeOK, Plans
  <2>3. Held /\ AsRead /\ Planned /\ AnswersKept
    BY DEF Init, Held, AsRead, Planned, AnswersKept
  <2>4. FailedWhenUsedUp /\ DoneIsStored
    BY <2>1, QueueAssumption DEF Init, FailedWhenUsedUp, DoneIsStored
  <2> QED BY <2>2, <2>3, <2>4 DEF Inv
<1>2. Inv /\ [Next]_vars => Inv'
  BY TypeNext, HeldNext, AsReadNext, PlannedNext, LimitNext, AnswersNext, StoredNext DEF Inv
<1> QED BY <1>1, <1>2, PTL DEF Spec

(* Every variable keeps its type.                                          *)
THEOREM TypeCorrect == Spec => []TypeOK
<1>1. Inv => TypeOK
  BY DEF Inv
<1> QED BY <1>1, Invariance, PTL

(* The worker and the "synchronize now" calls never handle one row at the  *)
(* same time, and a row in a batch stays as it was read.                   *)
THEOREM RowsAreHandledOnce == Spec => []NoDoubleProcessing
<1>1. Inv => NoDoubleProcessing
  <2> SUFFICES ASSUME Inv, NEW s \in Syncers, NEW i \in batch[s]
               PROVE  /\ row[i.coord].status = "pending" /\ row[i.coord].attempts = i.attempts
                      /\ \A u \in Syncers : \A j \in batch[u] : j.coord = i.coord => u = s
    BY DEF NoDoubleProcessing
  <2>1. \A u \in Syncers : batch[u] # {} => u = s
    BY DEF Inv, Held
  <2> QED BY <2>1, AttemptLeft
<1> QED BY <1>1, Invariance, PTL

(* A row is failed exactly when its attempts are used up.                  *)
THEOREM AttemptsAreUsedUp == Spec => []FailedWhenUsedUp
<1>1. Inv => FailedWhenUsedUp
  BY DEF Inv
<1> QED BY <1>1, Invariance, PTL

(* A licence reported as done is in the local library: storing it comes    *)
(* before marking its row, and whatever falls between the two statements,  *)
(* a panic, a restart or the failure of either, leaves the row pending.    *)
THEOREM DoneLicencesAreStored == Spec => []DoneIsStored
<1>1. Inv => DoneIsStored
  BY DEF Inv
<1> QED BY <1>1, Invariance, PTL

-----------------------------------------------------------------------------
(* The queue seen without those who drain it.                              *)

(* What the abstract queue sees of the state.                              *)
StateOf == [c \in Coords |-> row[c].status]
TriesOf == [c \in Coords |-> row[c].attempts]
RipeOf  == {c \in Coords : row[c].status = "pending" /\ row[c].due}
HandOf  == {c \in Coords : \E s \in Syncers : \E i \in batch[s] : i.coord = c}

LEMMA Seen ==
  ASSUME row' = row, batch' = batch
  PROVE  StateOf' = StateOf /\ TriesOf' = TriesOf /\ RipeOf' = RipeOf /\ HandOf' = HandOf
BY DEF StateOf, TriesOf, RipeOf, HandOf

(* A step that changes no row, no batch and nothing in the library.        *)
LEMMA UnseenStep ==
  ASSUME UNCHANGED <<row, batch, library>>
  PROVE  UNCHANGED Queue!vars
BY Seen DEF Queue!vars, StateOf, TriesOf, RipeOf, HandOf

(* The rows of a new batch are in hand, and no others.                     *)
LEMMA FetchStep ==
  ASSUME Inv, NEW s \in Syncers, Fetch(s)
  PROVE  Queue!Next
<1>1. PICK b \in SUBSET DueRows(Head(drains[s])) :
        /\ \/ Cardinality(b) = BatchSize
           \/ b = DueRows(Head(drains[s])) /\ Cardinality(b) < BatchSize
           \/ b = {}
        /\ batch' = [batch EXCEPT ![s] = {[coord |-> c, attempts |-> row[c].attempts] : c \in b}]
  BY DEF Fetch
<1>2. b \subseteq Coords /\ b \subseteq RipeOf
  BY QueueAssumption DEF DueRows, OfKind, RipeOf
<1>3. HandOf = {}
  BY DEF Fetch, Inv, Held, HandOf
<1>4. HandOf' = b
  <2>1. /\ batch'[s] = {[coord |-> c, attempts |-> row[c].attempts] : c \in b}
        /\ \A u \in Syncers \ {s} : batch'[u] = {}
    BY <1>1 DEF Fetch, Inv, TypeOK, Held
  <2>2. ASSUME NEW c \in b PROVE \E i \in batch'[s] : i.coord = c
    <3>1. [coord |-> c, attempts |-> row[c].attempts] \in batch'[s]
      BY <2>1
    <3> QED BY <3>1
  <2>3. ASSUME NEW u \in Syncers, NEW i \in batch'[u] PROVE i.coord \in b
    <3>1. i \in {[coord |-> c, attempts |-> row[c].attempts] : c \in b}
      BY <2>1
    <3> QED BY <3>1
  <2> QED BY <1>2, <2>2, <2>3 DEF HandOf
<1>5. Cardinality(b) <= BatchSize
  BY <1>1, <1>2, QueueAssumption, FS_Subset, FS_CardinalityType, FS_EmptySet
<1>6. UNCHANGED <<StateOf, TriesOf, RipeOf, library>>
  BY DEF Fetch, StateOf, TriesOf, RipeOf
<1>7. Queue!Take(b)
  BY <1>2, <1>3, <1>4, <1>5, <1>6 DEF Queue!Take, Cardinality, Queue!Cardinality,
     StateOf, TriesOf, RipeOf, HandOf
<1> QED BY <1>2, <1>7 DEF Queue!Next

(* An item that was handled is in nobody's hand.                           *)
LEMMA OutOfHand ==
  ASSUME Inv, NEW s \in Syncers, pc[s] = "drain", NEW i \in batch[s], Handled(s, i)
  PROVE  i.coord \in HandOf /\ HandOf' = HandOf \ {i.coord}
<1>1. i.coord \in Coords
  BY AttemptLeft
<1>2. batch'[s] = batch[s] \ {i} /\ \A u \in Syncers \ {s} : batch[u] = {} /\ batch'[u] = {}
  BY DEF Handled, Inv, TypeOK, Held
<1>3. HandOf = {c \in Coords : \E j \in batch[s] : j.coord = c}
  BY <1>2 DEF HandOf
<1>4. HandOf' = {c \in Coords : \E j \in batch[s] \ {i} : j.coord = c}
  BY <1>2 DEF HandOf
<1>5. \A j \in batch[s] : j.coord = i.coord => j = i
  BY CopiesAgree
<1> QED BY <1>1, <1>3, <1>4, <1>5

(* Changing the row of an item that is handled.                            *)
LEMMA PutStep ==
  ASSUME Inv, NEW s \in Syncers, pc[s] = "drain", NEW i \in batch[s], Handled(s, i),
         NEW new \in Row, row' = [row EXCEPT ![i.coord] = new], ~new.due
  PROVE  /\ Queue!Put(i.coord, new.status)
         /\ TriesOf' = [TriesOf EXCEPT ![i.coord] = new.attempts]
<1>1. i.coord \in Coords /\ row \in [Coords -> Row]
  BY AttemptLeft DEF Inv, TypeOK
<1>2. row'[i.coord] = new /\ \A c \in Coords : c # i.coord => row'[c] = row[c]
  BY <1>1
<1>3. StateOf' = [StateOf EXCEPT ![i.coord] = new.status]
  BY <1>1, <1>2 DEF StateOf
<1>4. TriesOf' = [TriesOf EXCEPT ![i.coord] = new.attempts]
  BY <1>1, <1>2 DEF TriesOf
<1>5. RipeOf' = RipeOf \ {i.coord}
  BY <1>1, <1>2 DEF RipeOf
<1> QED BY <1>3, <1>4, <1>5, OutOfHand DEF Queue!Put, StateOf, RipeOf, HandOf

(* Marking it as done or skipped leaves its attempts as they are.          *)
LEMMA MarkStep ==
  ASSUME Inv, NEW s \in Syncers, pc[s] = "drain", NEW i \in batch[s], Handled(s, i),
         NEW st \in {"done", "skipped"}, Mark(i.coord, st)
  PROVE  Queue!Put(i.coord, st) /\ TriesOf' = TriesOf
<1>1. i.coord \in Coords /\ row[i.coord] \in Row
  BY AttemptLeft
<1>2. PICK new \in Row : new = [row[i.coord] EXCEPT !.status = st, !.due = FALSE]
  BY <1>1 DEF Row
<1>3. row' = [row EXCEPT ![i.coord] = new]
  BY <1>1, <1>2 DEF Mark, Inv, TypeOK
<1>4. /\ new.status = st /\ ~new.due
      /\ new.attempts = row[i.coord].attempts
  BY <1>1, <1>2 DEF Row
<1>5. [TriesOf EXCEPT ![i.coord] = new.attempts] = TriesOf
  BY <1>1, <1>4 DEF TriesOf
<1> QED BY <1>3, <1>4, <1>5, PutStep

(* Trying it again counts, and fails it at the limit.                      *)
LEMMA RetryStep ==
  ASSUME Inv, NEW s \in Syncers, pc[s] = "drain", NEW i \in batch[s], Handled(s, i), Retry(i),
         i.coord \notin ImportNames
  PROVE  Queue!Retry(i.coord)
<1> DEFINE n == i.attempts + 1
           st == IF n = MaxAttempts THEN "failed" ELSE "pending"
<1>1. /\ i.coord \in Coords /\ row[i.coord] \in Row /\ n \in 0..MaxAttempts
      /\ i.attempts \in Nat /\ row[i.coord].attempts = i.attempts
  BY AttemptLeft
<1>2. PICK new \in Row : new = [row[i.coord] EXCEPT !.status = st, !.attempts = n, !.due = FALSE]
  BY <1>1 DEF Row
<1>3. n >= MaxAttempts <=> n = MaxAttempts
  BY <1>1, QueueAssumption
<1>4. row' = [row EXCEPT ![i.coord] = new]
  BY <1>2, <1>3 DEF Retry
<1>5. Queue!Put(i.coord, st) /\ TriesOf' = [TriesOf EXCEPT ![i.coord] = n]
  <2>1. new.status = st /\ ~new.due /\ new.attempts = n
    BY <1>1, <1>2 DEF Row
  <2> HIDE DEF st, n
  <2> QED BY <1>4, <2>1, PutStep
<1>6. TriesOf[i.coord] = i.attempts /\ TriesOf[i.coord] < MaxAttempts
  BY <1>1, QueueAssumption DEF TriesOf
<1>7. TriesOf' = [TriesOf EXCEPT ![i.coord] = @ + 1] /\ TriesOf'[i.coord] = n
  BY <1>1, <1>5, <1>6 DEF TriesOf
<1>8. i.coord \in HandOf \ ImportNames
  BY OutOfHand
<1>9. Queue!Put(i.coord, IF TriesOf'[i.coord] = MaxAttempts THEN "failed" ELSE "pending")
  BY <1>5, <1>7 DEF Queue!Put
<1>10. library' = library
  BY DEF Handled
<1> QED BY <1>6, <1>7, <1>8, <1>9, <1>10 DEF Queue!Retry, TriesOf, HandOf

(* Storing an answer keeps it, unless nothing comes into the library.      *)
LEMMA StoreStep ==
  ASSUME Inv, NEW s \in Syncers, Store(s)
  PROVE  [Queue!Next]_(Queue!vars)
<1>1. PICK i \in batch[s] : library' = library \cup {i.coord} \/ UNCHANGED library
  BY DEF Store
<1>2. UNCHANGED <<row, batch>> /\ i.coord \in Coords
  BY AttemptLeft DEF Store
<1>3. i.coord \in HandOf
  BY <1>2 DEF HandOf
<1>4. CASE library' = library \cup {i.coord}
  <2>1. Queue!Keep(i.coord)
    BY <1>2, <1>3, <1>4, Seen DEF Queue!Keep, StateOf, TriesOf, RipeOf, HandOf
  <2> QED BY <1>2, <2>1 DEF Queue!Next
<1>5. CASE UNCHANGED library
  BY <1>2, <1>5, UnseenStep
<1> QED BY <1>1, <1>4, <1>5

(* Handling an item finishes, skips or retries it, or drops it.            *)
LEMMA ProcessStep ==
  ASSUME Inv, NEW s \in Syncers, Process(s)
  PROVE  Queue!Next
<1>1. PICK i \in batch[s] :
        /\ License(s, i) \/ Import(s, i) \/ UNCHANGED row
        /\ Handled(s, i)
  BY DEF Process
<1>2. /\ pc[s] = "drain" /\ i.coord \in Coords /\ i.coord \in HandOf
      /\ HandOf' = HandOf \ {i.coord} /\ library' = library
  BY <1>1, OutOfHand, AttemptLeft DEF Process, Handled
<1>3. ASSUME Mark(i.coord, "done"), i.coord \in library \cup ImportNames
      PROVE  Queue!Finish(i.coord)
  BY <1>1, <1>2, <1>3, MarkStep DEF Queue!Finish, TriesOf, HandOf
<1>4. ASSUME Mark(i.coord, "skipped")
      PROVE  Queue!Skip(i.coord)
  BY <1>1, <1>2, <1>4, MarkStep DEF Queue!Skip, TriesOf, HandOf
<1>5. CASE License(s, i)
  <2>1. i.coord \in answered[s] => i.coord \in library \cup ImportNames
    BY DEF Inv, AnswersKept
  <2> QED BY <1>1, <1>2, <1>3, <1>4, <1>5, <2>1, RetryStep DEF License, Queue!Next
<1>6. CASE Import(s, i)
  BY <1>1, <1>2, <1>3, <1>4, <1>6 DEF Import, Queue!Next
<1>7. CASE UNCHANGED row
  <2>1. UNCHANGED <<StateOf, TriesOf, RipeOf>>
    BY <1>7 DEF StateOf, TriesOf, RipeOf
  <2>2. Queue!Drop({i.coord})
    BY <1>2, <1>7, <2>1 DEF Queue!Drop, StateOf, TriesOf, RipeOf, HandOf
  <2> QED BY <1>2, <2>2 DEF Queue!Next
<1> QED BY <1>1, <1>5, <1>6, <1>7

(* Adding what is missing enqueues what the table does not hold.           *)
LEMMA AddStep ==
  ASSUME Inv, NEW s \in Syncers, Add(s)
  PROVE  Queue!Next
<1>0. missing[s] \in SUBSET Coords /\ row \in [Coords -> Row]
  BY DEF Inv, TypeOK
<1>1. PICK new \in SUBSET Coords :
        new = IF row' = row THEN {} ELSE {c \in missing[s] : row[c].status = "none"}
  BY <1>0
<1>2. \A c \in Coords : row'[c] = IF c \in new THEN NewRow ELSE row[c]
  BY <1>0, <1>1 DEF Add
<1>3. StateOf' = [c \in Coords |-> IF c \in new THEN "pending" ELSE StateOf[c]]
  BY <1>2 DEF StateOf, NewRow
<1>4. TriesOf' = [c \in Coords |-> IF c \in new THEN 0 ELSE TriesOf[c]]
  BY <1>2 DEF TriesOf, NewRow
<1>5. RipeOf' = RipeOf \cup new
  BY <1>1, <1>2 DEF RipeOf, NewRow
<1>6. HandOf' = HandOf /\ library' = library
  BY DEF Add, HandOf
<1>7. \A c \in new : StateOf[c] = "none"
  BY <1>1 DEF StateOf
<1>8. Queue!Enqueue(new)
  BY <1>3, <1>4, <1>5, <1>6, <1>7 DEF Queue!Enqueue, StateOf, TriesOf, RipeOf, HandOf
<1> QED BY <1>8 DEF Queue!Next

(* The cleanup forgets.                                                    *)
LEMMA CleanupStep ==
  ASSUME Inv, Cleanup
  PROVE  Queue!Next
<1>0. PICK old \in SUBSET Coords :
        old = {c \in Coords : row[c].status \in {"done", "skipped"} /\ row[c].due}
  OBVIOUS
<1>1. \A c \in Coords : row'[c] = IF c \in old THEN NoRow ELSE row[c]
  BY <1>0 DEF Cleanup
<1>2. StateOf' = [c \in Coords |-> IF c \in old THEN "none" ELSE StateOf[c]]
  BY <1>1 DEF StateOf, NoRow
<1>3. TriesOf' = [c \in Coords |-> IF c \in old THEN 0 ELSE TriesOf[c]]
  BY <1>1 DEF TriesOf, NoRow
<1>4. RipeOf' = RipeOf
  BY <1>0, <1>1 DEF RipeOf, NoRow
<1>5. HandOf' = HandOf /\ library' = library
  BY DEF Cleanup, HandOf
<1>6. \A c \in old : StateOf[c] \in {"done", "skipped"}
  BY <1>0 DEF StateOf
<1>7. Queue!Forget(old)
  BY <1>2, <1>3, <1>4, <1>5, <1>6 DEF Queue!Forget, StateOf, TriesOf, RipeOf, HandOf
<1> QED BY <1>7 DEF Queue!Next

(* A back-off that passes makes an item ripe; a retention changes nothing. *)
LEMMA TimeStep ==
  ASSUME Inv, NEW c \in Coords, Due(c) \/ Age(c)
  PROVE  [Queue!Next]_(Queue!vars)
<1>1. row \in [Coords -> Row] /\ row' = [row EXCEPT ![c].due = TRUE]
      /\ batch' = batch /\ library' = library
  BY DEF Inv, TypeOK, Due, Age
<1>2. \A d \in Coords : /\ row'[d].status = row[d].status /\ row'[d].attempts = row[d].attempts
                        /\ row'[d].due = IF d = c THEN TRUE ELSE row[d].due
  BY <1>1 DEF Row
<1>3. StateOf' = StateOf /\ TriesOf' = TriesOf /\ HandOf' = HandOf
  BY <1>1, <1>2 DEF StateOf, TriesOf, HandOf
<1>4. CASE row[c].status = "pending"
  <2>1. RipeOf' = RipeOf \cup {c}
    BY <1>2, <1>4 DEF RipeOf
  <2>2. StateOf[c] = "pending"
    BY <1>4 DEF StateOf
  <2>3. Queue!Ripen(c)
    BY <1>1, <1>3, <2>1, <2>2 DEF Queue!Ripen, StateOf, TriesOf, RipeOf, HandOf
  <2> QED BY <2>3 DEF Queue!Next
<1>5. CASE row[c].status # "pending"
  <2>1. RipeOf' = RipeOf
    BY <1>2, <1>5 DEF RipeOf
  <2> QED BY <1>1, <1>3, <2>1 DEF Queue!vars, StateOf, TriesOf, RipeOf, HandOf
<1> QED BY <1>4, <1>5

(* A restart drops whatever is in hand.                                    *)
LEMMA RestartStep ==
  ASSUME Restart
  PROVE  Queue!Next
<1>1. HandOf' = {}
  BY DEF Restart, HandOf
<1>2. UNCHANGED <<StateOf, TriesOf, RipeOf, library>>
  BY DEF Restart, StateOf, TriesOf, RipeOf
<1>3. PICK some \in SUBSET Coords : some = HandOf
  BY DEF HandOf
<1>4. Queue!Drop(some)
  BY <1>1, <1>2, <1>3 DEF Queue!Drop, StateOf, TriesOf, RipeOf, HandOf
<1> QED BY <1>4 DEF Queue!Next

(* Every step is one of the abstract queue, or nothing it can see.         *)
LEMMA QueueNext ==
  ASSUME Inv, [Next]_vars
  PROVE  [Queue!Next]_(Queue!vars)
<1>1. CASE UNCHANGED <<row, batch, library>>
  BY <1>1, UnseenStep
<1>2. ASSUME NEW s \in Syncers, Add(s) \/ Fetch(s) \/ Process(s) PROVE Queue!Next
  BY <1>2, AddStep, FetchStep, ProcessStep
<1>5. ASSUME NEW s \in Syncers, Store(s) PROVE [Queue!Next]_(Queue!vars)
  BY <1>5, StoreStep
<1>3. ASSUME NEW c \in Coords, Due(c) \/ Age(c) PROVE [Queue!Next]_(Queue!vars)
  BY <1>3, TimeStep
<1>4. CASE Cleanup \/ Restart
  BY <1>4, CleanupStep, RestartStep
<1> QED BY <1>1, <1>2, <1>3, <1>4, <1>5 DEF Next, SyncStep, Tick, Request, Start, Look,
           LookFails, Added, TryLock, Unlock, vars

LEMMA QueueInit == Init => Queue!Init
<1> SUFFICES ASSUME Init PROVE Queue!Init
  OBVIOUS
<1>1. StateOf = [c \in Coords |-> "none"] /\ TriesOf = [c \in Coords |-> 0] /\ RipeOf = {}
  BY DEF Init, StateOf, TriesOf, RipeOf, NoRow
<1>2. HandOf = {} /\ library = {}
  BY DEF Init, HandOf
<1> QED BY <1>1, <1>2 DEF Queue!Init, StateOf, TriesOf, RipeOf, HandOf

(* The worker, the requests and the scans together are a queue from which  *)
(* one hand at a time takes due items, and which loses none.               *)
THEOREM SyncersImplementQueue == Spec => ImplementsQueue
<1>1. Init => Queue!Init
  BY QueueInit
<1>2. Inv /\ [Next]_vars => [Queue!Next]_(Queue!vars)
  BY QueueNext
<1> QED BY <1>1, <1>2, Invariance, PTL DEF Spec, ImplementsQueue, Queue!Spec
=============================================================================
