--------------------------- MODULE ReviewStageProofs ---------------------------
(* Theorems about the batch review stage, with its conversations, for any  *)
(* number of batches, size of a wave and budgets of a conversation.        *)
EXTENDS AgenticBatch, FiniteSetTheorems, SequenceTheorems, WellFoundedInduction, TLAPS

(* The wave that is executed starts where one may start; batches of later  *)
(* waves were not touched, those of earlier ones are done.                 *)
InWave ==
  /\ \E k \in Nat : first = k * MaxParallel + 1
  /\ \A b \in Batches : pc[b] # "idle" => b <= count /\ b < first + MaxParallel
  /\ mode \in Reviewing \cup {"ok"} =>
       \A b \in Batches : b < first /\ b <= count => pc[b] = "ended"

(* A goroutine works only while Execute waits for it.                      *)
Over == {"idle", "ended", "broken"}
Working ==
  /\ mode = "start" => count = 0 /\ first = 1
  /\ \A b \in Batches :
       /\ pc[b] \notin Over => mode \in Reviewing
       /\ pc[b] = "chat" => mode = "agentic"

(* A row is running only under the goroutine that made it.                 *)
RowsRun ==
  \A b \in Batches, a \in Attempts : row[b][a] = "running" =>
    \/ a = "agentic" /\ pc[b] = "chat"
    \/ a = Collected /\ pc[b] = "collect"

(* The attempt whose result a goroutine is about to store.                 *)
Stored(b) == IF mode = "agentic" /\ row[b]["agentic"] = "success" THEN "agentic" ELSE Collected

Results ==
  mode \in Reviewing \cup {"ok"} => \A b \in Batches :
    /\ pc[b] = "store" => row[b][Stored(b)] = "success"
    /\ pc[b] = "ended" => result[b] # "none" /\ row[b][result[b]] = "success"

(* Tokens: a plain review adds those of a batch with its result, an        *)
(* agentic one all of them at its end.                                     *)
Tokens ==
  \A b \in Batches :
    /\ mode \in {"start", "agentic"} => counted[b] = 0
    /\ mode = "plain" => counted[b] = IF pc[b] = "ended" THEN 1 ELSE 0
    /\ mode = "ok" /\ b <= count => counted[b] = 1

AllEnded == mode = "ok" => \A b \in Batches : b <= count => pc[b] = "ended"

Inv == TypeOK /\ InWave /\ Working /\ RowsRun /\ Results /\ Tokens /\ AllEnded

-----------------------------------------------------------------------------
(* Initially.                                                              *)
LEMMA InitInv == Init => Inv
<1> SUFFICES ASSUME Init PROVE Inv
  OBVIOUS
<1>1. TypeOK
  <2>1. 0 \in 0..MaxBatches /\ 1 \in 1..MaxBatches
    BY ReviewAssumption
  <2>2. [b \in Batches |-> [a \in Attempts |-> "none"]] \in [Batches -> [Attempts -> Statuses]]
    BY DEF Statuses
  <2>3. pc \in [Batches -> Pcs] /\ mode \in Modes /\ planRow \in Statuses
    BY DEF Init, Pcs, Modes, Statuses
  <2>4. result \in [Batches -> Attempts \cup {"none"}] /\ counted \in [Batches -> 0..1]
    BY DEF Init
  <2>5. count \in 0..MaxBatches /\ first \in 1..MaxBatches
    BY <2>1 DEF Init
  <2>6. row \in [Batches -> [Attempts -> Statuses]] /\ cancelled \in BOOLEAN /\ doomed \subseteq Batches
    BY <2>2 DEF Init
  <2> QED BY <2>3, <2>4, <2>5, <2>6 DEF TypeOK
<1>3. InWave
  <2>1. 0 \in Nat /\ first = 0 * MaxParallel + 1
    BY ReviewAssumption DEF Init
  <2> QED BY <2>1 DEF Init, InWave, Reviewing
<1>4. Working /\ RowsRun /\ Results /\ Tokens /\ AllEnded
  BY DEF Init, Working, RowsRun, Results, Tokens, AllEnded, Over, Reviewing
<1> QED BY <1>1, <1>3, <1>4 DEF Inv

-----------------------------------------------------------------------------
(* What every step of a goroutine does to the rest of the stage.           *)
BatchMove(b) ==
  /\ pc[b] \notin Over
  /\ pc' = [pc EXCEPT ![b] = pc'[b]]
  /\ pc'[b] \in Pcs \ {"idle", "check"}
  /\ row' = [row EXCEPT ![b] = row'[b]]
  /\ UNCHANGED <<count, planRow, mode, first, cancelled>>

LEMMA GoroutineMoves ==
  ASSUME TypeOK, NEW b \in Batches, BatchStep(b)
  PROVE  BatchMove(b)
<1> USE DEF BatchMove, Over, Pcs, Goto, MarkRow, TypeOK
<1>1. CASE SeeCancel(b)
  BY <1>1 DEF SeeCancel
<1>2. CASE Begin(b)
  BY <1>2 DEF Begin
<1>3. CASE ChatOk(b)
  BY <1>3 DEF ChatOk
<1>4. CASE ChatFails(b)
  BY <1>4 DEF ChatFails
<1>5. CASE CollectOk(b)
  BY <1>5 DEF CollectOk
<1>6. CASE CollectFails(b)
  BY <1>6 DEF CollectFails
<1>7. CASE Store(b)
  BY <1>7 DEF Store
<1> QED BY <1>1, <1>2, <1>3, <1>4, <1>5, <1>6, <1>7 DEF BatchStep

(* Which part of the state a step of a goroutine leaves alone.             *)
LEMMA GoroutineKeeps ==
  ASSUME NEW b \in Batches, BatchStep(b)
  PROVE  /\ pc[b] # "store" => UNCHANGED <<result, counted>>
         /\ pc[b] = "store" => UNCHANGED <<row, doomed>>
         /\ pc[b] = "store" => Store(b)
BY DEF BatchStep, SeeCancel, Begin, ChatOk, ChatFails, CollectOk, CollectFails, Store

-----------------------------------------------------------------------------
(* Types.                                                                  *)
LEMMA TypeGoroutine ==
  ASSUME Inv, NEW b \in Batches, BatchStep(b)
  PROVE  TypeOK'
<1> USE DEF Inv
<1>1. BatchMove(b)
  BY GoroutineMoves
<1>2. /\ count' \in 0..MaxBatches /\ planRow' \in Statuses /\ mode' \in Modes
      /\ first' \in 1..MaxBatches /\ cancelled' \in BOOLEAN
      /\ pc' \in [Batches -> Pcs]
  BY <1>1 DEF BatchMove, TypeOK
<1>3. doomed' \subseteq Batches
  BY DEF BatchStep, SeeCancel, Begin, ChatOk, ChatFails, CollectOk, CollectFails, Store, StartCall, TypeOK
<1>4. row' \in [Batches -> [Attempts -> Statuses]]
  <2>1. \A s \in Statuses, a \in Attempts :
          [row EXCEPT ![b][a] = s] \in [Batches -> [Attempts -> Statuses]]
    BY DEF TypeOK
  <2>2. [row EXCEPT ![b]["agentic"] = "skipped", ![b]["fallback"] = "running"]
          \in [Batches -> [Attempts -> Statuses]]
    BY DEF TypeOK, Attempts, Statuses
  <2>3. /\ {"running", "success", "failed"} \subseteq Statuses
        /\ {"agentic", "fallback", "plain"} \subseteq Attempts
    BY DEF Statuses, Attempts
  <2>4. mode \in Reviewing => mode \in Attempts
    BY DEF Reviewing, Attempts
  <2>5. CASE Begin(b)
    <3>1. mode \in Reviewing
      BY <1>1 DEF Working, BatchMove
    <3> QED BY <2>1, <2>3, <2>4, <2>5, <3>1 DEF Begin, MarkRow
  <2>6. CASE ChatFails(b)
    BY <2>2, <2>6 DEF ChatFails
  <2>7. CASE ChatOk(b) \/ CollectOk(b) \/ CollectFails(b)
    BY <2>1, <2>3, <2>7 DEF ChatOk, CollectOk, CollectFails, MarkRow, Collected
  <2>8. CASE SeeCancel(b) \/ Store(b)
    BY <2>8 DEF SeeCancel, Store, TypeOK
  <2> QED BY <2>5, <2>6, <2>7, <2>8 DEF BatchStep
<1>5. result' \in [Batches -> Attempts \cup {"none"}] /\ counted' \in [Batches -> 0..1]
  <2>1. CASE pc[b] = "store"
    <3>1. Store(b)
      BY <2>1, GoroutineKeeps
    <3>2. mode = "plain" => counted[b] = 0
      BY <2>1 DEF Tokens
    <3>3. mode = "plain" => counted' = [counted EXCEPT ![b] = 1]
      BY <3>1, <3>2 DEF Store, TypeOK
    <3> QED BY <3>1, <3>3 DEF Store, TypeOK, Attempts, Collected
  <2>2. CASE pc[b] # "store"
    BY <2>2, GoroutineKeeps DEF TypeOK
  <2> QED BY <2>1, <2>2
<1> QED BY <1>2, <1>3, <1>4, <1>5 DEF TypeOK

LEMMA TypeStage ==
  ASSUME Inv, StageStep
  PROVE  TypeOK'
<1> USE DEF Inv
<1>2. {"check", "idle"} \subseteq Pcs
  BY DEF Pcs
<1>3. \A f, n : Launched(f, n) \in [Batches -> Pcs]
  BY <1>2 DEF Launched
<1>4. /\ {"agentic", "plain", "ok", "failed"} \subseteq Modes
      /\ {"success", "failed"} \subseteq Statuses
      /\ 0 \in 0..MaxBatches /\ 1 \in 1..MaxBatches
  BY ReviewAssumption DEF Modes, Statuses
<1>5. CASE Plan
  <2>1. count' \in 0..MaxBatches /\ pc' \in [Batches -> Pcs] /\ mode' \in Modes
    BY <1>3, <1>4, <1>5 DEF Plan, Reviewing
  <2> QED BY <1>4, <1>5, <2>1 DEF Plan, TypeOK
<1>6. CASE PlanFails
  BY <1>4, <1>6 DEF PlanFails, TypeOK
<1>7. CASE NextWave
  <2>1. first' \in 1..MaxBatches
    BY <1>7, ReviewAssumption DEF NextWave, IsLast, TypeOK
  <2>2. pc' \in [Batches -> Pcs]
    BY <1>2, <1>7 DEF NextWave, TypeOK
  <2> QED BY <1>7, <2>1, <2>2 DEF NextWave, TypeOK
<1>8. CASE Finish
  <2>1. counted' \in [Batches -> 0..1]
    <3>1. CASE mode = "plain"
      BY <1>8, <3>1 DEF Finish, TypeOK
    <3>2. CASE mode # "plain"
      <4>1. \A b \in Batches : counted[b] = 0
        BY <1>8, <3>2 DEF Finish, WaveDone, Reviewing, Tokens
      <4> QED BY <1>8, <3>2, <4>1 DEF Finish, TypeOK
    <3> QED BY <3>1, <3>2
  <2> QED BY <1>4, <1>8, <2>1 DEF Finish, TypeOK
<1>9. CASE StartOver
  <2>1. result' \in [Batches -> Attempts \cup {"none"}]
    BY <1>9 DEF StartOver
  <2> QED BY <1>3, <1>4, <1>9, <2>1 DEF StartOver, TypeOK
<1>10. CASE Fail
  BY <1>4, <1>10 DEF Fail, TypeOK
<1> QED BY <1>5, <1>6, <1>7, <1>8, <1>9, <1>10 DEF StageStep

-----------------------------------------------------------------------------
(* Waves.                                                                  *)
LEMMA WaveGoroutine ==
  ASSUME Inv, NEW b \in Batches, BatchStep(b)
  PROVE  InWave' /\ Working'
<1> USE DEF Inv
<1>1. BatchMove(b)
  BY GoroutineMoves
<1>2. mode \in Reviewing
  BY <1>1 DEF BatchMove, Working
<1>3. pc'[b] = "chat" => mode = "agentic"
  BY DEF BatchStep, SeeCancel, Begin, ChatOk, ChatFails, CollectOk, CollectFails, Store, Goto, TypeOK
<1>4. Working'
  BY <1>1, <1>2, <1>3 DEF Working, BatchMove, TypeOK, Reviewing
<1>5. InWave'
  <2>1. \A c \in Batches : pc'[c] # "idle" => pc[c] # "idle"
    BY <1>1 DEF BatchMove, Over, TypeOK
  <2>2. \A c \in Batches : pc[c] = "ended" => pc'[c] = "ended"
    BY <1>1 DEF BatchMove, Over, TypeOK
  <2> QED BY <1>1, <2>1, <2>2 DEF InWave, BatchMove
<1> QED BY <1>4, <1>5

(* When a wave is done, no goroutine works.                                *)
LEMMA AllOver ==
  ASSUME Inv, WaveDone
  PROVE  \A b \in Batches : pc[b] \in Over
BY ReviewAssumption DEF Inv, WaveDone, InWave, Current, Wave, Over, Batches, TypeOK

LEMMA WaveStage ==
  ASSUME Inv, StageStep
  PROVE  InWave' /\ Working'
<1> USE DEF Inv
<1>1. 0 \in Nat /\ 1 = 0 * MaxParallel + 1
  BY ReviewAssumption
<1>2. \A n \in 0..MaxBatches, b \in Batches :
        Launched(1, n)[b] # "idle" => b <= n /\ b < 1 + MaxParallel
  BY DEF Launched, Wave
<1>3. \A n \in 0..MaxBatches, b \in Batches : Launched(1, n)[b] \in {"check", "idle"}
  BY DEF Launched
<1>4. CASE Plan
  <2>1. first' = 1
    BY <1>4 DEF Plan, Working
  <2>2. Working'
    BY <1>3, <1>4 DEF Plan, Working, Reviewing
  <2>3. \A b \in Batches : pc'[b] # "idle" => b <= count' /\ b < first' + MaxParallel
    BY <1>2, <1>4, <2>1 DEF Plan
  <2>4. \A b \in Batches : ~ (b < first')
    BY <2>1, ReviewAssumption DEF Batches
  <2> QED BY <1>1, <2>1, <2>2, <2>3, <2>4 DEF InWave
<1>5. CASE PlanFails
  <2>1. \A b \in Batches : pc[b] = "idle"
    BY <1>5, ReviewAssumption DEF PlanFails, Working, InWave, Batches
  <2> QED BY <1>5, <2>1 DEF PlanFails, Working, InWave, Reviewing, Over
<1>6. CASE NextWave
  <2>1. \A b \in Batches : pc[b] \in Over
    BY <1>6, AllOver DEF NextWave
  <2>2. mode \in Reviewing /\ mode' = mode /\ count' = count
    BY <1>6 DEF NextWave, WaveDone
  <2>3. \A b \in Batches : pc'[b] # "chat"
    BY <1>6, <2>1 DEF NextWave, TypeOK, Over
  <2>4. Working'
    BY <2>2, <2>3 DEF Working, Reviewing
  <2>5. \E k \in Nat : first' = k * MaxParallel + 1
    <3>1. PICK k \in Nat : first = k * MaxParallel + 1
      BY DEF InWave
    <3>2. first' = (k + 1) * MaxParallel + 1 /\ k + 1 \in Nat
      BY <1>6, <3>1, ReviewAssumption DEF NextWave
    <3> QED BY <3>2
  <2>6. \A b \in Batches : pc'[b] # "idle" => b <= count' /\ b < first' + MaxParallel
    BY <1>6, <2>2, ReviewAssumption DEF NextWave, Wave, InWave, Batches, TypeOK
  <2>7. \A b \in Batches : b < first' /\ b <= count => pc[b] = "ended"
    BY <1>6, <2>2, ReviewAssumption DEF NextWave, Unbroken, Current, Wave, InWave, Batches, TypeOK
  <2>8. \A b \in Batches : b < first' => b \notin Wave(first', count)
    BY <1>6, ReviewAssumption DEF NextWave, Wave, Batches, TypeOK
  <2>9. \A b \in Batches : b < first' /\ b <= count' => pc'[b] = "ended"
    BY <1>6, <2>2, <2>7, <2>8 DEF NextWave, TypeOK
  <2> QED BY <2>4, <2>5, <2>6, <2>9 DEF InWave
<1>7. CASE Finish \/ Fail
  <2>1. \A b \in Batches : pc[b] \in Over
    BY <1>7, AllOver DEF Finish, Fail
  <2>2. mode \in Reviewing /\ mode' \in {"ok", "failed"}
    BY <1>7 DEF Finish, Fail, WaveDone
  <2>3. UNCHANGED <<pc, first, count>>
    BY <1>7 DEF Finish, Fail
  <2> QED BY <2>1, <2>2, <2>3 DEF Working, InWave, Over, Reviewing
<1>8. CASE StartOver
  <2>1. first' = 1 /\ mode' = "plain" /\ count' = count /\ pc' = Launched(1, count)
    BY <1>8 DEF StartOver
  <2>2. Working'
    BY <1>3, <2>1 DEF Working, Reviewing, TypeOK
  <2>3. \A b \in Batches : pc'[b] # "idle" => b <= count' /\ b < first' + MaxParallel
    BY <1>2, <2>1 DEF TypeOK
  <2>4. \A b \in Batches : ~ (b < first')
    BY <2>1, ReviewAssumption DEF Batches
  <2> QED BY <1>1, <2>1, <2>2, <2>3, <2>4 DEF InWave
<1> QED BY <1>4, <1>5, <1>6, <1>7, <1>8 DEF StageStep

-----------------------------------------------------------------------------
(* Rows, results and tokens.                                               *)
LEMMA RowsGoroutine ==
  ASSUME Inv, NEW b \in Batches, BatchStep(b)
  PROVE  RowsRun'
<1> USE DEF Inv
<1>1. BatchMove(b)
  BY GoroutineMoves
<1>2. Collected' = Collected
  BY <1>1 DEF BatchMove, Collected
<1>3. \A a \in Attempts : row'[b][a] = "running" =>
        (a = "agentic" /\ pc'[b] = "chat") \/ (a = Collected /\ pc'[b] = "collect")
  <2>1. CASE Begin(b)
    <3>1. mode \in Reviewing
      BY <1>1 DEF Working, BatchMove
    <3>2. \A a \in Attempts : row[b][a] # "running"
      BY <2>1 DEF Begin, RowsRun
    <3>3. mode \in Attempts
      BY <3>1 DEF Reviewing, Attempts
    <3>4. \A a \in Attempts : row'[b][a] = "running" => a = mode
      BY <2>1, <3>2, <3>3 DEF Begin, MarkRow, TypeOK
    <3>5. pc'[b] = IF mode = "agentic" THEN "chat" ELSE "collect"
      BY <2>1 DEF Begin, Goto, TypeOK
    <3> QED BY <3>1, <3>4, <3>5 DEF Collected, Reviewing
  <2>2. CASE ChatOk(b)
    BY <2>2 DEF ChatOk, MarkRow, Goto, RowsRun, TypeOK
  <2>3. CASE ChatFails(b)
    <3>1. Collected = "fallback"
      BY <2>3 DEF ChatFails, Working, Collected
    <3> QED BY <2>3, <3>1 DEF ChatFails, Goto, RowsRun, TypeOK, Attempts
  <2>4. CASE CollectOk(b) \/ CollectFails(b)
    BY <2>4 DEF CollectOk, CollectFails, MarkRow, Goto, RowsRun, TypeOK
  <2>5. CASE SeeCancel(b) \/ Store(b)
    BY <2>5 DEF SeeCancel, Store, Goto, RowsRun, TypeOK
  <2> QED BY <2>1, <2>2, <2>3, <2>4, <2>5 DEF BatchStep
<1>4. \A c \in Batches \ {b} : row'[c] = row[c] /\ pc'[c] = pc[c]
  BY <1>1 DEF BatchMove, TypeOK
<1> QED BY <1>2, <1>3, <1>4 DEF RowsRun

LEMMA ResultsGoroutine ==
  ASSUME Inv, NEW b \in Batches, BatchStep(b)
  PROVE  Results' /\ Tokens' /\ AllEnded'
<1> USE DEF Inv
<1>1. BatchMove(b) /\ mode \in Reviewing
  BY GoroutineMoves DEF BatchMove, Working
<1>2. Collected' = Collected /\ mode' = mode
  BY <1>1 DEF BatchMove, Collected
<1>3. \A c \in Batches \ {b} :
        /\ pc'[c] = pc[c] /\ row'[c] = row[c] /\ Stored(c)' = Stored(c)
        /\ result'[c] = result[c] /\ counted'[c] = counted[c]
  <2>1. \A c \in Batches \ {b} : pc'[c] = pc[c] /\ row'[c] = row[c]
    BY <1>1 DEF BatchMove, TypeOK
  <2>2. \A c \in Batches \ {b} : result'[c] = result[c] /\ counted'[c] = counted[c]
    BY GoroutineKeeps DEF Store, TypeOK
  <2> QED BY <1>2, <2>1, <2>2 DEF Stored
<1>4. pc'[b] = "store" => row'[b][Stored(b)'] = "success"
  <2>1. CASE ChatOk(b)
    <3>1. mode = "agentic"
      BY <2>1 DEF ChatOk, Working
    <3> QED BY <1>2, <2>1, <3>1 DEF ChatOk, MarkRow, Stored, TypeOK, Attempts
  <2>2. CASE CollectOk(b)
    <3>1. row'[b][Collected] = "success"
      BY <2>2 DEF CollectOk, MarkRow, Collected, TypeOK, Attempts
    <3> QED BY <1>2, <3>1 DEF Stored
  <2>3. CASE ~ChatOk(b) /\ ~CollectOk(b)
    BY <2>3 DEF BatchStep, SeeCancel, Begin, ChatFails, CollectFails, Store,
                Goto, TypeOK
  <2> QED BY <2>1, <2>2, <2>3
<1>5. pc'[b] = "ended" => result'[b] # "none" /\ row'[b][result'[b]] = "success"
  <2>1. CASE Store(b)
    <3>1. result'[b] = Stored(b) /\ row' = row
      BY <2>1 DEF Store, Stored, TypeOK
    <3>2. Stored(b) # "none"
      BY DEF Stored, Collected
    <3>3. row[b][Stored(b)] = "success"
      BY <1>1, <2>1 DEF Store, Results
    <3> QED BY <3>1, <3>2, <3>3
  <2>2. CASE ~Store(b)
    BY <2>2 DEF BatchStep, SeeCancel, Begin, ChatOk, ChatFails, CollectOk, CollectFails, Goto, TypeOK
  <2> QED BY <2>1, <2>2
<1>6. mode = "agentic" => counted'[b] = 0
  <2>1. CASE pc[b] = "store"
    BY <2>1, GoroutineKeeps DEF Store, Tokens
  <2>2. CASE pc[b] # "store"
    BY <2>2, GoroutineKeeps DEF Tokens
  <2> QED BY <2>1, <2>2
<1>7. mode = "plain" => counted'[b] = IF pc'[b] = "ended" THEN 1 ELSE 0
  <2>1. CASE pc[b] = "store"
    BY <2>1, GoroutineKeeps DEF Store, Tokens, Goto, TypeOK
  <2>2. CASE pc[b] # "store"
    <3>1. pc'[b] = "ended" <=> pc[b] = "ended"
      BY <2>2 DEF BatchStep, SeeCancel, Begin, ChatOk, ChatFails, CollectOk, CollectFails, Store, Goto, TypeOK
    <3> QED BY <2>2, <3>1, GoroutineKeeps DEF Tokens
  <2> QED BY <2>1, <2>2
<1>8. Results'
  BY <1>2, <1>3, <1>4, <1>5 DEF Results
<1>9. Tokens'
  BY <1>1, <1>2, <1>3, <1>6, <1>7 DEF Tokens, Reviewing
<1>10. AllEnded'
  BY <1>1, <1>2 DEF AllEnded, Reviewing
<1> QED BY <1>8, <1>9, <1>10

LEMMA RowsStage ==
  ASSUME Inv, StageStep
  PROVE  RowsRun'
<1> USE DEF Inv
<1>1. \A b \in Batches : pc[b] \in Over
  <2>1. CASE Plan \/ PlanFails
    BY <2>1 DEF Plan, PlanFails, Working, Reviewing
  <2>2. CASE NextWave \/ Finish \/ StartOver \/ Fail
    BY <2>2, AllOver DEF NextWave, Finish, StartOver, Fail
  <2> QED BY <2>1, <2>2 DEF StageStep
<1>2. \A b \in Batches, a \in Attempts : row[b][a] # "running"
  BY <1>1 DEF RowsRun, Over
<1>3. row' = row
  BY DEF StageStep, Plan, PlanFails, NextWave, Finish, StartOver, Fail
<1> QED BY <1>2, <1>3 DEF RowsRun

LEMMA ResultsStage ==
  ASSUME Inv, StageStep
  PROVE  Results' /\ Tokens' /\ AllEnded'
<1> USE DEF Inv
<1>1. CASE Plan
  <2>1. \A b \in Batches : pc'[b] \notin {"store", "ended"} /\ counted'[b] = 0
    BY <1>1 DEF Plan, Launched, Tokens
  <2> QED BY <1>1, <2>1 DEF Plan, Results, Tokens, AllEnded, Reviewing
<1>2. CASE PlanFails \/ Fail
  BY <1>2 DEF PlanFails, Fail, Results, Tokens, AllEnded, Reviewing
<1>3. CASE NextWave
  <2>1. \A b \in Batches : pc[b] \in Over
    BY <1>3, AllOver DEF NextWave
  <2>2. \A b \in Wave(first', count) : pc[b] = "idle"
    BY <1>3, ReviewAssumption DEF NextWave, Wave, InWave, Batches, TypeOK
  <2>3. \A b \in Batches :
          pc'[b] = pc[b] \/ (pc[b] = "idle" /\ pc'[b] = "check")
    <3>1. pc' = [b \in Batches |-> IF b \in Wave(first', count) THEN "check" ELSE pc[b]]
      BY <1>3 DEF NextWave
    <3> QED BY <2>2, <3>1
  <2>4. mode \in Reviewing /\ UNCHANGED <<mode, row, result, counted, count>>
    BY <1>3 DEF NextWave, WaveDone
  <2>5. Results'
    BY <2>1, <2>3, <2>4 DEF Results, Over
  <2>6. Tokens'
    BY <2>3, <2>4 DEF Tokens, Reviewing
  <2> QED BY <2>4, <2>5, <2>6 DEF AllEnded, Reviewing
<1>4. CASE Finish
  <2>1. \A b \in Batches : pc[b] \in Over
    BY <1>4, AllOver DEF Finish
  <2>2. mode \in Reviewing /\ mode' = "ok" /\ UNCHANGED <<pc, row, result, count>>
    BY <1>4 DEF Finish, WaveDone
  <2>3. \A b \in Batches : b <= count => pc[b] = "ended"
    BY <1>4, <2>2, ReviewAssumption
       DEF Finish, Unbroken, IsLast, Current, Wave, InWave, Batches, TypeOK
  <2>4. Results'
    BY <2>1, <2>2 DEF Results, Over
  <2>5. \A b \in Batches : b <= count => counted'[b] = 1
    <3>1. CASE mode = "plain"
      BY <1>4, <2>3, <3>1 DEF Finish, Tokens
    <3>2. CASE mode = "agentic"
      BY <1>4, <3>2 DEF Finish, Tokens
    <3> QED BY <2>2, <3>1, <3>2 DEF Reviewing
  <2> QED BY <2>2, <2>3, <2>4, <2>5 DEF Tokens, AllEnded
<1>5. CASE StartOver
  <2>1. \A b \in Batches : pc'[b] \notin {"store", "ended"} /\ counted'[b] = 0
    BY <1>5 DEF StartOver, Launched, Tokens
  <2> QED BY <1>5, <2>1 DEF StartOver, Results, Tokens, AllEnded
<1> QED BY <1>1, <1>2, <1>3, <1>4, <1>5 DEF StageStep

-----------------------------------------------------------------------------
(* The stage.                                                              *)
LEMMA InvNext == Inv /\ [Next]_vars => Inv'
<1> SUFFICES ASSUME Inv, [Next]_vars PROVE Inv'
  OBVIOUS
<1>1. CASE StageStep
  BY <1>1, TypeStage, WaveStage, RowsStage, ResultsStage DEF Inv
<1>2. ASSUME NEW b \in Batches, BatchStep(b) PROVE Inv'
  BY <1>2, TypeGoroutine, WaveGoroutine, RowsGoroutine, ResultsGoroutine
     DEF Inv
<1>3. CASE Cancel
  <2>1. UNCHANGED <<count, planRow, mode, first, pc, row, result, counted, doomed>>
        /\ cancelled' = TRUE
    BY <1>3 DEF Cancel
  <2>2. TypeOK'
    BY <2>1 DEF Inv, TypeOK
  <2>3. InWave' /\ Working' /\ RowsRun' /\ Results' /\ Tokens' /\ AllEnded'
    BY <2>1 DEF Inv, InWave, Working, RowsRun, Results, Tokens, AllEnded, Collected, Stored
  <2> QED BY <2>2, <2>3 DEF Inv
<1>4. CASE UNCHANGED vars
  <2>1. TypeOK'
    BY <1>4 DEF vars, Inv, TypeOK
  <2>2. InWave' /\ Working' /\ RowsRun' /\ Results' /\ Tokens' /\ AllEnded'
    BY <1>4 DEF vars, Inv, InWave, Working, RowsRun, Results, Tokens, AllEnded, Collected, Stored
  <2> QED BY <2>1, <2>2 DEF Inv
<1> QED BY <1>1, <1>2, <1>3, <1>4 DEF Next

(* What the stage hands on is whole, and leaves no row running.            *)
LEMMA InvOutputs == Inv => OutputsComplete
<1> SUFFICES ASSUME Inv PROVE OutputsComplete
  OBVIOUS
<1>1. ASSUME mode = "ok", NEW b \in 1..count
      PROVE  result[b] # "none" /\ row[b][result[b]] = "success" /\ counted[b] = 1
  <2>1. b \in Batches /\ b <= count
    BY ReviewAssumption DEF Inv, TypeOK, Batches
  <2>2. pc[b] = "ended"
    BY <1>1, <2>1 DEF Inv, AllEnded
  <2> QED BY <1>1, <2>1, <2>2 DEF Inv, Results, Tokens
<1>2. ASSUME mode \in {"ok", "failed"}, NEW b \in Batches, NEW a \in Attempts
      PROVE  row[b][a] # "running"
  <2>1. pc[b] \in Over
    BY <1>2 DEF Inv, Working, Reviewing
  <2> QED BY <2>1 DEF Inv, RowsRun, Over
<1> QED BY <1>1, <1>2 DEF OutputsComplete

(* Waves divide the batches into runs of MaxParallel.                      *)
LEMMA Division ==
  ASSUME NEW x \in Nat, NEW p \in Nat \ {0}, NEW k \in Nat
  PROVE  /\ x >= k * p => x \div p >= k
         /\ x < (k + 1) * p => x \div p <= k
<1> DEFINE q == x \div p
<1>1. q \in Int /\ p * q <= x /\ x < p * (q + 1)
  OBVIOUS
<1> HIDE DEF q
<1>2. ASSUME x >= k * p, q < k PROVE FALSE
  <2>1. p * (q + 1) <= p * k
    BY <1>1, <1>2
  <2> QED BY <1>1, <1>2, <2>1
<1>3. ASSUME x < (k + 1) * p, q > k PROVE FALSE
  <2>1. p * (k + 1) <= p * q
    BY <1>1, <1>3
  <2> QED BY <1>1, <1>3, <2>1
<1> QED BY <1>1, <1>2, <1>3 DEF q

LEMMA InvWaves == Inv => WavesInOrder
<1> SUFFICES ASSUME Inv, mode \in Reviewing, NEW a \in 1..count, NEW b \in 1..count,
                    WaveOf(a) < WaveOf(b), pc[b] # "idle"
             PROVE  pc[a] = "ended" /\ result[a] # "none"
  BY DEF WavesInOrder
<1>1. a \in Batches /\ b \in Batches /\ a <= count /\ b <= count
  BY ReviewAssumption DEF Inv, TypeOK, Batches
<1>2. PICK k \in Nat : first = k * MaxParallel + 1
  BY DEF Inv, InWave
<1>3. b < first + MaxParallel
  BY <1>1 DEF Inv, InWave
<1>4. a < first
  <2>1. SUFFICES ASSUME a >= first PROVE FALSE
    BY <1>1, <1>2, ReviewAssumption DEF Batches
  <2>2. a - 1 \in Nat /\ b - 1 \in Nat
    OBVIOUS
  <2>3. a - 1 >= k * MaxParallel
    BY <1>2, <2>1, ReviewAssumption
  <2>4. b - 1 < (k + 1) * MaxParallel
    BY <1>2, <1>3, ReviewAssumption
  <2>5. WaveOf(a) >= k /\ WaveOf(b) <= k
    BY <2>2, <2>3, <2>4, Division, ReviewAssumption DEF WaveOf
  <2>6. WaveOf(a) \in Int /\ WaveOf(b) \in Int
    BY <2>2, ReviewAssumption DEF WaveOf
  <2> QED BY <2>5, <2>6
<1>5. pc[a] = "ended"
  BY <1>1, <1>4 DEF Inv, InWave
<1> QED BY <1>1, <1>5 DEF Inv, Results

-----------------------------------------------------------------------------
(* Conversations leave the stage as it is until they end.                  *)
LEMMA TalkIsAStep == [NextTalk]_allVars => [Next]_vars
<1> SUFFICES ASSUME [NextTalk]_allVars PROVE [Next]_vars
  OBVIOUS
<1>1. CASE UNCHANGED allVars
  BY <1>1 DEF allVars
<1>2. CASE (StageStep \/ Cancel) /\ UNCHANGED talk
  BY <1>2 DEF Next
<1>3. ASSUME NEW b \in Batches, GoroutineStep(b) PROVE [Next]_vars
  <2>1. \A h : Nudge(b, h) => BatchStep(b) \/ UNCHANGED vars
    BY DEF Nudge, GiveUp, Quiet, BatchStep
  <2>2. TalkStep(b) => BatchStep(b) \/ UNCHANGED vars
    BY <2>1 DEF TalkStep, Ask, AskFinal, AskCancelled, CallFails, Completes, Incomplete,
        IncompleteFinal, Broken, BrokenCancelled, BrokenAgain, SubmitIncomplete, SkipTools,
        RunTools, TooLong, TooLongAgain, Filtered, FilteredAgain, Accept, GiveUp, Quiet, BatchStep
  <2>3. BatchStep(b) \/ UNCHANGED vars
    BY <1>3, <2>2 DEF GoroutineStep, BeginTalk, BatchStep
  <2> QED BY <2>3 DEF Next
<1> QED BY <1>1, <1>2, <1>3 DEF NextTalk

-----------------------------------------------------------------------------
(* Histories.                                                              *)

Paired(h) ==
  \A i \in 1..Len(h) : \A k \in 1..h[i].calls : i + k <= Len(h) /\ h[i + k] = ToolResult

(* The prompts come first, and only answers make calls.                    *)
Good(h) ==
  /\ h \in Seq(Messages)
  /\ Len(h) >= 2 /\ h[1].calls = 0 /\ h[2].calls = 0
  /\ \A i \in 1..Len(h) : h[i].role # "assistant" => h[i].calls = 0
  /\ Paired(h)

LEMMA MessageFacts ==
  /\ ToolResult \in Messages /\ UserText \in Messages
  /\ \A n \in 0..MaxCalls \cup {1} : Answer(n) \in Messages
  /\ \A m \in Messages : m.calls \in Nat
BY TalkAssumption DEF ToolResult, UserText, Answer, Messages

LEMMA AppendGood ==
  ASSUME NEW h, Good(h)
  PROVE  Good(Append(h, UserText))
<1> DEFINE g == Append(h, UserText)
<1>1. g \in Seq(Messages) /\ Len(g) = Len(h) + 1
  BY MessageFacts DEF Good
<1>2. \A i \in 1..Len(h) : g[i] = h[i]
  BY DEF Good
<1>3. g[Len(h) + 1] = UserText /\ UserText.calls = 0
  BY DEF Good, UserText
<1>4. Len(h) \in Nat
  BY DEF Good
<1> HIDE DEF g
<1>5. \A i \in 1..Len(g) : i \in 1..Len(h) \/ i = Len(h) + 1
  BY <1>1, <1>4
<1>6. Paired(g)
  <2>1. SUFFICES ASSUME NEW i \in 1..Len(g), NEW k \in 1..g[i].calls
                 PROVE  i + k <= Len(g) /\ g[i + k] = ToolResult
    BY DEF Paired
  <2>2. i \in 1..Len(h) /\ k \in 1..h[i].calls
    BY <1>2, <1>3, <1>5, <2>1
  <2>3. i + k <= Len(h) /\ h[i + k] = ToolResult
    BY <2>2 DEF Good, Paired
  <2>4. h[i].calls \in Nat
    BY <2>2, MessageFacts DEF Good
  <2>5. i + k \in 1..Len(h)
    BY <1>4, <2>2, <2>3, <2>4
  <2> QED BY <1>1, <1>2, <1>4, <2>3, <2>5
<1> QED BY <1>1, <1>2, <1>3, <1>4, <1>5, <1>6 DEF Good, g

LEMMA ExchangeGood ==
  ASSUME NEW h, Good(h), NEW n \in 0..MaxCalls \cup {1}
  PROVE  Good(h \o Exchange(n))
<1> DEFINE e == Exchange(n)
           g == h \o e
<1>0. n \in Nat /\ Len(h) \in Nat
  BY TalkAssumption DEF Good
<1>1. /\ e \in Seq(Messages) /\ Len(e) = n + 1 /\ e[1] = Answer(n)
      /\ \A j \in 2..n + 1 : e[j] = ToolResult
  <2> DEFINE r == [i \in 1..n |-> ToolResult]
             a == <<Answer(n)>>
  <2>1. /\ r \in Seq(Messages) /\ Len(r) = n /\ \A j \in 1..n : r[j] = ToolResult
        /\ a \in Seq(Messages) /\ Len(a) = 1 /\ a[1] = Answer(n)
    BY <1>0, MessageFacts
  <2>2. e = a \o r
    BY DEF Exchange
  <2> HIDE DEF r, a, e
  <2>3. /\ e \in Seq(Messages) /\ Len(e) = Len(a) + Len(r)
        /\ \A i \in 1..Len(a) + Len(r) : e[i] = IF i <= Len(a) THEN a[i] ELSE r[i - Len(a)]
    BY <2>1, <2>2, ConcatProperties
  <2>4. \A j \in 2..n + 1 : j \in 1..1 + n /\ ~(j <= 1) /\ j - 1 \in 1..n
    BY <1>0
  <2>5. 1 \in 1..1 + n
    BY <1>0
  <2>6. \A j \in 2..n + 1 : e[j] = r[j - 1]
    BY <2>1, <2>3, <2>4
  <2>7. e[1] = Answer(n) /\ Len(e) = n + 1
    BY <1>0, <2>1, <2>3, <2>5
  <2> QED BY <2>1, <2>3, <2>4, <2>6, <2>7
<1> HIDE DEF e
<1>2. /\ g \in Seq(Messages) /\ Len(g) = Len(h) + n + 1
      /\ \A i \in 1..Len(h) + Len(e) : g[i] = IF i <= Len(h) THEN h[i] ELSE e[i - Len(h)]
  <2>1. /\ g \in Seq(Messages) /\ Len(g) = Len(h) + Len(e)
        /\ \A i \in 1..Len(h) + Len(e) : g[i] = IF i <= Len(h) THEN h[i] ELSE e[i - Len(h)]
    BY <1>1, ConcatProperties DEF Good
  <2> QED BY <1>0, <1>1, <2>1
<1> HIDE DEF g
<1>3. \A i \in 1..Len(h) : g[i] = h[i]
  BY <1>0, <1>1, <1>2
<1>4. \A j \in 1..n + 1 : g[Len(h) + j] = e[j]
  BY <1>0, <1>1, <1>2
<1>5. g[Len(h) + 1] = Answer(n) /\ \A i \in Len(h) + 2..Len(g) : g[i] = ToolResult
  <2>2. \A i \in Len(h) + 2..Len(g) : g[i] = ToolResult
    <3>1. SUFFICES ASSUME NEW i \in Len(h) + 2..Len(g) PROVE g[i] = ToolResult
      OBVIOUS
    <3>2. i - Len(h) \in 2..n + 1 /\ i - Len(h) \in 1..n + 1 /\ i = Len(h) + (i - Len(h))
      BY <1>0, <1>2
    <3> QED BY <1>1, <1>4, <3>2
  <2>3. 1 \in 1..n + 1
    BY <1>0
  <2> QED BY <1>1, <1>4, <2>2, <2>3
<1>6. Answer(n).calls = n /\ Answer(n).role = "assistant" /\ ToolResult.calls = 0
  BY DEF Answer, ToolResult
<1>7. \A i \in 1..Len(g) : i \in 1..Len(h) \/ i = Len(h) + 1 \/ i \in Len(h) + 2..Len(g)
  BY <1>0, <1>2
<1>8. Paired(g)
  <2>1. SUFFICES ASSUME NEW i \in 1..Len(g), NEW k \in 1..g[i].calls
                 PROVE  i + k <= Len(g) /\ g[i + k] = ToolResult
    BY DEF Paired
  <2>2. CASE i \in 1..Len(h)
    <3>1. k \in 1..h[i].calls /\ h[i].calls \in Nat
      BY <1>3, <2>2, MessageFacts DEF Good
    <3>2. i + k <= Len(h) /\ h[i + k] = ToolResult
      BY <2>2, <3>1 DEF Good, Paired
    <3>3. i + k \in 1..Len(h)
      BY <1>0, <2>2, <3>1, <3>2
    <3> QED BY <1>0, <1>2, <1>3, <3>2, <3>3
  <2>3. CASE i = Len(h) + 1
    <3>1. k \in 1..n
      BY <1>5, <1>6, <2>3
    <3>2. i + k \in Len(h) + 2..Len(g)
      BY <1>0, <1>2, <2>3, <3>1
    <3> QED BY <1>0, <1>2, <1>5, <3>2
  <2>4. CASE i \in Len(h) + 2..Len(g)
    BY <1>5, <1>6, <2>4
  <2> QED BY <1>7, <2>2, <2>3, <2>4
<1>9. Len(g) >= 2 /\ g[1].calls = 0 /\ g[2].calls = 0
  BY <1>0, <1>2, <1>3 DEF Good
<1>10. \A i \in 1..Len(g) : g[i].role # "assistant" => g[i].calls = 0
  BY <1>3, <1>5, <1>6, <1>7 DEF Good
<1> QED BY <1>2, <1>8, <1>9, <1>10 DEF Good, g, e

LEMMA MinIsLeast ==
  ASSUME NEW S \in SUBSET Nat, S # {}
  PROVE  Min(S) \in S /\ \A j \in S : Min(S) <= j
<1> DEFINE R == {ss \in Nat \X Nat : ss[1] < ss[2]}
<1>1. IsWellFoundedOn(R, Nat)
  BY NatLessThanWellFounded DEF OpToRel
<1> HIDE DEF R
<1>2. PICK x \in S : \A y \in S : ~ (<<y, x>> \in R)
  BY <1>1, WFMin
<1>3. ASSUME NEW y \in S PROVE x <= y
  <2>1. x \in Nat /\ y \in Nat
    OBVIOUS
  <2>2. y < x => <<y, x>> \in R
    BY <2>1 DEF R
  <2> QED BY <1>2, <2>1, <2>2
<1> QED BY <1>2, <1>3 DEF Min

(* Two messages go, and none before them makes a call.                     *)
LEMMA CutGood ==
  ASSUME NEW h, Good(h), NEW i \in 3..Len(h) - 1,
         \A j \in 1..i - 1 : h[j].calls = 0
  PROVE  Good(SubSeq(h, 1, i - 1) \o SubSeq(h, i + 2, Len(h)))
<1> DEFINE l == SubSeq(h, 1, i - 1)
           r == SubSeq(h, i + 2, Len(h))
           g == l \o r
<1>0. Len(h) \in Nat /\ i \in Nat /\ i >= 3 /\ i + 1 <= Len(h)
  BY DEF Good
<1>1. /\ l \in Seq(Messages) /\ Len(l) = i - 1
      /\ \A j \in 1..i - 1 : l[j] = h[j]
  <2>1. \A j \in 1..i - 1 : j \in 1..Len(h) /\ 1 + j - 1 = j
    BY <1>0
  <2>2. \A j \in 1..i - 1 : h[j] \in Messages
    BY <2>1 DEF Good
  <2>3. 1 \in Int /\ i - 1 \in Int /\ 1 <= i - 1 /\ (i - 1) - 1 + 1 = i - 1
    BY <1>0
  <2>4. /\ l \in Seq(Messages) /\ Len(l) = IF 1 <= i - 1 THEN (i - 1) - 1 + 1 ELSE 0
        /\ \A j \in 1..(i - 1) - 1 + 1 : l[j] = h[1 + j - 1]
    BY <2>2, <2>3, SubSeqProperties
  <2> QED BY <2>1, <2>3, <2>4
<1>2. /\ r \in Seq(Messages) /\ Len(r) = Len(h) - i - 1
      /\ \A j \in 1..Len(h) - i - 1 : r[j] = h[i + 1 + j]
  <2>1. \A j \in i + 2..Len(h) : h[j] \in Messages
    BY <1>0 DEF Good
  <2>2. i + 2 \in Int /\ Len(h) \in Int
    BY <1>0
  <2>3. /\ r \in Seq(Messages)
        /\ Len(r) = IF i + 2 <= Len(h) THEN Len(h) - (i + 2) + 1 ELSE 0
        /\ \A j \in 1..Len(h) - (i + 2) + 1 : r[j] = h[(i + 2) + j - 1]
    BY <2>1, <2>2, SubSeqProperties
  <2>4. \A j \in 1..Len(h) - i - 1 : /\ j \in 1..Len(h) - (i + 2) + 1
                                     /\ (i + 2) + j - 1 = i + 1 + j
    BY <1>0
  <2>5. Len(r) = Len(h) - i - 1
    BY <1>0, <2>3
  <2>6. ASSUME NEW j \in 1..Len(h) - i - 1 PROVE r[j] = h[i + 1 + j]
    BY <2>3, <2>4
  <2> QED BY <2>3, <2>5, <2>6
<1> HIDE DEF l, r
<1>3. /\ g \in Seq(Messages) /\ Len(g) = Len(h) - 2
      /\ \A j \in 1..Len(h) - 2 : g[j] = IF j < i THEN h[j] ELSE h[j + 2]
  <2>1. /\ g \in Seq(Messages) /\ Len(g) = Len(l) + Len(r)
        /\ \A j \in 1..Len(l) + Len(r) : g[j] = IF j <= Len(l) THEN l[j] ELSE r[j - Len(l)]
    BY <1>1, <1>2, ConcatProperties
  <2>2. Len(l) + Len(r) = Len(h) - 2
    BY <1>0, <1>1, <1>2
  <2>3. ASSUME NEW j \in 1..Len(h) - 2 PROVE g[j] = IF j < i THEN h[j] ELSE h[j + 2]
    <3>1. CASE j < i
      <4>1. j <= i - 1 /\ j \in 1..i - 1
        BY <1>0, <3>1
      <4> QED BY <1>1, <2>1, <2>2, <3>1, <4>1
    <3>2. CASE ~(j < i)
      <4>1. ~(j <= i - 1) /\ j - (i - 1) \in 1..Len(h) - i - 1
            /\ i + 1 + (j - (i - 1)) = j + 2
        BY <1>0, <3>2
      <4>2. g[j] = r[j - (i - 1)]
        BY <1>1, <2>1, <2>2, <4>1
      <4> QED BY <1>2, <3>2, <4>1, <4>2
    <3> QED BY <3>1, <3>2
  <2> QED BY <2>1, <2>2, <2>3
<1> HIDE DEF g
<1>4. Len(g) >= 2 /\ g[1].calls = 0 /\ g[2].calls = 0
  <2>1. Len(h) - 2 >= 2
    BY <1>0
  <2>2. g[1] = h[1] /\ g[2] = h[2]
    BY <1>0, <1>3, <2>1
  <2> QED BY <1>3, <2>1, <2>2 DEF Good
<1>5. \A j \in 1..Len(g) : g[j].role # "assistant" => g[j].calls = 0
  <2>1. \A j \in 1..Len(g) : j \in 1..Len(h) /\ j + 2 \in 1..Len(h)
    BY <1>0, <1>3
  <2> QED BY <1>3, <2>1 DEF Good
<1>6. Paired(g)
  <2>1. SUFFICES ASSUME NEW j \in 1..Len(g), NEW k \in 1..g[j].calls
                 PROVE  j + k <= Len(g) /\ g[j + k] = ToolResult
    BY DEF Paired
  <2>2. CASE j < i
    <3>1. g[j] = h[j] /\ j \in 1..i - 1
      BY <1>0, <1>3, <2>2
    <3>2. g[j].calls = 0
      BY <3>1
    <3> QED BY <2>1, <3>2
  <2>3. CASE ~(j < i)
    <3>1. g[j] = h[j + 2] /\ j + 2 \in 1..Len(h)
      BY <1>0, <1>3, <2>3
    <3>2. h[j + 2].calls \in Nat
      BY <3>1, MessageFacts DEF Good
    <3>3. j + 2 + k <= Len(h) /\ h[j + 2 + k] = ToolResult
      BY <3>1 DEF Good, Paired
    <3>4. /\ j + k \in 1..Len(h) - 2 /\ ~(j + k < i)
          /\ (j + k) + 2 = j + 2 + k
      BY <1>0, <1>3, <2>3, <3>1, <3>2, <3>3
    <3> QED BY <1>0, <1>3, <3>3, <3>4
  <2> QED BY <2>2, <2>3
<1> QED BY <1>3, <1>4, <1>5, <1>6 DEF Good, g, l, r

LEMMA TruncateGood ==
  ASSUME NEW h, Good(h)
  PROVE  Good(truncateHistory(h))
<1> DEFINE pairs == {i \in 3..Len(h) - 1 : h[i].role = "assistant" /\ h[i+1] = ToolResult}
           i     == IF pairs = {} THEN 3 ELSE Min(pairs)
<1>0. Len(h) \in Nat
  BY DEF Good
<1>1. CASE Len(h) <= 4
  BY <1>1 DEF truncateHistory
<1>2. CASE ~(Len(h) <= 4)
  <2>1. \A j \in 1..Len(h) : h[j].calls # 0 => j \in pairs
    <3>1. SUFFICES ASSUME NEW j \in 1..Len(h), h[j].calls # 0 PROVE j \in pairs
      OBVIOUS
    <3>2. h[j].role = "assistant" /\ j # 1 /\ j # 2
      BY <3>1 DEF Good
    <3>3. h[j].calls \in Nat
      BY MessageFacts DEF Good
    <3>4. 1 \in 1..h[j].calls
      BY <3>1, <3>3
    <3>5. j + 1 <= Len(h) /\ h[j + 1] = ToolResult
      BY <3>4 DEF Good, Paired
    <3> QED BY <1>0, <3>2, <3>5
  <2>2. pairs \in SUBSET Nat /\ pairs \subseteq 3..Len(h) - 1
    BY <1>0
  <2>3. truncateHistory(h) = SubSeq(h, 1, i - 1) \o SubSeq(h, i + 2, Len(h))
    BY <1>2 DEF truncateHistory
  <2> HIDE DEF pairs
  <2>4. i \in 3..Len(h) - 1 /\ \A j \in pairs : i <= j
    <3>1. CASE pairs = {}
      BY <1>0, <1>2, <3>1
    <3>2. CASE pairs # {}
      BY <2>2, <3>2, MinIsLeast
    <3> QED BY <3>1, <3>2
  <2> HIDE DEF i
  <2>5. \A j \in 1..i - 1 : h[j].calls = 0
    <3>1. \A j \in 1..i - 1 : j \in 1..Len(h) /\ ~(i <= j)
      BY <1>0, <2>4
    <3> QED BY <2>1, <2>4, <3>1
  <2> QED BY <2>3, <2>4, <2>5, CutGood
<1> QED BY <1>1, <1>2

-----------------------------------------------------------------------------
(* One conversation.  A call beyond one per round is made for an answer    *)
(* that could not be parsed, which costs a reminder or the conversation,   *)
(* or is the final one.                                                    *)
Extra(t) == IF t.at \in {"retry", "final"} THEN 1 ELSE 0

Fine(t) ==
  /\ t \in Talks
  /\ t.left > 0 - MaxCalls
  /\ t.asked <= t.round + t.nudges + Extra(t)
  /\ t.at # "none" => Good(t.history)

TalkInv == talk \in [Batches -> Talks] /\ \A b \in Batches : Fine(talk[b])

Turned(b) == \E t \in Talks : Fine(t) /\ Turn(b, t)

LEMMA TalkFields ==
  ASSUME NEW t \in Talks
  PROVE  /\ t.at \in {"none", "loop", "asked", "retry", "final"}
         /\ t.round \in 0..MaxRounds /\ t.round \in Nat
         /\ t.force \in BOOLEAN
         /\ t.left \in (0 - MaxCalls)..MaxTools /\ t.left \in Int
         /\ t.nudges \in 0..maxSubmitNudges /\ t.nudges \in Nat
         /\ t.filtered \in 0..1
         /\ t.history \in Seq(Messages)
         /\ t.asked \in Nat
BY TalkAssumption DEF Talks

LEMMA NoTalkFine == Fine(NoTalk)
<1>1. NoTalk \in Talks
  <2>1. 0 \in 0..MaxRounds /\ 0 \in (0 - MaxCalls)..MaxTools /\ 0 \in 0..maxSubmitNudges
    BY TalkAssumption DEF maxSubmitNudges
  <2> QED BY <2>1 DEF NoTalk, Talks
<1>2. /\ NoTalk.left = 0 /\ NoTalk.asked = 0 /\ NoTalk.round = 0 /\ NoTalk.nudges = 0
      /\ NoTalk.at = "none"
  BY DEF NoTalk
<1> QED BY <1>1, <1>2, TalkAssumption DEF Fine, Extra

LEMMA NewTalkFine == Fine(NewTalk)
<1> DEFINE h == <<UserText, UserText>>
<1>1. Good(h)
  <2>1. h \in Seq(Messages) /\ Len(h) = 2 /\ \A i \in 1..2 : h[i] = UserText
    BY MessageFacts
  <2>2. UserText.calls = 0
    BY DEF UserText
  <2> QED BY <2>1, <2>2 DEF Good, Paired
<1>2. h \in Seq(Messages)
  BY <1>1 DEF Good
<1>3. NewTalk \in Talks
  <2>1. 0 \in 0..MaxRounds /\ MaxTools \in (0 - MaxCalls)..MaxTools /\ 0 \in 0..maxSubmitNudges
    BY TalkAssumption DEF maxSubmitNudges
  <2>2. NewTalk = [NoTalk EXCEPT !.at = "loop", !.left = MaxTools, !.history = h]
    BY DEF NewTalk
  <2>3. NoTalk \in Talks
    BY NoTalkFine DEF Fine
  <2> HIDE DEF h
  <2> QED BY <1>2, <2>1, <2>2, <2>3 DEF Talks
<1>4. /\ NewTalk.left = MaxTools /\ NewTalk.asked = 0 /\ NewTalk.round = 0
      /\ NewTalk.nudges = 0 /\ NewTalk.at = "loop" /\ NewTalk.history = h
  BY DEF NewTalk, NoTalk
<1> QED BY <1>1, <1>3, <1>4, TalkAssumption DEF Fine, Extra

LEMMA EndTurns == \A b : End(b) => Turned(b)
BY NoTalkFine DEF End, Turned, Fine

(* The steps of a conversation that goes on.                               *)
LEMMA NudgeTurns ==
  ASSUME NEW b \in Batches, Fine(talk[b]), talk[b].at \in {"asked", "retry"},
         NEW h, Good(h), Nudge(b, h)
  PROVE  Turned(b)
<1> DEFINE t == talk[b]
           g == Append(h, UserText)
           new == [t EXCEPT !.at = "loop", !.nudges = @ + 1, !.history = g]
<1>0. Good(g) /\ g \in Seq(Messages)
  BY AppendGood DEF Good
<1>1. t \in Talks /\ t.asked <= t.round + t.nudges + 1 /\ t.left > 0 - MaxCalls
  BY TalkFields DEF Fine, Extra
<1>2. CASE t.nudges < maxSubmitNudges /\ Turn(b, new)
  <2> HIDE DEF g
  <2>1. t.nudges + 1 \in 0..maxSubmitNudges
    BY <1>1, <1>2, TalkFields DEF maxSubmitNudges
  <2>2. new \in Talks
    BY <1>0, <1>1, <2>1 DEF Talks
  <2>3. /\ new.at = "loop" /\ new.nudges = t.nudges + 1 /\ new.history = g
        /\ new.asked = t.asked /\ new.round = t.round /\ new.left = t.left
    BY <1>1 DEF Talks
  <2> HIDE DEF new, t
  <2>4. Fine(new)
    BY <1>0, <1>1, <2>2, <2>3, TalkFields DEF Fine, Extra
  <2> QED BY <1>2, <2>2, <2>4 DEF Turned
<1>3. CASE GiveUp(b)
  BY <1>3, EndTurns DEF GiveUp
<1> QED BY <1>2, <1>3 DEF Nudge

LEMMA AskTurns ==
  ASSUME NEW b \in Batches, Fine(talk[b]), Ask(b)
  PROVE  Turned(b)
<1> DEFINE t == talk[b]
           new(h) == [t EXCEPT !.at = "asked", !.round = @ + 1, !.history = h, !.asked = @ + 1,
                               !.force = @ \/ Len(h) > MaxMessages]
<1>1. PICK h \in {t.history, truncateHistory(t.history)} : Turn(b, new(h))
  BY DEF Ask
<1>2. t.at = "loop" /\ t.round < MaxRounds
  BY DEF Ask
<1>3. t \in Talks /\ t.asked <= t.round + t.nudges /\ t.left > 0 - MaxCalls /\ Good(t.history)
  BY <1>2, TalkFields DEF Fine, Extra
<1>4. Good(h) /\ h \in Seq(Messages)
  BY <1>3, TruncateGood DEF Good
<1>5. t.round + 1 \in 0..MaxRounds /\ t.asked + 1 \in Nat
  <2>1. t.round \in Nat /\ t.asked \in Nat
    BY <1>3, TalkFields
  <2>2. MaxRounds \in Nat
    BY TalkAssumption
  <2> HIDE DEF t, new
  <2> QED BY <1>2, <2>1, <2>2
<1>6. (t.force \/ Len(h) > MaxMessages) \in BOOLEAN
  OBVIOUS
<1>7. new(h) \in Talks
  BY <1>3, <1>4, <1>5, <1>6 DEF Talks
<1>8. /\ new(h).at = "asked" /\ new(h).round = t.round + 1 /\ new(h).history = h
      /\ new(h).asked = t.asked + 1 /\ new(h).nudges = t.nudges /\ new(h).left = t.left
  BY <1>3 DEF Talks
<1> HIDE DEF new
<1>9. Fine(new(h))
  BY <1>3, <1>4, <1>7, <1>8, TalkFields, SMTT(30) DEF Fine, Extra
<1> QED BY <1>1, <1>7, <1>9 DEF Turned

LEMMA AskFinalTurns ==
  ASSUME NEW b \in Batches, Fine(talk[b]), AskFinal(b)
  PROVE  Turned(b)
<1> DEFINE t == talk[b]
           g == Append(t.history, UserText)
           new == [t EXCEPT !.at = "final", !.history = g, !.asked = @ + 1]
<1>1. t.at = "loop" /\ Turn(b, new)
  BY DEF AskFinal
<1>2. t \in Talks /\ t.asked <= t.round + t.nudges /\ t.left > 0 - MaxCalls /\ Good(t.history)
  BY <1>1, TalkFields DEF Fine, Extra
<1>3. Good(g) /\ g \in Seq(Messages) /\ t.asked + 1 \in Nat
  <2>1. Good(g)
    BY <1>2, AppendGood
  <2>2. t.asked \in Nat
    BY <1>2, TalkFields
  <2> HIDE DEF g, t
  <2> QED BY <2>1, <2>2 DEF Good
<1> HIDE DEF g
<1>4. new \in Talks
  BY <1>2, <1>3 DEF Talks
<1>5. /\ new.at = "final" /\ new.round = t.round /\ new.history = g
      /\ new.asked = t.asked + 1 /\ new.nudges = t.nudges /\ new.left = t.left
  BY <1>2 DEF Talks
<1> HIDE DEF new
<1>6. Fine(new)
  BY <1>2, <1>3, <1>4, <1>5, TalkFields DEF Fine, Extra
<1> QED BY <1>1, <1>4, <1>6 DEF Turned

LEMMA BrokenTurns ==
  ASSUME NEW b \in Batches, Fine(talk[b]), Broken(b)
  PROVE  Turned(b)
<1> DEFINE t == talk[b]
           g == Append(t.history, UserText)
           new == [t EXCEPT !.at = "retry", !.history = g, !.asked = @ + 1]
<1>1. t.at = "asked" /\ Turn(b, new)
  BY DEF Broken, Asked
<1>2. t \in Talks /\ t.asked <= t.round + t.nudges /\ t.left > 0 - MaxCalls /\ Good(t.history)
  BY <1>1, TalkFields DEF Fine, Extra
<1>3. Good(g) /\ g \in Seq(Messages) /\ t.asked + 1 \in Nat
  <2>1. Good(g)
    BY <1>2, AppendGood
  <2>2. t.asked \in Nat
    BY <1>2, TalkFields
  <2> HIDE DEF g, t
  <2> QED BY <2>1, <2>2 DEF Good
<1> HIDE DEF g
<1>4. new \in Talks
  BY <1>2, <1>3 DEF Talks
<1>5. /\ new.at = "retry" /\ new.round = t.round /\ new.history = g
      /\ new.asked = t.asked + 1 /\ new.nudges = t.nudges /\ new.left = t.left
  BY <1>2 DEF Talks
<1> HIDE DEF new
<1>6. Fine(new)
  BY <1>2, <1>3, <1>4, <1>5, TalkFields DEF Fine, Extra
<1> QED BY <1>1, <1>4, <1>6 DEF Turned

LEMMA RunToolsTurns ==
  ASSUME NEW b \in Batches, Fine(talk[b]), RunTools(b)
  PROVE  Turned(b)
<1> DEFINE t == talk[b]
           g(n) == t.history \o Exchange(n)
           new(n) == [t EXCEPT !.at = "loop", !.left = @ - n, !.history = g(n)]
<1>1. PICK n \in 0..MaxCalls : Turn(b, new(n))
  BY DEF RunTools
<1>2. t.at = "asked" /\ ~(t.left <= 0)
  BY DEF RunTools, Asked, NoTools
<1>3. t \in Talks /\ t.asked <= t.round + t.nudges /\ t.left > 0 - MaxCalls /\ Good(t.history)
  BY <1>2, TalkFields DEF Fine, Extra
<1>4. Good(g(n)) /\ g(n) \in Seq(Messages)
  BY <1>3, ExchangeGood DEF Good
<1>5. t.left - n \in (0 - MaxCalls)..MaxTools /\ t.left - n > 0 - MaxCalls
  <2>1. t.left \in Int /\ t.left <= MaxTools /\ MaxTools \in Nat /\ MaxCalls \in Nat
    BY <1>3, TalkFields, TalkAssumption
  <2>2. n \in Nat /\ n <= MaxCalls
    BY TalkAssumption
  <2> HIDE DEF t, new, g
  <2> QED BY <1>2, <2>1, <2>2
<1> HIDE DEF g
<1>6. new(n) \in Talks
  BY <1>3, <1>4, <1>5 DEF Talks
<1>7. /\ new(n).at = "loop" /\ new(n).round = t.round /\ new(n).history = g(n)
      /\ new(n).asked = t.asked /\ new(n).nudges = t.nudges /\ new(n).left = t.left - n
  BY <1>3 DEF Talks
<1> HIDE DEF new
<1>8. Fine(new(n))
  BY <1>3, <1>4, <1>5, <1>6, <1>7, TalkFields DEF Fine, Extra
<1> QED BY <1>1, <1>6, <1>8 DEF Turned

LEMMA TooLongTurns ==
  ASSUME NEW b \in Batches, Fine(talk[b]), TooLong(b)
  PROVE  Turned(b)
<1> DEFINE t == talk[b]
           g == Append(t.history, UserText)
           new == [t EXCEPT !.at = "loop", !.force = TRUE, !.history = g]
<1>1. t.at = "asked" /\ Turn(b, new)
  BY DEF TooLong, Asked
<1>2. t \in Talks /\ t.asked <= t.round + t.nudges /\ t.left > 0 - MaxCalls /\ Good(t.history)
  BY <1>1, TalkFields DEF Fine, Extra
<1>3. Good(g) /\ g \in Seq(Messages)
  BY <1>2, AppendGood DEF Good
<1> HIDE DEF g
<1>4. new \in Talks
  BY <1>2, <1>3 DEF Talks
<1>5. /\ new.at = "loop" /\ new.round = t.round /\ new.history = g
      /\ new.asked = t.asked /\ new.nudges = t.nudges /\ new.left = t.left
  BY <1>2 DEF Talks
<1> HIDE DEF new
<1>6. Fine(new)
  BY <1>2, <1>3, <1>4, <1>5, TalkFields DEF Fine, Extra
<1> QED BY <1>1, <1>4, <1>6 DEF Turned

LEMMA FilteredTurns ==
  ASSUME NEW b \in Batches, Fine(talk[b]), Filtered(b)
  PROVE  Turned(b)
<1> DEFINE t == talk[b]
           g == Append(t.history, UserText)
           new == [t EXCEPT !.at = "loop", !.filtered = 1, !.history = g]
<1>1. t.at = "asked" /\ Turn(b, new)
  BY DEF Filtered, Asked
<1>2. t \in Talks /\ t.asked <= t.round + t.nudges /\ t.left > 0 - MaxCalls /\ Good(t.history)
  BY <1>1, TalkFields DEF Fine, Extra
<1>3. Good(g) /\ g \in Seq(Messages)
  BY <1>2, AppendGood DEF Good
<1> HIDE DEF g
<1>4. new \in Talks
  <2>1. 1 \in 0..1
    OBVIOUS
  <2> HIDE DEF t
  <2> QED BY <1>2, <1>3, <2>1 DEF Talks
<1>5. /\ new.at = "loop" /\ new.round = t.round /\ new.history = g
      /\ new.asked = t.asked /\ new.nudges = t.nudges /\ new.left = t.left
  BY <1>2 DEF Talks
<1> HIDE DEF new
<1>6. Fine(new)
  BY <1>2, <1>3, <1>4, <1>5, TalkFields DEF Fine, Extra
<1> QED BY <1>1, <1>4, <1>6 DEF Turned

LEMMA GoroutineTurns ==
  ASSUME NEW b \in Batches, Fine(talk[b]), GoroutineStep(b)
  PROVE  Turned(b) \/ UNCHANGED talk
<1>1. CASE BeginTalk(b)
  BY <1>1, NoTalkFine, NewTalkFine DEF BeginTalk, Turned, Fine
<1>2. CASE TalkStep(b)
  <2>0. talk[b].at # "none" => Good(talk[b].history)
    BY DEF Fine
  <2>1. Accept(b) \/ GiveUp(b) => Turned(b)
    BY EndTurns DEF Accept, GiveUp
  <2>2. Incomplete(b) \/ SubmitIncomplete(b) \/ SkipTools(b) => Turned(b)
    <3>1. ASSUME Incomplete(b) PROVE Turned(b)
      BY <2>0, <3>1, NudgeTurns DEF Incomplete
    <3>2. ASSUME SubmitIncomplete(b) PROVE Turned(b)
      <4>1. 1 \in 0..MaxCalls \cup {1}
        OBVIOUS
      <4>2. Good(talk[b].history \o Exchange(1))
        BY <2>0, <3>2, <4>1, ExchangeGood DEF SubmitIncomplete, Asked
      <4> QED BY <3>2, <4>2, NudgeTurns DEF SubmitIncomplete, Asked
    <3>3. ASSUME SkipTools(b) PROVE Turned(b)
      <4>1. PICK n \in 0..MaxCalls :
              Nudge(b, talk[b].history \o IF n = 0 THEN <<>> ELSE Exchange(n))
        BY <3>3 DEF SkipTools
      <4>2. Good(talk[b].history) /\ talk[b].at = "asked"
        BY <2>0, <3>3 DEF SkipTools, Asked
      <4>3. talk[b].history \o <<>> = talk[b].history
        BY <4>2, ConcatEmptySeq DEF Good
      <4>4. n \in 0..MaxCalls \cup {1} /\ Good(talk[b].history \o Exchange(n))
        BY <4>2, ExchangeGood
      <4>5. CASE n = 0
        <5>1. Nudge(b, talk[b].history \o <<>>)
          BY <4>1, <4>5
        <5>2. Nudge(b, talk[b].history)
          BY <4>3, <5>1
        <5> QED BY <4>2, <5>2, NudgeTurns
      <4>6. CASE n # 0
        <5>1. Nudge(b, talk[b].history \o Exchange(n))
          BY <4>1, <4>6
        <5> QED BY <4>2, <4>4, <5>1, NudgeTurns
      <4> QED BY <4>5, <4>6
    <3> QED BY <3>1, <3>2, <3>3
  <2>3. Ask(b) \/ AskFinal(b) \/ Broken(b) \/ RunTools(b) \/ TooLong(b) \/ Filtered(b)
          => Turned(b)
    BY AskTurns, AskFinalTurns, BrokenTurns, RunToolsTurns, TooLongTurns, FilteredTurns
  <2> QED BY <1>2, <2>1, <2>2, <2>3
    DEF TalkStep, AskCancelled, CallFails, Completes, IncompleteFinal, BrokenCancelled,
        BrokenAgain, TooLongAgain, FilteredAgain
<1>3. CASE UNCHANGED talk
  BY <1>3
<1> QED BY <1>1, <1>2, <1>3 DEF GoroutineStep

LEMMA TalkInvNext == TalkInv /\ [NextTalk]_allVars => TalkInv'
<1> SUFFICES ASSUME TalkInv, [NextTalk]_allVars PROVE TalkInv'
  OBVIOUS
<1>1. CASE UNCHANGED talk
  BY <1>1 DEF TalkInv
<1>2. ASSUME NEW b \in Batches, Turned(b) PROVE TalkInv'
  <2>1. PICK t \in Talks : Fine(t) /\ talk' = [talk EXCEPT ![b] = t]
    BY <1>2 DEF Turned, Turn
  <2>2. talk' \in [Batches -> Talks] /\ \A c \in Batches : talk'[c] = IF c = b THEN t ELSE talk[c]
    BY <2>1 DEF TalkInv
  <2> QED BY <2>1, <2>2 DEF TalkInv
<1>3. ASSUME NEW b \in Batches, GoroutineStep(b) PROVE TalkInv'
  BY <1>1, <1>2, <1>3, GoroutineTurns DEF TalkInv
<1> QED BY <1>1, <1>3 DEF NextTalk, allVars

LEMMA TalkInvInit == InitTalk => TalkInv
BY NoTalkFine DEF InitTalk, TalkInv, Fine

-----------------------------------------------------------------------------
(* What holds of the stage with conversations.                             *)

(* A conversation implements the one step the stage takes it for: while it *)
(* goes on nothing the stage looks at changes, and its last step is a      *)
(* batch that ends in a result or falls through to the collected review.   *)
THEOREM ConversationsRefine == TalkSpec => Init /\ [][Next]_vars
<1>1. InitTalk => Init
  BY DEF InitTalk
<1> QED BY <1>1, TalkIsAStep, PTL DEF TalkSpec

LEMMA StageInv == TalkSpec => []Inv
<1>1. Init => Inv
  BY InitInv
<1> QED BY <1>1, InvNext, ConversationsRefine, PTL

LEMMA TalksInv == TalkSpec => []TalkInv
BY TalkInvInit, TalkInvNext, PTL DEF TalkSpec

(* Every variable of the stage and of its conversations keeps its type,    *)
(* the budgets of a conversation included.                                 *)
THEOREM TypesCorrect == TalkSpec => []AllTypesOK
<1>1. Inv /\ TalkInv => AllTypesOK
  BY DEF Inv, TalkInv, AllTypesOK
<1> QED BY <1>1, StageInv, TalksInv, PTL

(* When the stage ended well, each batch of its list has a result, a row   *)
(* of the attempt that gave it which says success, and was counted once;   *)
(* and however it ended, no row of an attempt says running.                *)
THEOREM OutputsAreComplete == TalkSpec => []OutputsComplete
BY InvOutputs, StageInv, PTL

(* No batch starts before the batches of the earlier waves have ended.     *)
THEOREM WavesKeepOrder == TalkSpec => []WavesInOrder
BY InvWaves, StageInv, PTL

(* No call of the model sends a tool call without its result along,        *)
(* however often the history was truncated and calls were skipped.         *)
THEOREM CallsGetAnswers == TalkSpec => []CallsAnswered
<1>1. TalkInv => CallsAnswered
  <2>1. SUFFICES ASSUME TalkInv, NEW b \in Batches, talk[b].at \in {"asked", "retry", "final"}
                 PROVE  \A i \in DOMAIN talk[b].history : \A k \in 1..talk[b].history[i].calls :
                          i + k <= Len(talk[b].history) /\ talk[b].history[i + k] = ToolResult
    BY DEF CallsAnswered
  <2>2. Good(talk[b].history)
    BY <2>1 DEF TalkInv, Fine
  <2>3. DOMAIN talk[b].history = 1..Len(talk[b].history)
    BY <2>2 DEF Good
  <2> QED BY <2>2, <2>3 DEF Good, Paired
<1> QED BY <1>1, TalksInv, PTL

(* The calls of the model and of the tools a conversation makes stay       *)
(* within its budgets.                                                     *)
THEOREM CostIsBounded == TalkSpec => []TalkIsBounded
<1>1. TalkInv => TalkIsBounded
  <2>1. SUFFICES ASSUME TalkInv, NEW b \in Batches
                 PROVE  /\ talk[b].asked <= MaxRounds + maxSubmitNudges + 1
                        /\ talk[b].left > 0 - MaxCalls
    BY DEF TalkIsBounded
  <2>2. Fine(talk[b]) /\ talk[b] \in Talks
    BY <2>1 DEF TalkInv, Fine
  <2> DEFINE t == talk[b]
  <2>3. /\ t.asked <= t.round + t.nudges + Extra(t) /\ t.left > 0 - MaxCalls
        /\ t.asked \in Nat /\ t.round \in 0..MaxRounds /\ t.nudges \in 0..2
    BY <2>2, TalkFields DEF Fine, maxSubmitNudges
  <2>4. Extra(t) \in 0..1
    BY DEF Extra
  <2> QED BY <2>3, <2>4, TalkAssumption DEF maxSubmitNudges
<1> QED BY <1>1, TalksInv, PTL
=============================================================================
