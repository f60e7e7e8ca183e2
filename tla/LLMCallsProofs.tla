--------------------------- MODULE LLMCallsProofs ----------------------------
(***************************************************************************)
(* Proofs about CallRecorder and LLMCalls.                                 *)
(*                                                                         *)
(* Inv says where a record can be: in the channel, in the batch of one     *)
(* worker, or settled; that a batch is written again only after a doubtful *)
(* statement; and that a worker that has drained the channel has left      *)
(* nothing in it but what was sent during Stop.  CallInv says which        *)
(* records a call has handed over.                                         *)
(***************************************************************************)
EXTENDS LLMCalls, TLAPS

Handed == {"handed", "late"}

InBatch(r) == \E w \in Workers : r \in worker[w].batch
Stopping   == main \in {"stopped", "exited"}

(* Nothing is left for the last worker to find.                            *)
ChannelDone == \A r \in logChan : rec[r] = "late"

Held ==
  /\ \A r \in logChan : rec[r] \in Handed /\ rows[r] = 0 /\ ~InBatch(r)
  /\ \A w \in Workers : \A r \in worker[w].batch :
       /\ rec[r] \in Handed
       /\ rows[r] > 0 => r \in doubted
       /\ \A v \in Workers : v # w => r \notin worker[v].batch
  /\ \A r \in Records : rows[r] > 0 => rec[r] \in Handed

NoneMissing ==
  \A r \in Records : rec[r] = "handed" => Settled(r) \/ r \in logChan \/ InBatch(r)

Leaving ==
  \A w \in Workers :
    /\ worker[w].at \in {"drain", "exited"} => Stopping
    /\ worker[w].at = "write" /\ worker[w].then # "select" => Stopping
    /\ worker[w].at = "exited" => worker[w].batch = {} /\ ChannelDone
    /\ worker[w].at = "write" /\ worker[w].then = "exited" => ChannelDone

AllGone == main = "exited" => \A w \in Workers : worker[w].at = "exited"

Inv == RecorderTypeOK /\ Held /\ StoredOnce /\ NoneMissing /\ Leaving /\ AllGone

LEMMA InitInv == RecorderInit => Inv
<1> SUFFICES ASSUME RecorderInit PROVE Inv
  OBVIOUS
<1> USE DEF RecorderInit
<1>1. RecorderTypeOK
  <2>1. 0 \in 0..maxAttempts - 1
    BY DEF maxAttempts
  <2> QED BY <2>1 DEF RecorderTypeOK, Worker
<1>2. \A w \in Workers : worker[w].batch = {} /\ worker[w].at = "select"
  OBVIOUS
<1>3. \A r \in Records : rows[r] = 0 /\ rec[r] = "none"
  OBVIOUS
<1> QED BY <1>1, <1>2, <1>3 DEF Inv, Held, StoredOnce, NoneMissing, Leaving, AllGone, InBatch

-----------------------------------------------------------------------------
(* Types.                                                                  *)

LEMMA FlushType ==
  ASSUME NEW f \in Worker, NEW l \in {"select", "drain", "exited"}
  PROVE  Flush(f, l) \in Worker /\ Flush(f, l).batch = f.batch
<1>1. 0 \in 0..maxAttempts - 1
  BY DEF maxAttempts
<1> QED BY <1>1 DEF Flush, Worker

LEMMA ReceivedType ==
  ASSUME NEW f \in Worker, NEW r \in Records, NEW l \in {"select", "drain"}
  PROVE  /\ Received(f, r, l) \in Worker /\ Received(f, r, l).batch = f.batch \cup {r}
         /\ \/ Received(f, r, l).at = f.at /\ Received(f, r, l).then = f.then
            \/ Received(f, r, l).at = "write" /\ Received(f, r, l).then = l
<1> DEFINE g == [f EXCEPT !.batch = @ \cup {r}]
<1>1. g \in Worker /\ g.batch = f.batch \cup {r} /\ g.batch # {} /\ g.at = f.at /\ g.then = f.then
  BY DEF Worker
<1>2. Received(f, r, l) = g \/ Received(f, r, l) = Flush(g, l)
  BY DEF Received
<1> HIDE DEF g
<1>3. Flush(g, l).at = "write" /\ Flush(g, l).then = l
  BY <1>1 DEF Flush, Worker
<1> QED BY <1>1, <1>2, <1>3, FlushType

LEMMA EmptyType ==
  ASSUME NEW f \in Worker
  PROVE  Empty(f) \in Worker /\ Empty(f).batch = {} /\ Empty(f).at = f.then
<1>1. 0 \in 0..maxAttempts - 1
  BY DEF maxAttempts
<1> QED BY <1>1 DEF Empty, Worker

LEMMA AddedType ==
  ASSUME rows \in [Records -> Nat], NEW b
  PROVE  Added(b) \in [Records -> Nat]
BY DEF Added

LEMMA TypeNext == RecorderTypeOK /\ [RecorderNext]_recorder => RecorderTypeOK'
<1> SUFFICES ASSUME RecorderTypeOK, [RecorderNext]_recorder PROVE RecorderTypeOK'
  OBVIOUS
<1> USE DEF RecorderTypeOK
<1>1. ASSUME NEW r \in Records, Check(r) \/ Send(r) PROVE RecorderTypeOK'
  <2>1. CASE Check(r)
    BY <2>1 DEF Check
  <2>2. CASE Send(r)
    BY <2>2 DEF Send
  <2> QED BY <1>1, <2>1, <2>2
<1>2. ASSUME NEW w \in Workers, WorkerStep(w) PROVE RecorderTypeOK'
  <2>1. ASSUME NEW l \in {"select", "drain"}, Receive(w, l) PROVE RecorderTypeOK'
    <3>1. PICK r \in logChan : /\ logChan' = logChan \ {r}
                                /\ worker' = [worker EXCEPT ![w] = Received(worker[w], r, l)]
      BY <2>1 DEF Receive
    <3>2. Received(worker[w], r, l) \in Worker
      BY ReceivedType
    <3>3. worker' \in [Workers -> Worker]
      BY <3>1, <3>2
    <3> QED BY <2>1, <3>1, <3>3 DEF Receive
  <2>2. CASE Tick(w) \/ Drained(w)
    BY <2>2, FlushType DEF Tick, Drained
  <2>3. CASE SeeStop(w)
    <3>1. [worker[w] EXCEPT !.at = "drain"] \in Worker
      BY DEF Worker
    <3> QED BY <2>3, <3>1 DEF SeeStop
  <2>4. CASE Write(w)
    BY <2>4, EmptyType, AddedType DEF Write
  <2>5. CASE WriteFails(w)
    <3>1. worker[w].batch \subseteq Records
      BY DEF Worker
    <3>2. rows' \in [Records -> Nat] /\ doubted' \subseteq Records
      BY <2>5, <3>1, AddedType DEF WriteFails
    <3>3. worker[w].tries + 1 < maxAttempts =>
            [worker[w] EXCEPT !.tries = @ + 1] \in Worker
      BY DEF Worker, maxAttempts
    <3>4. worker' \in [Workers -> Worker] /\ lost' \subseteq Records
      BY <2>5, <3>1, <3>3, EmptyType DEF WriteFails
    <3> QED BY <2>5, <3>2, <3>4 DEF WriteFails
  <2> QED BY <1>2, <2>1, <2>2, <2>3, <2>4, <2>5 DEF WorkerStep
<1>3. CASE ClearStarted \/ CloseStopCh \/ Exit
  BY <1>3 DEF ClearStarted, CloseStopCh, Exit
<1>4. CASE UNCHANGED recorder
  BY <1>4 DEF recorder
<1> QED BY <1>1, <1>2, <1>3, <1>4 DEF RecorderNext

-----------------------------------------------------------------------------
(* The steps.                                                              *)

Places == Held /\ StoredOnce /\ NoneMissing

(* A worker that keeps its batch changes no place.                         *)
LEMMA PlacesKept ==
  ASSUME Places, NEW w \in Workers, UNCHANGED <<rec, logChan, rows, dropped, lost, doubted>>,
         \A v \in Workers : worker'[v].batch = worker[v].batch
  PROVE  Places'
<1>1. \A r : InBatch(r)' <=> InBatch(r)
  BY DEF InBatch
<1>2. Held'
  BY <1>1 DEF Places, Held
<1>3. StoredOnce' /\ NoneMissing'
  BY <1>1 DEF Places, StoredOnce, NoneMissing, Settled
<1> QED BY <1>2, <1>3 DEF Places

LEMMA PlacesCheck ==
  ASSUME RecorderTypeOK, Places, NEW r \in Records, Check(r)
  PROVE  Places'
<1>1. /\ rec[r] = "none" /\ rec'[r] \in {"checked", "ignored"}
      /\ \A s \in Records : s # r => rec'[s] = rec[s]
      /\ UNCHANGED <<main, logChan, worker, rows, dropped, lost, doubted>>
  BY DEF Check, RecorderTypeOK
<1>2. r \notin logChan /\ \A w \in Workers : r \notin worker[w].batch
  BY <1>1 DEF Places, Held, Handed
<1>3. ~(rows[r] > 0)
  BY <1>1 DEF Places, Held, Handed
<1>4. logChan \subseteq Records /\ \A w \in Workers : worker[w].batch \subseteq Records
  BY DEF RecorderTypeOK, Worker
<1>5. \A s : InBatch(s)' <=> InBatch(s)
  BY <1>1 DEF InBatch
<1>6. Held'
  BY <1>1, <1>2, <1>3, <1>4, <1>5 DEF Places, Held
<1>7. StoredOnce' /\ NoneMissing'
  BY <1>1, <1>5 DEF Places, StoredOnce, NoneMissing, Settled
<1> QED BY <1>6, <1>7 DEF Places

LEMMA PlacesSend ==
  ASSUME RecorderTypeOK, Places, NEW r \in Records, Send(r)
  PROVE  Places'
<1>1. /\ rec[r] = "checked" /\ rec'[r] \in Handed
      /\ \A s \in Records : s # r => rec'[s] = rec[s]
      /\ UNCHANGED <<main, worker, rows, lost, doubted>>
      /\ \/ logChan' = logChan \cup {r} /\ UNCHANGED dropped
         \/ dropped' = dropped \cup {r} /\ UNCHANGED logChan
  BY DEF Send, RecorderTypeOK, Handed
<1>2. r \notin logChan /\ \A w \in Workers : r \notin worker[w].batch
  BY <1>1 DEF Places, Held, Handed
<1>3. rows[r] = 0
  <2>1. ~(rows[r] > 0) /\ rows[r] \in Nat
    BY <1>1 DEF Places, Held, Handed, RecorderTypeOK
  <2> QED BY <2>1
<1>4. logChan \subseteq Records /\ \A w \in Workers : worker[w].batch \subseteq Records
  BY DEF RecorderTypeOK, Worker
<1>5. \A s : InBatch(s)' <=> InBatch(s)
  BY <1>1 DEF InBatch
<1>6. ~InBatch(r)
  BY <1>2 DEF InBatch
<1>7. Held'
  BY <1>1, <1>2, <1>3, <1>4, <1>5, <1>6 DEF Places, Held
<1>8. StoredOnce'
  BY <1>1 DEF Places, StoredOnce
<1>9. NoneMissing'
  BY <1>1, <1>5 DEF Places, NoneMissing, Settled
<1> QED BY <1>7, <1>8, <1>9 DEF Places

(* A record goes from the channel into a batch.                            *)
LEMMA PlacesReceive ==
  ASSUME RecorderTypeOK, Places, NEW w \in Workers, NEW r \in logChan,
         logChan' = logChan \ {r}, UNCHANGED <<rec, rows, dropped, lost, doubted>>,
         worker'[w].batch = worker[w].batch \cup {r},
         \A v \in Workers : v # w => worker'[v] = worker[v]
  PROVE  Places'
<1>1. \A s : InBatch(s)' <=> InBatch(s) \/ s = r
  BY DEF InBatch
<1>2. \A v \in Workers : r \notin worker[v].batch
  BY DEF Places, Held, InBatch
<1>3. rec[r] \in Handed /\ ~(rows[r] > 0)
  <2>1. rows[r] = 0 /\ rec[r] \in Handed
    BY DEF Places, Held
  <2> QED BY <2>1
<1>4. ASSUME NEW v \in Workers, NEW s \in worker'[v].batch
      PROVE  /\ rec[s] \in Handed
             /\ rows[s] > 0 => s \in doubted
             /\ \A u \in Workers : u # v => s \notin worker'[u].batch
  <2>1. CASE s = r
    <3>1. v = w
      BY <1>2, <1>4, <2>1
    <3> QED BY <1>2, <1>3, <2>1, <3>1
  <2>2. CASE s # r
    <3>1. \A u \in Workers : s \in worker'[u].batch <=> s \in worker[u].batch
      BY <2>2
    <3> QED BY <1>4, <3>1 DEF Places, Held
  <2> QED BY <2>1, <2>2
<1>5. Held'
  BY <1>1, <1>4 DEF Places, Held
<1>6. StoredOnce' /\ NoneMissing'
  BY <1>1 DEF Places, StoredOnce, NoneMissing, Settled
<1> QED BY <1>5, <1>6 DEF Places

(* The batch of a worker is written, or given up, or both.                 *)
LEMMA PlacesWrite ==
  ASSUME RecorderTypeOK, Places, NEW w \in Workers,
         UNCHANGED <<rec, logChan, dropped>>,
         \A v \in Workers : v # w => worker'[v].batch = worker[v].batch,
         \/ /\ rows' = Added(worker[w].batch)
            /\ worker'[w].batch = {} /\ UNCHANGED <<lost, doubted>>
         \/ /\ worker'[w].batch \in {{}, worker[w].batch}
            /\ \/ UNCHANGED <<rows, doubted>>
               \/ rows' = Added(worker[w].batch) /\ doubted' = doubted \cup worker[w].batch
            /\ \/ worker'[w].batch = worker[w].batch /\ UNCHANGED lost
               \/ lost' = lost \cup worker[w].batch
  PROVE  Places'
<1> DEFINE b == worker[w].batch
<1>1. b \subseteq Records /\ rows \in [Records -> Nat]
  BY DEF RecorderTypeOK, Worker
<1>2. \A v \in Workers : worker'[v].batch \subseteq worker[v].batch
  OBVIOUS
<1>3. \A s \in Records : /\ s \notin b => rows'[s] = rows[s] /\ (s \in doubted' <=> s \in doubted)
                         /\ s \in b => rows'[s] \in {rows[s], rows[s] + 1}
                         /\ s \in doubted => s \in doubted'
                         /\ s \in lost => s \in lost'
  BY <1>1 DEF Added
<1>4. \A s : InBatch(s)' => InBatch(s)
  BY <1>2 DEF InBatch
<1>5. \A s \in b : rec[s] \in Handed /\ s \notin logChan /\ (rows[s] > 0 => s \in doubted)
  BY DEF Places, Held, InBatch
<1>6. \A s \in logChan : rec[s] \in Handed /\ rows'[s] = 0 /\ ~InBatch(s)'
  <2>1. logChan \subseteq Records
    BY DEF RecorderTypeOK
  <2> QED BY <1>3, <1>4, <1>5, <2>1 DEF Places, Held
<1>7. ASSUME NEW v \in Workers, NEW s \in worker'[v].batch
      PROVE  /\ rec[s] \in Handed
             /\ rows'[s] > 0 => s \in doubted'
             /\ \A u \in Workers : u # v => s \notin worker'[u].batch
  <2>1. s \in worker[v].batch /\ s \in Records
    BY <1>2, <1>7 DEF RecorderTypeOK, Worker
  <2>2. rec[s] \in Handed /\ \A u \in Workers : u # v => s \notin worker'[u].batch
    BY <1>2, <2>1 DEF Places, Held
  <2>3. rows[s] > 0 => s \in doubted
    BY <2>1 DEF Places, Held
  <2>4. CASE s \in b
    <3>1. (rows' = rows /\ doubted' = doubted) \/ s \in doubted'
      <4>1. v = w /\ worker'[w].batch # {}
        BY <1>7, <2>1, <2>4 DEF Places, Held
      <4> QED BY <2>4, <4>1
    <3> QED BY <2>2, <2>3, <3>1
  <2>5. CASE s \notin b
    BY <1>3, <2>1, <2>2, <2>3, <2>5
  <2> QED BY <2>4, <2>5
<1>8. \A s \in Records : rows'[s] > 0 => rec[s] \in Handed
  BY <1>3, <1>5 DEF Places, Held
<1>9. Held'
  BY <1>6, <1>7, <1>8 DEF Held
<1>10. StoredOnce'
  <2>1. SUFFICES ASSUME NEW s \in Records, rows'[s] > 1 PROVE s \in doubted'
    BY DEF StoredOnce
  <2>2. rows[s] > 1 => s \in doubted
    BY DEF Places, StoredOnce
  <2>3. rows[s] \in Nat
    BY <1>1
  <2> QED BY <1>3, <1>5, <2>1, <2>2, <2>3
<1>11. NoneMissing'
  <2>1. SUFFICES ASSUME NEW s \in Records, rec[s] = "handed"
                 PROVE  Settled(s)' \/ s \in logChan \/ InBatch(s)'
    BY DEF NoneMissing
  <2>2. Settled(s) \/ s \in logChan \/ InBatch(s)
    BY <2>1 DEF Places, NoneMissing
  <2>3. rows[s] \in Nat
    BY <1>1
  <2>4. Settled(s) => Settled(s)'
    BY <1>3, <2>3 DEF Settled
  <2>5. CASE s \in b
    <3>1. \/ worker'[w].batch = b \/ s \in lost'
          \/ rows'[s] = rows[s] + 1
      BY <1>1, <2>5 DEF Added
    <3> QED BY <2>3, <2>5, <3>1 DEF Settled, InBatch
  <2>6. CASE s \notin b /\ InBatch(s)
    BY <2>6 DEF InBatch
  <2> QED BY <2>2, <2>4, <2>5, <2>6 DEF InBatch
<1> QED BY <1>9, <1>10, <1>11 DEF Places

(* Leaving and AllGone, when one worker moves.                             *)
Ends == Leaving /\ AllGone

LEMMA EndsKept ==
  ASSUME Ends, Running, NEW w \in Workers, UNCHANGED <<main, rec>>, logChan' \subseteq logChan,
         \A v \in Workers : v # w => worker'[v] = worker[v],
         worker'[w].at \in {"drain", "exited"} => Stopping,
         worker'[w].at = "write" /\ worker'[w].then # "select" => Stopping,
         worker'[w].at = "exited" => worker'[w].batch = {} /\ ChannelDone,
         worker'[w].at = "write" /\ worker'[w].then = "exited" => ChannelDone
  PROVE  Ends'
<1>1. (Stopping' <=> Stopping) /\ (ChannelDone => ChannelDone')
  BY DEF Stopping, ChannelDone
<1>2. AllGone'
  BY DEF AllGone, Running
<1>3. Leaving'
  <2>1. ASSUME NEW v \in Workers
        PROVE  /\ worker'[v].at \in {"drain", "exited"} => Stopping
               /\ worker'[v].at = "write" /\ worker'[v].then # "select" => Stopping
               /\ worker'[v].at = "exited" => worker'[v].batch = {} /\ ChannelDone
               /\ worker'[v].at = "write" /\ worker'[v].then = "exited" => ChannelDone
    <3>1. CASE v = w
      BY <3>1
    <3>2. CASE v # w
      BY <3>2 DEF Ends, Leaving
    <3> QED BY <3>1, <3>2
  <2> QED BY <1>1, <2>1 DEF Leaving
<1> QED BY <1>2, <1>3 DEF Ends

LEMMA FlushEnds ==
  ASSUME NEW f \in Worker, NEW l \in {"select", "drain", "exited"}
  PROVE  \/ f.batch = {} /\ Flush(f, l).at = l
         \/ Flush(f, l).at = "write" /\ Flush(f, l).then = l
BY DEF Flush, Worker

LEMMA WorkerNext ==
  ASSUME Inv, NEW w \in Workers, WorkerStep(w)
  PROVE  Places' /\ Ends'
<1>0. RecorderTypeOK /\ Places /\ Ends /\ worker \in [Workers -> Worker]
  BY DEF Inv, Places, Ends, RecorderTypeOK
<1> DEFINE f == worker[w]
<1>1. f \in Worker
  BY <1>0
<1>2. ASSUME NEW l \in {"select", "drain"}, Receive(w, l) PROVE Places' /\ Ends'
  <2>1. /\ f.at = l /\ Running /\ UNCHANGED <<main, rec, rows, dropped, lost, doubted>>
    BY <1>2 DEF Receive
  <2>2. PICK r \in logChan : /\ logChan' = logChan \ {r}
                             /\ worker' = [worker EXCEPT ![w] = Received(f, r, l)]
    BY <1>2 DEF Receive
  <2>3. r \in Records
    BY <1>0 DEF RecorderTypeOK
  <2>4. /\ worker'[w].batch = f.batch \cup {r}
        /\ \/ worker'[w].at = f.at /\ worker'[w].then = f.then
           \/ worker'[w].at = "write" /\ worker'[w].then = l
        /\ \A v \in Workers : v # w => worker'[v] = worker[v]
    <3>1. worker'[w] = Received(f, r, l)
      BY <1>0, <2>2
    <3> HIDE DEF f
    <3> QED BY <1>0, <1>1, <2>2, <2>3, <3>1, ReceivedType
  <2>5. Places'
    BY <1>0, <2>1, <2>2, <2>4, PlacesReceive
  <2>6. f.at = "drain" => Stopping
    BY <1>0 DEF Ends, Leaving
  <2>7. Ends'
    BY <1>0, <2>1, <2>2, <2>4, <2>6, EndsKept
  <2> QED BY <2>5, <2>7
<1>3. CASE Tick(w) \/ Drained(w)
  <2>1. PICK l \in {"select", "exited"} :
          /\ worker' = [worker EXCEPT ![w] = Flush(f, l)]
          /\ l = "exited" => f.at = "drain" /\ logChan = {}
    BY <1>3 DEF Tick, Drained
  <2>2. Running /\ UNCHANGED <<main, rec, logChan, rows, dropped, lost, doubted>>
    BY <1>3 DEF Tick, Drained
  <2>3. worker'[w] = Flush(f, l) /\ \A v \in Workers : v # w => worker'[v] = worker[v]
    BY <1>0, <2>1
  <2>4. worker'[w].batch = f.batch
    BY <1>1, <2>3, FlushType
  <2>5. \/ f.batch = {} /\ worker'[w].at = l
        \/ worker'[w].at = "write" /\ worker'[w].then = l
    BY <1>1, <2>3, FlushEnds
  <2>6. l = "exited" => Stopping /\ ChannelDone
    BY <1>0, <2>1 DEF Ends, Leaving, ChannelDone
  <2>7. Places'
    BY <1>0, <2>2, <2>3, <2>4, PlacesKept
  <2>8. Ends'
    BY <1>0, <2>2, <2>3, <2>4, <2>5, <2>6, EndsKept
  <2> QED BY <2>7, <2>8
<1>4. CASE SeeStop(w)
  <2>1. /\ Running /\ main = "stopped" /\ UNCHANGED <<main, rec, logChan, rows, dropped, lost, doubted>>
        /\ worker'[w].at = "drain" /\ worker'[w].batch = f.batch
        /\ \A v \in Workers : v # w => worker'[v] = worker[v]
    BY <1>0, <1>1, <1>4 DEF SeeStop, Worker
  <2>2. Places'
    BY <1>0, <2>1, PlacesKept
  <2>3. Ends'
    BY <1>0, <2>1, EndsKept DEF Stopping
  <2> QED BY <2>2, <2>3
<1>5. CASE Write(w)
  <2>1. /\ Running /\ f.at = "write" /\ rows' = Added(f.batch)
        /\ UNCHANGED <<main, rec, logChan, dropped, lost, doubted>>
        /\ worker'[w] = Empty(f)
        /\ \A v \in Workers : v # w => worker'[v] = worker[v]
    BY <1>0, <1>5 DEF Write
  <2>2. worker'[w].batch = {} /\ worker'[w].at = f.then
    BY <1>1, <2>1, EmptyType
  <2>3. Places'
    BY <1>0, <2>1, <2>2, PlacesWrite
  <2>4. /\ f.then \in {"drain", "exited"} => Stopping
        /\ f.then = "exited" => ChannelDone
        /\ f.then \in {"select", "drain", "exited"}
    BY <1>0, <1>1, <2>1 DEF Ends, Leaving, Worker
  <2>5. Ends'
    BY <1>0, <2>1, <2>2, <2>4, EndsKept
  <2> QED BY <2>3, <2>5
<1>6. CASE WriteFails(w)
  <2>1. /\ Running /\ f.at = "write" /\ UNCHANGED <<main, rec, logChan, dropped>>
        /\ \/ UNCHANGED <<rows, doubted>>
           \/ rows' = Added(f.batch) /\ doubted' = doubted \cup f.batch
        /\ \/ worker' = [worker EXCEPT ![w].tries = @ + 1] /\ UNCHANGED lost
           \/ worker' = [worker EXCEPT ![w] = Empty(f)] /\ lost' = lost \cup f.batch
    BY <1>6 DEF WriteFails
  <2>2. \A v \in Workers : v # w => worker'[v] = worker[v]
    BY <1>0, <2>1
  <2>3. \/ /\ worker'[w].batch = f.batch /\ worker'[w].at = f.at /\ worker'[w].then = f.then
           /\ UNCHANGED lost
        \/ /\ worker'[w].batch = {} /\ worker'[w].at = f.then
           /\ lost' = lost \cup f.batch
    <3>1. CASE worker' = [worker EXCEPT ![w].tries = @ + 1] /\ UNCHANGED lost
      BY <1>0, <1>1, <3>1 DEF Worker
    <3>2. CASE worker' = [worker EXCEPT ![w] = Empty(f)] /\ lost' = lost \cup f.batch
      <4>1. worker'[w] = Empty(f)
        BY <1>0, <3>2
      <4> QED BY <1>1, <3>2, <4>1, EmptyType
    <3> QED BY <2>1, <3>1, <3>2
  <2>4. Places'
    BY <1>0, <2>1, <2>2, <2>3, PlacesWrite
  <2>5. /\ f.then \in {"drain", "exited"} => Stopping
        /\ f.then = "exited" => ChannelDone
        /\ f.then \in {"select", "drain", "exited"}
    BY <1>0, <1>1, <2>1 DEF Ends, Leaving, Worker
  <2>6. Ends'
    BY <1>0, <2>1, <2>2, <2>3, <2>5, EndsKept
  <2> QED BY <2>4, <2>6
<1> QED BY <1>2, <1>3, <1>4, <1>5, <1>6 DEF WorkerStep

LEMMA InvNext == Inv /\ [RecorderNext]_recorder => Inv'
<1> SUFFICES ASSUME Inv, [RecorderNext]_recorder PROVE Inv'
  OBVIOUS
<1>0. RecorderTypeOK /\ Places /\ Ends /\ RecorderTypeOK'
  BY TypeNext DEF Inv, Places, Ends
<1> SUFFICES Places' /\ Ends'
  BY <1>0 DEF Inv, Places, Ends
<1>1. ASSUME NEW r \in Records, Check(r) PROVE Places' /\ Ends'
  <2>1. Places'
    BY <1>0, <1>1, PlacesCheck
  <2>2. /\ UNCHANGED <<main, logChan, worker>> /\ rec[r] = "none"
        /\ \A s \in Records : s # r => rec'[s] = rec[s]
    BY <1>0, <1>1 DEF Check, RecorderTypeOK
  <2>3. r \notin logChan /\ logChan \subseteq Records
    BY <1>0, <2>2 DEF Places, Held, Handed, RecorderTypeOK
  <2>4. Ends'
    BY <1>0, <2>2, <2>3 DEF Ends, Leaving, AllGone, Stopping, ChannelDone
  <2> QED BY <2>1, <2>4
<1>2. ASSUME NEW r \in Records, Send(r) PROVE Places' /\ Ends'
  <2>1. Places'
    BY <1>0, <1>2, PlacesSend
  <2>2. /\ UNCHANGED <<main, worker>> /\ rec[r] = "checked"
        /\ logChan' \subseteq logChan \cup {r}
        /\ \A s \in Records : s # r => rec'[s] = rec[s]
        /\ Stopping => rec'[r] = "late"
    BY <1>0, <1>2 DEF Send, RecorderTypeOK, Stopping, started
  <2>3. r \notin logChan /\ logChan \subseteq Records
    BY <1>0, <2>2 DEF Places, Held, Handed, RecorderTypeOK
  <2>4. Stopping /\ ChannelDone => ChannelDone'
    BY <2>2, <2>3 DEF ChannelDone
  <2>5. Leaving'
    BY <1>0, <2>2, <2>4 DEF Ends, Leaving, Stopping
  <2>6. AllGone'
    BY <1>0, <2>2 DEF Ends, AllGone
  <2> QED BY <2>1, <2>5, <2>6 DEF Ends
<1>3. ASSUME NEW w \in Workers, WorkerStep(w) PROVE Places' /\ Ends'
  BY <1>3, WorkerNext
<1>4. CASE ClearStarted \/ CloseStopCh \/ Exit \/ UNCHANGED recorder
  <2>1. UNCHANGED <<rec, logChan, worker, rows, dropped, lost, doubted>>
    BY <1>4 DEF ClearStarted, CloseStopCh, Exit, recorder
  <2>2. Places'
    BY <1>0, <2>1, RecorderAssumption, PlacesKept
  <2>3. Stopping => Stopping'
    BY <1>4 DEF ClearStarted, CloseStopCh, Exit, recorder, Stopping
  <2>4. Leaving'
    BY <1>0, <2>1, <2>3 DEF Ends, Leaving, ChannelDone
  <2>5. AllGone'
    BY <1>0, <1>4, <2>1 DEF Ends, AllGone, ClearStarted, CloseStopCh, Exit, recorder
  <2> QED BY <2>2, <2>4, <2>5 DEF Ends
<1> QED BY <1>1, <1>2, <1>3, <1>4 DEF RecorderNext

LEMMA InvDrains == Inv => StopDrains
<1> SUFFICES ASSUME Inv, main = "exited", NEW r \in Records, rec[r] = "handed"
             PROVE  Settled(r)
  BY DEF StopDrains
<1>1. \A w \in Workers : worker[w].at = "exited" /\ worker[w].batch = {} /\ ChannelDone
  BY DEF Inv, AllGone, Leaving
<1>2. ~InBatch(r)
  BY <1>1 DEF InBatch
<1>3. r \notin logChan
  BY <1>1, RecorderAssumption DEF ChannelDone
<1> QED BY <1>2, <1>3 DEF Inv, NoneMissing

-----------------------------------------------------------------------------
(* A call.                                                                 *)

Over == {"handed", "late", "ignored"}

(* The models used so far and the backups left stay within the chain.      *)
Chain(f) ==
  /\ f.at = "idle" => f.made = 0 /\ ~f.read
  /\ f.at = "backups" => ~f.read /\ f.made <= 1
  /\ f.at = "next" => f.left >= 1
  /\ f.at \in {"attempt", "sleep", "record", "send"} => f.made >= 1
  /\ f.at = "sleep" => f.n < MaxAttempts
  /\ f.at # "done" => IF f.read THEN f.made + f.left <= MaxBackups + 1
                                ELSE f.made <= 1 /\ f.left = 0

GoodCall == {f \in Call : Chain(f)}

(* Where the record of the k-th model of a call is.                        *)
Expected(f, k) ==
  IF k > f.made THEN {"none"}
  ELSE IF k < f.made \/ f.at \in {"idle", "backups", "next", "done"} THEN Over
  ELSE IF f.at = "send" THEN {"checked"} ELSE {"none"}

CallInv ==
  /\ call \in [Calls -> GoodCall]
  /\ \A c \in Calls : \A k \in 1..MaxBackups + 1 : rec[<<c, k>>] \in Expected(call[c], k)

LEMMA UsingGood ==
  ASSUME NEW f \in Call, f.made <= MaxBackups, IF f.read THEN f.made + f.left <= MaxBackups
                                                         ELSE f.made = 0 /\ f.left = 0
  PROVE  Using(f) \in GoodCall /\ Using(f).at = "attempt" /\ Using(f).made = f.made + 1
<1>1. /\ f.made \in Nat /\ f.left \in Nat /\ f.made + 1 \in 0..MaxBackups + 1 /\ 1 \in 0..MaxAttempts
      /\ MaxBackups \in Nat
  BY CallsAssumption DEF Call
<1>2. Using(f) \in Call
  BY <1>1 DEF Using, Call
<1>3. /\ Using(f).at = "attempt" /\ Using(f).made = f.made + 1
      /\ Using(f).read = f.read /\ Using(f).left = f.left
  BY DEF Using, Call
<1>4. Chain(Using(f))
  <2> DEFINE g == Using(f)
  <2>1. /\ g.at = "attempt" /\ g.made = f.made + 1 /\ g.read = f.read /\ g.left = f.left
    BY <1>3
  <2>2. IF g.read THEN g.made + g.left <= MaxBackups + 1 ELSE g.made <= 1 /\ g.left = 0
    BY <1>1, <2>1
  <2> HIDE DEF g
  <2>3. Chain(g)
    BY <1>1, <2>1, <2>2 DEF Chain
  <2> QED BY <2>3 DEF g
<1> QED BY <1>2, <1>3, <1>4 DEF GoodCall

LEMMA ReturnGood ==
  ASSUME NEW f \in Call
  PROVE  Return(f) \in GoodCall /\ Return(f).at = "done" /\ Return(f).made = f.made
<1>1. /\ 0 \in 0..MaxBackups /\ 0 \in 0..MaxAttempts
  BY CallsAssumption
<1>2. Return(f) \in Call /\ Return(f).at = "done" /\ Return(f).made = f.made
  BY <1>1 DEF Return, NoCall, Call
<1> QED BY <1>2 DEF GoodCall, Chain

LEMMA RestGood ==
  ASSUME NEW f \in Call, f.read, f.made + f.left <= MaxBackups + 1
  PROVE  Rest(f) \in GoodCall /\ Rest(f).at \in {"next", "done"} /\ Rest(f).made = f.made
<1>1. CASE f.left = 0
  BY <1>1, ReturnGood DEF Rest
<1>2. CASE f.left # 0
  <2> DEFINE g == [f EXCEPT !.at = "next", !.n = 0]
  <2>0. 0 \in 0..MaxAttempts
    BY CallsAssumption
  <2>1. /\ g \in Call /\ g.at = "next" /\ g.made = f.made /\ g.left = f.left /\ g.read = f.read
    BY <2>0 DEF Call
  <2>2. f.left \in Nat /\ f.left >= 1
    BY <1>2 DEF Call
  <2>3. Rest(f) = g
    BY <1>2 DEF Rest
  <2> HIDE DEF g
  <2> QED BY <2>1, <2>2, <2>3 DEF GoodCall, Chain
<1> QED BY <1>1, <1>2

LEMMA BackGood ==
  ASSUME NEW f \in GoodCall, f.at \notin {"idle", "done"}
  PROVE  /\ Back(f) \in GoodCall /\ Back(f).made = f.made
         /\ Back(f).at \in {"backups", "next", "done"}
<1>0. f \in Call /\ Chain(f)
  BY DEF GoodCall
<1>1. CASE f.kind # "chain" \/ f.out # "failed"
  BY <1>0, <1>1, ReturnGood DEF Back
<1>2. CASE f.kind = "chain" /\ f.out = "failed" /\ f.read
  BY <1>0, <1>2, RestGood DEF Back, Chain
<1>3. CASE f.kind = "chain" /\ f.out = "failed" /\ ~f.read
  <2> DEFINE g == [f EXCEPT !.at = "backups", !.n = 0]
  <2>0. 0 \in 0..MaxAttempts
    BY CallsAssumption
  <2>1. /\ g \in Call /\ g.at = "backups" /\ g.made = f.made /\ g.left = f.left /\ g.read = f.read
    BY <1>0, <2>0 DEF Call
  <2>2. f.made <= 1 /\ f.left = 0
    BY <1>0, <1>3 DEF Chain
  <2>3. Back(f) = g
    BY <1>3 DEF Back
  <2> HIDE DEF g
  <2> QED BY <1>3, <2>1, <2>2, <2>3 DEF GoodCall, Chain
<1> QED BY <1>1, <1>2, <1>3

-----------------------------------------------------------------------------
(* The steps of a call.                                                    *)

Resting == {"idle", "backups", "next", "done"}
Trying  == {"attempt", "sleep", "record"}

LEMMA CallTurn ==
  ASSUME CallInv, NEW c \in Calls, NEW g \in GoodCall, Turn(c, g),
         \A d \in Calls : d # c => \A k \in 1..MaxBackups + 1 : rec'[<<d, k>>] = rec[<<d, k>>],
         \A k \in 1..MaxBackups + 1 : rec'[<<c, k>>] \in Expected(g, k)
  PROVE  CallInv'
<1>1. call' \in [Calls -> GoodCall] /\ call'[c] = g
  BY DEF CallInv, Turn
<1>2. \A d \in Calls : d # c => call'[d] = call[d]
  BY DEF CallInv, Turn
<1>3. ASSUME NEW d \in Calls, NEW k \in 1..MaxBackups + 1
      PROVE  rec'[<<d, k>>] \in Expected(call'[d], k)
  <2>1. CASE d = c
    BY <1>1, <2>1
  <2>2. CASE d # c
    BY <1>2, <2>2 DEF CallInv
  <2> QED BY <2>1, <2>2
<1> QED BY <1>1, <1>3 DEF CallInv, Expected

LEMMA QuietTurn ==
  ASSUME CallInv, NEW c \in Calls, NEW g \in GoodCall, Turn(c, g), UNCHANGED rec,
         \/ /\ g.made = call[c].made
            /\ \/ g.at \in Resting /\ call[c].at \in Resting
               \/ g.at \in Trying /\ call[c].at \in Trying
         \/ /\ g.made = call[c].made + 1
            /\ g.at = "attempt" /\ call[c].at \in Resting
  PROVE  CallInv'
<1>1. call[c] \in Call /\ g \in Call
  BY DEF CallInv, GoodCall
<1>2. call[c].made \in Nat
  BY <1>1, CallsAssumption DEF Call
<1>3. ASSUME NEW k \in 1..MaxBackups + 1 PROVE rec[<<c, k>>] \in Expected(g, k)
  <2>1. rec[<<c, k>>] \in Expected(call[c], k)
    BY DEF CallInv
  <2>2. k \in Nat
    OBVIOUS
  <2> QED BY <1>2, <2>1, <2>2 DEF Expected, Resting, Trying
<1> QED BY <1>3, CallTurn

(* The record of the model in use moves, and the call with it.             *)
LEMMA RecordTurn ==
  ASSUME RecorderTypeOK, CallInv, NEW c \in Calls, NEW g \in GoodCall, Turn(c, g),
         call[c].at \in {"record", "send"}, g.made = call[c].made,
         \A s \in Records : s # Record(c) => rec'[s] = rec[s],
         \/ g.at = "send" /\ rec'[Record(c)] = "checked"
         \/ g.at \in Resting /\ rec'[Record(c)] \in Over
  PROVE  CallInv'
<1>1. call[c] \in Call /\ g \in Call
  BY DEF CallInv, GoodCall
<1>2. g.made \in Nat
  BY <1>1, CallsAssumption DEF Call
<1>3. \A d \in Calls : \A k \in 1..MaxBackups + 1 : <<d, k>> \in Records
  BY CallsAssumption
<1>4. ASSUME NEW k \in 1..MaxBackups + 1 PROVE rec'[<<c, k>>] \in Expected(g, k)
  <2>1. rec[<<c, k>>] \in Expected(call[c], k)
    BY DEF CallInv
  <2>2. k \in Nat
    OBVIOUS
  <2>3. CASE k = g.made
    BY <1>2, <2>3 DEF Record, Expected, Resting
  <2>4. CASE k # g.made
    <3>1. rec'[<<c, k>>] = rec[<<c, k>>]
      BY <1>3, <2>4 DEF Record
    <3> QED BY <1>2, <2>1, <2>2, <2>4, <3>1 DEF Expected
  <2> QED BY <2>3, <2>4
<1>5. \A d \in Calls : d # c => \A k \in 1..MaxBackups + 1 : rec'[<<d, k>>] = rec[<<d, k>>]
  BY <1>3 DEF Record
<1> QED BY <1>4, <1>5, CallTurn

LEMMA RecordTyped ==
  ASSUME CallInv, NEW c \in Calls, call[c].at \in {"record", "send"}
  PROVE  Record(c) \in Records
<1>1. call[c] \in Call /\ Chain(call[c])
  BY DEF CallInv, GoodCall
<1>2. call[c].made \in 1..MaxBackups + 1
  BY <1>1, CallsAssumption DEF Call, Chain
<1> QED BY <1>2, CallsAssumption DEF Record

LEMMA CallMoves ==
  ASSUME RecorderTypeOK, CallInv, NEW c \in Calls, CallStep(c)
  PROVE  CallInv'
<1> DEFINE f == call[c]
<1>0. f \in GoodCall /\ f \in Call /\ Chain(f) /\ f.made \in Nat /\ f.left \in Nat
  BY CallsAssumption DEF CallInv, GoodCall, Call
<1>1. CASE Begin(c)
  <2>1. f.at = "idle" /\ UNCHANGED rec
    BY <1>1 DEF Begin, At, Quiet, recorder
  <2>2. PICK k \in Kinds :
          LET h == [f EXCEPT !.kind = k] IN
          Turn(c, Using(h)) \/ Turn(c, [h EXCEPT !.at = "backups"]) \/ Turn(c, Return(h))
    BY <1>1 DEF Begin
  <2> DEFINE h == [f EXCEPT !.kind = k]
  <2>3. h \in Call /\ h.at = "idle" /\ h.made = f.made /\ h.left = f.left /\ h.read = f.read
    BY <1>0, <2>1 DEF Call
  <2>4. f.made = 0 /\ ~f.read /\ f.left = 0
    BY <1>0, <2>1 DEF Chain
  <2>5. Turn(c, Using(h)) \/ Turn(c, [h EXCEPT !.at = "backups"]) \/ Turn(c, Return(h))
    BY <2>2
  <2> HIDE DEF h
  <2>6. CASE Turn(c, Using(h))
    <3>1. Using(h) \in GoodCall /\ Using(h).at = "attempt" /\ Using(h).made = f.made + 1
      BY <2>3, <2>4, UsingGood, CallsAssumption
    <3> QED BY <2>1, <2>6, <3>1, QuietTurn DEF Resting
  <2>7. CASE Turn(c, [h EXCEPT !.at = "backups"])
    <3> DEFINE g == [h EXCEPT !.at = "backups"]
    <3>1. g \in Call /\ g.at = "backups" /\ g.made = h.made /\ g.left = h.left /\ g.read = h.read
      BY <2>3 DEF Call
    <3>2. Turn(c, g)
      BY <2>7
    <3> HIDE DEF g
    <3>3. g \in GoodCall
      BY <2>3, <2>4, <3>1 DEF GoodCall, Chain
    <3> QED BY <2>1, <2>3, <3>1, <3>2, <3>3, QuietTurn DEF Resting
  <2>8. CASE Turn(c, Return(h))
    <3>1. Return(h) \in GoodCall /\ Return(h).at = "done" /\ Return(h).made = f.made
      BY <2>3, ReturnGood
    <3> QED BY <2>1, <2>8, <3>1, QuietTurn DEF Resting
  <2> QED BY <2>5, <2>6, <2>7, <2>8
<1>2. CASE ReadBackups(c)
  <2>1. f.at = "backups" /\ UNCHANGED rec
    BY <1>2 DEF ReadBackups, At, Quiet, recorder
  <2>2. PICK m \in 0..MaxBackups : Turn(c, Rest([f EXCEPT !.read = TRUE, !.left = m]))
    BY <1>2 DEF ReadBackups
  <2> DEFINE g == [f EXCEPT !.read = TRUE, !.left = m]
  <2>3. g \in Call /\ g.read /\ g.left = m /\ g.made = f.made
    BY <1>0 DEF Call
  <2>4. f.made <= 1
    BY <1>0, <2>1 DEF Chain
  <2>5. Turn(c, Rest(g))
    BY <2>2
  <2> HIDE DEF g
  <2>6. Rest(g) \in GoodCall /\ Rest(g).at \in {"next", "done"} /\ Rest(g).made = g.made
    BY <1>0, <2>3, <2>4, RestGood, CallsAssumption
  <2> QED BY <2>1, <2>3, <2>5, <2>6, QuietTurn DEF Resting
<1>3. CASE NextModel(c)
  <2> DEFINE g == [f EXCEPT !.left = @ - 1]
  <2>1. f.at = "next" /\ UNCHANGED rec
    BY <1>3 DEF NextModel, At, Quiet, recorder
  <2>2. f.left >= 1 /\ f.read /\ f.made + f.left <= MaxBackups + 1
    BY <1>0, <2>1, CallsAssumption DEF Chain
  <2>3. g \in Call /\ g.read /\ g.left = f.left - 1 /\ g.made = f.made
    BY <1>0, <2>2, CallsAssumption DEF Call
  <2>4. Turn(c, Using(g)) \/ Turn(c, Rest(g))
    BY <1>3 DEF NextModel
  <2>5. g.made + g.left <= MaxBackups /\ g.made <= MaxBackups
    BY <1>0, <2>2, <2>3, CallsAssumption
  <2> HIDE DEF g
  <2>6. CASE Turn(c, Using(g))
    <3>1. Using(g) \in GoodCall /\ Using(g).at = "attempt" /\ Using(g).made = g.made + 1
      BY <2>3, <2>5, UsingGood
    <3> QED BY <2>1, <2>3, <2>6, <3>1, QuietTurn DEF Resting
  <2>7. CASE Turn(c, Rest(g))
    <3>1. g.made + g.left <= MaxBackups + 1
      BY <1>0, <2>3, <2>5, CallsAssumption
    <3>2. Rest(g) \in GoodCall /\ Rest(g).at \in {"next", "done"} /\ Rest(g).made = g.made
      BY <2>3, <3>1, RestGood
    <3> QED BY <2>1, <2>3, <2>7, <3>2, QuietTurn DEF Resting
  <2> QED BY <2>4, <2>6, <2>7
<1>4. CASE Attempt(c) \/ Sleep(c)
  <2>1. f.at \in {"attempt", "sleep"} /\ UNCHANGED rec
    BY <1>4 DEF Attempt, Sleep, At, Quiet, recorder
  <2>2. PICK g : /\ Turn(c, g)
                 /\ g \in Call /\ g.made = f.made /\ g.left = f.left /\ g.read = f.read
                 /\ g.at \in Trying /\ (g.at = "sleep" => g.n < MaxAttempts)
    <3>1. CASE Attempt(c)
      <4>1. ASSUME NEW o \in {"ok", "failed", "stopped"},
                   Turn(c, [f EXCEPT !.at = "record", !.out = o])
            PROVE  \E g : /\ Turn(c, g)
                          /\ g \in Call /\ g.made = f.made /\ g.left = f.left /\ g.read = f.read
                          /\ g.at = "record"
        <5> WITNESS [f EXCEPT !.at = "record", !.out = o]
        <5> QED BY <1>0, <4>1 DEF Call
      <4>2. ASSUME f.n < MaxAttempts, Turn(c, [f EXCEPT !.at = "sleep"])
            PROVE  \E g : /\ Turn(c, g)
                          /\ g \in Call /\ g.made = f.made /\ g.left = f.left /\ g.read = f.read
                          /\ g.at = "sleep" /\ g.n < MaxAttempts
        <5> WITNESS [f EXCEPT !.at = "sleep"]
        <5> QED BY <1>0, <4>2 DEF Call
      <4>3. \/ \E o \in {"ok", "failed", "stopped"} : Turn(c, [f EXCEPT !.at = "record", !.out = o])
            \/ f.n < MaxAttempts /\ Turn(c, [f EXCEPT !.at = "sleep"])
        BY <3>1 DEF Attempt
      <4> QED BY <4>1, <4>2, <4>3 DEF Trying
    <3>2. CASE Sleep(c)
      <4>0. f.n + 1 \in 0..MaxAttempts
        BY <1>0, <3>2, CallsAssumption DEF Sleep, At, Chain, Call
      <4>1. ASSUME Turn(c, [f EXCEPT !.at = "attempt", !.n = @ + 1])
            PROVE  \E g : /\ Turn(c, g)
                          /\ g \in Call /\ g.made = f.made /\ g.left = f.left /\ g.read = f.read
                          /\ g.at = "attempt"
        <5> WITNESS [f EXCEPT !.at = "attempt", !.n = @ + 1]
        <5> QED BY <1>0, <4>0, <4>1 DEF Call
      <4>2. ASSUME Turn(c, [f EXCEPT !.at = "record", !.out = "stopped"])
            PROVE  \E g : /\ Turn(c, g)
                          /\ g \in Call /\ g.made = f.made /\ g.left = f.left /\ g.read = f.read
                          /\ g.at = "record"
        <5> WITNESS [f EXCEPT !.at = "record", !.out = "stopped"]
        <5> QED BY <1>0, <4>2 DEF Call
      <4>3. \/ Turn(c, [f EXCEPT !.at = "attempt", !.n = @ + 1])
            \/ Turn(c, [f EXCEPT !.at = "record", !.out = "stopped"])
        BY <3>2 DEF Sleep
      <4> QED BY <4>1, <4>2, <4>3 DEF Trying
    <3> QED BY <1>4, <3>1, <3>2
  <2>3. /\ f.made >= 1
        /\ IF f.read THEN f.made + f.left <= MaxBackups + 1 ELSE f.made <= 1 /\ f.left = 0
    BY <1>0, <2>1 DEF Chain
  <2>4. g \in GoodCall
    BY <2>2, <2>3 DEF GoodCall, Chain, Trying
  <2> QED BY <2>1, <2>2, <2>4, QuietTurn DEF Trying
<1>5. CASE HandOver(c)
  <2>1. f.at = "record" /\ Check(Record(c))
    BY <1>5 DEF HandOver, At
  <2>2. Record(c) \in Records
    BY <2>1, RecordTyped
  <2>3. /\ rec'[Record(c)] = (IF started THEN "checked" ELSE "ignored")
        /\ \A s \in Records : s # Record(c) => rec'[s] = rec[s]
    BY <2>1, <2>2 DEF Check, RecorderTypeOK
  <2>4. CASE started
    <3> DEFINE g == [f EXCEPT !.at = "send"]
    <3>1. g \in Call /\ g.at = "send" /\ g.made = f.made /\ g.left = f.left /\ g.read = f.read
      BY <1>0 DEF Call
    <3>2. Turn(c, g)
      BY <1>5, <2>4 DEF HandOver
    <3> HIDE DEF g
    <3>3. g \in GoodCall
      BY <1>0, <2>1, <3>1 DEF GoodCall, Chain
    <3> QED BY <2>1, <2>3, <2>4, <3>1, <3>2, <3>3, RecordTurn
  <2>5. CASE ~started
    <3>1. Turn(c, Back(f))
      BY <1>5, <2>5 DEF HandOver
    <3>2. Back(f) \in GoodCall /\ Back(f).made = f.made /\ Back(f).at \in {"backups", "next", "done"}
      BY <1>0, <2>1, BackGood
    <3> QED BY <2>1, <2>3, <2>5, <3>1, <3>2, RecordTurn DEF Resting, Over
  <2> QED BY <2>4, <2>5
<1>6. CASE HandedOver(c)
  <2>1. f.at = "send" /\ Send(Record(c)) /\ Turn(c, Back(f))
    BY <1>6 DEF HandedOver, At
  <2>2. Record(c) \in Records
    BY <2>1, RecordTyped
  <2>3. /\ rec'[Record(c)] \in Over
        /\ \A s \in Records : s # Record(c) => rec'[s] = rec[s]
    BY <2>1, <2>2 DEF Send, RecorderTypeOK, Over
  <2>4. Back(f) \in GoodCall /\ Back(f).made = f.made /\ Back(f).at \in {"backups", "next", "done"}
    BY <1>0, <2>1, BackGood
  <2> QED BY <2>1, <2>3, <2>4, RecordTurn DEF Resting
<1> QED BY <1>1, <1>2, <1>3, <1>4, <1>5, <1>6 DEF CallStep

-----------------------------------------------------------------------------
(* The theorems.                                                           *)

LEMMA StepRecords ==
  ASSUME CallInv, [CallsNext]_callVars
  PROVE  [RecorderNext]_recorder
<1>1. ASSUME NEW c \in Calls, CallStep(c) PROVE [RecorderNext]_recorder
  <2>1. CASE HandOver(c) \/ HandedOver(c)
    <3>1. Record(c) \in Records
      BY <2>1, RecordTyped DEF HandOver, HandedOver, At
    <3> QED BY <2>1, <3>1 DEF HandOver, HandedOver, RecorderNext
  <2>2. CASE ~(HandOver(c) \/ HandedOver(c))
    BY <1>1, <2>2 DEF CallStep, Begin, ReadBackups, NextModel, Attempt, Sleep, Quiet
  <2> QED BY <2>1, <2>2
<1>2. CASE UNCHANGED callVars
  BY <1>2 DEF callVars
<1> QED BY <1>1, <1>2 DEF CallsNext, RecorderNext

LEMMA CallInvNext ==
  ASSUME RecorderTypeOK, CallInv, [CallsNext]_callVars
  PROVE  CallInv'
<1>1. CASE \E c \in Calls : CallStep(c)
  BY <1>1, CallMoves
<1>2. CASE UNCHANGED <<call, rec>>
  BY <1>2 DEF CallInv
<1>3. (\E w \in Workers : WorkerStep(w)) => UNCHANGED rec
  BY DEF WorkerStep, Receive, Tick, SeeStop, Drained, Write, WriteFails
<1>4. ClearStarted \/ CloseStopCh \/ Exit \/ UNCHANGED callVars => UNCHANGED rec
  BY DEF ClearStarted, CloseStopCh, Exit, callVars, recorder
<1> QED BY <1>1, <1>2, <1>3, <1>4 DEF CallsNext, callVars

LEMMA CallInvInit == CallsInit => RecorderInit /\ CallInv
<1> SUFFICES ASSUME CallsInit PROVE CallInv
  BY DEF CallsInit
<1>0. 0 \in 0..MaxBackups /\ 0 \in 0..MaxBackups + 1 /\ 0 \in 0..MaxAttempts /\ MaxBackups \in Nat
  BY CallsAssumption
<1>1. NoCall \in GoodCall
  <2>1. NoCall \in Call
    BY <1>0 DEF NoCall, Call
  <2> QED BY <1>0, <2>1 DEF GoodCall, Chain, NoCall
<1>2. call \in [Calls -> GoodCall] /\ \A c \in Calls : call[c].made = 0
  BY <1>1 DEF CallsInit, NoCall
<1>3. \A c \in Calls : \A k \in 1..MaxBackups + 1 : rec[<<c, k>>] = "none"
  BY CallsAssumption DEF CallsInit, RecorderInit
<1> QED BY <1>2, <1>3 DEF CallInv, Expected

(* No record is written twice, by one worker or by both, unless a          *)
(* statement that was reported as failed had taken effect.                 *)
THEOREM RecordsAreStoredOnce == RecorderSpec => []StoredOnce
<1>1. Inv => StoredOnce
  BY DEF Inv
<1> QED BY <1>1, InitInv, InvNext, PTL DEF RecorderSpec

(* Whatever the size of the channel and of the batches and however many    *)
(* workers there are, main leaves Stop with nothing that was handed over   *)
(* before it still in the channel or in a batch.                           *)
THEOREM StopLeavesNothing == RecorderSpec => []StopDrains
BY InitInv, InvNext, InvDrains, PTL DEF RecorderSpec

(* The calls use the recorder as it is modelled: seen from it, each of     *)
(* their steps is a caller's step or none.                                 *)
THEOREM CallsRefineRecorder == CallsSpec => RecorderSpec
<1>1. CallsInit => RecorderInit /\ CallInv /\ RecorderTypeOK
  BY CallInvInit, InitInv DEF Inv
<1>2. RecorderTypeOK /\ CallInv /\ [CallsNext]_callVars
        => RecorderTypeOK' /\ CallInv' /\ [RecorderNext]_recorder
  BY StepRecords, CallInvNext, TypeNext
<1> QED BY <1>1, <1>2, PTL DEF CallsSpec, RecorderSpec

(* Every use of a model has handed over its record when the call returns,  *)
(* for every number of backups and attempts, and none that was not used.   *)
THEOREM UsesAreRecorded == CallsSpec => []CallsRecorded
<1>1. CallsInit => CallInv /\ RecorderTypeOK
  BY CallInvInit, InitInv DEF Inv
<1>2. RecorderTypeOK /\ CallInv /\ [CallsNext]_callVars => RecorderTypeOK' /\ CallInv'
  BY StepRecords, CallInvNext, TypeNext
<1>3. CallInv => CallsRecorded
  <2> SUFFICES ASSUME CallInv, NEW c \in Calls, call[c].at = "done", NEW k \in 1..MaxBackups + 1
               PROVE  k <= call[c].made <=> rec[<<c, k>>] \in {"handed", "late", "ignored"}
    BY DEF CallsRecorded
  <2>1. call[c].made \in Nat /\ k \in Nat
    BY CallsAssumption DEF CallInv, GoodCall, Call
  <2>2. rec[<<c, k>>] \in Expected(call[c], k)
    BY DEF CallInv
  <2> QED BY <2>1, <2>2 DEF Expected, Over
<1> QED BY <1>1, <1>2, <1>3, PTL DEF CallsSpec
=============================================================================
