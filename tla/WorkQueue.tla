------------------------------- MODULE WorkQueue -------------------------------
(***************************************************************************)
(* What the synchronization queue of the dependency audit promises about   *)
(* an item, whoever drains it and however often: it is queued once, tried  *)
(* by one hand at a time and only when it is due, at most Limit times, and *)
(* whatever is reported done was stored by then.  Whoever dies or panics   *)
(* with an item, before or after its answer is stored, leaves it in the    *)
(* queue as it was.  Module SyncQueue implements it, with syncers, their   *)
(* flag and their batches.                                                 *)
(***************************************************************************)
EXTENDS Naturals, FiniteSets

CONSTANTS
  Items,
  Once,   \* the items that are tried once and done whether stored or not
  Limit,  \* how often an item is tried
  Size    \* how many items are in hand at a time

VARIABLES
  state,   \* none, pending, done, skipped or failed
  tries,   \* how often the item was tried without success
  ripe,    \* the pending items whose time has come
  hand,    \* the items being tried
  stored   \* the items whose answers are kept

vars == <<state, tries, ripe, hand, stored>>

Init ==
  /\ state = [i \in Items |-> "none"]
  /\ tries = [i \in Items |-> 0]
  /\ ripe = {} /\ hand = {} /\ stored = {}

(* Items the queue does not know enter it, to be tried at once.            *)
Enqueue(new) ==
  /\ \A i \in new : state[i] = "none"
  /\ state' = [i \in Items |-> IF i \in new THEN "pending" ELSE state[i]]
  /\ tries' = [i \in Items |-> IF i \in new THEN 0 ELSE tries[i]]
  /\ ripe' = ripe \cup new
  /\ UNCHANGED <<hand, stored>>

(* The next items are taken when nobody has any.                           *)
Take(some) ==
  /\ hand = {} /\ some \subseteq ripe /\ Cardinality(some) <= Size
  /\ hand' = some
  /\ UNCHANGED <<state, tries, ripe, stored>>

Put(i, s) ==
  /\ state' = [state EXCEPT ![i] = s]
  /\ ripe' = ripe \ {i}
  /\ hand' = hand \ {i}

(* The answer for an item in hand is stored,                               *)
Keep(i) ==
  /\ i \in hand
  /\ stored' = stored \cup {i}
  /\ UNCHANGED <<state, tries, ripe, hand>>

(* and an item whose answer is stored can be done; ...                     *)
Finish(i) ==
  /\ i \in hand
  /\ i \in stored \cup Once
  /\ Put(i, "done")
  /\ UNCHANGED <<tries, stored>>

(* ... or it cannot be answered at all, ...                                *)
Skip(i) ==
  /\ i \in hand
  /\ Put(i, "skipped")
  /\ UNCHANGED <<tries, stored>>

(* ... or has to be tried again later, unless that was its last try.       *)
Retry(i) ==
  /\ i \in hand \ Once /\ tries[i] < Limit
  /\ tries' = [tries EXCEPT ![i] = @ + 1]
  /\ Put(i, IF tries'[i] = Limit THEN "failed" ELSE "pending")
  /\ UNCHANGED stored

(* Items slip out of the hand, and are in the queue as before.             *)
Drop(some) ==
  /\ hand' = hand \ some
  /\ UNCHANGED <<state, tries, ripe, stored>>

(* An item that waits becomes due.                                         *)
Ripen(i) ==
  /\ state[i] = "pending"
  /\ ripe' = ripe \cup {i}
  /\ UNCHANGED <<state, tries, hand, stored>>

(* Items that are through are forgotten, not what was stored.              *)
Forget(old) ==
  /\ \A i \in old : state[i] \in {"done", "skipped"}
  /\ state' = [i \in Items |-> IF i \in old THEN "none" ELSE state[i]]
  /\ tries' = [i \in Items |-> IF i \in old THEN 0 ELSE tries[i]]
  /\ UNCHANGED <<ripe, hand, stored>>

Next ==
  \/ \E some \in SUBSET Items : Enqueue(some) \/ Take(some) \/ Drop(some) \/ Forget(some)
  \/ \E i \in Items : Keep(i) \/ Finish(i) \/ Skip(i) \/ Retry(i) \/ Ripen(i)

Spec == Init /\ [][Next]_vars
=============================================================================
