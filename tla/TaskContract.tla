----------------------------- MODULE TaskContract -----------------------------
(***************************************************************************)
(* What the task service promises about a task, whoever acts on it and in  *)
(* whatever order: it passes through the queue or straight into execution, *)
(* only a running task receives an outcome, an outcome is never replaced   *)
(* by another one, and a crew that works on a task does not leave it       *)
(* running. Only the death of the process and a crew that cannot write the *)
(* outcome break the last promise, and lost records for which tasks they   *)
(* did. Module TaskLifecycle implements it.                                *)
(***************************************************************************)
CONSTANT Tasks

VARIABLES
  phase,   \* the task's status
  manned,  \* the tasks some execution is still going to settle
  lost     \* running tasks whose crew is gone for one of those reasons

vars == <<phase, manned, lost>>

Outcomes == {"success", "failed", "stopped", "timeout"}

Init ==
  /\ phase = [t \in Tasks |-> "none"]
  /\ manned = {}
  /\ lost = {}

Put(t, s) == phase' = [phase EXCEPT ![t] = s]

(* A task enters the queue: it is created, or retried, or put back.         *)
Enqueue(t) ==
  /\ Put(t, "pending")
  /\ lost' = lost \ {t}
  /\ UNCHANGED manned

(* An execution takes the task, whatever has become of it.                  *)
Take(t) ==
  /\ phase[t] # "none"
  /\ Put(t, "running")
  /\ manned' = manned \cup {t}
  /\ lost' = lost \ {t}

(* A second execution works beside the first one, or beside an outcome.     *)
Join(t) ==
  /\ phase[t] # "none"
  /\ manned' = manned \cup {t}
  /\ UNCHANGED <<phase, lost>>

(* A running task receives its outcome, and its crew may stay or leave.     *)
Settle(t) ==
  /\ phase[t] = "running"
  /\ \E s \in Outcomes : Put(t, s)
  /\ manned' \in {manned, manned \ {t}}
  /\ lost' = lost \ {t}

(* A crew leaves a task that is not running.                                *)
Leave(t) ==
  /\ phase[t] # "running"
  /\ manned' = manned \ {t}
  /\ UNCHANGED <<phase, lost>>

(* A crew cannot write the outcome of a running task and leaves it so.      *)
Forsake(t) ==
  /\ phase[t] = "running"
  /\ manned' \in {manned, manned \ {t}}
  /\ lost' = lost \cup {t}
  /\ UNCHANGED phase

Die ==
  /\ manned' = {}
  /\ lost' = {t \in Tasks : phase[t] = "running"}
  /\ UNCHANGED phase

Next ==
  \/ \E t \in Tasks : \/ Enqueue(t) \/ Take(t) \/ Join(t) \/ Settle(t)
                      \/ Leave(t) \/ Forsake(t)
  \/ Die

Spec == Init /\ [][Next]_vars
=============================================================================
