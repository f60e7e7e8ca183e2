-------------------------------- MODULE ScanRuns --------------------------------
(***************************************************************************)
(* What the dependency audit promises about its runs, whoever triggers,    *)
(* cancels, retries and deletes at the same time: a run is queued only     *)
(* while its project has no other one, or when the database would not say  *)
(* whether it has (such runs are in blind); it is claimed once, and ends   *)
(* once, except that a run that was cancelled may still succeed.  Nobody   *)
(* executes the runs of a server that died.  Module DepAuditScan           *)
(* implements it, with handlers, goroutines, locks and contexts.           *)
(***************************************************************************)
EXTENDS Naturals

CONSTANTS
  Projects,
  NRuns     \* how many runs are ever made

RunIds == 1..NRuns
Active == {"queued", "running"}

VARIABLES
  phase,   \* of each run, "none" when it has no row
  owner,   \* the project a run is for
  made,    \* the newest run
  dead,    \* the runs made before the server died last
  blind    \* the runs that were queued unseen

vars == <<phase, owner, made, dead, blind>>

Init ==
  /\ phase = [r \in RunIds |-> "none"]
  /\ owner \in [RunIds -> Projects]
  /\ made = 0 /\ dead = {} /\ blind = {}

Put(r, s) == phase' = [phase EXCEPT ![r] = s]

Make(p, s) ==
  /\ made < NRuns /\ made' = made + 1
  /\ Put(made + 1, s)
  /\ owner' = [owner EXCEPT ![made + 1] = p]
  /\ UNCHANGED dead

(* A run enters the queue of a project that has none.                      *)
Queue(p) ==
  /\ \A r \in RunIds : phase[r] \in Active => owner[r] # p
  /\ Make(p, "queued") /\ UNCHANGED blind

QueueUnseen(p) == Make(p, "queued") /\ blind' = blind \cup {made + 1}

(* It is put on record that a project already had one.                     *)
Record(p) == Make(p, "skipped") /\ UNCHANGED blind

Claim(r) ==
  /\ phase[r] = "queued" /\ r \notin dead
  /\ Put(r, "running")
  /\ UNCHANGED <<owner, made, dead, blind>>

(* A run ends by itself, or has succeeded although it was cancelled.       *)
End(r) ==
  /\ r \notin dead
  /\ \/ phase[r] = "running" /\ \E s \in {"success", "failed", "skipped"} : Put(r, s)
     \/ phase[r] = "cancelled" /\ Put(r, "success")
  /\ UNCHANGED <<owner, made, dead, blind>>

Cancel(r) ==
  /\ phase[r] \in Active
  /\ Put(r, "cancelled")
  /\ UNCHANGED <<owner, made, dead, blind>>

(* The rows of a task are deleted.                                         *)
Remove(some) ==
  /\ phase' = [r \in RunIds |-> IF r \in some THEN "none" ELSE phase[r]]
  /\ UNCHANGED <<owner, made, dead, blind>>

(* The server dies; the next one fails what was queued and what it takes   *)
(* for stale, and leaves the rest of what was running; or it cannot tell   *)
(* and leaves them all.                                                    *)
Recover(stale) ==
  /\ \A r \in stale : phase[r] \in Active
  /\ stale # {} => \A r \in RunIds : phase[r] = "queued" => r \in stale
  /\ phase' = [r \in RunIds |-> IF r \in stale THEN "failed" ELSE phase[r]]
  /\ dead' = 1..made
  /\ UNCHANGED <<owner, made, blind>>

Next ==
  \/ \E p \in Projects : Queue(p) \/ QueueUnseen(p) \/ Record(p)
  \/ \E r \in RunIds : Claim(r) \/ End(r) \/ Cancel(r)
  \/ \E some \in SUBSET RunIds : Remove(some) \/ Recover(some)

Spec == Init /\ [][Next]_vars
=============================================================================
