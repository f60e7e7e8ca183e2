-------------------------- MODULE MCTaskLifecycle --------------------------
(* Instances of TaskLifecycle for TLC: one project, tasks by kind.         *)
EXTENDS TaskLifecycle, TLC

OneProject  == [t \in Tasks |-> "p"]
AllChat     == [t \in Tasks |-> "chat"]
AllReview   == [t \in Tasks |-> "review"]
ChatReviewChat == [t \in Tasks |-> IF t = 2 THEN "review" ELSE "chat"]
Slots       == Permutations(Runs) \cup Permutations(Ops)
=============================================================================
