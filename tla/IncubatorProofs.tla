--------------------------- MODULE IncubatorProofs ---------------------------
(***************************************************************************)
(* Proofs about Incubator.                                                 *)
(*                                                                         *)
(* JobsOK relates the goroutine of a job to its row, to the runner's map   *)
(* and to the list of a poll; FramesOK says which rule a request that      *)
(* publishes works on; ConfigsOK who still has to add a configuration.     *)
(***************************************************************************)
EXTENDS Incubator, TLAPS

RuleStages == {"list", "configs", "publish"}

JobOK(j) ==
  /\ act[j].at = "idle" => job[j].status # "running"
  /\ act[j].at \in {"idle", "killed"} => j \notin running
  /\ act[j].at \notin {"idle", "killed"} /\ j \notin running =>
       j \notin polled /\ job[j].status = "running"
  /\ act[j].at \in {"saveOk", "saveErr"} => j \in running
  /\ act[j].at = "leave" => j \in running /\ job[j].status # "running"
  /\ j \in polled \/ job[j].status = "pending" => job[j].type # "none"
  /\ job[j].type = "none" => act[j] = NoFrame

JobsOK == \A j \in Jobs : JobOK(j)

FrameOK(f) ==
  /\ f.at \in RuleStages \cup {"create"} => f.cand \in Cands
  /\ f.at \in RuleStages => f.rule \in Rules /\ rule[f.rule] = f.cand

FramesOK == \A a \in Actors : FrameOK(act[a])

(* A request will give project p a configuration for rule r.               *)
Owed(p, r) ==
  \E q \in Reqs :
    act[q].rule = r /\ (act[q].at = "list" \/ (act[q].at = "configs" /\ p \in act[q].todo))

ConfigsOK ==
  \A p \in Projects \ torn, r \in Published \ torn :
    project[p] = "done" => <<p, r>> \in configs \/ Owed(p, r)

Inv == TypeOK /\ JobsOK /\ FramesOK /\ PublishedHasRule /\ ConfigsOK

Ats == {"idle", "mark", "cluster", "queue", "ask", "compare", "test", "load",
        "write", "next", "saveOk", "saveErr", "ok", "err", "leave", "killed", "start",
        "create", "list", "configs", "publish", "delete"}

-----------------------------------------------------------------------------
(* Frames.                                                                 *)

LEMMA Zero == 0 \in 0..NJobs /\ 0 \in 0..NRules
BY IncubatorAssumption

LEMMA NoFrameType == NoFrame \in Frame /\ NoFrame.at = "idle"
BY Zero DEF NoFrame, Frame

LEMMA FreshFrame ==
  ASSUME NEW l \in Ats
  PROVE  [NoFrame EXCEPT !.at = l] \in Frame /\ [NoFrame EXCEPT !.at = l].at = l
BY Zero DEF NoFrame, Frame, Ats

LEMMA GotoFrame ==
  ASSUME NEW f \in Frame, NEW l \in Ats
  PROVE  [f EXCEPT !.at = l] \in Frame /\ [f EXCEPT !.at = l].at = l
BY DEF Frame, Ats

LEMMA InitInv == Init => Inv
<1> SUFFICES ASSUME Init PROVE Inv
  OBVIOUS
<1> USE DEF Init
<1>1. TypeOK
  <2>1. cand \in [Cands -> Cand] /\ job \in [Jobs -> Job]
    BY Zero DEF Cand, Job
  <2> QED BY <2>1, NoFrameType DEF TypeOK
<1>2. \A a \in Actors : act[a] = NoFrame
  OBVIOUS
<1>3. JobsOK
  BY <1>2, NoFrameType DEF JobsOK, JobOK, Actors
<1>4. FramesOK
  BY <1>2, NoFrameType DEF FramesOK, FrameOK, RuleStages
<1>5. PublishedHasRule /\ ConfigsOK
  BY DEF PublishedHasRule, ConfigsOK
<1> QED BY <1>1, <1>3, <1>4, <1>5 DEF Inv

-----------------------------------------------------------------------------
(* What a step of a job's goroutine does, whichever it is.                 *)

(* What no job ever touches.                                               *)
world == <<rule, project, configs, torn>>

Working == {"cluster", "queue", "ask", "compare", "test", "load", "write", "next", "ok", "err"}

Over(s) == s \in {"success", "failed"}

JobTurn(j, g) ==
  /\ act[j].at \notin {"idle", "killed"}
  /\ g \in Frame /\ act' = [act EXCEPT ![j] = g]
  /\ UNCHANGED <<polled, world>>
  /\ \/ /\ UNCHANGED <<job, running>>
        /\ g.at \in Working \/ (g.at \in {"saveOk", "saveErr"} /\ j \in running)
     \/ /\ job' = [job EXCEPT ![j].status = "running"]
        /\ g.at \in Working /\ UNCHANGED running
     \/ /\ act[j].at = "queue" /\ g.at \in Working /\ UNCHANGED running
        /\ \E i \in Jobs, c \in Cands \cup {0} :
             NewJob(i) /\ job' = [job EXCEPT ![i] = Row("refine", "pending", c)]
     \/ /\ act[j].at \in {"saveOk", "saveErr"} /\ g.at \in Working /\ UNCHANGED running
        /\ \E s \in {"success", "failed"} : job' = [job EXCEPT ![j].status = s]
     \/ /\ \E s \in {"success", "failed"} : job' = [job EXCEPT ![j].status = s]
        /\ IF j \in running THEN g.at = "leave" ELSE g = NoFrame
        /\ UNCHANGED running
     \/ /\ act[j].at = "leave" /\ g = NoFrame
        /\ running' = running \ {j} /\ UNCHANGED job
     \/ /\ g.at = "killed" /\ j \notin running
        /\ UNCHANGED <<job, running>>

LEMMA ReturnShape ==
  ASSUME TypeOK, NEW j \in Jobs, NEW l \in {"ok", "err"}, Return(j, l)
  PROVE  \E g \in Frame : g.at \in Working /\ act' = [act EXCEPT ![j] = g]
<1>1. j \notin Reqs /\ j \in Actors /\ act[j] \in Frame
  BY IncubatorAssumption DEF TypeOK, Actors
<1>2. CASE IsRun(j)
  <2> DEFINE g == [act[j] EXCEPT !.at = "next", !.op = "none", !.cand = 0]
  <2>1. g \in Frame /\ g.at = "next"
    BY <1>1 DEF Frame
  <2>2. act' = [act EXCEPT ![j] = g]
    BY <1>1, <1>2 DEF Return
  <2> HIDE DEF g
  <2> QED BY <2>1, <2>2 DEF Working
<1>3. CASE ~IsRun(j)
  <2> DEFINE g == [NoFrame EXCEPT !.at = l]
  <2>1. g \in Frame /\ g.at = l
    BY FreshFrame DEF Ats
  <2>2. act' = [act EXCEPT ![j] = g]
    BY <1>1, <1>3 DEF Return
  <2> HIDE DEF g
  <2> QED BY <2>1, <2>2 DEF Working
<1> QED BY <1>2, <1>3

LEMMA GotoShape ==
  ASSUME TypeOK, NEW j \in Jobs, NEW l \in Ats, Goto(j, l)
  PROVE  \E g \in Frame : g.at = l /\ act' = [act EXCEPT ![j] = g]
<1>1. act[j] \in Frame
  BY DEF TypeOK, Actors
<1> DEFINE g == [act[j] EXCEPT !.at = l]
<1>2. g \in Frame /\ g.at = l
  BY <1>1, GotoFrame
<1>3. act' = [act EXCEPT ![j] = g]
  BY DEF Goto
<1> QED BY <1>2, <1>3

LEMMA JobShape ==
  ASSUME TypeOK, NEW j \in Jobs, JobStep(j)
  PROVE  \E g : JobTurn(j, g)
<1> USE DEF side, world
<1>0. j \in Actors /\ act[j] \in Frame /\ act \in [Actors -> Frame] /\ job[j] \in Job
  BY DEF TypeOK, Actors
<1>1. ASSUME NEW g \in Frame, act' = [act EXCEPT ![j] = g],
             g.at \in Working \/ (g.at \in {"saveOk", "saveErr"} /\ j \in running),
             act[j].at \notin {"idle", "killed"}, UNCHANGED <<job, running, polled, world>>
      PROVE  \E h : JobTurn(j, h)
  <2> WITNESS g
  <2> QED BY <1>1 DEF JobTurn
<1>2. CASE Mark(j)
  <2> DEFINE g == [act[j] EXCEPT !.at = Entry(job[j].type), !.cand = job[j].cand]
  <2>1. Entry(job[j].type) \in {"ask", "compare", "test", "cluster", "next"}
    BY DEF Entry
  <2>2. g \in Frame /\ g.at \in Working
    BY <1>0, <2>1 DEF Frame, Job, Working
  <2>3. act' = [act EXCEPT ![j] = g]
    BY <1>0, <1>2 DEF Mark
  <2> HIDE DEF g
  <2> WITNESS g
  <2> QED BY <1>2, <2>2, <2>3 DEF JobTurn, Mark
<1>3. CASE Other(j)
  <2>1. PICK l \in {"ok", "err"} : Goto(j, l)
    BY <1>3 DEF Other
  <2>2. PICK g \in Frame : g.at = l /\ act' = [act EXCEPT ![j] = g]
    BY <2>1, GotoShape DEF Ats
  <2> QED BY <1>1, <1>3, <2>2 DEF Other, Working
<1>4. CASE Settle(j)
  <2> DEFINE s == IF act[j].at = "ok" THEN "success" ELSE "failed"
             g == IF j \in running THEN [NoFrame EXCEPT !.at = "leave"] ELSE NoFrame
  <2>1. /\ g \in Frame /\ act' = [act EXCEPT ![j] = g]
        /\ IF j \in running THEN g.at = "leave" ELSE g = NoFrame
    <3>1. "leave" \in Ats
      BY DEF Ats
    <3> QED BY <1>4, <3>1, FreshFrame, NoFrameType DEF Settle
  <2>2. s \in {"success", "failed"} /\ job' = [job EXCEPT ![j].status = s]
    BY <1>4 DEF Settle
  <2> HIDE DEF g, s
  <2> WITNESS g
  <2> QED BY <1>4, <2>1, <2>2 DEF Settle, JobTurn
<1>5. CASE Leave(j)
  <2> WITNESS NoFrame
  <2> QED BY <1>5, NoFrameType DEF Leave, JobTurn
<1>6. CASE Cluster(j)
  <2>1. \E g \in Frame :
           /\ g.at \in Working \/ (g.at \in {"saveOk", "saveErr"} /\ j \in running)
           /\ act' = [act EXCEPT ![j] = g]
    <3>1. ASSUME NEW c \in Cands, act' = [act EXCEPT ![j].at = "queue", ![j].cand = c]
          PROVE  \E g \in Frame : g.at = "queue" /\ act' = [act EXCEPT ![j] = g]
      <4> DEFINE g == [act[j] EXCEPT !.at = "queue", !.cand = c]
      <4>1. g \in Frame /\ g.at = "queue"
        BY <1>0 DEF Frame
      <4>2. act' = [act EXCEPT ![j] = g]
        BY <1>0, <3>1
      <4> QED BY <4>1, <4>2
    <3>2. ASSUME NEW l \in Ats, Goto(j, l)
          PROVE  \E g \in Frame : g.at = l /\ act' = [act EXCEPT ![j] = g]
      BY <3>2, GotoShape
    <3>3. \/ \E c \in Cands : act' = [act EXCEPT ![j].at = "queue", ![j].cand = c]
          \/ \E l \in {"next", "ok", "err"} : Goto(j, l)
          \/ j \in running /\ \E l \in {"saveOk", "saveErr"} : Goto(j, l)
      BY <1>6 DEF Cluster
    <3>4. {"next", "ok", "err", "saveOk", "saveErr"} \subseteq Ats
      BY DEF Ats
    <3> QED BY <3>1, <3>2, <3>3, <3>4 DEF Working
  <2> QED BY <1>1, <1>6, <2>1 DEF Cluster
<1>7. CASE Queue(j)
  <2> DEFINE g == [act[j] EXCEPT !.at = "cluster", !.cand = 0]
  <2>1. g \in Frame /\ g.at \in Working
    BY <1>0 DEF Frame, Working
  <2>2. act' = [act EXCEPT ![j] = g]
    BY <1>0, <1>7 DEF Queue
  <2> HIDE DEF g
  <2>3. act[j].cand \in Cands \cup {0}
    BY <1>0 DEF Frame
  <2>4. CASE UNCHANGED job
    BY <1>1, <1>7, <2>1, <2>2, <2>4 DEF Queue
  <2>5. CASE \E i \in Jobs : NewJob(i) /\ job' = [job EXCEPT ![i] = Row("refine", "pending", act[j].cand)]
    <3> WITNESS g
    <3> QED BY <1>7, <2>1, <2>2, <2>3, <2>5 DEF Queue, JobTurn
  <2> QED BY <1>7, <2>4, <2>5 DEF Queue
<1>8. CASE SaveCluster(j)
  <2> DEFINE l == IF act[j].at = "saveOk" THEN "ok" ELSE "err"
  <2>1. Goto(j, l) /\ l \in {"ok", "err"}
    BY <1>8 DEF SaveCluster
  <2>2. PICK g \in Frame : g.at = l /\ act' = [act EXCEPT ![j] = g]
    BY <2>1, GotoShape DEF Ats
  <2>3. \E s \in {"success", "failed"} : job' = [job EXCEPT ![j].status = s]
    BY <1>8 DEF SaveCluster
  <2>4. g.at \in Working
    BY <2>1, <2>2 DEF Working
  <2> WITNESS g
  <2> QED BY <1>8, <2>2, <2>3, <2>4 DEF SaveCluster, JobTurn
<1>9. ASSUME NEW l \in {"ok", "err"}, Return(j, l), act[j].at \notin {"idle", "killed"},
             UNCHANGED <<job, running, polled, world>>
      PROVE  \E g : JobTurn(j, g)
  BY <1>1, <1>9, ReturnShape
<1>10. ASSUME NEW l \in Working, NEW o \in {"none", "refine", "similar_check", "edit"},
              act' = [act EXCEPT ![j].at = l, ![j].op = o], act[j].at \notin {"idle", "killed"},
              UNCHANGED <<job, running, polled, world>>
       PROVE  \E g : JobTurn(j, g)
  <2> DEFINE g == [act[j] EXCEPT !.at = l, !.op = o]
  <2>1. g \in Frame /\ g.at = l
    BY <1>0, ZenonT(30) DEF Frame, Working
  <2>2. act' = [act EXCEPT ![j] = g]
    BY <1>0, <1>10
  <2> HIDE DEF g
  <2> QED BY <1>1, <1>10, <2>1, <2>2
<1>11. CASE Ask(j) \/ Compare(j) \/ Test(j)
  <2>1. act[j].at \notin {"idle", "killed"} /\ UNCHANGED <<job, running, polled, world>>
    BY <1>11 DEF Ask, Compare, Test
  <2>2. \/ \E l \in {"ok", "err"} : Return(j, l)
        \/ \E o \in {"refine", "similar_check"} : act' = [act EXCEPT ![j].at = "load", ![j].op = o]
    BY <1>11 DEF Ask, Compare, Test
  <2> QED BY <1>9, <1>10, <2>1, <2>2 DEF Working
<1>12. CASE Load(j) \/ WriteCandidate(j)
  <2>1. act[j].at \notin {"idle", "killed"} /\ UNCHANGED <<job, running, polled, world>>
    BY <1>12 DEF Load, WriteCandidate
  <2>2. (\E l \in {"ok", "err"} : Return(j, l)) \/ Goto(j, "write")
    BY <1>12 DEF Load, WriteCandidate
  <2>3. "write" \in Ats /\ "write" \in Working
    BY DEF Ats, Working
  <2> QED BY <1>1, <1>9, <2>1, <2>2, <2>3, GotoShape
<1>13. CASE NextStage(j)
  <2>1. act[j].at = "next" /\ UNCHANGED <<job, running, polled, world>>
    BY <1>13 DEF NextStage
  <2>2. Mine(j) \subseteq Cands /\ Drafts(j) \subseteq Cands
    BY DEF Mine, Drafts
  <2>3. ASSUME NEW t \in Steps, NEW l \in SUBSET Cands, NEW s \in SUBSET Cands,
               act' = [act EXCEPT ![j].stage = t, ![j].left = l, ![j].seen = s]
        PROVE  \E g : JobTurn(j, g)
    <3> DEFINE g == [act[j] EXCEPT !.stage = t, !.left = l, !.seen = s]
    <3>1. g \in Frame /\ g.at = "next"
      BY <1>0, <2>1 DEF Frame, Steps
    <3>2. act' = [act EXCEPT ![j] = g]
      BY <1>0, <2>3
    <3> HIDE DEF g
    <3> QED BY <1>1, <2>1, <3>1, <3>2 DEF Working
  <2>4. ASSUME act' = [act EXCEPT ![j].stage = "sandbox_test", ![j].left = act[j].seen]
        PROVE  \E g : JobTurn(j, g)
    <3> DEFINE g == [act[j] EXCEPT !.stage = "sandbox_test", !.left = act[j].seen]
    <3>1. g \in Frame /\ g.at = "next"
      BY <1>0, <2>1 DEF Frame, Steps
    <3>2. act' = [act EXCEPT ![j] = g]
      BY <1>0, <2>4
    <3> HIDE DEF g
    <3> QED BY <1>1, <2>1, <3>1, <3>2 DEF Working
  <2>5. \/ \E t \in Steps, l, s \in SUBSET Cands :
               act' = [act EXCEPT ![j].stage = t, ![j].left = l, ![j].seen = s]
        \/ act' = [act EXCEPT ![j].stage = "sandbox_test", ![j].left = act[j].seen]
        \/ Goto(j, "ok")
    BY <1>13, <2>2 DEF NextStage, Steps
  <2>6. "ok" \in Ats /\ "ok" \in Working
    BY DEF Ats, Working
  <2>7. CASE Goto(j, "ok")
    BY <1>1, <2>1, <2>6, <2>7, GotoShape
  <2>8. CASE \E t \in Steps, l, s \in SUBSET Cands :
               act' = [act EXCEPT ![j].stage = t, ![j].left = l, ![j].seen = s]
    BY <2>3, <2>8
  <2> QED BY <2>4, <2>5, <2>7, <2>8
<1>14. CASE NextCandidate(j)
  <2>1. act[j].at = "next" /\ UNCHANGED <<job, running, polled, world>>
    BY <1>14 DEF NextCandidate
  <2>2. PICK c \in act[j].left, l \in {"compare", "test", "ask", "next"} :
          act' = [act EXCEPT ![j].left = @ \ {c}, ![j].cand = c, ![j].at = l]
    BY <1>14 DEF NextCandidate
  <2> DEFINE g == [act[j] EXCEPT !.left = @ \ {c}, !.cand = c, !.at = l]
  <2>3. g \in Frame /\ g.at = l
    BY <1>0 DEF Frame
  <2>4. act' = [act EXCEPT ![j] = g]
    BY <1>0, <2>2
  <2> HIDE DEF g
  <2> QED BY <1>1, <2>1, <2>3, <2>4 DEF Working
<1>15. CASE Panic(j)
  <2>1. Goto(j, "err") /\ act[j].at \notin {"idle", "killed"} /\ UNCHANGED <<job, running, polled, world>>
    BY <1>15 DEF Panic
  <2>2. "err" \in Ats /\ "err" \in Working
    BY DEF Ats, Working
  <2> QED BY <1>1, <2>1, <2>2, GotoShape
<1>16. CASE PanicInRequest(j)
  <2> DEFINE g == [NoFrame EXCEPT !.at = "killed"]
  <2>1. g \in Frame /\ g.at = "killed"
    BY FreshFrame DEF Ats
  <2>2. /\ act' = [act EXCEPT ![j] = g] /\ act[j].at = "cluster" /\ j \notin running
        /\ UNCHANGED <<job, running, polled, world>>
    BY <1>16 DEF PanicInRequest
  <2> HIDE DEF g
  <2> WITNESS g
  <2> QED BY <2>1, <2>2 DEF JobTurn
<1> QED BY <1>2, <1>3, <1>4, <1>5, <1>6, <1>7, <1>8, <1>11, <1>12, <1>13, <1>14, <1>15, <1>16
        DEF JobStep

(* What a step may do to the candidates, but for the publication of one:   *)
(* whichever is published then, and not by an edit, was so with its rule.  *)
CandsKept ==
  /\ cand' \in [Cands -> Cand] /\ declared' \subseteq Cands
  /\ \A c \in Cands \ declared' : cand'[c].status = "published" =>
       c \notin declared /\ cand[c].status = "published" /\ cand'[c].rule = cand[c].rule

LEMMA SameKept ==
  ASSUME TypeOK, UNCHANGED <<cand, declared>>
  PROVE  CandsKept
BY DEF CandsKept, TypeOK

LEMMA StatusKept ==
  ASSUME TypeOK, NEW c, NEW s \in {"draft", "ready", "deleted"},
         cand' = [cand EXCEPT ![c].status = s],
         declared' = declared \/ declared' = declared \ {c}
  PROVE  CandsKept
<1>1. ASSUME NEW d \in Cands
      PROVE  cand'[d] \in Cand /\ (cand'[d].status = "published" => cand'[d] = cand[d] /\ d # c)
  <2>1. cand[d] \in Cand
    BY DEF TypeOK
  <2> DEFINE g == [cand[d] EXCEPT !.status = s]
  <2>2. g \in Cand /\ g.status = s
    BY <2>1 DEF Cand
  <2>3. IF d = c THEN cand'[d] = g ELSE cand'[d] = cand[d]
    BY DEF TypeOK
  <2> HIDE DEF g
  <2> QED BY <2>1, <2>2, <2>3
<1>2. cand' = [d \in Cands |-> cand'[d]]
  BY DEF TypeOK
<1>3. declared' \subseteq Cands /\ \A d \in Cands \ declared' : d = c \/ d \notin declared
  BY DEF TypeOK
<1> QED BY <1>1, <1>2, <1>3 DEF CandsKept

(* An edit makes nothing published but what it declares to be.             *)
LEMMA EditKeeps ==
  ASSUME TypeOK, NEW c \in Cands, NEW new \in Edits(c),
         cand' = [cand EXCEPT ![c] = new],
         declared' = IF new.status = cand[c].status THEN declared
                     ELSE IF new.status = "published" THEN declared \cup {c}
                     ELSE declared \ {c}
  PROVE  CandsKept
<1>1. new \in Cand /\ new.rule = cand[c].rule
  <2>1. cand[c] \in Cand
    BY DEF TypeOK
  <2>2. /\ EditTo \cup {cand[c].status} \subseteq
               {"none", "draft", "ready", "deleted", "published", "rejected", "merged"}
        /\ EditRuns \cup {cand[c].run} \subseteq 0..NJobs
        /\ cand[c].rule \in 0..NRules
    BY <2>1, IncubatorAssumption DEF Cand, Closed
  <2> QED BY <2>2 DEF Edits, Cand, Closed
<1>2. /\ cand' \in [Cands -> Cand] /\ cand'[c] = new
      /\ \A d \in Cands \ {c} : cand'[d] = cand[d]
  BY <1>1 DEF TypeOK
<1>3. declared' \subseteq Cands /\ \A d \in Cands \ {c} : d \in declared <=> d \in declared'
  BY DEF TypeOK
<1>4. c \notin declared' /\ new.status = "published" => c \notin declared /\ cand[c].status = "published"
  OBVIOUS
<1> QED BY <1>1, <1>2, <1>3, <1>4 DEF CandsKept

LEMMA WriteKeeps ==
  ASSUME TypeOK, NEW a, WriteCandidate(a)
  PROVE  CandsKept
<1> DEFINE c == act[a].cand
<1>1. CASE cand' = [cand EXCEPT ![c].status = "ready"] /\ declared' = declared \ {c}
  BY <1>1, StatusKept
<1>2. CASE /\ Live(c)
           /\ \E new \in Edits(c) :
                /\ cand' = [cand EXCEPT ![c] = new]
                /\ declared' = IF new.status = cand[c].status THEN declared
                               ELSE IF new.status = "published" THEN declared \cup {c}
                               ELSE declared \ {c}
  <2>1. c \in Cands
    BY <1>2 DEF Live
  <2> HIDE DEF c
  <2> QED BY <1>2, <2>1, EditKeeps
<1>3. CASE UNCHANGED <<cand, declared>>
  BY <1>3, SameKept
<1> QED BY <1>1, <1>2, <1>3 DEF WriteCandidate

LEMMA JobKeeps ==
  ASSUME TypeOK, NEW j \in Jobs, JobStep(j)
  PROVE  CandsKept
<1>1. CASE Cluster(j)
  <2>0. UNCHANGED declared
    BY <1>1 DEF Cluster, side
  <2>1. CASE UNCHANGED cand
    BY <2>0, <2>1, SameKept
  <2>2. CASE \E c \in Cands :
               cand' = [cand EXCEPT ![c] = [status |-> "draft", rule |-> 0,
                                            run |-> IF IsRun(j) THEN j ELSE 0]]
    <3> DEFINE n == IF IsRun(j) THEN j ELSE 0
    <3>0. n \in 0..NJobs
      BY IncubatorAssumption DEF Jobs
    <3>1. PICK c \in Cands :
            cand' = [cand EXCEPT ![c] = [status |-> "draft", rule |-> 0, run |-> n]]
      BY <2>2
    <3>2. [status |-> "draft", rule |-> 0, run |-> n] \in Cand
      BY <3>0, Zero DEF Cand
    <3> HIDE DEF n
    <3>3. \A d \in Cands : cand'[d].status = "published" => cand'[d] = cand[d]
      BY <3>1 DEF TypeOK
    <3> QED BY <2>0, <3>1, <3>2, <3>3 DEF CandsKept, TypeOK
  <2> QED BY <1>1, <2>1, <2>2 DEF Cluster
<1>2. CASE WriteCandidate(j)
  BY <1>2, WriteKeeps DEF WriteCandidate
<1>3. CASE ~(Cluster(j) \/ WriteCandidate(j))
  <2>1. UNCHANGED <<cand, declared>>
    BY <1>3 DEF JobStep, Mark, Other, Settle, Leave, Queue, SaveCluster, Ask, Compare, Test,
                Load, NextStage, NextCandidate, Panic, PanicInRequest, side
  <2> QED BY <2>1, SameKept
<1> QED BY <1>1, <1>2, <1>3

-----------------------------------------------------------------------------
(* Such a step keeps the invariant.                                        *)

LEMMA PublishedKept ==
  ASSUME PublishedHasRule, CandsKept, cand \in [Cands -> Cand],
         \A r \in Rules : rule[r] # 0 => rule'[r] = rule[r], IncubatorAssumption
  PROVE  PublishedHasRule'
<1> SUFFICES ASSUME NEW c \in Cands \ declared', cand'[c].status = "published"
             PROVE  cand'[c].rule # 0 /\ rule'[cand'[c].rule] = c
  BY DEF PublishedHasRule
<1>1. c \notin declared /\ cand[c].status = "published" /\ cand'[c].rule = cand[c].rule
  BY DEF CandsKept
<1>2. cand[c].rule # 0 /\ rule[cand[c].rule] = c
  BY <1>1 DEF PublishedHasRule
<1>3. cand[c].rule \in Rules
  BY <1>2 DEF Cand, Rules
<1>4. c # 0
  BY DEF IncubatorAssumption
<1> QED BY <1>1, <1>2, <1>3, <1>4

LEMMA TurnTypes ==
  ASSUME TypeOK, NEW j \in Jobs, NEW g, JobTurn(j, g), CandsKept
  PROVE  TypeOK'
<1>1. act' \in [Actors -> Frame]
  BY DEF TypeOK, JobTurn, Actors
<1>2. running' \subseteq Jobs
  BY DEF TypeOK, JobTurn
<1>3. job' \in [Jobs -> Job]
  <2>1. ASSUME NEW s \in {"running", "success", "failed"}, job' = [job EXCEPT ![j].status = s]
        PROVE  job' \in [Jobs -> Job]
    <3>1. [job[j] EXCEPT !.status = s] \in Job
      BY DEF TypeOK, Job
    <3>2. job' = [job EXCEPT ![j] = [job[j] EXCEPT !.status = s]]
      BY <2>1
    <3> QED BY <3>1, <3>2 DEF TypeOK
  <2>2. ASSUME NEW i \in Jobs, NEW c \in Cands \cup {0},
               job' = [job EXCEPT ![i] = Row("refine", "pending", c)]
        PROVE  job' \in [Jobs -> Job]
    <3>1. Row("refine", "pending", c) \in Job
      BY DEF Row, Job
    <3> QED BY <2>2, <3>1 DEF TypeOK
  <2>3. \/ UNCHANGED job
        \/ \E s \in {"running", "success", "failed"} : job' = [job EXCEPT ![j].status = s]
        \/ \E i \in Jobs, c \in Cands \cup {0} : job' = [job EXCEPT ![i] = Row("refine", "pending", c)]
    BY DEF JobTurn
  <2> QED BY <2>1, <2>2, <2>3 DEF TypeOK
<1>4. UNCHANGED <<polled, world>> /\ cand' \in [Cands -> Cand] /\ declared' \subseteq Cands
  BY DEF JobTurn, CandsKept
<1> QED BY <1>1, <1>2, <1>3, <1>4 DEF TypeOK, world

LEMMA TurnJobs ==
  ASSUME TypeOK, JobsOK, NEW j \in Jobs, NEW g, JobTurn(j, g)
  PROVE  JobsOK'
<1>0. /\ act \in [Actors -> Frame] /\ job \in [Jobs -> Job] /\ j \in Actors
      /\ act'[j] = g /\ polled' = polled /\ act[j].at \notin {"idle", "killed"}
      /\ \A i \in Jobs : i # j => act'[i] = act[i]
  BY DEF TypeOK, JobTurn, Actors
<1>1. /\ JobOK(j) /\ job[j].type # "none"
  BY <1>0, NoFrameType DEF JobsOK, JobOK
<1>2. ASSUME \A i \in Jobs \ {j} : job'[i] = job[i] /\ (i \in running' <=> i \in running),
             /\ g.at = "idle" => job'[j].status # "running"
             /\ g.at \in {"idle", "killed"} => j \notin running'
             /\ g.at \notin {"idle", "killed"} /\ j \notin running' =>
                  j \notin polled /\ job'[j].status = "running"
             /\ g.at \in {"saveOk", "saveErr"} => j \in running'
             /\ g.at = "leave" => j \in running' /\ job'[j].status # "running"
             /\ job'[j].type # "none"
      PROVE  JobsOK'
  <2>1. ASSUME NEW i \in Jobs \ {j} PROVE JobOK(i)'
    BY <1>0, <1>2, <2>1 DEF JobsOK, JobOK
  <2>2. JobOK(j)'
    BY <1>0, <1>2 DEF JobOK
  <2> QED BY <2>1, <2>2 DEF JobsOK
<1>3. CASE /\ UNCHANGED <<job, running>>
           /\ g.at \in Working \/ (g.at \in {"saveOk", "saveErr"} /\ j \in running)
  BY <1>0, <1>1, <1>2, <1>3 DEF JobOK, Working
<1>4. CASE job' = [job EXCEPT ![j].status = "running"] /\ g.at \in Working /\ UNCHANGED running
  <2>1. job'[j].status = "running" /\ job'[j].type = job[j].type
    BY <1>0, <1>4 DEF Job
  <2>2. \A i \in Jobs \ {j} : job'[i] = job[i]
    BY <1>0, <1>4
  <2> QED BY <1>0, <1>1, <1>2, <1>4, <2>1, <2>2 DEF JobOK, Working
<1>5. CASE /\ act[j].at = "queue" /\ g.at \in Working /\ UNCHANGED running
           /\ \E i \in Jobs, c \in Cands \cup {0} :
                NewJob(i) /\ job' = [job EXCEPT ![i] = Row("refine", "pending", c)]
  <2>1. PICK i \in Jobs, c \in Cands \cup {0} :
          NewJob(i) /\ job' = [job EXCEPT ![i] = Row("refine", "pending", c)]
    BY <1>5
  <2>2. i # j /\ JobOK(i) /\ act[i] = NoFrame
    BY <1>1, <2>1 DEF NewJob, JobsOK, JobOK
  <2>3. /\ job'[i].type = "refine" /\ job'[i].status = "pending" /\ job'[j] = job[j]
        /\ \A k \in Jobs \ {i} : job'[k] = job[k]
    BY <1>0, <2>1, <2>2 DEF Row
  <2>4. JobOK(i)'
    BY <1>0, <1>5, <2>2, <2>3, NoFrameType DEF JobOK
  <2>5. ASSUME NEW k \in Jobs, k # i, k # j PROVE JobOK(k)'
    BY <1>0, <1>5, <2>3, <2>5 DEF JobsOK, JobOK
  <2>6. JobOK(j)'
    BY <1>0, <1>1, <1>5, <2>3 DEF JobOK, Working
  <2> QED BY <2>4, <2>5, <2>6 DEF JobsOK
<1>6. ASSUME NEW s \in {"success", "failed"}, job' = [job EXCEPT ![j].status = s], UNCHANGED running,
             \/ act[j].at \in {"saveOk", "saveErr"} /\ g.at \in Working
             \/ IF j \in running THEN g.at = "leave" ELSE g = NoFrame
      PROVE  JobsOK'
  <2>1. job'[j].status = s /\ job'[j].type = job[j].type
    BY <1>0, <1>6 DEF Job
  <2>2. \A i \in Jobs \ {j} : job'[i] = job[i]
    BY <1>0, <1>6
  <2>3. CASE act[j].at \in {"saveOk", "saveErr"} /\ g.at \in Working
    BY <1>1, <1>2, <1>6, <2>1, <2>2, <2>3 DEF JobOK, Working
  <2>4. CASE IF j \in running THEN g.at = "leave" ELSE g = NoFrame
    BY <1>1, <1>2, <1>6, <2>1, <2>2, <2>4, NoFrameType DEF JobOK
  <2> QED BY <1>6, <2>3, <2>4
<1>7. CASE act[j].at = "leave" /\ g = NoFrame /\ running' = running \ {j} /\ UNCHANGED job
  BY <1>1, <1>2, <1>7, NoFrameType DEF JobOK
<1>8. CASE g.at = "killed" /\ j \notin running /\ UNCHANGED <<job, running>>
  BY <1>1, <1>2, <1>8
<1> QED BY <1>3, <1>4, <1>5, <1>6, <1>7, <1>8 DEF JobTurn

LEMMA TurnFrames ==
  ASSUME TypeOK, FramesOK, ConfigsOK, NEW j \in Jobs, NEW g, JobTurn(j, g)
  PROVE  FramesOK' /\ ConfigsOK'
<1>0. /\ act \in [Actors -> Frame] /\ j \in Actors /\ act'[j] = g
      /\ \A a \in Actors : a # j => act'[a] = act[a]
      /\ UNCHANGED <<rule, project, configs, torn>>
      /\ g.at \notin RuleStages \cup {"create"}
  BY NoFrameType DEF TypeOK, JobTurn, Actors, world, Working, RuleStages
<1>1. FramesOK'
  BY <1>0 DEF FramesOK, FrameOK
<1>2. \A q \in Reqs : act'[q] = act[q]
  BY <1>0, IncubatorAssumption DEF Actors
<1>3. ConfigsOK'
  BY <1>0, <1>2 DEF ConfigsOK, Owed, Published
<1> QED BY <1>1, <1>3

LEMMA JobNext ==
  ASSUME Inv, NEW j \in Jobs, JobStep(j)
  PROVE  Inv'
<1>1. PICK g : JobTurn(j, g)
  BY JobShape DEF Inv
<1>2. CandsKept
  BY JobKeeps DEF Inv
<1>3. UNCHANGED rule /\ cand \in [Cands -> Cand]
  BY <1>1 DEF JobTurn, world, Inv, TypeOK
<1>4. TypeOK' /\ JobsOK'
  BY <1>1, <1>2, TurnTypes, TurnJobs DEF Inv
<1>5. FramesOK' /\ ConfigsOK'
  BY <1>1, TurnFrames DEF Inv
<1>6. PublishedHasRule'
  BY <1>2, <1>3, PublishedKept, IncubatorAssumption DEF Inv
<1> QED BY <1>4, <1>5, <1>6 DEF Inv

-----------------------------------------------------------------------------
(* The runner, and the requests that insert a row.                         *)

LEMMA RunnerNext ==
  ASSUME Inv, QueueJob \/ ClusterRequest \/ Poll \/ Take
  PROVE  Inv'
<1>0. /\ TypeOK /\ JobsOK /\ FramesOK /\ ConfigsOK
      /\ act \in [Actors -> Frame] /\ job \in [Jobs -> Job] /\ Jobs \subseteq Actors
  BY DEF Inv, TypeOK, Actors
<1>1. UNCHANGED <<cand, side>>
  BY DEF QueueJob, ClusterRequest, Poll, Take
<1>2. PublishedHasRule'
  BY <1>1 DEF Inv, PublishedHasRule, side
<1>3. ASSUME \A q \in Reqs : act'[q] = act[q],
             \A a \in Actors : act'[a] = act[a] \/ act'[a].at \in {"cluster", "mark"}
      PROVE  FramesOK' /\ ConfigsOK'
  BY <1>0, <1>1, <1>3 DEF FramesOK, FrameOK, RuleStages, ConfigsOK, Owed, Published, side
<1>4. CASE QueueJob
  <2>1. PICK j \in Jobs, t \in Kinds, c \in Cands :
          NewJob(j) /\ job' = [job EXCEPT ![j] = Row(t, "pending", c)]
    BY <1>4 DEF QueueJob
  <2>2. Row(t, "pending", c) \in Job /\ t # "none"
    BY IncubatorAssumption DEF Row, Job
  <2>3. UNCHANGED <<act, running, polled>>
    BY <1>4 DEF QueueJob
  <2>4. TypeOK'
    BY <1>0, <1>1, <2>1, <2>2, <2>3 DEF TypeOK, side
  <2>5. JobOK(j) /\ act[j] = NoFrame /\ j \notin running
    BY <1>0, <2>1, NoFrameType DEF JobsOK, JobOK, NewJob
  <2>6. job'[j].type = t /\ job'[j].status = "pending" /\ \A i \in Jobs \ {j} : job'[i] = job[i]
    BY <1>0, <2>1 DEF Row
  <2>7. JobOK(j)'
    BY <2>2, <2>3, <2>5, <2>6, NoFrameType DEF JobOK
  <2>8. ASSUME NEW i \in Jobs \ {j} PROVE JobOK(i)'
    BY <1>0, <2>3, <2>6 DEF JobsOK, JobOK
  <2>9. JobsOK'
    BY <2>7, <2>8 DEF JobsOK
  <2>10. FramesOK' /\ ConfigsOK'
    BY <1>3, <2>3
  <2> QED BY <1>2, <2>4, <2>9, <2>10 DEF Inv
<1>5. CASE ClusterRequest
  <2> DEFINE g == [NoFrame EXCEPT !.at = "cluster"]
  <2>1. PICK j \in Jobs : /\ NewJob(j) /\ job' = [job EXCEPT ![j] = Row("cluster", "running", 0)]
                          /\ act' = [act EXCEPT ![j] = g]
    BY <1>5 DEF ClusterRequest
  <2>2. g \in Frame /\ g.at = "cluster"
    BY FreshFrame DEF Ats
  <2>3. UNCHANGED <<running, polled>> /\ Row("cluster", "running", 0) \in Job
    BY <1>5 DEF ClusterRequest, Row, Job
  <2> HIDE DEF g
  <2>4. TypeOK'
    BY <1>0, <1>1, <2>1, <2>2, <2>3 DEF TypeOK, side
  <2>5. JobOK(j) /\ job[j].type = "none" /\ j \notin polled
    BY <1>0, <2>1 DEF JobsOK, JobOK, NewJob
  <2>6. /\ job'[j].type = "cluster" /\ job'[j].status = "running"
        /\ act'[j] = g /\ \A i \in Actors \ {j} : act'[i] = act[i]
        /\ \A i \in Jobs \ {j} : job'[i] = job[i]
    BY <1>0, <2>1 DEF Row
  <2>7. JobOK(j)'
    BY <2>2, <2>3, <2>5, <2>6 DEF JobOK
  <2>8. ASSUME NEW i \in Jobs \ {j} PROVE JobOK(i)'
    BY <1>0, <2>3, <2>6 DEF JobsOK, JobOK
  <2>9. JobsOK'
    BY <2>7, <2>8 DEF JobsOK
  <2>10. FramesOK' /\ ConfigsOK'
    <3>1. \A q \in Reqs : act'[q] = act[q]
      BY <2>6, IncubatorAssumption DEF Actors
    <3> QED BY <1>3, <2>2, <2>6, <3>1
  <2> QED BY <1>2, <2>4, <2>9, <2>10 DEF Inv
<1>6. CASE Poll
  <2>1. UNCHANGED <<job, act, running>> /\ polled' = {j \in Jobs : job[j].status = "pending"}
    BY <1>6 DEF Poll
  <2>2. TypeOK'
    BY <1>0, <1>1, <2>1 DEF TypeOK, side
  <2>3. JobsOK'
    BY <1>0, <2>1 DEF JobsOK, JobOK
  <2>4. FramesOK' /\ ConfigsOK'
    BY <1>3, <2>1
  <2> QED BY <1>2, <2>2, <2>3, <2>4 DEF Inv
<1>7. CASE Take
  <2> DEFINE g == [NoFrame EXCEPT !.at = "mark"]
  <2>1. PICK j \in polled :
          /\ polled' = polled \ {j}
          /\ IF j \in running
               THEN UNCHANGED <<running, act>>
               ELSE running' = running \cup {j} /\ act' = [act EXCEPT ![j] = g]
    BY <1>7 DEF Take
  <2>2. g \in Frame /\ g.at = "mark"
    BY FreshFrame DEF Ats
  <2>3. UNCHANGED job /\ j \in Jobs
    BY <1>0, <1>7 DEF Take, TypeOK
  <2> HIDE DEF g
  <2>4. TypeOK'
    BY <1>0, <1>1, <2>1, <2>2, <2>3 DEF TypeOK, side
  <2>5. \A i \in Actors : act'[i] = act[i] \/ (i = j /\ act'[i] = g /\ j \in running')
    BY <1>0, <2>1
  <2>6. JobOK(j) /\ job[j].type # "none"
    BY <1>0, <2>3 DEF JobsOK, JobOK
  <2>7. JobOK(j)'
    <3>1. CASE j \in running
      BY <2>1, <2>3, <2>6, <3>1 DEF JobOK
    <3>2. CASE j \notin running
      BY <1>0, <2>1, <2>2, <2>3, <2>6, <3>2 DEF JobOK
    <3> QED BY <3>1, <3>2
  <2>8. ASSUME NEW i \in Jobs \ {j} PROVE JobOK(i)'
    <3>1. act'[i] = act[i] /\ (i \in running' <=> i \in running) /\ (i \in polled' <=> i \in polled)
      BY <1>0, <2>1, <2>5
    <3> QED BY <1>0, <2>3, <3>1 DEF JobsOK, JobOK
  <2>9. JobsOK'
    BY <2>7, <2>8 DEF JobsOK
  <2>10. FramesOK' /\ ConfigsOK'
    <3>1. \A q \in Reqs : act'[q] = act[q]
      BY <2>3, <2>5, IncubatorAssumption DEF Actors
    <3> QED BY <1>3, <2>2, <2>5, <3>1
  <2> QED BY <1>2, <2>4, <2>9, <2>10 DEF Inv
<1> QED BY <1>4, <1>5, <1>6, <1>7

-----------------------------------------------------------------------------
(* The requests.                                                           *)

LEMMA RequestFrames ==
  ASSUME TypeOK, JobsOK, NEW q \in Reqs, NEW g \in Frame, act' = [act EXCEPT ![q] = g],
         UNCHANGED <<job, running, polled>>
  PROVE  /\ JobsOK' /\ act' \in [Actors -> Frame] /\ act'[q] = g
         /\ \A a \in Actors : a # q => act'[a] = act[a]
<1>1. /\ act' \in [Actors -> Frame] /\ act'[q] = g
      /\ \A a \in Actors : a # q => act'[a] = act[a]
  BY DEF TypeOK, Actors
<1>2. \A j \in Jobs : act'[j] = act[j]
  BY <1>1, IncubatorAssumption DEF Actors
<1>3. JobsOK'
  BY <1>2 DEF JobsOK, JobOK
<1> QED BY <1>1, <1>3

(* A request that owes no configuration changes no rule and no project.    *)
LEMMA RequestTurn ==
  ASSUME Inv, NEW q \in Reqs, NEW g \in Frame, act' = [act EXCEPT ![q] = g],
         UNCHANGED <<job, running, polled, world>>,
         act[q].at \notin {"list", "configs"}, FrameOK(g),
         cand' \in [Cands -> Cand], declared' \subseteq Cands, PublishedHasRule'
  PROVE  Inv'
<1>1. /\ JobsOK' /\ act' \in [Actors -> Frame] /\ act'[q] = g
      /\ \A a \in Actors : a # q => act'[a] = act[a]
  BY RequestFrames DEF Inv
<1>2. TypeOK'
  BY <1>1 DEF Inv, TypeOK, world
<1>3. FramesOK'
  BY <1>1 DEF Inv, FramesOK, FrameOK, world
<1>4. ASSUME NEW p, NEW r, Owed(p, r) PROVE Owed(p, r)'
  BY <1>1, <1>4 DEF Owed, Actors
<1>5. ConfigsOK'
  BY <1>4 DEF Inv, ConfigsOK, Published, world
<1> QED BY <1>1, <1>2, <1>3, <1>5 DEF Inv

LEMMA RequestNext ==
  ASSUME Inv, NEW q \in Reqs,
         RunPipeline(q) \/ Edit(q) \/ Delete(q) \/ Publish(q) \/ ReqStep(q)
  PROVE  Inv'
<1>0. /\ TypeOK /\ JobsOK /\ FramesOK /\ ConfigsOK /\ PublishedHasRule
      /\ act \in [Actors -> Frame] /\ q \in Actors /\ q \notin Jobs
      /\ act[q] \in Frame /\ cand \in [Cands -> Cand] /\ FrameOK(act[q])
  BY IncubatorAssumption DEF Inv, TypeOK, Actors, FramesOK
<1> USE DEF side, world
(* Steps that leave the rules and projects alone.                          *)
<1>1. ASSUME NEW g \in Frame, act' = [act EXCEPT ![q] = g],
             UNCHANGED <<job, running, polled, world>>,
             act[q].at \notin {"list", "configs"}, FrameOK(g), CandsKept
      PROVE  Inv'
  <2>1. PublishedHasRule'
    BY <1>0, <1>1, PublishedKept, IncubatorAssumption
  <2> QED BY <1>1, <2>1, RequestTurn DEF CandsKept
<1>2. FrameOK(NoFrame) /\ UNCHANGED <<cand, declared>> => CandsKept
  BY <1>0, SameKept
<1>3. FrameOK(NoFrame)
  BY NoFrameType DEF FrameOK, RuleStages
<1>4. ASSUME NEW l \in {"start", "write"}, Goto(q, l), UNCHANGED <<cand, job, running, polled, side>>,
             act[q].at \notin {"list", "configs"}
      PROVE  Inv'
  <2> DEFINE g == [act[q] EXCEPT !.at = l]
  <2>0. l \in Ats
    BY DEF Ats
  <2>1. g \in Frame /\ g.at = l
    BY <1>0, <2>0, GotoFrame
  <2>2. act' = [act EXCEPT ![q] = g]
    BY <1>4 DEF Goto
  <2> HIDE DEF g
  <2>3. FrameOK(g)
    BY <2>1 DEF FrameOK, RuleStages
  <2> QED BY <1>1, <1>2, <1>3, <1>4, <2>1, <2>2, <2>3
<1>5. ASSUME act' = [act EXCEPT ![q] = NoFrame], UNCHANGED <<job, running, polled, world>>,
             act[q].at \notin {"list", "configs"}, CandsKept
      PROVE  Inv'
  BY <1>1, <1>3, <1>5, NoFrameType
<1>6. ASSUME NEW g \in Frame, g.at \in {"load", "delete", "create"}, g.cand \in Cands,
             act' = [act EXCEPT ![q] = g],
             UNCHANGED <<cand, job, running, polled, side>>, act[q] = NoFrame
      PROVE  Inv'
  <2>1. FrameOK(g)
    BY <1>6 DEF FrameOK, RuleStages
  <2> QED BY <1>1, <1>2, <1>3, <1>6, <2>1, NoFrameType
<1>7. CASE RunPipeline(q)
  BY <1>4, <1>7, NoFrameType DEF RunPipeline
<1>8. CASE Edit(q)
  <2>1. PICK c \in Cands :
          act' = [act EXCEPT ![q] = [NoFrame EXCEPT !.at = "load", !.op = "edit", !.cand = c]]
    BY <1>8 DEF Edit
  <2> DEFINE g == [NoFrame EXCEPT !.at = "load", !.op = "edit", !.cand = c]
  <2>2. g \in Frame /\ g.at = "load" /\ g.cand = c
    BY Zero DEF NoFrame, Frame
  <2>3. act' = [act EXCEPT ![q] = g]
    BY <2>1
  <2> HIDE DEF g
  <2> QED BY <1>6, <1>8, <2>2, <2>3 DEF Edit
<1>9. CASE Delete(q) \/ Publish(q)
  <2>1. PICK c \in Cands, l \in {"delete", "create"} :
          act' = [act EXCEPT ![q] = [NoFrame EXCEPT !.at = l, !.cand = c]]
    BY <1>9 DEF Delete, Publish
  <2> DEFINE g == [NoFrame EXCEPT !.at = l, !.cand = c]
  <2>2. g \in Frame /\ g.at = l /\ g.cand = c
    BY Zero DEF NoFrame, Frame
  <2>3. act' = [act EXCEPT ![q] = g]
    BY <2>1
  <2> HIDE DEF g
  <2> QED BY <1>6, <1>9, <2>2, <2>3 DEF Delete, Publish
<1>10. CASE Load(q)
  <2>1. (\E l \in {"ok", "err"} : Return(q, l)) \/ Goto(q, "write")
    BY <1>10 DEF Load
  <2>2. (\E l \in {"ok", "err"} : Return(q, l)) => act' = [act EXCEPT ![q] = NoFrame]
    BY DEF Return
  <2> QED BY <1>2, <1>3, <1>4, <1>5, <1>10, <2>1, <2>2 DEF Load
<1>11. CASE WriteCandidate(q)
  <2>1. \E l \in {"ok", "err"} : Return(q, l)
    BY <1>11 DEF WriteCandidate
  <2>2. act' = [act EXCEPT ![q] = NoFrame]
    BY <2>1 DEF Return
  <2>3. CandsKept
    BY <1>0, <1>11, WriteKeeps
  <2> QED BY <1>5, <1>11, <2>2, <2>3 DEF WriteCandidate
<1>12. CASE DeleteRow(q)
  <2>1. CandsKept
    BY <1>0, <1>12, StatusKept DEF DeleteRow
  <2> QED BY <1>5, <1>12, <2>1 DEF DeleteRow
<1>13. CASE CreateRule(q)
  <2>1. CASE act' = [act EXCEPT ![q] = NoFrame] /\ UNCHANGED rule
    BY <1>2, <1>3, <1>5, <1>13, <2>1 DEF CreateRule, side
  <2>2. CASE \E r \in Rules : /\ Published = {i \in Rules : i < r}
                              /\ rule' = [rule EXCEPT ![r] = act[q].cand]
                              /\ act' = [act EXCEPT ![q].at = "list", ![q].rule = r]
    <3>1. PICK r \in Rules : /\ Published = {i \in Rules : i < r}
                             /\ rule' = [rule EXCEPT ![r] = act[q].cand]
                             /\ act' = [act EXCEPT ![q].at = "list", ![q].rule = r]
      BY <2>2
    <3> DEFINE g == [act[q] EXCEPT !.at = "list", !.rule = r]
    <3>0. r \in 0..NRules
      BY IncubatorAssumption DEF Rules
    <3>2. g \in Frame /\ g.at = "list" /\ g.rule = r /\ g.cand = act[q].cand
      BY <1>0, <3>0 DEF Frame
    <3>3. act' = [act EXCEPT ![q] = g]
      BY <1>0, <3>1
    <3> HIDE DEF g
    <3>4. act[q].at = "create" /\ UNCHANGED <<cand, job, running, polled, project, configs, torn, declared>>
      BY <1>13 DEF CreateRule
    <3>5. act[q].cand \in Cands
      BY <1>0, <3>4 DEF FrameOK
    <3>6. rule[r] = 0
      <4>1. r \notin Published
        BY <3>1, IncubatorAssumption DEF Rules
      <4> QED BY <4>1 DEF Published
    <3>7. /\ JobsOK' /\ act' \in [Actors -> Frame] /\ act'[q] = g
          /\ \A a \in Actors : a # q => act'[a] = act[a]
      BY <1>0, <3>2, <3>3, <3>4, RequestFrames
    <3>8. /\ rule' \in [Rules -> Cands \cup {0}] /\ rule'[r] = act[q].cand
          /\ \A i \in Rules : i # r => rule'[i] = rule[i]
      BY <1>0, <3>1, <3>5 DEF TypeOK
    <3>9. TypeOK'
      BY <1>0, <3>4, <3>7, <3>8 DEF TypeOK
    <3>10. FramesOK'
      <4>1. ASSUME NEW a \in Actors, a # q PROVE FrameOK(act[a])'
        <5>1. act'[a] = act[a] /\ FrameOK(act[a])
          BY <1>0, <3>7, <4>1 DEF FramesOK
        <5>2. act[a].at \in RuleStages => act[a].rule # r
          <6>1. act[a].at \in RuleStages => rule[act[a].rule] = act[a].cand /\ act[a].cand # 0
            BY <5>1, IncubatorAssumption DEF FrameOK
          <6> QED BY <3>6, <6>1
        <5> QED BY <3>8, <5>1, <5>2 DEF FrameOK
      <4>2. FrameOK(act[q])'
        BY <3>2, <3>5, <3>7, <3>8 DEF FrameOK, RuleStages
      <4> QED BY <4>1, <4>2 DEF FramesOK
    <3>11. PublishedHasRule'
      <4>1. CandsKept
        BY <1>2, <1>3, <3>4
      <4>2. \A i \in Rules : rule[i] # 0 => rule'[i] = rule[i]
        BY <3>6, <3>8
      <4> QED BY <1>0, <4>1, <4>2, PublishedKept, IncubatorAssumption
    <3>12. ConfigsOK'
      <4>1. SUFFICES ASSUME NEW p \in Projects \ torn, NEW i \in Rules \ torn,
                            rule'[i] # 0, project[p] = "done"
                     PROVE  <<p, i>> \in configs \/ Owed(p, i)'
        BY <3>4 DEF ConfigsOK, Published
      <4>2. CASE i = r
        BY <3>2, <3>7, <4>2 DEF Owed
      <4>3. CASE i # r
        <5>1. <<p, i>> \in configs \/ Owed(p, i)
          BY <1>0, <3>8, <4>1, <4>3 DEF ConfigsOK, Published
        <5>2. ASSUME Owed(p, i) PROVE Owed(p, i)'
          <6>1. PICK u \in Reqs : /\ act[u].rule = i
                                  /\ (act[u].at = "list" \/ (act[u].at = "configs" /\ p \in act[u].todo))
            BY <5>2 DEF Owed
          <6>2. u # q /\ u \in Actors
            BY <3>4, <6>1 DEF Actors
          <6> QED BY <3>7, <6>1, <6>2 DEF Owed
        <5> QED BY <5>1, <5>2
      <4> QED BY <4>2, <4>3
    <3> QED BY <3>7, <3>9, <3>10, <3>11, <3>12 DEF Inv
  <2> QED BY <1>13, <2>1, <2>2 DEF CreateRule
<1>14. ASSUME NEW g \in Frame, act' = [act EXCEPT ![q] = g], UNCHANGED <<cand, job, running, polled>>,
              UNCHANGED <<rule, project, torn, declared>>, configs' \subseteq Projects \X Rules,
              configs \subseteq configs', FrameOK(g),
              \A p \in Projects : \A r \in Rules :
                project[p] = "done" /\ act[q].rule = r
                   /\ (act[q].at = "list" \/ (act[q].at = "configs" /\ p \in act[q].todo))
                => \/ <<p, r>> \in configs'
                   \/ g.rule = r /\ g.at = "configs" /\ p \in g.todo
       PROVE  Inv'
  <2>1. /\ JobsOK' /\ act' \in [Actors -> Frame] /\ act'[q] = g
        /\ \A a \in Actors : a # q => act'[a] = act[a]
    BY <1>0, <1>14, RequestFrames
  <2>2. TypeOK'
    BY <1>0, <1>14, <2>1 DEF TypeOK
  <2>3. FramesOK'
    BY <1>0, <1>14, <2>1 DEF FramesOK, FrameOK
  <2>4. PublishedHasRule'
    BY <1>0, <1>14 DEF PublishedHasRule
  <2>5. ConfigsOK'
    <3>1. SUFFICES ASSUME NEW p \in Projects \ torn, NEW r \in Published \ torn, project[p] = "done"
                   PROVE  <<p, r>> \in configs' \/ Owed(p, r)'
      BY <1>14 DEF ConfigsOK, Published
    <3>2. r \in Rules /\ (<<p, r>> \in configs \/ Owed(p, r))
      BY <1>0, <3>1 DEF ConfigsOK, Published
    <3>3. ASSUME NEW u \in Reqs, act[u].rule = r,
                 act[u].at = "list" \/ (act[u].at = "configs" /\ p \in act[u].todo)
          PROVE  <<p, r>> \in configs' \/ Owed(p, r)'
      <4>1. CASE u = q
        BY <1>14, <2>1, <3>1, <3>2, <3>3, <4>1 DEF Owed
      <4>2. CASE u # q
        BY <2>1, <3>3, <4>2 DEF Owed, Actors
      <4> QED BY <4>1, <4>2
    <3> QED BY <1>14, <3>2, <3>3 DEF Owed
  <2> QED BY <2>1, <2>2, <2>3, <2>4, <2>5 DEF Inv
<1>15. CASE ListProjects(q)
  <2> DEFINE g == [act[q] EXCEPT !.at = "configs", !.todo = {p \in Projects : project[p] # "none"}]
  <2>1. /\ g \in Frame /\ g.at = "configs" /\ g.rule = act[q].rule /\ g.cand = act[q].cand
        /\ g.todo = {p \in Projects : project[p] # "none"}
    BY <1>0 DEF Frame
  <2>2. act' = [act EXCEPT ![q] = g]
    BY <1>0, <1>15 DEF ListProjects
  <2> HIDE DEF g
  <2>3. /\ act[q].at = "list"
        /\ UNCHANGED <<cand, job, running, polled, rule, project, configs, torn, declared>>
    BY <1>15 DEF ListProjects
  <2>4. FrameOK(g)
    BY <1>0, <2>1, <2>3 DEF FrameOK, RuleStages
  <2>5. configs' \subseteq Projects \X Rules
    BY <1>0, <2>3 DEF TypeOK
  <2> QED BY <1>14, <2>1, <2>2, <2>3, <2>4, <2>5
<1>16. CASE AddToProjects(q)
  <2> DEFINE g == [act[q] EXCEPT !.at = "publish", !.todo = {}]
  <2>1. g \in Frame /\ g.at = "publish" /\ g.rule = act[q].rule /\ g.cand = act[q].cand
    BY <1>0 DEF Frame
  <2>2. act' = [act EXCEPT ![q] = g]
    BY <1>0, <1>16 DEF AddToProjects
  <2> HIDE DEF g
  <2>3. /\ act[q].at = "configs"
        /\ UNCHANGED <<cand, job, running, polled, rule, project, torn, declared>>
        /\ configs' = configs \cup (act[q].todo \X {act[q].rule})
    BY <1>16 DEF AddToProjects
  <2>4. FrameOK(g) /\ act[q].rule \in Rules
    BY <1>0, <2>1, <2>3 DEF FrameOK, RuleStages
  <2>5. configs' \subseteq Projects \X Rules
    BY <1>0, <2>3, <2>4 DEF TypeOK, Frame
  <2> QED BY <1>14, <2>1, <2>2, <2>3, <2>4, <2>5
<1>17. CASE MarkPublished(q)
  <2>1. /\ act[q].at = "publish" /\ act' = [act EXCEPT ![q] = NoFrame]
        /\ UNCHANGED <<job, running, polled, world>> /\ declared' = declared \ {act[q].cand}
    BY <1>17 DEF MarkPublished
  <2>2. act[q].cand \in Cands /\ act[q].rule \in Rules /\ rule[act[q].rule] = act[q].cand
    BY <1>0, <2>1 DEF FrameOK, RuleStages
  <2> DEFINE c == act[q].cand
             r == act[q].rule
             d == [cand[c] EXCEPT !.status = "published", !.rule = r]
  <2>3. r \in 0..NRules /\ r # 0
    BY <2>2, IncubatorAssumption DEF Rules
  <2>4. d \in Cand /\ d.rule = r
    <3>1. cand[c] \in Cand
      BY <1>0, <2>2 DEF TypeOK
    <3> QED BY <2>3, <3>1 DEF Cand, Closed
  <2>5. \/ UNCHANGED cand /\ cand[c].status # "published"
        \/ cand' = [cand EXCEPT ![c] = d]
    BY <1>0, <1>17, <2>2 DEF MarkPublished, Live
  <2> HIDE DEF d
  <2>6. cand' \in [Cands -> Cand] /\ declared' \subseteq Cands
    BY <1>0, <2>1, <2>4, <2>5 DEF TypeOK
  <2>7. PublishedHasRule'
    BY <1>0, <2>1, <2>2, <2>3, <2>4, <2>5 DEF PublishedHasRule
  <2> QED BY <1>3, <2>1, <2>6, <2>7, NoFrameType, RequestTurn
<1>18. CASE StartPipeline(q)
  <2>1. act[q].at = "start" /\ UNCHANGED <<cand, running, polled, side>>
    BY <1>18 DEF StartPipeline
  <2>2. CASE UNCHANGED job /\ act' = [act EXCEPT ![q] = NoFrame]
    BY <1>2, <1>3, <1>5, <2>1, <2>2
  <2>3. CASE \E j \in Jobs :
               /\ NewJob(j) /\ job' = [job EXCEPT ![j] = Row("pipeline_run", "running", 0)]
               /\ act' = [act EXCEPT ![q] = NoFrame,
                                     ![j] = [NoFrame EXCEPT !.at = "cluster", !.stage = "cluster"]]
    <3> DEFINE g == [NoFrame EXCEPT !.at = "cluster", !.stage = "cluster"]
    <3>1. PICK j \in Jobs : /\ NewJob(j) /\ job' = [job EXCEPT ![j] = Row("pipeline_run", "running", 0)]
                            /\ act' = [act EXCEPT ![q] = NoFrame, ![j] = g]
      BY <2>3
    <3>2. g \in Frame /\ g.at = "cluster"
      BY Zero DEF NoFrame, Frame, Steps
    <3>3. Row("pipeline_run", "running", 0) \in Job
      BY DEF Row, Job
    <3> HIDE DEF g
    <3>4. /\ act' \in [Actors -> Frame] /\ act'[q] = NoFrame /\ act'[j] = g
          /\ \A a \in Actors : a \notin {q, j} => act'[a] = act[a]
      BY <1>0, <3>1, <3>2, NoFrameType DEF Actors
    <3>5. /\ job' \in [Jobs -> Job] /\ job'[j].type = "pipeline_run" /\ job'[j].status = "running"
          /\ \A i \in Jobs \ {j} : job'[i] = job[i]
      BY <1>0, <3>1, <3>3 DEF TypeOK, Row
    <3>6. TypeOK'
      BY <1>0, <2>1, <3>4, <3>5 DEF TypeOK, side
    <3>7. JobOK(j) /\ job[j].type = "none" /\ j \notin polled
      BY <1>0, <3>1 DEF JobsOK, JobOK, NewJob
    <3>8. JobOK(j)'
      BY <2>1, <3>2, <3>4, <3>5, <3>7 DEF JobOK
    <3>9. ASSUME NEW i \in Jobs \ {j} PROVE JobOK(i)'
      <4>1. act'[i] = act[i]
        BY <1>0, <3>4 DEF Actors
      <4> QED BY <1>0, <2>1, <3>5, <4>1 DEF JobsOK, JobOK
    <3>10. FramesOK'
      BY <1>0, <1>3, <2>1, <3>2, <3>4 DEF FramesOK, FrameOK, RuleStages, side
    <3>11. ASSUME NEW p, NEW r, Owed(p, r) PROVE Owed(p, r)'
      <4>1. PICK u \in Reqs : /\ act[u].rule = r
                              /\ (act[u].at = "list" \/ (act[u].at = "configs" /\ p \in act[u].todo))
        BY <3>11 DEF Owed
      <4>2. u # q /\ u # j /\ u \in Actors
        BY <2>1, <4>1, IncubatorAssumption DEF Actors
      <4> QED BY <3>4, <4>1, <4>2 DEF Owed
    <3>12. ConfigsOK'
      BY <1>0, <2>1, <3>11 DEF ConfigsOK, Published, side
    <3>13. PublishedHasRule'
      BY <1>0, <2>1 DEF PublishedHasRule, side
    <3> QED BY <3>6, <3>8, <3>9, <3>10, <3>12, <3>13 DEF Inv, JobsOK
  <2> QED BY <1>18, <2>2, <2>3 DEF StartPipeline
<1> QED BY <1>7, <1>8, <1>9, <1>10, <1>11, <1>12, <1>13, <1>15, <1>16, <1>17, <1>18 DEF ReqStep

-----------------------------------------------------------------------------
(* The projects, and a restart.                                            *)

LEMMA ProjectNext ==
  ASSUME Inv, NEW p \in Projects, CreateProject(p) \/ AddRules(p)
  PROVE  Inv'
<1>0. UNCHANGED <<cand, job, act, running, polled, rule, torn, declared>>
  BY DEF CreateProject, AddRules
<1>1. /\ project' \in [Projects -> {"none", "created", "done"}]
      /\ configs \subseteq configs' /\ configs' \subseteq Projects \X Rules
      /\ \A x \in Projects : project'[x] = "done" =>
           project[x] = "done" \/ \A r \in Published : <<x, r>> \in configs'
  <2>1. Published \subseteq Rules
    BY DEF Published
  <2>2. CASE CreateProject(p)
    BY <2>2 DEF Inv, TypeOK, CreateProject
  <2>3. CASE AddRules(p)
    BY <2>1, <2>3 DEF Inv, TypeOK, AddRules
  <2> QED BY <2>2, <2>3
<1>2. TypeOK'
  BY <1>0, <1>1 DEF Inv, TypeOK
<1>3. JobsOK' /\ FramesOK' /\ PublishedHasRule'
  BY <1>0 DEF Inv, JobsOK, JobOK, FramesOK, FrameOK, PublishedHasRule
<1>4. ConfigsOK'
  <2>1. ASSUME NEW x, NEW r, Owed(x, r) PROVE Owed(x, r)'
    BY <1>0, <2>1 DEF Owed
  <2> QED BY <1>0, <1>1, <2>1 DEF Inv, ConfigsOK, Published
<1> QED BY <1>2, <1>3, <1>4 DEF Inv

LEMMA RestartNext == Inv /\ Restart => Inv'
<1> SUFFICES ASSUME Inv, Restart PROVE Inv'
  OBVIOUS
<1>0. /\ TypeOK /\ JobsOK /\ FramesOK /\ ConfigsOK /\ PublishedHasRule
      /\ act \in [Actors -> Frame] /\ Jobs \subseteq Actors /\ Reqs \subseteq Actors
  BY DEF Inv, TypeOK, Actors
<1> DEFINE dead == [NoFrame EXCEPT !.at = "killed"]
<1>1. dead \in Frame /\ dead.at = "killed"
  BY FreshFrame DEF Ats
<1>2. act' = [a \in Actors |-> IF a \in Reqs \/ act[a] = NoFrame THEN NoFrame ELSE dead]
  BY DEF Restart
<1> HIDE DEF dead
<1>3. /\ act' \in [Actors -> Frame]
      /\ \A a \in Actors : act'[a] \in {NoFrame, dead}
      /\ \A j \in Jobs : act'[j] = IF act[j] = NoFrame THEN NoFrame ELSE dead
  BY <1>0, <1>1, <1>2, NoFrameType, IncubatorAssumption
<1>4. UNCHANGED <<cand, job, rule, configs, declared>> /\ running' = {} /\ polled' = {}
  BY DEF Restart
<1>5. torn' \subseteq Projects \cup Rules
  <2>1. \A q \in Reqs : act[q].at \in {"list", "configs"} => act[q].rule \in Rules
    BY <1>0 DEF FramesOK, FrameOK, RuleStages
  <2> QED BY <1>0, <2>1 DEF Restart, TypeOK
<1>6. project' \in [Projects -> {"none", "created", "done"}]
  BY <1>0 DEF Restart, TypeOK
<1>7. TypeOK'
  BY <1>0, <1>3, <1>4, <1>5, <1>6 DEF TypeOK
<1>8. JobsOK'
  <2>1. ASSUME NEW j \in Jobs PROVE JobOK(j)'
    <3>1. JobOK(j)
      BY <1>0 DEF JobsOK
    <3> QED BY <1>1, <1>3, <1>4, <3>1, NoFrameType DEF JobOK
  <2> QED BY <2>1 DEF JobsOK
<1>9. FramesOK'
  BY <1>1, <1>3, NoFrameType DEF FramesOK, FrameOK, RuleStages
<1>10. PublishedHasRule'
  BY <1>0, <1>4 DEF PublishedHasRule
<1>11. ConfigsOK'
  <2> SUFFICES ASSUME NEW p \in Projects \ torn', NEW r \in Rules \ torn', rule[r] # 0,
                      project'[p] = "done"
               PROVE  <<p, r>> \in configs
    BY <1>4 DEF ConfigsOK, Published
  <2>1. p \notin torn /\ r \notin torn /\ project[p] # "created"
    BY DEF Restart
  <2>2. project[p] = "done"
    BY <1>0, <2>1 DEF Restart, TypeOK
  <2>3. ~Owed(p, r)
    <3>1. \A q \in Reqs : act[q].at \in {"list", "configs"} => act[q].rule \in torn'
      BY DEF Restart
    <3> QED BY <3>1 DEF Owed
  <2> QED BY <1>0, <2>1, <2>2, <2>3 DEF ConfigsOK, Published
<1> QED BY <1>7, <1>8, <1>9, <1>10, <1>11 DEF Inv

LEMMA InvNext == Inv /\ [Next]_vars => Inv'
<1> SUFFICES ASSUME Inv, [Next]_vars PROVE Inv'
  OBVIOUS
<1>1. CASE UNCHANGED vars
  BY <1>1 DEF vars, side, Inv, TypeOK, JobsOK, JobOK, FramesOK, FrameOK, PublishedHasRule,
              ConfigsOK, Owed, Published
<1> QED BY <1>1, RunnerNext, JobNext, RequestNext, ProjectNext, RestartNext DEF Next

(* The only step that starts a job's goroutine.                            *)
LEMMA StartsAlone ==
  ASSUME Inv, [Next]_vars, NEW j \in Jobs, act'[j].at = "mark", act[j].at # "mark"
  PROVE  act[j].at \in {"idle", "killed"}
<1>0. act \in [Actors -> Frame] /\ j \in Actors /\ j \notin Reqs /\ JobOK(j)
  BY IncubatorAssumption DEF Inv, TypeOK, Actors, JobsOK
<1>1. CASE Take
  <2>1. PICK i \in polled :
          \/ UNCHANGED act
          \/ i \notin running /\ act' = [act EXCEPT ![i] = [NoFrame EXCEPT !.at = "mark"]]
    BY <1>1 DEF Take
  <2>2. i \notin running /\ i = j
    BY <1>0, <2>1
  <2> QED BY <1>0, <2>2 DEF JobOK
<1>2. ASSUME NEW i \in Jobs, JobStep(i) PROVE FALSE
  <2>1. PICK g : JobTurn(i, g)
    BY <1>2, JobShape DEF Inv
  <2>2. g.at # "mark"
    BY <2>1, NoFrameType DEF JobTurn, Working
  <2> QED BY <1>0, <2>1, <2>2 DEF JobTurn
<1>3. ASSUME NEW q \in Reqs, RunPipeline(q) \/ Edit(q) \/ Delete(q) \/ Publish(q) \/ ReqStep(q)
      PROVE  FALSE
  <2>1. CASE StartPipeline(q)
    <3>1. \/ act' = [act EXCEPT ![q] = NoFrame]
          \/ \E i \in Jobs :
               act' = [act EXCEPT ![q] = NoFrame,
                                  ![i] = [NoFrame EXCEPT !.at = "cluster", !.stage = "cluster"]]
      BY <2>1 DEF StartPipeline
    <3>2. [NoFrame EXCEPT !.at = "cluster", !.stage = "cluster"].at = "cluster"
      BY DEF NoFrame
    <3>3. \/ act'[j] = act[j]
          \/ act'[j] = [NoFrame EXCEPT !.at = "cluster", !.stage = "cluster"]
      BY <1>0, <3>1
    <3> QED BY <3>2, <3>3
  <2>2. CASE ~StartPipeline(q)
    <3>1. act'[j] = act[j]
      BY <1>0, <1>3, <2>2 DEF RunPipeline, Edit, Delete, Publish, ReqStep, Goto, Return, Load,
         WriteCandidate, DeleteRow, CreateRule, ListProjects, AddToProjects, MarkPublished
    <3> QED BY <3>1
  <2> QED BY <2>1, <2>2
<1>4. CASE QueueJob \/ Poll \/ (\E p \in Projects : CreateProject(p) \/ AddRules(p)) \/ UNCHANGED vars
  BY <1>4 DEF QueueJob, Poll, CreateProject, AddRules, vars
<1>5. CASE ClusterRequest
  <2>1. PICK i \in Jobs : act' = [act EXCEPT ![i] = [NoFrame EXCEPT !.at = "cluster"]]
    BY <1>5 DEF ClusterRequest
  <2>2. act'[j] = act[j] \/ act'[j] = [NoFrame EXCEPT !.at = "cluster"]
    BY <1>0, <2>1
  <2> QED BY <2>2, FreshFrame DEF Ats
<1>6. CASE Restart
  <2>1. act'[j] = NoFrame \/ act'[j] = [NoFrame EXCEPT !.at = "killed"]
    BY <1>0, <1>6 DEF Restart
  <2> QED BY <2>1, NoFrameType, FreshFrame DEF Ats
<1> QED BY <1>1, <1>2, <1>3, <1>4, <1>5, <1>6 DEF Next

-----------------------------------------------------------------------------
(* What the row of a job says of its goroutine.                            *)

Busy == {"cluster", "queue", "ask", "compare", "test", "load", "write", "next"}

RowOK(j) ==
  /\ job[j].type = "none" => job[j].status = "none"
  /\ act[j].at \in Busy \cup {"saveOk", "saveErr"} => job[j].status = "running"
  /\ act[j].at = "ok"  => job[j].status \in {"running", "success"}
  /\ act[j].at = "err" => job[j].status \in {"running", "failed"}

RowsOK == \A j \in Jobs : RowOK(j)

RowsMove ==
  \A j \in Jobs : job'[j].status # job[j].status =>
    <<job[j].status, job'[j].status>> \in Forward

(* Where a goroutine is, what it writes and where it goes.                 *)
JobSays(j, g) ==
  /\ act' = [act EXCEPT ![j] = g]
  /\ \/ /\ act[j].at \in Busy /\ UNCHANGED job
        /\ g.at \in Busy \cup {"ok", "err", "saveOk", "saveErr", "killed"}
     \/ /\ act[j].at = "mark" /\ job' = [job EXCEPT ![j].status = "running"]
        /\ g.at \in Busy
     \/ /\ act[j].at = "queue" /\ g.at = "cluster"
        /\ \E i \in Jobs, c \in Cands \cup {0} :
             NewJob(i) /\ job' = [job EXCEPT ![i] = Row("refine", "pending", c)]
     \/ /\ act[j].at \in {"saveOk", "ok"} /\ job' = [job EXCEPT ![j].status = "success"]
        /\ g.at \in {"ok", "leave", "idle"}
     \/ /\ act[j].at \in {"saveErr", "err"} /\ job' = [job EXCEPT ![j].status = "failed"]
        /\ g.at \in {"err", "leave", "idle"}
     \/ act[j].at = "leave" /\ g.at = "idle" /\ UNCHANGED job

LEMMA JobStepSays ==
  ASSUME TypeOK, NEW j \in Jobs, JobStep(j)
  PROVE  \E g \in Frame : JobSays(j, g)
<1>0. j \in Actors /\ act[j] \in Frame /\ act \in [Actors -> Frame] /\ job[j] \in Job
  BY DEF TypeOK, Actors
<1>1. ASSUME NEW g \in Frame, act' = [act EXCEPT ![j] = g], act[j].at \in Busy, UNCHANGED job,
             g.at \in Busy \cup {"ok", "err", "saveOk", "saveErr", "killed"}
      PROVE  \E h \in Frame : JobSays(j, h)
  BY <1>1 DEF JobSays
<1>2. ASSUME NEW l \in {"ok", "err"}, Return(j, l), act[j].at \in Busy, UNCHANGED job
      PROVE  \E h \in Frame : JobSays(j, h)
  <2>1. PICK g \in Frame : g.at \in Working /\ act' = [act EXCEPT ![j] = g]
    BY <1>2, ReturnShape
  <2> QED BY <1>1, <1>2, <2>1 DEF Working, Busy
<1>3. ASSUME NEW l \in Ats, Goto(j, l), act[j].at \in Busy, UNCHANGED job,
             l \in Busy \cup {"ok", "err", "saveOk", "saveErr"}
      PROVE  \E h \in Frame : JobSays(j, h)
  <2>1. PICK g \in Frame : g.at = l /\ act' = [act EXCEPT ![j] = g]
    BY <1>3, GotoShape
  <2> QED BY <1>1, <1>3, <2>1
<1>4. CASE Mark(j)
  <2> DEFINE g == [act[j] EXCEPT !.at = Entry(job[j].type), !.cand = job[j].cand]
  <2>1. Entry(job[j].type) \in {"ask", "compare", "test", "cluster", "next"}
    BY DEF Entry
  <2>2. g \in Frame /\ g.at \in Busy
    BY <1>0, <2>1 DEF Frame, Job, Busy
  <2>3. act' = [act EXCEPT ![j] = g]
    BY <1>0, <1>4 DEF Mark
  <2> HIDE DEF g
  <2> QED BY <1>4, <2>2, <2>3 DEF JobSays, Mark
<1>5. CASE Settle(j)
  <2> DEFINE g == IF j \in running THEN [NoFrame EXCEPT !.at = "leave"] ELSE NoFrame
  <2>1. g \in Frame /\ g.at \in {"leave", "idle"} /\ act' = [act EXCEPT ![j] = g]
    <3>1. "leave" \in Ats
      BY DEF Ats
    <3> QED BY <1>5, <3>1, FreshFrame, NoFrameType DEF Settle
  <2> HIDE DEF g
  <2>2. \/ act[j].at = "ok" /\ job' = [job EXCEPT ![j].status = "success"]
        \/ act[j].at = "err" /\ job' = [job EXCEPT ![j].status = "failed"]
    BY <1>5 DEF Settle
  <2> QED BY <2>1, <2>2 DEF JobSays
<1>6. CASE Leave(j)
  BY <1>6, NoFrameType DEF Leave, JobSays
<1>7. CASE SaveCluster(j)
  <2> DEFINE l == IF act[j].at = "saveOk" THEN "ok" ELSE "err"
  <2>1. Goto(j, l) /\ l \in Ats
    BY <1>7 DEF SaveCluster, Ats
  <2>2. PICK g \in Frame : g.at = l /\ act' = [act EXCEPT ![j] = g]
    BY <2>1, GotoShape
  <2>3. \/ act[j].at = "saveOk" /\ job' = [job EXCEPT ![j].status = "success"] /\ g.at = "ok"
        \/ act[j].at = "saveErr" /\ job' = [job EXCEPT ![j].status = "failed"] /\ g.at = "err"
    BY <1>7, <2>2 DEF SaveCluster
  <2> QED BY <2>2, <2>3 DEF JobSays
<1>8. CASE Cluster(j)
  <2>1. act[j].at \in Busy /\ UNCHANGED job
    BY <1>8 DEF Cluster, Busy
  <2>2. \/ \E c \in Cands : act' = [act EXCEPT ![j].at = "queue", ![j].cand = c]
        \/ \E l \in {"next", "ok", "err", "saveOk", "saveErr"} : Goto(j, l)
    BY <1>8 DEF Cluster
  <2>3. ASSUME NEW c \in Cands, act' = [act EXCEPT ![j].at = "queue", ![j].cand = c]
        PROVE  \E h \in Frame : JobSays(j, h)
    <3> DEFINE g == [act[j] EXCEPT !.at = "queue", !.cand = c]
    <3>1. g \in Frame /\ g.at = "queue"
      BY <1>0 DEF Frame
    <3>2. act' = [act EXCEPT ![j] = g]
      BY <1>0, <2>3
    <3> HIDE DEF g
    <3> QED BY <1>1, <2>1, <3>1, <3>2 DEF Busy
  <2>4. {"next", "ok", "err", "saveOk", "saveErr"}
          \subseteq Ats \cap (Busy \cup {"ok", "err", "saveOk", "saveErr"})
    BY DEF Ats, Busy
  <2> QED BY <1>3, <2>1, <2>2, <2>3, <2>4
<1>9. CASE Queue(j)
  <2> DEFINE g == [act[j] EXCEPT !.at = "cluster", !.cand = 0]
  <2>1. g \in Frame /\ g.at = "cluster"
    BY <1>0 DEF Frame
  <2>2. act' = [act EXCEPT ![j] = g]
    BY <1>0, <1>9 DEF Queue
  <2> HIDE DEF g
  <2>3. act[j].cand \in Cands \cup {0} /\ act[j].at = "queue"
    BY <1>0, <1>9 DEF Frame, Queue
  <2>4. CASE UNCHANGED job
    BY <1>1, <2>1, <2>2, <2>3, <2>4 DEF Busy
  <2>5. CASE \E i \in Jobs :
               NewJob(i) /\ job' = [job EXCEPT ![i] = Row("refine", "pending", act[j].cand)]
    BY <2>1, <2>2, <2>3, <2>5 DEF JobSays
  <2> QED BY <1>9, <2>4, <2>5 DEF Queue
<1>10. CASE Other(j) \/ Panic(j)
  <2>1. act[j].at \in Busy /\ UNCHANGED job /\ \E l \in {"ok", "err"} : Goto(j, l)
    BY <1>10 DEF Other, Panic, Busy
  <2>2. {"ok", "err"} \subseteq Ats
    BY DEF Ats
  <2> QED BY <1>3, <2>1, <2>2
<1>14. CASE PanicInRequest(j)
  <2> DEFINE g == [NoFrame EXCEPT !.at = "killed"]
  <2>1. g \in Frame /\ g.at = "killed"
    BY FreshFrame DEF Ats
  <2>2. act' = [act EXCEPT ![j] = g] /\ act[j].at \in Busy /\ UNCHANGED job
    BY <1>14 DEF PanicInRequest, Busy
  <2> HIDE DEF g
  <2> QED BY <1>1, <2>1, <2>2
<1>11. CASE Ask(j) \/ Compare(j) \/ Test(j)
  <2>1. act[j].at \in Busy /\ UNCHANGED job
    BY <1>11 DEF Ask, Compare, Test, Busy
  <2>2. \/ \E l \in {"ok", "err"} : Return(j, l)
        \/ \E o \in {"refine", "similar_check"} : act' = [act EXCEPT ![j].at = "load", ![j].op = o]
    BY <1>11 DEF Ask, Compare, Test
  <2>3. ASSUME NEW o \in {"refine", "similar_check"},
               act' = [act EXCEPT ![j].at = "load", ![j].op = o]
        PROVE  \E h \in Frame : JobSays(j, h)
    <3> DEFINE g == [act[j] EXCEPT !.at = "load", !.op = o]
    <3>1. g \in Frame /\ g.at = "load"
      BY <1>0, ZenonT(30) DEF Frame
    <3>2. act' = [act EXCEPT ![j] = g]
      BY <1>0, <2>3
    <3> HIDE DEF g
    <3> QED BY <1>1, <2>1, <3>1, <3>2 DEF Busy
  <2> QED BY <1>2, <2>1, <2>2, <2>3
<1>12. CASE Load(j) \/ WriteCandidate(j)
  <2>1. act[j].at \in Busy /\ UNCHANGED job
    BY <1>12 DEF Load, WriteCandidate, Busy
  <2>2. (\E l \in {"ok", "err"} : Return(j, l)) \/ Goto(j, "write")
    BY <1>12 DEF Load, WriteCandidate
  <2>3. "write" \in Ats \cap Busy
    BY DEF Ats, Busy
  <2> QED BY <1>2, <1>3, <2>1, <2>2, <2>3
<1>13. CASE NextStage(j) \/ NextCandidate(j)
  <2>1. act[j].at \in Busy /\ UNCHANGED job
    BY <1>13 DEF NextStage, NextCandidate, Busy
  <2>2. PICK g : JobTurn(j, g)
    BY JobShape
  <2>3. g.at \in Busy \cup {"ok"}
    <3>1. act'[j] = g
      BY <1>0, <2>2 DEF JobTurn
    <3>2. CASE NextStage(j)
      <4>1. act[j].at = "next"
        BY <3>2 DEF NextStage
      <4>2. act'[j].at \in {"next", "ok"}
        BY <1>0, <3>2, <4>1 DEF NextStage, Goto, Frame
      <4> QED BY <3>1, <4>2 DEF Busy
    <3>3. CASE NextCandidate(j)
      <4>1. PICK c \in act[j].left, l \in {"compare", "test", "ask", "next"} :
              act' = [act EXCEPT ![j].left = @ \ {c}, ![j].cand = c, ![j].at = l]
        BY <3>3 DEF NextCandidate
      <4>2. act'[j].at = l
        BY <1>0, <4>1 DEF Frame
      <4> QED BY <3>1, <4>2 DEF Busy
    <3> QED BY <1>13, <3>2, <3>3
  <2>4. g \in Frame /\ act' = [act EXCEPT ![j] = g]
    BY <2>2 DEF JobTurn
  <2> QED BY <1>1, <2>1, <2>3, <2>4
<1> QED BY <1>4, <1>5, <1>6, <1>7, <1>8, <1>9, <1>10, <1>11, <1>12, <1>13, <1>14 DEF JobStep

LEMMA JobRows ==
  ASSUME Inv, RowsOK, NEW j \in Jobs, JobStep(j)
  PROVE  RowsOK' /\ RowsMove
<1>0. /\ act \in [Actors -> Frame] /\ job \in [Jobs -> Job] /\ j \in Actors /\ Jobs \subseteq Actors
      /\ JobsOK /\ RowOK(j)
  BY DEF Inv, TypeOK, Actors, RowsOK
<1>1. PICK g \in Frame : JobSays(j, g)
  BY JobStepSays DEF Inv
<1>2. act'[j] = g /\ \A i \in Jobs \ {j} : act'[i] = act[i]
  BY <1>0, <1>1 DEF JobSays
<1>3. ASSUME UNCHANGED job, RowOK(j)' PROVE RowsOK' /\ RowsMove
  BY <1>2, <1>3 DEF RowsOK, RowOK, RowsMove
<1>4. ASSUME NEW s \in {"running", "success", "failed"}, job' = [job EXCEPT ![j].status = s],
             RowOK(j)', job[j].status # s => <<job[j].status, s>> \in Forward
      PROVE  RowsOK' /\ RowsMove
  <2>1. job'[j].status = s /\ \A i \in Jobs \ {j} : job'[i] = job[i]
    BY <1>0, <1>4 DEF Job
  <2>2. RowsOK'
    BY <1>2, <1>4, <2>1 DEF RowsOK, RowOK
  <2> QED BY <1>4, <2>1, <2>2 DEF RowsMove
<1>5. ASSUME NEW s \in {"running", "success", "failed"}, job' = [job EXCEPT ![j].status = s]
      PROVE  job'[j].status = s /\ job'[j].type = job[j].type
  BY <1>0, <1>5 DEF Job
<1>6. job[j].type = "none" => act[j].at = "idle"
  BY <1>0, NoFrameType DEF JobsOK, JobOK
<1>7. CASE /\ act[j].at \in Busy /\ UNCHANGED job
           /\ g.at \in Busy \cup {"ok", "err", "saveOk", "saveErr", "killed"}
  BY <1>0, <1>2, <1>3, <1>7 DEF RowOK
<1>8. CASE /\ act[j].at = "mark" /\ job' = [job EXCEPT ![j].status = "running"]
           /\ g.at \in Busy
  <2>1. job[j].status # "running" => <<job[j].status, "running">> \in Forward
    BY <1>0 DEF Job, Forward
  <2>2. RowOK(j)'
    BY <1>2, <1>5, <1>6, <1>8 DEF RowOK, Busy
  <2> QED BY <1>4, <1>8, <2>1, <2>2
<1>9. CASE /\ act[j].at = "queue" /\ g.at = "cluster"
           /\ \E i \in Jobs, c \in Cands \cup {0} :
                NewJob(i) /\ job' = [job EXCEPT ![i] = Row("refine", "pending", c)]
  <2>1. PICK i \in Jobs, c \in Cands \cup {0} :
          NewJob(i) /\ job' = [job EXCEPT ![i] = Row("refine", "pending", c)]
    BY <1>9
  <2>2. /\ job[i].type = "none" /\ act[i] = NoFrame /\ job[i].status = "none" /\ i # j
    BY <1>0, <1>6, <1>9, <2>1, NoFrameType DEF NewJob, JobsOK, JobOK, RowsOK, RowOK
  <2>3. /\ job'[i].status = "pending" /\ job'[i].type = "refine"
        /\ \A k \in Jobs \ {i} : job'[k] = job[k]
    BY <1>0, <2>1 DEF Row
  <2>4. RowOK(i)'
    BY <1>2, <2>2, <2>3, NoFrameType DEF RowOK, Busy
  <2>5. RowOK(j)'
    BY <1>0, <1>2, <1>9, <2>2, <2>3 DEF RowOK, Busy
  <2>6. RowsOK'
    BY <1>2, <2>3, <2>4, <2>5 DEF RowsOK, RowOK
  <2> QED BY <2>2, <2>3, <2>6 DEF RowsMove, Forward
<1>10. CASE /\ act[j].at \in {"saveOk", "ok"} /\ job' = [job EXCEPT ![j].status = "success"]
            /\ g.at \in {"ok", "leave", "idle"}
  <2>1. job[j].status # "success" => <<job[j].status, "success">> \in Forward
    BY <1>0, <1>10 DEF RowOK, Forward
  <2>2. RowOK(j)'
    BY <1>2, <1>5, <1>6, <1>10 DEF RowOK, Busy
  <2> QED BY <1>4, <1>10, <2>1, <2>2
<1>11. CASE /\ act[j].at \in {"saveErr", "err"} /\ job' = [job EXCEPT ![j].status = "failed"]
            /\ g.at \in {"err", "leave", "idle"}
  <2>1. job[j].status # "failed" => <<job[j].status, "failed">> \in Forward
    BY <1>0, <1>11 DEF RowOK, Forward
  <2>2. RowOK(j)'
    BY <1>2, <1>5, <1>6, <1>11 DEF RowOK, Busy
  <2> QED BY <1>4, <1>11, <2>1, <2>2
<1>12. CASE act[j].at = "leave" /\ g.at = "idle" /\ UNCHANGED job
  BY <1>0, <1>2, <1>3, <1>12 DEF RowOK, Busy
<1> QED BY <1>1, <1>7, <1>8, <1>9, <1>10, <1>11, <1>12 DEF JobSays

(* A job that enters the table, and a goroutine of it that starts or ends. *)
LEMMA NewRow ==
  ASSUME Inv, RowsOK, NEW i \in Jobs, NewJob(i), NEW s \in {"pending", "running"},
         NEW t, NEW c, t # "none", job' = [job EXCEPT ![i] = Row(t, s, c)],
         \A j \in Jobs \ {i} : act'[j] = act[j],
         act'[i].at = IF s = "running" THEN "cluster" ELSE "idle"
  PROVE  RowsOK' /\ RowsMove
<1>1. /\ job'[i].status = s /\ job'[i].type = t
      /\ \A k \in Jobs \ {i} : job'[k] = job[k]
  BY DEF Row, Inv, TypeOK
<1>2. job[i].status = "none"
  BY DEF NewJob, RowsOK, RowOK
<1>3. RowOK(i)'
  BY <1>1 DEF RowOK, Busy
<1>4. RowsOK'
  BY <1>1, <1>3 DEF RowsOK, RowOK
<1> QED BY <1>1, <1>2, <1>4 DEF RowsMove, Forward

LEMMA NextRows == Inv /\ RowsOK /\ [Next]_vars => RowsOK' /\ RowsMove
<1> SUFFICES ASSUME Inv, RowsOK, [Next]_vars PROVE RowsOK' /\ RowsMove
  OBVIOUS
<1>0. /\ act \in [Actors -> Frame] /\ job \in [Jobs -> Job] /\ Jobs \subseteq Actors
      /\ JobsOK /\ \A q \in Reqs : q \in Actors /\ q \notin Jobs
  BY IncubatorAssumption DEF Inv, TypeOK, Actors
<1>1. ASSUME UNCHANGED job,
             \A j \in Jobs : act'[j] = act[j] \/ act'[j].at \in {"idle", "mark", "killed"}
      PROVE  RowsOK' /\ RowsMove
  BY <1>1 DEF RowsOK, RowOK, RowsMove, Busy
<1>2. CASE QueueJob
  <2>1. PICK j \in Jobs, t \in Kinds, c \in Cands :
          NewJob(j) /\ job' = [job EXCEPT ![j] = Row(t, "pending", c)] /\ UNCHANGED act
    BY <1>2 DEF QueueJob
  <2>2. t # "none" /\ act[j].at = "idle"
    BY <1>0, <2>1, IncubatorAssumption, NoFrameType DEF NewJob, JobsOK, JobOK
  <2> QED BY <2>1, <2>2, NewRow
<1>3. CASE ClusterRequest
  <2>1. PICK j \in Jobs : /\ NewJob(j) /\ job' = [job EXCEPT ![j] = Row("cluster", "running", 0)]
                          /\ act' = [act EXCEPT ![j] = [NoFrame EXCEPT !.at = "cluster"]]
    BY <1>3 DEF ClusterRequest
  <2>2. act'[j].at = "cluster" /\ \A i \in Jobs \ {j} : act'[i] = act[i]
    BY <1>0, <2>1, FreshFrame DEF Ats
  <2> QED BY <2>1, <2>2, NewRow
<1>4. CASE Poll \/ (\E p \in Projects : CreateProject(p) \/ AddRules(p)) \/ UNCHANGED vars
  BY <1>1, <1>4 DEF Poll, CreateProject, AddRules, vars
<1>5. CASE Take
  <2>1. PICK i \in polled :
          UNCHANGED act \/ act' = [act EXCEPT ![i] = [NoFrame EXCEPT !.at = "mark"]]
    BY <1>5 DEF Take
  <2>2. [NoFrame EXCEPT !.at = "mark"].at = "mark"
    BY FreshFrame DEF Ats
  <2>3. \A j \in Jobs : act'[j] = act[j] \/ act'[j] = [NoFrame EXCEPT !.at = "mark"]
    BY <1>0, <2>1
  <2>4. UNCHANGED job
    BY <1>5 DEF Take
  <2> QED BY <1>1, <2>2, <2>3, <2>4
<1>6. CASE Restart
  <2>1. \A j \in Jobs : act'[j] = NoFrame \/ act'[j] = [NoFrame EXCEPT !.at = "killed"]
    BY <1>0, <1>6 DEF Restart
  <2>2. \A j \in Jobs : act'[j].at \in {"idle", "killed"}
    BY <2>1, NoFrameType, FreshFrame DEF Ats
  <2> QED BY <1>1, <1>6, <2>2 DEF Restart
<1>7. ASSUME NEW q \in Reqs, RunPipeline(q) \/ Edit(q) \/ Delete(q) \/ Publish(q) \/ ReqStep(q)
      PROVE  RowsOK' /\ RowsMove
  <2>1. CASE StartPipeline(q)
    <3> DEFINE g == [NoFrame EXCEPT !.at = "cluster", !.stage = "cluster"]
    <3>1. g.at = "cluster"
      BY DEF NoFrame
    <3>2. \/ UNCHANGED job /\ act' = [act EXCEPT ![q] = NoFrame]
          \/ \E j \in Jobs :
               /\ NewJob(j) /\ job' = [job EXCEPT ![j] = Row("pipeline_run", "running", 0)]
               /\ act' = [act EXCEPT ![q] = NoFrame, ![j] = g]
      BY <2>1 DEF StartPipeline
    <3> HIDE DEF g
    <3>3. ASSUME NEW j \in Jobs, NewJob(j),
                 job' = [job EXCEPT ![j] = Row("pipeline_run", "running", 0)],
                 act' = [act EXCEPT ![q] = NoFrame, ![j] = g]
          PROVE  RowsOK' /\ RowsMove
      <4>1. act'[j] = g /\ \A i \in Jobs \ {j} : act'[i] = act[i]
        BY <1>0, <3>3
      <4> QED BY <3>1, <3>3, <4>1, NewRow
    <3>4. CASE UNCHANGED job /\ act' = [act EXCEPT ![q] = NoFrame]
      BY <1>0, <1>1, <3>4
    <3> QED BY <3>2, <3>3, <3>4
  <2>2. CASE ~StartPipeline(q)
    <3>1. UNCHANGED job /\ \A j \in Jobs : act'[j] = act[j]
      BY <1>0, <1>7, <2>2 DEF RunPipeline, Edit, Delete, Publish, ReqStep, Goto, Return, Load,
         WriteCandidate, DeleteRow, CreateRule, ListProjects, AddToProjects, MarkPublished
    <3> QED BY <1>1, <3>1
  <2> QED BY <2>1, <2>2
<1> QED BY <1>2, <1>3, <1>4, <1>5, <1>6, <1>7, JobRows DEF Next

-----------------------------------------------------------------------------
(* The theorems.                                                           *)

LEMMA Always == Spec => []Inv
BY InitInv, InvNext, PTL DEF Spec

(* The state keeps its types, for any number of jobs, rules and requests.  *)
THEOREM TypesCorrect == Spec => []TypeOK
<1>1. Inv => TypeOK
  BY DEF Inv
<1> QED BY <1>1, Always, PTL

(* A row whose goroutine is through, and did not die, is never left as     *)
(* running, and the runner's map never keeps a job that nothing works on.  *)
THEOREM JobRowsSettled == Spec => []RowsSettled
<1>1. Inv => RowsSettled
  BY DEF Inv, JobsOK, JobOK, RowsSettled
<1> QED BY <1>1, Always, PTL

(* However old the list of a poll is, the runner starts no job that a      *)
(* goroutine still works on.                                               *)
THEOREM JobsRunAlone == Spec => RunsAlone
<1>1. Inv /\ [Next]_vars =>
        [\A j \in Jobs : act'[j].at = "mark" /\ act[j].at # "mark"
                           => act[j].at \in {"idle", "killed"}]_vars
  BY StartsAlone
<1> QED BY <1>1, Always, PTL DEF Spec, RunsAlone

(* Whatever requests and jobs change it meanwhile, and though edits may    *)
(* store any status, a published candidate names the rule that was made    *)
(* from it, or it is published because an edit said so.                    *)
THEOREM RulesBehindPublished == Spec => []PublishedHasRule
<1>1. Inv => PublishedHasRule
  BY DEF Inv
<1> QED BY <1>1, Always, PTL

(* Whatever the order in which projects are created and rules published,   *)
(* no pair of them is left without its configuration.                      *)
THEOREM ConfigsAreComplete == Spec => []ConfigsComplete
<1>1. Inv => ConfigsComplete
  BY DEF Inv, ConfigsOK, Owed, ConfigsComplete, Adding
<1> QED BY <1>1, Always, PTL

(* executeJob, handleCluster, ClusterIssues and the pipeline write the row *)
(* of a job at different times: still it gets no outcome without a run and *)
(* never two different ones in a row, for any number of jobs and restarts. *)
THEOREM JobOutcomesInOrder == Spec => JobsMoveForward
<1>1. Init => RowsOK
  BY NoFrameType DEF Init, RowsOK, RowOK, Busy, Actors
<1>2. RowsMove =>
        \A j \in Jobs : job'[j].status # job[j].status =>
          <<job[j].status, job'[j].status>> \in Forward
  BY DEF RowsMove
<1> QED BY <1>1, <1>2, Always, NextRows, PTL DEF Spec, JobsMoveForward
=============================================================================
