------------------------------- MODULE Incubator -------------------------------
(***************************************************************************)
(* The rule incubator: candidate rules, the jobs that work on them, the    *)
(* runner that polls for jobs, the pipeline that clusters, refines, checks *)
(* and tests, and the publication of a candidate as a review rule with a   *)
(* configuration in every project.                                         *)
(*   backend/internal/service/incubator.go, incubator_job.go, project.go   *)
(*   backend/internal/handler/incubator.go                                 *)
(*                                                                         *)
(* A candidate is its status, its pipeline run and its rule; texts, codes, *)
(* similarities, test results, confidence and vectors are abstracted, as   *)
(* are the issues a cluster is made of: where they decide, either way is   *)
(* possible.  A status no line of the code names counts like "ready".      *)
(* Statements of the database are atomic and succeed, unless a unique      *)
(* index on a code refuses them.                                           *)
(***************************************************************************)
EXTENDS Naturals, FiniteSets

CONSTANTS
  Cands,     \* candidates (bound)
  NJobs,     \* rows of rule_incubation_jobs (bound)
  NRules,    \* rules that are published (bound)
  Projects,  \* projects that are created while this runs (bound)
  Reqs,      \* requests in progress (bound)
  Kinds,     \* the types of job that are queued
  EditTo,    \* the statuses an edit gives a candidate, if it gives one
  EditRuns   \* the pipeline runs it gives one, likewise

Jobs  == 1..NJobs
Rules == 1..NRules

ASSUME IncubatorAssumption ==
  /\ NJobs \in Nat \ {0} /\ NRules \in Nat \ {0}
  /\ Kinds \subseteq {"cluster", "refine", "similar_check", "sandbox_test", "health_check"}
  /\ EditTo \subseteq {"draft", "ready", "published", "rejected", "merged"}
  /\ EditRuns \subseteq 0..NJobs
  /\ 0 \notin Cands /\ \A q \in Reqs : q \notin Jobs

Actors == Reqs \cup Jobs

VARIABLES
  cand,      \* rule_incubations
  job,       \* rule_incubation_jobs
  act,       \* where each request and each job's goroutine is
  running,   \* running of IncubatorJobRunner
  polled,    \* the pending jobs a poll has read and not yet looked at
  rule,      \* review_rules: the candidate each was made from, or 0
  project,   \* the creation of projects
  configs,   \* project_review_configs
  torn,      \* the rules and projects whose making a dying server cut short
  declared   \* the candidates that are published because an edit said so

vars == <<cand, job, act, running, polled, rule, project, configs, torn, declared>>
side == <<rule, project, configs, torn, declared>>

Steps  == {"cluster", "refine", "similar_check", "sandbox_test"}
Closed == {"published", "rejected", "merged"}

Cand  == [status : {"none", "draft", "ready", "deleted"} \cup Closed,
          run : 0..NJobs, rule : 0..NRules]
Job   == [type : {"none", "cluster", "refine", "similar_check", "sandbox_test",
                  "health_check", "pipeline_run"},
          status : {"none", "pending", "running", "success", "failed"},
          cand : Cands \cup {0}]
Frame == [at : {"idle", "mark", "cluster", "queue", "ask", "compare", "test", "load",
                "write", "next", "saveOk", "saveErr", "ok", "err", "leave", "killed", "start",
                "create", "list", "configs", "publish", "delete"},
          op : {"none", "refine", "similar_check", "edit"},
          cand : Cands \cup {0}, rule : 0..NRules,
          stage : Steps \cup {"none"}, left : SUBSET Cands, seen : SUBSET Cands,
          todo : SUBSET Projects]

NoFrame == [at |-> "idle", op |-> "none", cand |-> 0, rule |-> 0,
            stage |-> "none", left |-> {}, seen |-> {}, todo |-> {}]

TypeOK ==
  /\ cand \in [Cands -> Cand]
  /\ job \in [Jobs -> Job]
  /\ act \in [Actors -> Frame]
  /\ running \subseteq Jobs /\ polled \subseteq Jobs
  /\ rule \in [Rules -> Cands \cup {0}]
  /\ project \in [Projects -> {"none", "created", "done"}]
  /\ configs \subseteq Projects \X Rules
  /\ torn \subseteq Projects \cup Rules
  /\ declared \subseteq Cands

Init ==
  /\ cand = [c \in Cands |-> [status |-> "none", run |-> 0, rule |-> 0]]
  /\ job = [j \in Jobs |-> [type |-> "none", status |-> "none", cand |-> 0]]
  /\ act = [a \in Actors |-> NoFrame]
  /\ running = {} /\ polled = {}
  /\ rule = [r \in Rules |-> 0]
  /\ project = [p \in Projects |-> "none"]
  /\ configs = {} /\ torn = {} /\ declared = {}

Live(c)       == c \in Cands /\ cand[c].status \notin {"none", "deleted"}
Goto(a, l)    == act' = [act EXCEPT ![a].at = l]
Published     == {r \in Rules : rule[r] # 0}

(* The next row of the table.                                              *)
NewJob(j) == job[j].type = "none" /\ \A i \in Jobs : i < j => job[i].type # "none"
Row(t, s, c) == [type |-> t, status |-> s, cand |-> c]
JobsLeft == \E j \in Jobs : job[j].type = "none"

(* A request is over; a goroutine goes on with what it has to save.        *)
IsRun(a)     == a \in Jobs /\ job[a].type = "pipeline_run"
Return(a, l) == act' = [act EXCEPT ![a] =
  IF a \in Reqs THEN NoFrame
  ELSE IF IsRun(a) THEN [@ EXCEPT !.at = "next", !.op = "none", !.cand = 0]
  ELSE [NoFrame EXCEPT !.at = l]]

-----------------------------------------------------------------------------
(* Requests that only insert a row.                                        *)

(* TriggerRefine, TriggerSimilarCheck, TriggerSandboxTest, and the jobs    *)
(* that are about no candidate.                                            *)
QueueJob ==
  /\ \E j \in Jobs, t \in Kinds, c \in Cands :
       /\ NewJob(j) /\ Live(c)
       /\ job' = [job EXCEPT ![j] = Row(t, "pending", c)]
  /\ UNCHANGED <<cand, act, running, polled, side>>

(* ClusterIssues runs in the request, on a row of its own.                 *)
ClusterRequest ==
  /\ "cluster" \in Kinds
  /\ \E j \in Jobs :
       /\ NewJob(j)
       /\ job' = [job EXCEPT ![j] = Row("cluster", "running", 0)]
       /\ act' = [act EXCEPT ![j] = [NoFrame EXCEPT !.at = "cluster"]]
  /\ UNCHANGED <<cand, running, polled, side>>

-----------------------------------------------------------------------------
(* The runner.                                                             *)

(* At most five; with fewer rows than that (bound) all of them.            *)
Poll ==
  /\ polled = {}
  /\ polled' = {j \in Jobs : job[j].status = "pending"}
  /\ polled' # {}
  /\ UNCHANGED <<cand, job, act, running, side>>

TakeAny ==                         \* mutant: the map is not looked at
  /\ \E j \in polled :
       /\ \A k \in polled : j <= k
       /\ polled' = polled \ {j}
       /\ running' = running \cup {j}
       /\ act' = [act EXCEPT ![j] = [NoFrame EXCEPT !.at = "mark"]]
  /\ UNCHANGED <<cand, job, side>>

(* Oldest first.  The row is not read again: a job that ended since the    *)
(* poll is no longer in the map and is started once more.                  *)
Take ==
  /\ \E j \in polled :
       /\ \A k \in polled : j <= k
       /\ polled' = polled \ {j}
       /\ IF j \in running
            THEN UNCHANGED <<running, act>>
            ELSE /\ running' = running \cup {j}
                 /\ act' = [act EXCEPT ![j] = [NoFrame EXCEPT !.at = "mark"]]
  /\ UNCHANGED <<cand, job, side>>

(* Where the work of a job begins.                                         *)
Entry(t) == CASE t = "refine" -> "ask" [] t = "similar_check" -> "compare"
              [] t = "sandbox_test" -> "test" [] t = "cluster" -> "cluster" [] OTHER -> "next"

Mark(j) ==
  /\ act[j].at = "mark"
  /\ job' = [job EXCEPT ![j].status = "running"]
  /\ act' = [act EXCEPT ![j].at = Entry(job[j].type), ![j].cand = job[j].cand]
  /\ UNCHANGED <<cand, running, polled, side>>

(* The health check and the retroactive matching touch nothing of this.    *)
Other(j) ==
  /\ act[j].at = "next" /\ job[j].type = "health_check"
  /\ Goto(j, "ok") \/ Goto(j, "err")
  /\ UNCHANGED <<cand, job, running, polled, side>>

SettleNot(j) ==                    \* mutant: the outcome is not written
  /\ act[j].at \in {"ok", "err"}
  /\ act' = [act EXCEPT ![j] =
               IF j \in running THEN [NoFrame EXCEPT !.at = "leave"] ELSE NoFrame]
  /\ UNCHANGED <<cand, job, running, polled, side>>

(* executeJob, ClusterIssues, and failJob or completeJob of a pipeline,    *)
(* whatever the row says.                                                  *)
Settle(j) ==
  /\ act[j].at \in {"ok", "err"}
  /\ job' = [job EXCEPT ![j].status = IF act[j].at = "ok" THEN "success" ELSE "failed"]
  /\ act' = [act EXCEPT ![j] =
               IF j \in running THEN [NoFrame EXCEPT !.at = "leave"] ELSE NoFrame]
  /\ UNCHANGED <<cand, running, polled, side>>

Leave(j) ==
  /\ act[j].at = "leave"
  /\ running' = running \ {j}
  /\ act' = [act EXCEPT ![j] = NoFrame]
  /\ UNCHANGED <<cand, job, polled, side>>

-----------------------------------------------------------------------------
(* Clustering: one candidate for each cluster, each with a job to refine   *)
(* it.  Reading the issues may fail.                                       *)
Cluster(j) ==
  /\ act[j].at = "cluster"
  /\ \/ \E c \in Cands :
          /\ cand[c].status = "none"
          /\ cand' = [cand EXCEPT ![c] = [status |-> "draft", rule |-> 0,
                                          run |-> IF IsRun(j) THEN j ELSE 0]]
          /\ act' = [act EXCEPT ![j].at = "queue", ![j].cand = c]
     \/ /\ Goto(j, IF IsRun(j) THEN "next" ELSE IF j \in running THEN "saveOk" ELSE "ok")
        /\ UNCHANGED cand
     \/ /\ Goto(j, IF j \in running THEN "saveErr" ELSE "err")
        /\ UNCHANGED cand
  /\ UNCHANGED <<job, running, polled, side>>

(* AutoRefine of CreateCandidate.                                          *)
Queue(j) ==
  /\ act[j].at = "queue"
  /\ \/ \E i \in Jobs :
          NewJob(i) /\ job' = [job EXCEPT ![i] = Row("refine", "pending", act[j].cand)]
     \/ ~JobsLeft /\ UNCHANGED job
  /\ act' = [act EXCEPT ![j].at = "cluster", ![j].cand = 0]
  /\ UNCHANGED <<cand, running, polled, side>>

(* handleCluster writes the outcome, executeJob will again.                *)
SaveCluster(j) ==
  /\ act[j].at \in {"saveOk", "saveErr"}
  /\ job' = [job EXCEPT ![j].status = IF act[j].at = "saveOk" THEN "success" ELSE "failed"]
  /\ Goto(j, IF act[j].at = "saveOk" THEN "ok" ELSE "err")
  /\ UNCHANGED <<cand, running, polled, side>>

-----------------------------------------------------------------------------
(* runRefine, runSimilarCheck and runSandboxTest, of a job or a pipeline.  *)

Ask(j) ==
  /\ act[j].at = "ask"
  /\ \/ Live(act[j].cand) /\ act' = [act EXCEPT ![j].at = "load", ![j].op = "refine"]
     \/ Return(j, "err")
  /\ UNCHANGED <<cand, job, running, polled, side>>

(* Whether its code has to give way to another is abstracted.              *)
Compare(j) ==
  /\ act[j].at = "compare"
  /\ IF Live(act[j].cand)
       THEN act' = [act EXCEPT ![j].at = "load", ![j].op = "similar_check"]
       ELSE Return(j, "err")
  /\ UNCHANGED <<cand, job, running, polled, side>>

(* A prompt is needed.  Results are stored whatever the candidate becomes. *)
Test(j) ==
  /\ act[j].at = "test"
  /\ \/ Live(act[j].cand) /\ Return(j, "ok")
     \/ Return(j, "err")
  /\ UNCHANGED <<cand, job, running, polled, side>>

-----------------------------------------------------------------------------
(* UpdateCandidate: the candidate is read and refused if it is published,  *)
(* rejected or merged; what was read may be over when it is written.       *)

Load(a) ==
  /\ act[a].at = "load"
  /\ IF Live(act[a].cand) /\ cand[act[a].cand].status \notin Closed
       THEN Goto(a, "write") ELSE Return(a, "err")
  /\ UNCHANGED <<cand, job, running, polled, side>>

(* An edit stores the columns its request names: a status, the number of a *)
(* pipeline run, both or neither. Only the number of the rule is taken out *)
(* of the request.                                                         *)
Edits(c) ==
  [status : EditTo \cup {cand[c].status}, run : EditRuns \cup {cand[c].run},
   rule : {cand[c].rule}]

(* No row may be left to write to.  The index on code may refuse a new one.*)
WriteCandidate(a) ==
  LET c == act[a].cand IN
  /\ act[a].at = "write"
  /\ \/ /\ Live(c) /\ act[a].op = "refine"
        /\ cand' = [cand EXCEPT ![c].status = "ready"]
        /\ declared' = declared \ {c}
        /\ Return(a, "ok")
     \/ /\ Live(c) /\ act[a].op = "edit"
        /\ \E new \in Edits(c) :
             /\ cand' = [cand EXCEPT ![c] = new]
             /\ declared' = IF new.status = cand[c].status THEN declared
                            ELSE IF new.status = "published" THEN declared \cup {c}
                            ELSE declared \ {c}
        /\ Return(a, "ok")
     \/ /\ ~Live(c) \/ act[a].op = "similar_check"
        /\ UNCHANGED <<cand, declared>>
        /\ Return(a, "ok")
     \/ UNCHANGED <<cand, declared>> /\ Return(a, "err")
  /\ UNCHANGED <<job, running, polled, rule, project, configs, torn>>

-----------------------------------------------------------------------------
(* The pipeline.                                                           *)

RunPipeline(q) ==
  /\ act[q] = NoFrame /\ JobsLeft
  /\ \A j \in Jobs : ~(IsRun(j) /\ job[j].status = "running")
  /\ Goto(q, "start")
  /\ UNCHANGED <<cand, job, running, polled, side>>

StartPipeline(q) ==
  /\ act[q].at = "start"
  /\ \/ \E j \in Jobs :
          /\ NewJob(j)
          /\ job' = [job EXCEPT ![j] = Row("pipeline_run", "running", 0)]
          /\ act' = [act EXCEPT ![q] = NoFrame,
                                ![j] = [NoFrame EXCEPT !.at = "cluster", !.stage = "cluster"]]
     \/ ~JobsLeft /\ UNCHANGED job /\ act' = [act EXCEPT ![q] = NoFrame]
  /\ UNCHANGED <<cand, running, polled, side>>

Mine(j)   == {c \in Cands : Live(c) /\ cand[c].run = j}
Drafts(j) == {c \in Mine(j) : cand[c].status = "draft"}

StageStuck(j) ==                   \* mutant: the list is read anew for ever
  /\ act[j].at = "next" /\ IsRun(j) /\ act[j].left = {}
  /\ act' = [act EXCEPT ![j].stage = "refine", ![j].left = Mine(j), ![j].seen = Drafts(j)]
  /\ UNCHANGED <<cand, job, running, polled, side>>

(* The stages.  "seen" is what the stage's list said: the drafts when      *)
(* refining begins, and then the candidates of the last two stages.        *)
NextStage(j) ==
  /\ act[j].at = "next" /\ IsRun(j) /\ act[j].left = {}
  /\ \/ /\ act[j].stage = "cluster" /\ Mine(j) # {}
        /\ act' = [act EXCEPT ![j].stage = "refine", ![j].left = Mine(j), ![j].seen = Drafts(j)]
     \/ /\ act[j].stage = "refine"
        /\ act' = [act EXCEPT ![j].stage = "similar_check",
                              ![j].left = Mine(j), ![j].seen = Mine(j)]
     \/ /\ act[j].stage = "similar_check"
        /\ act' = [act EXCEPT ![j].stage = "sandbox_test", ![j].left = act[j].seen]
     \/ /\ act[j].stage = "sandbox_test" \/ (act[j].stage = "cluster" /\ Mine(j) = {})
        /\ Goto(j, "ok")
  /\ UNCHANGED <<cand, job, running, polled, side>>

NextCandidate(j) ==
  /\ act[j].at = "next" /\ IsRun(j)
  /\ \E c \in act[j].left :
       act' = [act EXCEPT ![j].left = @ \ {c}, ![j].cand = c,
                 ![j].at = CASE act[j].stage = "similar_check" -> "compare"
                             [] act[j].stage = "sandbox_test" -> "test"
                             [] OTHER -> IF c \in act[j].seen THEN "ask" ELSE "next"]
  /\ UNCHANGED <<cand, job, running, polled, side>>

(* The deferred recover fails the run.                                     *)
Panic(j) ==
  /\ act[j].at \in {"ask", "compare", "test"} /\ IsRun(j)
  /\ Goto(j, "err")
  /\ UNCHANGED <<cand, job, running, polled, side>>

(* Nothing but gin recovers one that clusters in a request: its row stays. *)
PanicInRequest(j) ==
  /\ act[j].at = "cluster" /\ ~IsRun(j) /\ j \notin running
  /\ act' = [act EXCEPT ![j] = [NoFrame EXCEPT !.at = "killed"]]
  /\ UNCHANGED <<cand, job, running, polled, side>>

JobStep(j) ==
  \/ Mark(j) \/ Other(j) \/ Settle(j) \/ Leave(j) \/ Cluster(j) \/ Queue(j) \/ SaveCluster(j)
  \/ Ask(j) \/ Compare(j) \/ Test(j) \/ Load(j) \/ WriteCandidate(j)
  \/ NextStage(j) \/ NextCandidate(j) \/ Panic(j) \/ PanicInRequest(j)

-----------------------------------------------------------------------------
(* Requests about one candidate.                                           *)

(* UpdateCandidate, by which the administrators reject candidates, too.    *)
Edit(q) ==
  /\ act[q] = NoFrame
  /\ \E c \in Cands :
       /\ Live(c)
       /\ act' = [act EXCEPT ![q] = [NoFrame EXCEPT !.at = "load", !.op = "edit", !.cand = c]]
  /\ UNCHANGED <<cand, job, running, polled, side>>

(* DeleteCandidate refuses what it reads as published.                     *)
Delete(q) ==
  /\ act[q] = NoFrame
  /\ \E c \in Cands :
       /\ Live(c) /\ cand[c].status # "published"
       /\ act' = [act EXCEPT ![q] = [NoFrame EXCEPT !.at = "delete", !.cand = c]]
  /\ UNCHANGED <<cand, job, running, polled, side>>

DeleteRow(q) ==
  /\ act[q].at = "delete"
  /\ cand' = [cand EXCEPT ![act[q].cand].status = "deleted"]
  /\ act' = [act EXCEPT ![q] = NoFrame]
  /\ UNCHANGED <<job, running, polled, side>>

Publish(q) ==
  /\ act[q] = NoFrame
  /\ \E c \in Cands :
       /\ Live(c) /\ cand[c].status # "published"
       /\ act' = [act EXCEPT ![q] = [NoFrame EXCEPT !.at = "create", !.cand = c]]
  /\ UNCHANGED <<cand, job, running, polled, side>>

(* The code has to be free when it is counted and, for the unique index,   *)
(* when the rule is created.                                               *)
CreateRule(q) ==
  /\ act[q].at = "create"
  /\ \/ act' = [act EXCEPT ![q] = NoFrame] /\ UNCHANGED rule
     \/ \E r \in Rules :
          /\ Published = {i \in Rules : i < r}
          /\ rule' = [rule EXCEPT ![r] = act[q].cand]
          /\ act' = [act EXCEPT ![q].at = "list", ![q].rule = r]
  /\ UNCHANGED <<cand, job, running, polled, project, configs, torn, declared>>

ListProjects(q) ==
  /\ act[q].at = "list"
  /\ act' = [act EXCEPT ![q].at = "configs",
                        ![q].todo = {p \in Projects : project[p] # "none"}]
  /\ UNCHANGED <<cand, job, running, polled, side>>

(* Those it finds are left as they are; a second row is no matter here.    *)
AddToProjects(q) ==
  /\ act[q].at = "configs"
  /\ configs' = configs \cup (act[q].todo \X {act[q].rule})
  /\ act' = [act EXCEPT ![q].at = "publish", ![q].todo = {}]
  /\ UNCHANGED <<cand, job, running, polled, rule, project, torn, declared>>

PublishAsRead(q) ==                \* mutant: the rule is not recorded
  /\ act[q].at = "publish"
  /\ LET c == act[q].cand IN
       /\ cand' = IF Live(c) THEN [cand EXCEPT ![c].status = "published"] ELSE cand
       /\ declared' = declared \ {c}
  /\ act' = [act EXCEPT ![q] = NoFrame]
  /\ UNCHANGED <<job, running, polled, rule, project, configs, torn>>

MarkPublished(q) ==
  /\ act[q].at = "publish"
  /\ LET c == act[q].cand IN
       /\ cand' = IF Live(c)
                    THEN [cand EXCEPT ![c].status = "published", ![c].rule = act[q].rule]
                    ELSE cand
       /\ declared' = declared \ {c}
  /\ act' = [act EXCEPT ![q] = NoFrame]
  /\ UNCHANGED <<job, running, polled, rule, project, configs, torn>>

ReqStep(q) ==
  \/ Load(q) \/ WriteCandidate(q) \/ DeleteRow(q)
  \/ CreateRule(q) \/ ListProjects(q) \/ AddToProjects(q) \/ MarkPublished(q) \/ StartPipeline(q)

-----------------------------------------------------------------------------
(* A project is created, then given the enabled rules of its language: all *)
(* rules here are.  The rules it reads are added in the same step.         *)

CreateProject(p) ==
  /\ project[p] = "none"
  /\ project' = [project EXCEPT ![p] = "created"]
  /\ UNCHANGED <<cand, job, act, running, polled, rule, configs, torn, declared>>

AddNoRules(p) ==                   \* mutant: left to whoever publishes rules
  /\ project[p] = "created"
  /\ project' = [project EXCEPT ![p] = "done"]
  /\ UNCHANGED <<cand, job, act, running, polled, rule, configs, torn, declared>>

AddRules(p) ==
  /\ project[p] = "created"
  /\ configs' = configs \cup ({p} \X Published)
  /\ project' = [project EXCEPT ![p] = "done"]
  /\ UNCHANGED <<cand, job, act, running, polled, rule, torn, declared>>

-----------------------------------------------------------------------------
(* The server dies and starts again; nothing looks at what it left.        *)
Restart ==
  /\ torn' = torn \cup {act[q].rule : q \in {q \in Reqs : act[q].at \in {"list", "configs"}}}
                  \cup {p \in Projects : project[p] = "created"}
  /\ project' = [p \in Projects |-> IF project[p] = "created" THEN "done" ELSE project[p]]
  /\ act' = [a \in Actors |-> IF a \in Reqs \/ act[a] = NoFrame THEN NoFrame
                              ELSE [NoFrame EXCEPT !.at = "killed"]]
  /\ running' = {} /\ polled' = {}
  /\ UNCHANGED <<cand, job, rule, configs, declared>>

Next ==
  \/ QueueJob \/ ClusterRequest \/ Poll \/ Take
  \/ \E j \in Jobs : JobStep(j)
  \/ \E q \in Reqs : RunPipeline(q) \/ Edit(q) \/ Delete(q) \/ Publish(q) \/ ReqStep(q)
  \/ \E p \in Projects : CreateProject(p) \/ AddRules(p)
  \/ Restart

Spec == Init /\ [][Next]_vars

(* The ticker keeps polling, the goroutines run, calls to the model return *)
(* and a cluster is worked off.                                            *)
LiveSpec ==
  /\ Spec
  /\ WF_vars(Poll) /\ WF_vars(Take)
  /\ \A j \in Jobs : WF_vars(JobStep(j))
  /\ \A q \in Reqs : WF_vars(ReqStep(q))
  /\ \A p \in Projects : WF_vars(AddRules(p))

-----------------------------------------------------------------------------
(* Properties.                                                             *)

(* A job is started only when no goroutine works on it, though the list a  *)
(* poll goes through is as old as the poll (incubator_job.go, line 46).    *)
RunsAlone ==
  [][\A j \in Jobs : act'[j].at = "mark" /\ act[j].at # "mark"
                       => act[j].at \in {"idle", "killed"}]_vars

(* No job is left shown as running once its goroutine is through, and none *)
(* that is through is kept from running by an entry of the runner: only a  *)
(* server that dies and a request that panics leave such rows.             *)
RowsSettled ==
  \A j \in Jobs : act[j].at = "idle" => job[j].status # "running" /\ j \notin running

(* The row of a job goes forward: it is queued, or running at once, and    *)
(* ends when it was run.  The old list of a poll may run a job that ended  *)
(* once more (incubator_job.go, line 46), but no outcome comes without a   *)
(* run, and however many write it, none turns into the other one.          *)
Forward ==
  ({"none"} \X {"pending", "running"}) \cup ({"pending", "success", "failed"} \X {"running"})
    \cup ({"running"} \X {"success", "failed"})

JobsMoveForward ==
  [][\A j \in Jobs : job'[j].status # job[j].status =>
       <<job[j].status, job'[j].status>> \in Forward]_vars

(* A candidate that is shown as published names a rule that was made from  *)
(* it, whatever refines, edits, deletes or publishes it meanwhile, but for *)
(* one that an edit declared to be published: UpdateCandidate stores the   *)
(* status it is given (incubator.go, line 424) and makes no rule.          *)
PublishedHasRule ==
  \A c \in Cands \ declared : cand[c].status = "published" =>
    cand[c].rule # 0 /\ rule[cand[c].rule] = c

(* A rule that is being added to the projects.                             *)
Adding(r) == \E q \in Reqs : act[q].rule = r /\ act[q].at \in {"list", "configs"}

(* Publishing lists the projects after its rule is there, and a project    *)
(* lists the rules after it is there itself: whichever comes first, every  *)
(* project ends up with a configuration for every enabled rule.            *)
ConfigsComplete ==
  \A p \in Projects \ torn, r \in Published \ torn :
    project[p] = "done" /\ ~Adding(r) => <<p, r>> \in configs

(* Once the server stays up, every job and every pipeline run comes to an  *)
(* outcome, but for those that were under way when it died and requests to *)
(* cluster that panicked.                                                  *)
JobsEnd ==
  <>[][~Restart]_vars =>
    \A j \in Jobs :
      job[j].status \in {"pending", "running"} ~>
        \/ job[j].status \in {"success", "failed"}
        \/ job[j].status = "running" /\ act[j].at = "killed"
=============================================================================
