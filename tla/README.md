# AI-Code-Review in TLA+

A verification development of the review server under `backend/`: TLA+ modules
translated from its Go code, TLC runs that check them on small instances, and
TLAPS proofs of the most important results for every value of the constants.
Paths are relative to the repository.

1. [The system](#1-the-system) · 2. [Modules](#2-modules) ·
3. [Runs](#3-runs) · 4. [Fairness](#4-fairness) · 5. [Proofs](#5-proofs) ·
6. [What the code does not guarantee](#6-what-the-code-does-not-guarantee) ·
7. [Not modelled](#7-not-modelled) · 8. [Plan](#8-plan)

How to run, inside this directory: `tlc -workers 2 -config TaskRequests.cfg
MCTaskLifecycle` (each run's module is in the table of section 3), and `tlapm
TaskLifecycleProofs.tla`, likewise for the other `...Proofs` modules.

## 1. The system

A Go server (gin, gorm, MySQL or PostgreSQL) reviews GitLab merge requests with
language models. Webhooks and users create *tasks*; a goroutine of the server
executes each one, by a multi-stage pipeline (reviews) or by a chat with an
OpenCode agent (deep reviews and bug fixes), and everything that happens to a
task meanwhile, a stop, a retry, a callback, the sweep that times tasks out,
goes through the same database row. There is no lock around a task: correctness
rests on conditional updates (`WHERE status = 'running'`), on an in-memory
registry of cancel channels and on the order of statements. Around this core
are further asynchronous subsystems of the same shape: dependency audits, a
synchronization queue, graph scans, rule incubation, recorders and daemons.

### Components

| Component | State | Operations | Interacts with | Hard because | Correct when |
|---|---|---|---|---|---|
| Review task lifecycle (`service/task.go`, `opencode.go`, `handler/task.go`, `handler/webhook.go`) | rows of `tasks`, cancel registry, OpenCode sessions, goroutines | Create, Execute, ExecuteAIReviewTask, Abort, Retry, TimeoutCheck, Callback, DeleteTaskSession, startNextPendingTask | webhook, cron, OpenCode, pipeline engine | no transaction spans two statements; Retry and the engine save whole rows they read earlier; sweeps overlap; crashes | a running task is settled by somebody; an outcome is final; the registry points at live runs; waiting tasks are woken |
| Pipeline engine (`service/pipeline/engine.go`, `context.go`) | `task_pipeline_executions`, frozen configuration, cancel contexts | ExecuteTask, executeWithTimeout, dependency check, SetInput | task lifecycle, stage executors | Retry starts a run while the previous one is still in its loop; rows are looked up by task, not by run; `Save` re-inserts deleted rows | rows settle, runs end, no stage runs before what it requires |
| Dependency-audit scans (`service/depaudit/scan.go`, `collect.go`) | tasks, runs, project mutexes, semaphore, cancel functions | TriggerProjects, TriggerOrg, RetryTask, CancelTask, DeleteTask, execute, recomputeTask, RecoverStale | sync queue, git, handlers | cancel races with claim and finish; a task's status is derived from rows read earlier | one active run per project; active runs have an executor; outcomes stand |
| Dependency-audit synchronization queue (`queue.go`, `local_license.go`, `importnames.go`) | queue rows, local library, CAS flag | EnqueueMissingItems, ProcessSyncBatch, drainKind, RunSyncNow, StartSyncWorker, clean-up | scans, registries | worker and requests drain one table; batches are written back from what was read | no row handled twice at once, attempts bounded, rows drain |
| Dependency coordinates | none | parse lock files, manifests, licences | scans | formats | parses what the ecosystems write |
| Batch review stage (`pipeline/executors.go`, `batch_algorithm.go`) | batch plan, results, child rows, progress, tokens | plan, waves of batches, agentic and plain review, fallback | engine, conversations, LLM calls | partial failure of parallel goroutines, cancellation, three kinds of attempt at a batch | outputs are whole, waves in order, the stage ends |
| Conversations with tools (`pipeline/agentic_state.go`) | history, rounds, budgets of an `AgenticReviewState` | rounds, tool calls, submissions, reminders, truncation, final round | LLM calls, tools | every answer can be anything; budgets meet at their boundaries | calls are answered, cost is bounded, the row tells how it ended |
| Other stage executors | none of their own | code understanding, arbitration | engine, LLM calls | sequences of calls | inputs to outputs |
| Issue deduplication and arbitration data | issue rows | fingerprints, dedup | executors | similarity | one row per issue |
| Fair scheduler (`fair_scheduler.go`) | token bucket | Acquire | engine | built anew for each engine | limits an organization |
| Git working copies | clones, worktrees | clone, fetch, clean | executors | disk, concurrency | copies match their commit |
| LLM calls and failover (`service/llm.go`) | none of its own | ChatCompletion, callSpecificModel, tryChain, callLLMAPI, ChatWithToolCalls | every stage, recorder | nine ways a use of a model ends, with retries and cancellation between them | every use leaves one record |
| LLM call recorder (`pkg/llmcall/recorder.go`) | bounded channel, batches of the workers, `started` | Record, worker, flushBatch, Stop | every caller, `main` | Record reads the flag and sends later; statements fail with and without effect; shutdown | records are stored once or accounted for, and nothing is left behind |
| Delayed notifications | rows | schedule, deliver | notifier | crash between send and mark | each sent once |
| Rule incubator: candidates, jobs and pipeline (`service/incubator.go`, `incubator_job.go`, `project.go`) | candidates, jobs, running map, rules, their configuration per project | cluster, refine, compare, test, edit, delete, publish, run a pipeline, create a project | handlers, LLM calls | polls race with the end of jobs; statuses are checked, then written; publication is several statements | jobs settle and run alone; a published candidate has its rule; every project has every rule |
| Rule incubator: events | SSE clients | broadcast | handlers | broadcast outside the lock | clients are told |
| Graph scans (`graphscan/scan_service.go`, `graph/sqlite_storage.go`) | scan tasks, the project's scan status, stored graph, cancel functions, overview cache | TriggerScan, runScan, CancelScan, nightly scan, GetGraphOverview | parsers | count and create are apart, so scans overlap; one status and one registry entry per project | statuses settle; cancel finds live scans; the overview heals |
| Symbol graph, parsers, data flow | graphs | analysis | scans | size | agrees with the program |
| Escalation and notification service | stages | daily batches | notifier | calendar time | stages in order |
| Merge request synchronization, report cron | rows | upsert | GitLab | repetition | idempotent |
| Model and resource-pool health daemons | health | probe | LLM calls | change under readers | reflects probes |
| Vulnerability database | rows | import, match ranges | audits | version orders | ranges match |
| Embeddings and vector store | vectors | embed, search | models | none of its own | stored as computed |
| MCP server | sessions, log channel | tools, auth | clients | overflow, expiry | sessions expire |
| Middleware | windows | authenticate, scope, limit | every request | boundaries of windows | limits hold |
| Optimistic locking, database scopes | version columns | update if unchanged | models | lost update | no lost update |
| Diff handling | none | parse, correlate, truncate | review | formats | lines correspond |
| Review prompt, parsing, persistence | rows | build, parse, persist | engine | formats | issues stored |
| HTTP handlers | configuration rows | CRUD | all | validation | as documented |
| Web pages | browser state | show | API, SSE | reconnects | shows the server's state |

`PROJECT.json` lists the same components with their files and their status, and
every hazard of the code with the line where it bites and the property that
would catch it.

## 2. Modules

| Module | Extends / instance of | What it is |
|---|---|---|
| `TaskLifecycle` | instance of `TaskContract` | tasks, executions, handlers, sweep, crash |
| `TaskContract` | | what the task service promises, as an abstract specification that the service and the pipeline engine implement |
| `TaskLifecycleProofs` | `TaskLifecycle` | its theorems |
| `PipelineEngine` | instance of `TaskContract` | the stage loop, for all runs of one task |
| `PipelineEngineProofs` | `PipelineEngine` | its theorems |
| `DepAuditScan` | instance of `ScanRuns` | scan tasks and runs |
| `ScanRuns` | | what becomes of the runs of an audit, as an abstract specification |
| `DepAuditScanProofs` | `DepAuditScan` | its theorems |
| `SyncQueue` | instance of `WorkQueue` | the synchronization queue |
| `WorkQueue` | | a queue of items that are tried a limited number of times, as an abstract specification |
| `SyncQueueProofs` | `SyncQueue` | its theorems |
| `GraphScan` | | full scans of a project's graph and the overview |
| `GraphScanProofs` | `GraphScan` | its theorems |
| `Incubator` | | candidates, jobs, pipeline, publication, projects |
| `IncubatorProofs` | `Incubator` | its theorems |
| `BatchReview` | | the batch review stage, a conversation being one step |
| `AgenticBatch` | `BatchReview` | the stage with conversations, an implementation of `BatchReview` |
| `ReviewStageProofs` | `AgenticBatch` | theorems about both |
| `CallRecorder` | | the channel, its workers and the end of `main` |
| `LLMCalls` | `CallRecorder` | calls of language models, each use of a model handing over a record |
| `LLMCallsProofs` | `LLMCalls` | theorems about both |
| `MCTaskLifecycle`, `MCPipelineEngine`, `MCDepAuditScan`, `MCLLMCalls` | the module named | values of constants a `.cfg` cannot write; the other modules are checked as they are |

`map` in `PROJECT.json` gives the source lines of every definition. The
definitions marked *mutant* in a comment are not part of a specification: each
is a plausible bug, and replacing the definition it is named after by it makes
TLC report the property it belongs to.

### TaskLifecycle

The four columns that decide what happens (`status`, `started_at`,
`opencode_session_id`, `retry_count`) are the variables `status`, `started`,
`session`, `retries`. A goroutine that executes a task is a member of `Runs`
with a program counter; a handler call or one iteration of `TimeoutCheck` is a
member of `Ops`. Every SQL statement, registry access under its mutex and
OpenCode call is one step, and what the code keeps in local variables between
two of them (`held` for the row the engine read, the fields of `op` for the row
a handler read) is kept in the model, so a stale read stays stale: `SaveRunning`
and `RetrySave` write back the session and the retry count of the row they
loaded. With `StatementsFail` every statement of an execution or a handler may
fail instead. What the code does then is of three kinds: an execution returns
without waking the queue (`GivesUp`), it goes on as if nothing had happened
(`Ignores`), or a handler answers with the error (`OpFails`). `orphaned` holds the
tasks that were left running, by the death of the process or because the
statement with their outcome failed.

| Code | Actions |
|---|---|
| `Create`, `POST /tasks`, webhook | `Create` |
| `ExecuteWithComment`, `ExecuteTaskWithSession`, `SendPrompt` | `CountRunning`, `Claim`, `CreateSession`, `PromptReturns`, `ChatWrite` |
| `ExecuteAIReviewTask`, `executePipelineReviewTask`, `failReviewTask` | `LoadReview`, `StartReview`, `FetchDiff`, `RegisterCancel`, `FailReview`, `PostProcess`, `WakeNext`, `Unregister` |
| `Engine.ExecuteTask` seen from the task | `LoadEngine`, `SaveRunning`, `RunStages`, `EngineWrite` |
| `Abort` | `StopLoad`, `AbortSession`, `NotifyCancel`, `StopWrite`, `OpWake` |
| `TimeoutCheck` | `SweepSee`, `AbortSession`, `SweepWrite`, `OpWake`; `Expire` is the passing of the timeout |
| `Retry` | `RetryLoad`, `RetrySave`, `RetrySpawn` |
| OpenCode's callback | `CallbackLoad`, `CallbackWrite` |
| `DeleteTaskSession` | `DeleteLoad`, `AbortSession`, `DeleteClear` |
| error returns, and errors nobody looks at | `GivesUp`, `Ignores`, `OpFails` |
| process death | `Crash` |

Not in the model: the text of anything, the deep-review task a review may
create, the deduplication of webhooks, and wall-clock time beyond "the timeout
has passed since `started_at`".

### TaskContract

Three variables: `phase` (the status), `manned` (tasks an execution will still
settle) and `lost` (tasks that are running without a crew). Only a
running task receives an outcome, an outcome is replaced by `pending` or
`running` only, and a crew that leaves does not leave its task running, unless it
could not write the outcome (`Forsake`).
`TaskLifecycle` implements it with `phase <- status`, `manned <-` the tasks
with a goroutine in `Owning`, and `lost <- orphaned`. `PipelineEngine`, where
the one step that a pipeline is in `TaskLifecycle` is opened, implements it for its
one task, with `lost <-` the task if it is running and no run will settle it; its
property therefore also says that only `Restart` is a step of `Die`, since any run
that left its task running could be taken for one otherwise. Statements succeed in
`PipelineEngine`, and its property leaves no room for a `Forsake` either.

### PipelineEngine

`RunStages` of the previous module, opened: the stage loop of
`Engine.ExecuteTask`. All executions of *one* task are modelled because Retry
and time-outs let them overlap, and they share the table. A row that `Retry`
deleted keeps its place with `gone` set: the run that still holds it may update
it (`Mark`, which then matches nothing) or save it (`Save`, which inserts it
again). Stages, requirements, what may be skipped and the enabled sets are
constants; `WithUpstream` is the rule that enables code understanding along with
what depends on it. `TellLoop` and `TellStage` are the goroutines that pass the
closing of the cancel channel on to the loop's and to the stage's context.

Not in the model: what a stage computes, child rows of group stages, snapshots,
broadcasts, and how the task row is written by the other actors, which is
`TaskLifecycle`'s: there a stop or retry is several steps, here it is one.

### DepAuditScan

Scan tasks, run rows, one goroutine per run, project mutexes, the semaphore and
the cancel functions (read off the program counters). `RecTask`, `RecRuns`,
`RecWrite` are the three statements of `recomputeTask`; `Claim`, `FinishRun`,
`CancelMark` are its conditional updates and `Succeed` the unconditional one.
`LatestOf` returns a set of choices because two runs with the same attempt come
in an order the query does not fix. `Restart` kills the goroutines (`pc` becomes
`"killed"`) and includes `RecoverStale`, which runs before requests are served.
SBOM, counters and the clean-up of old tasks are left out.

`Faults` says which statements may fail: those about one run (`"run"`), searches
for runs (`"search"`), those about a task (`"task"`). A failing load or claim is a
return of `execute` with the run still queued (`scan.go:159`, `169`); a failing
last update leaves it running; the search in `hasActiveRun` that fails is taken
for "none" (line 128). Two sets keep track: `stuck` has the runs whose claim or
end was lost in this way, `blind` those that were queued after a search that
failed.

### ScanRuns

Five variables: the `phase` of each run, its `owner`, how many were `made`,
which are `dead`, that is were made before the server died last, and which were
queued `blind`. A run is queued only while its project has no active one (`Queue`,
with the conditions of the insert under the project's mutex), claimed once, and
ended once by whoever had it. The exceptions of the code are steps of it too: a
run that was cancelled may still become a success, a run may be queued although
nobody could tell whether the project has one (`QueueUnseen`), and a server whose
`RecoverStale` fails leaves all runs as they were (`Recover({})`). `DepAuditScan` implements it with `phase` and `owner` read off
`run`, `made <- lastRun`, and `dead <-` the runs with `pc = "killed"`; tasks,
mutexes, the semaphore, contexts and handlers do not exist in it.

### SyncQueue

Rows with a status, attempts and a due flag; the local library; the
compare-and-swap flag `guard`; the worker and the callers with what each has
still to add and to drain. A batch keeps the rows as they were read, and results
are counted from that. A licence is dealt with in two steps, as in the code: `Store` puts the
answer into the library (the item is then in `answered`) and `License` marks the
row (`queue.go:226`, `233`); a restart, a panic or a failing statement may come
between them. A panic of an item is recovered and counts no attempt. A batch that cannot
be read ends the drain of its kind, an item whose row cannot be written stays
pending, and when the dependencies cannot be read nothing is added (`LookFails`).

### WorkQueue

A queue as its users see it: `state` and `tries` of an item, `ripe` (the items that
may be tried now), `hand` (those being tried) and `stored`. One hand takes at most
`Size` ripe items when nobody has any; an answer is stored (`Keep`), and an item is
finished, skipped or tried again until `Limit`, finished only when its answer was
stored before, except the items in `Once`.
`SyncQueue` implements it with `hand <-` the coordinates in any syncer's batch and
`Once <- ImportNames`: the flag, the two drains of a round, the tick, the requests
and the rows as they were read are gone. A panic and a restart are `Drop`.

### GraphScan

Scans of one project, because projects share nothing. A scan is a row of
`graph_scan_tasks` with a goroutine; `cron` holds those of the nightly service,
which is another `ScanService` with maps of its own. `Trigger` counts the running
scans and `Create` inserts the row in a later statement, so that scans overlap;
`Go` overwrites the registry entry and `LeaveScan` deletes whichever is there.
The graph is known by the scan that built it: `stored` is what the SQLite file
holds, a `View` is what an overview's two queries found, and the property about
the cache compares the two.

| Code | Actions |
|---|---|
| `TriggerScan` | `Trigger`, `Create`, `CreateFails`, `Go` |
| `runScan` | `Start`, `Mark`, `Show`, `Walk`, `Save`, `Resave`, `Uncache`, `Built`, `Complete`, `LeaveScan` |
| `failTask`, `cancelTask` | `FailTask`, `CancelTask` |
| `CancelScan` | `Cancel`, `CallCancel`, `CancelPending` |
| `GetGraphOverview`, `SQLiteStorage.Load` | `LoadNodes`, `LoadRels`, `Publish`, `Expire` |

### Incubator

A candidate is its status, the pipeline run it came from and its rule. `act` is a
program counter for each request and for the goroutine of each job; `running` and
`polled` are the runner's map and the list a poll is going through. `refine`,
`similar_check` and `sandbox_test` are the same functions for a job and for a
pipeline, hence the same actions: `Return` is what differs. An edit stores what
its request names, any status and any pipeline run; only the number of the rule is
taken out of the request. `declared` has the candidates that are published because
an edit said so.

| Code | Actions |
|---|---|
| `QueueJob`, `ClusterIssues` | `QueueJob`, `ClusterRequest` |
| `pollAndRun`, `executeJob`, `handleCluster` | `Poll`, `Take`, `Mark`, `Other`, `Settle`, `Leave`, `SaveCluster` |
| `doClusterIssues`, `CreateCandidate` | `Cluster`, `Queue` |
| `runRefine`, `runSimilarCheck`, `runSandboxTest` | `Ask`, `Compare`, `Test` |
| a panic of a request that clusters | `PanicInRequest` |
| `UpdateCandidate`, `DeleteCandidate` | `Edit`, `Load`, `WriteCandidate`, `Delete`, `DeleteRow` |
| `RunPipeline`, `runPipelineSteps` | `RunPipeline`, `StartPipeline`, `NextStage`, `NextCandidate`, `Panic` |
| `PublishCandidate`, `autoCreateProjectReviewConfigs` | `Publish`, `CreateRule`, `ListProjects`, `AddToProjects`, `MarkPublished` |
| `ProjectService.Create` | `CreateProject`, `AddRules` |

### BatchReview and AgenticBatch

`BatchReview` is the stage: `mode` says whether `Execute` is in the agentic or in
the plain review, `pc` where the goroutine of each batch is. The error channel is
the set of goroutines that ended `"broken"`; it has room for all of a wave, which
the mutant of `StageEnds` takes away. `row` keeps a status per attempt, since each
attempt at a batch has a child row of its own. A call that is made with a context
already done cannot succeed, hence `doomed`. The stage's progress display is left
out.

`AgenticBatch` extends it: `ChatOk` and `ChatFails`, one step there, are here the
end of a conversation, and everything before them (`Ask`, `RunTools`,
`SubmitIncomplete`, `TooLong`, ...) changes `talk` only. `ImplementsStage` is
`BatchReview!LiveSpec` as a property of it. The history is a sequence of roles
with the number of calls of each answer, which is what truncation and the pairing
of calls and results depend on.

### CallRecorder and LLMCalls

`CallRecorder` is the recorder on its own: `rec` says how far the call of `Record`
for each record has come (`"late"` for one that read the flag before `Stop` cleared
it and sent afterwards), `logChan` is the channel, `worker` each worker with its
batch, `rows` how many rows of `llm_call_logs` a record has. The sets `dropped`,
`lost` and `doubted` exist for the properties: a record the full channel refused,
one `flushBatch` gave up, and one that was written by a statement that reported an
error, as a statement with a deadline may. `main` is the end of `main`; nothing
happens after `"exited"`.

`LLMCalls` adds the callers. A call is a chain (primary, then the backups as they
are read once the primary has failed), one model, or one with tools; which models
exist is open, and so is the outcome of each attempt. `HandOver` and `HandedOver`
are the two halves of the deferred `Record`: the call goes on (`Back`) only after
it, to the next model or to its return. Its next-state relation contains the steps
of `CallRecorder` as they are, so that it implements `CallRecorder`.

| Code | Actions |
|---|---|
| `ChatCompletion`, `ChatCompletionStructured`, `callSpecificModel`, `tryChain` | `Begin`, `ReadBackups`, `NextModel` |
| `callLLMAPI`, `ChatWithToolCalls` | `Attempt`, `Sleep`, `HandOver`, `HandedOver` |
| `Record` | `Check`, `Send` |
| `worker`, `flushBatch` | `Receive`, `Tick`, `SeeStop`, `Drained`, `Write`, `WriteFails` |
| `Stop`, end of `main` | `ClearStarted`, `CloseStopCh`, `Exit` |

## 3. Runs

The times are for two workers. Deadlock is not checked in any run: the system
may be idle, and the bounds on tasks, runs and retries make it so for good.

| Run | Module | Distinct states | Checks | Shows |
|---|---|---|---|---|
| `TaskRequests` | `MCTaskLifecycle` | 1.5 million, 95 s | `TypeOK`, `RegistrySound`, `NoOrphanRunning`, `OutcomeStands`, `KeepsContract` | one review, all seven requests, a retry, two executions, the sweep, statements that fail and a crash |
| `TaskQueue` | `MCTaskLifecycle` | 186 thousand, 100 s | `NoLostWakeup`, `QueueProgress`, `RunningEnds` | two chat tasks and one slot, with stop and the sweep |
| `TaskReviewFailure` | `MCTaskLifecycle` | violation | `NoLostWakeup` | finding, section 6 |
| `PipelineEngine` | `MCPipelineEngine` | 1.2 million, 205 s | `RowsSettled`, `WholeRunsAreClean`, `StageAfterDependencies`, `RowsMoveForward`, `RunsEnd` | two overlapping runs, two configurations, stop, retry, restart |
| `DepAuditScan` | `MCDepAuditScan` | 466 thousand, 65 s | `AtMostOneActive` | two handlers trigger and retry two tasks of a project, restarts; searches and statements about tasks fail |
| `DepAuditLive` | `DepAuditScan` | 132 thousand, 75 s | `ActiveHasExecutor`, `RunOutcomeStands`, `RunsSettle` | one handler, two projects behind a semaphore of one, all four requests, restarts; statements about runs fail |
| `DepAuditRevived` | `DepAuditScan` | violation | `CancelledTaskStands` | finding, section 6 |
| `SyncQueue` | `SyncQueue` | 64 thousand, 20 s | `NoDoubleProcessing`, `ImplementsQueue`, `QueueDrains` | worker and caller, licences and import names, panics, failing statements, restarts, clean-up |
| `GraphScan` | `GraphScan` | 132 thousand, 33 s | `ProjectShown`, `NoStaleCancel`, `OutcomesStand`, `ScansSettle`, `OverviewHeals` | two overlapping scans, cancellation, an overview, restarts |
| `Incubator` | `Incubator` | 492 thousand, 170 s | `RowsSettled`, `PublishedHasRule`, `ConfigsComplete`, `RunsAlone`, `JobsEnd` | two jobs or pipeline runs, a candidate, a request, a project, restarts, panics |
| `ReviewStage` | `AgenticBatch` | 44 thousand, 18 s | `OutputsComplete`, `WavesInOrder`, `CallsAnswered`, `TalkIsBounded`, `ImplementsStage`, `StageEnds` | three batches in two waves, one conversation in full |
| `LLMCalls` | `MCLLMCalls` | 186 thousand, 47 s | `CallsRecorded`, `StoredOnce`, `StopDrains`, `RecordsSettle` | a call with two backups, or with tools, two workers, a full channel, failing statements, shutdown |

### Bounds

* `Runs` and `Ops` bound how many goroutines and handlers are alive at once.
  Two executions are what a race needs: a duplicate request, an execution that
  outlives a retry, or two that wake each other. A wake-up that finds no free
  member of `Runs` waits for one, which the code never does; in the runs about
  liveness two tasks have two members, and the fair runs let the stuck ones end.
* One handler is enough in `TaskRequests` because a handler's steps interleave
  with those of two executions and with crashes; races of two handlers write the
  same conditional update, and the theorems of section 5 hold for any number.
* `StatementsFail` is TRUE in `TaskRequests`, whose properties hold whichever
  statement fails. In `TaskQueue` it is FALSE, since a failing statement may lose a
  wake-up (section 6), and in `TaskReviewFailure`, which shows that one is lost
  without. `FewWaysToLoseAWakeup` is proved for both values.
* One project: projects only separate queues. `KindOf` is `review` or `chat` in
  the runs; `bugfix` takes the path of `chat` except that it does not occupy the
  slot, and is covered by the theorems.
* `PipelineEngine` has two runs, the least with which a run can meet rows of
  another one, and two stages, the second requiring the first. `AllowedToSkip` is
  empty, so that an unmet requirement fails the row. The two configurations
  enable one stage each; `WithUpstream` adds the first to the second. Rows of
  runs that a dying server took along are not counted (section 6).
* `DepAuditScan` has one project, because all that projects do to each other is
  compete for slots, which is what `DepAuditLive` has two projects for. The two
  run rows are an attempt and its retry, or the runs of two tasks. Symmetry
  exchanges the two handlers. `DepAuditLive` has one handler. Requests and faults
  are split by what could break the property: an insert needs `trigger`, `retry`
  and searches that fail (`DepAuditScan`), an outcome or an executor is lost by a
  cancellation or a statement about a run, and liveness by either
  (`DepAuditLive`). With two handlers that trigger and cancel two tasks while
  statements about runs fail (301 thousand states) TLC found no violation of
  `ActiveHasExecutor` and `RunOutcomeStands` either. The theorems hold for all
  requests and all faults at once.
* `SyncQueue` has a licence and an import name, which the two drains of a round
  take apart, a batch of one, so that a drain needs several, and three attempts:
  the first, one between, and the last. No symmetry is used with liveness.
* `GraphScan` has two scans, the least that overlap, either of them the nightly
  one; one request, because a request that was answered makes room for the next
  while its scan runs on; and one reader. The theorems hold for any number.
* `Incubator` has two rows of jobs: a job and the refinement it queues, a job and
  a pipeline run, or two that poll together. `Kinds` leaves refinement and the
  checks to `Queue` and to the pipeline, which run them. With one request a
  publication meets jobs, pipeline and project, but not a second publication; with
  two requests, two rules, one pipeline run and all edits (473 thousand states) TLC
  found no violation of `PublishedHasRule` and `ConfigsComplete` either. `EditTo`
  and `EditRuns` are what an edit may store: in the run two statuses that close
  a candidate, one of them without a rule, in the theorems all of them.
* `ReviewStage` has three batches in waves of two, so that there is a full wave
  and one that is not. Three rounds, two tool calls and two per answer let every
  budget be used up, exactly and by one too many; six messages let a history be
  truncated and force the final round.
* `LLMCalls` has one call, which with two backups leaves up to three records: two
  that fill a batch and one that does not fit a channel of one. Two workers are
  the code's number. Two attempts per model let a retry succeed, fail for good and
  be cancelled. The kind `"model"` is a chain without backups and is left to the
  theorems.
* `MaxRetries`, `MaxCrashes`, `NTasks`, `NRuns`, `MaxAttempts` bound counters in
  the guards of `RetryLoad`, `Crash`, `Create`, `Trigger`, `Insert` and `Retry`, as
  do `NTasks` of `GraphScan`, `NJobs`, `NRules`, `MaxBatches` and `MaxCalls`; of
  these only `MaxAttempts` stands for a limit the code has, as `MaxParallel`,
  `MaxRounds`, `MaxTools` and `MaxMessages` do.

## 4. Fairness

* `TaskLifecycle!FairSpec`: goroutines and handlers are scheduled (weak
  fairness of each `RunStep` and `OpStep`), which includes that every call
  returns: stages run under a deadline, OpenCode calls under the client's
  timeout. Time passes (`Expire`). The sweep is a cron job that runs for ever and
  looks at every row, hence strong fairness of `SweepSee`: the bounded handlers
  of the model may be busy at any one tick. Nothing is assumed of requests and
  crashes.
* `PipelineEngine!LiveSpec`: weak fairness of a run and of the goroutines that
  pass the cancel signal on.
* `DepAuditScan!LiveSpec`: strong fairness of each goroutine and handler, because
  they wait for a semaphore and for mutexes. A Go channel serves blocked senders
  in order, and `sync.Mutex` hands over to a waiter that has starved. `RunsSettle`
  is about executions during which the server stays up from some point on, and
  about runs that are not `stuck`: no fairness makes a statement succeed.
* `SyncQueue!LiveSpec`: weak fairness of goroutines and back-offs; strong
  fairness of a tick, and of the worker's attempt to take the flag, *while the
  flag is free*. The worker gives up when the flag is taken, so without this a
  request at every single tick could keep it out; requests are made by people.
  `QueueDrains` excludes items that panic and statements that fail for ever: see
  section 6.
* `GraphScan!LiveSpec`: weak fairness of goroutines, requests and readers, and of
  `Expire`: a cached overview is dropped after five seconds.
* `Incubator!LiveSpec`: weak fairness of the ticker's poll, of each goroutine, of
  requests and of the creation of a project. No fairness makes the server die or
  stay up: `JobsEnd` assumes that it dies finitely often, and excepts requests to
  cluster that panicked.
* `BatchReview!LiveSpec` and `AgenticBatch!TalkSpec`: weak fairness of the stage
  and of each goroutine. Calls return, since they run under the stage's deadline;
  nothing makes them succeed.
* `LLMCalls!CallsSpec`: weak fairness of the workers, which have a ticker and are
  never blocked, and of `Stop` once it was called. Neither the calls nor the signal
  that makes the server stop need to go on.

## 5. Proofs

All theorems hold for every value of the constants allowed by the assumptions
`TaskAssumption`, `EngineAssumption`, `QueueAssumption`, the two called
`ScanAssumption`, `IncubatorAssumption`, `ReviewAssumption`, `TalkAssumption`,
`RecorderAssumption` and `CallsAssumption`. They give the constants their types, bounds a positive value,
and say that distinct kinds of actors are distinct (a mutex is held by a handler, a
run or nobody; a request is no job). TLC evaluates them in every run.

| Theorem | States | Argument |
|---|---|---|
| `TaskLifecycleProofs!TypeCorrect` | `[]TypeOK` | inductive; one step per action, one lemma per operator the actions share |
| `TaskLifecycleProofs!RunningIsOwned` | `[]NoOrphanRunning` | `TypeOK /\ NoOrphanRunning` is inductive: a running task has an owner or is in `orphaned`, whichever statement fails. `OwnersStay` reduces a step to two facts: each owner goes on owning or its task is not running afterwards, and a task that becomes running gets an owner |
| `TaskLifecycleProofs!RegistryIsSound` | `[]RegistrySound` | inductive with `TypeOK`. The case that matters is `Unregister`, which deletes the entry whoever put it there, and `RegisterCancel`, which overwrites it: both can only make the registry forget |
| `TaskLifecycleProofs!FirstOutcomeStands` | `OutcomeStands` | an action property: `NextMoves` bounds how any step moves a status |
| `TaskLifecycleProofs!ServiceKeepsContract` | `Contract!Spec` | refinement: every step is a step of `TaskContract` or a stutter. A failing update of the outcome is a `Forsake`. Needs `NoOrphanRunning` (any other crew that leaves does not leave a running task) and `WorkExists` (no goroutine or handler works for a task that was not created) |
| `TaskLifecycleProofs!FewWaysToLoseAWakeup` | `FewLoseWakeups` | an action property for all kinds of tasks, with crashes and with statements that fail anywhere. `WatchersStay`: while every watcher stays, a task stays watched; whoever stops watching has either found the queue empty or started its first task (`FirstInQueue`, `WakeFinds`: a queue with a waiting task has a first one, and whoever wakes it leaves a new watcher), is outlived by a running task's owner (`NoOrphanRunning`), or takes a step that `Loses` lists, the failing statements that make an execution, a stop, a retry or the look into the queue return among them |
| `TaskLifecycleProofs!ChatQueueIsWatched` | `[]NoLostWakeup` | assumes that no task is a review, `MaxCrashes = 0` and that statements succeed. Then no execution is in the steps of a review (`ChatsOnly`) and nothing is orphaned (`NobodyDied`), so that none of the steps in `Loses` exists |
| `PipelineEngineProofs!TypeCorrect` | `[](TypeOK /\ AtRow)` | neither is inductive alone: `Mark` and `Save` keep the table typed only if `mine` points into it, which is `AtRow`: a run at a stage holds its own row of that stage, pending or running by where the run is, unless Retry deleted it |
| `PipelineEngineProofs!NoRowLeftBehind` | `[]RowsSettled` | `RowChange` lists all a step of a run may do to a row; a row changes to pending or running only under a run that holds it |
| `PipelineEngineProofs!DependenciesComeFirst` | `[]StageAfterDependencies` | strengthened by `Checked`: between the dependency check and the start of the stage, its requirements stay met as long as the run's own row was not deleted. `SuccessStays` is the reason: a row held at a stage is never a success, so no run overwrites one |
| `PipelineEngineProofs!FailedRunsStop` | `[]WholeRunsAreClean` | strengthened by `UnmetRequires`: only a stage that requires something is left as failed while the run goes on |
| `PipelineEngineProofs!StageOutcomesStand` | `RowsMoveForward` | strengthened by `PendingBefore`: until a run marks the stage as running, its row is still pending, deleted or not. `RowChange` gives the rest: only the holder of a row writes it |
| `PipelineEngineProofs!PipelineKeepsContract` | `[][IF Restart THEN Contract!Die ELSE OnDuty]` | the steps of `TaskContract` for the one task; every run leaves through a conditional update (`EndingStep`), so either the task is given an outcome or it is not running. The initial state is a task that waits, which is not the contract's |
| `DepAuditScanProofs!TypeCorrect` | `[](TypeOK /\ VerdictFits)` | the status written at the end of a run, or of a recomputation, is what the goroutine holds; `VerdictFits` says that it is one of that table's |
| `DepAuditScanProofs!RunsExcludeEachOther` | `[]AtMostOneActive` | two active runs only if the later one is in `blind`, so without failing searches never. Strengthened by `Guarded`: from a check to the insert a handler holds the project's mutex, and at the insert the project still has no active run. `NoNewActive` is why: every step that is not an insert at most ends runs, restarts and deletions included; `BlindGrows`: a run queued unseen stays known as one |
| `DepAuditScanProofs!OutcomesAreFinal` | `RunOutcomeStands` | strengthened by `AtWork`: under a goroutine at work the run is running, cancelled or deleted, so the unconditional update meets no other outcome; and by `Fresh`: a row that is inserted was empty |
| `DepAuditScanProofs!ActiveRunsAreExecuted` | `[]ActiveHasExecutor` | needs `Fresh` (a run to be scheduled has no goroutine yet, and one handler that will start it) and `Signalled` (an active run whose context is cancelled has a handler about to mark it). `RunStepMoves` and `HandlerMoves` reduce the steps to a few kinds; `ExecutorRestart` is the case of a server that dies. A load, a claim or a last update that fails moves the run to `stuck` in the same step, and `StuckStay`: it leaves that set only when a later update settles it; `RestartRows` says what `RecoverStale` does to a row, or does not when it fails |
| `DepAuditScanProofs!ScansImplementRuns` | `Runs!Spec` | refinement: `GoroutineStep`, `InsertStep`, `MarkStep`, `DeleteStep` and `RecoverStep` say which step of `ScanRuns` a step is. Needs invariants of the other theorems: that the project has no active run at the insert (`Guarded`) unless the search failed (`QueueUnseen`), what the row can be under a goroutine (`AtWork`, `Fresh`), that a verdict is the one the goroutine came to (`VerdictFits`); `DeadStay`: only a restart changes which runs are dead |
| `SyncQueueProofs!TypeCorrect` | `[]TypeOK` | inductive with the parts below, since results are written from rows read earlier |
| `SyncQueueProofs!RowsAreHandledOnce` | `[]NoDoubleProcessing` | `Held`: whoever has a batch holds the flag; `AsRead`: a row in a batch is as it was read, because nobody but its syncer touches it |
| `SyncQueueProofs!SyncersImplementQueue` | `Queue!Spec` | refinement: a batch that is read is a `Take`, since `Held` makes the hand empty; the stored answer is a `Keep`, a result a `Finish`, which needs the item in `stored` (`AnswersKept`), or a `Skip` or `Retry` of the item in the abstract queue only because of `AsRead`: the attempts the syncer counts from are those of the row |
| `SyncQueueProofs!AttemptsAreUsedUp` | `[]FailedWhenUsedUp` | the count written back comes from the row as read, so it needs `AsRead`: the row was pending and had attempts left |
| `SyncQueueProofs!DoneLicencesAreStored` | `[]DoneIsStored` | two statements with anything between them: `AnswersKept` says that what a syncer has answered is in the library, whoever else steps, restarts or fails; a row is marked done only in that state, and the library only grows |
| `GraphScanProofs!TypeCorrect` | `[]TypeOK` | from `Inv`, one inductive invariant for all four theorems: beside the type, `Going` (what row a goroutine has at each point), `Cancelling` (whose context a late cancel reaches), `Nightly` and `Settling` |
| `GraphScanProofs!ShownWhileScanned` | `[]ProjectShown` | a conjunct of `Inv`: a scan shows the project before it counts as `Showing` and writes another status before it stops to |
| `GraphScanProofs!OverScansAreSettled` | `[]EndedIsSettled` | `Settling` covers the points after the last update, where no later write of a request makes the status less final |
| `GraphScanProofs!CancelFindsLiveScan` | `[]NoStaleCancel` | a conjunct of `Inv`; whoever leaves empties the entry, be it another scan's |
| `GraphScanProofs!ScanOutcomesStand` | `OutcomesStand` | strengthened by `Open`: a row says completed or failed only when its goroutine has nothing left to write, and a goroutine is about to cancel only if its context was cancelled. Of the steps that write a row this leaves the late write of a request, which is the exception the property makes |
| `IncubatorProofs!TypesCorrect`, `JobRowsSettled` | `[]TypeOK`, `[]RowsSettled` | `JobsOK` relates a job's goroutine to its row, the runner's map and the list of the poll. `JobShape` brings all steps of a job's goroutine into one form, `JobTurn`, so that what `JobsOK` needs is proved once |
| `IncubatorProofs!JobsRunAlone` | `RunsAlone` | from `JobsOK`: a job with a goroutine that is not in the map is a pipeline, whose row is running and which no poll has in its list |
| `IncubatorProofs!JobOutcomesInOrder` | `JobsMoveForward` | strengthened by `RowsOK`: the row of a job says running from `Mark`, or the insert, to the first write of its outcome, and the second write repeats the first. `JobStepSays` lists what a step of a goroutine writes |
| `IncubatorProofs!RulesBehindPublished` | `[]PublishedHasRule` | `FramesOK`: from the insert to the last update the request holds a rule made from its candidate. `CandsKept`: no step but that last update and an edit makes a candidate published, and the edit puts it into `declared`; no step takes a published one's rule away |
| `IncubatorProofs!ConfigsAreComplete` | `[]ConfigsComplete` | strengthened to `ConfigsOK`: a configuration that is missing is owed by a request that has still to list the projects, or has listed this one |
| `ReviewStageProofs!ConversationsRefine` | `TalkSpec => Init /\ [][Next]_vars` | the safety part of `ImplementsStage`: a step of a conversation leaves `vars` alone or is the end of one. All theorems below about the stage are proved of `BatchReview` and carried over by it |
| `ReviewStageProofs!OutputsAreComplete` | `[]OutputsComplete` | `Working`, `RowsRun`, `Results`, `Tokens`: who may be at work in which mode, under whom a row is running, what a goroutine is about to store |
| `ReviewStageProofs!WavesKeepOrder` | `[]WavesInOrder` | `InWave`: the wave under way starts at a multiple of its size, later ones were not touched, earlier ones are done; `Division` is the arithmetic of `WaveOf` |
| `ReviewStageProofs!CallsGetAnswers` | `[]CallsAnswered` | `Paired` is kept by appending an exchange (`ExchangeGood`) and by truncation (`TruncateGood`), which takes an answer out with the first of its results, so that no answer loses a result and stays |
| `ReviewStageProofs!CostIsBounded` | `[]TalkIsBounded` | `Fine` adds rounds used, reminders and final calls up, per state of a conversation |
| `LLMCallsProofs!RecordsAreStoredOnce` | `[]StoredOnce` | `Held`: a record is in the channel or in the batch of one worker, and has a row there only if it is doubted |
| `LLMCallsProofs!StopLeavesNothing` | `[]StopDrains` | `NoneMissing` says where a record that was handed over can be, `Leaving` that a worker that drained the channel left only late ones, `AllGone` that `main` exits after all of them |
| `LLMCallsProofs!CallsRefineRecorder` | `CallsSpec => RecorderSpec` | refinement: each step of a caller is a step of `CallRecorder` or none, since a record is checked and sent once, which `CallInv` says |
| `LLMCallsProofs!UsesAreRecorded` | `[]CallsRecorded` | `CallInv`: what is recorded of the k-th use is what the call's program counter says (`Expected`), and the models used stay within primary and backups |

Most properties a theorem states are also checked by a run, so that a reader can
break the model and see a trace; the theorem lifts the run's bounds. The type
invariants are proved, and only `TaskRequests` checks one as well.
`FailedWhenUsedUp` and `DoneIsStored` follow from `ImplementsQueue`, which the run
`SyncQueue` checks instead. `EndedIsSettled`, `FewLoseWakeups`, `JobsMoveForward`,
`ImplementsRuns` and the engine's `KeepsContract` are not in a configuration: TLC
found them to hold on the instances of the runs before they were proved, and can
be asked again by adding the name to the `.cfg`.

A refinement theorem says that every behaviour of the detailed specification,
seen through the mapping, is one of the abstract one: the initial states map to
initial states, and each step to a step or to nothing. An operator taken from an
instance is opaque to the provers, so each proof first states in a lemma what one
abstract step means in terms of the detailed variables, and then goes through the
actions.

Only model-checked: everything about liveness (`QueueProgress`, `RunningEnds`,
`RunsEnd`, `RunsSettle`, `QueueDrains`, `ScansSettle`, `OverviewHeals`, `JobsEnd`,
`StageEnds`, `RecordsSettle`, and `ImplementsStage`, which includes fairness),
which is out of the prover's reach with `ENABLED` and induction over data. The
refinements are of safety: `TaskContract`, `WorkQueue` and `ScanRuns` promise
nothing about progress. `NoLostWakeup` is proved for chats and bug fixes while the
server lives and statements succeed, and false with reviews (section 6). What is
proved without these conditions is `FewLoseWakeups`: a wake-up is lost only in one
of the steps `Loses` lists, which are a crash, a statement that fails in one of the
places section 6 names, a review whose row is not running any more when it fails,
and what becomes of a task that is already orphaned.

## 6. What the code does not guarantee

Two runs end in a counterexample to something a comment of the code says:

* `TaskReviewFailure`: "a failed review must wake the queue" (`task.go:1053`). The
  engine has already written `failed` when `failReviewTask` runs; its conditional
  update matches nothing (line 1047), it returns before `startNextPendingTask`,
  and a chat task that was waiting stays pending.
* `DepAuditRevived`: "a cancelled task is not overwritten by runs that end later"
  (`scan.go:412`). The test uses the row read at line 360, the update at line 442
  has no condition, and `CancelTask` fits in between.

The models also contain the following behaviours, which rule out stronger
properties. They were seen in TLC's traces and are the reason some hazards have
no property:

* Two chat tasks of a project can run at once, although `task.go:326` says that
  only one may: two executions count the running chat tasks (line 329) before
  either has taken its own (line 338).
* A stop can miss the pipeline: `Abort` notifies (`task.go:553`) before
  `executePipelineReviewTask` has registered its channel (line 1407). The task
  becomes `stopped`, the stages run on. In `PipelineEngine` this is `Stop` with
  `registry = 0`.
* A statement that fails can lose a wake-up: `ExecuteWithComment` and
  `ExecuteAIReviewTask` return when they cannot read their task (`task.go:320`,
  `1023`), `failReviewTask` when its update fails (1047), `executePipelineReviewTask`
  when it cannot read the task again (1465), `Abort` and `Retry` when they cannot
  write (569, 653), and `startNextPendingTask` takes a failing read for an empty
  queue (462). The update with an outcome that fails leaves its task running
  until the sweep finds it.
* A sweep that read an old `started_at` and then spent time aborting a session
  times out an execution that has renewed it (`task.go:641`, `748`).
* A chat task whose process died between the write of `running` (`task.go:338`)
  and that of `started_at` stays running: the sweep skips a NULL (`task.go:703`),
  although `backend/README.md:269` says it marks every task that exceeds the
  timeout.
* Rows of two runs can be shown together: `Retry` deletes the rows (`task.go:665`)
  while a timed out run is in its loop and adds more. `StageAfterDependencies`
  holds nevertheless, since it is about the rows of this round.
* A server that dies in a stage leaves its row running for ever: `RowsSettled`
  excepts the rows of killed runs.
* Of two runs of an audit that end together, the one that read first may write
  last, and the task stays `running` over finished runs (`scan.go:442`).
* A run whose load or claim fails stays queued without a goroutine
  (`scan.go:159`, `169`), and one whose last update fails stays running (489, 685,
  695): it blocks its project until somebody cancels it or the server starts again
  and `RecoverStale` finds it. `hasActiveRun` takes a failing count for none
  (line 128), so that a project may get a second active run.
* A run cancelled between the test of the context (`scan.go:310`) and the last,
  unconditional update becomes a success (`scan.go:329`); `RunOutcomeStands` says
  what does hold.
* `RecoverStale` leaves runs that started recently (`scan.go:589`), and is called
  at start-up only (`cmd/main.go:116`): such a run is active without an
  executor, and `ActiveHasExecutor` and `RunsSettle` except it.
* A full batch of items that panic is fetched again at once, and `drainKind` does
  not end (`queue.go:169`); `QueueDrains` assumes that panics stop.
* Graph scans of a project overlap: `TriggerScan` counts the running ones
  (`scan_service.go:89`) and a scan becomes running only in its goroutine. The
  one that ends first deletes the registry entry of the other (line 125), which
  can then not be cancelled, and neither can a nightly scan, whose service has a
  registry of its own. A server that dies leaves the row running, and every
  later `TriggerScan` is refused.
* `UpdateCandidate` reads the status and writes later (`incubator.go:411`): a
  refinement that was under way turns a published candidate back to `ready`, and
  `DeleteCandidate` (line 486) removes one that was published in between. The
  rule stays.
* `UpdateCandidate` stores any status its request names (`incubator.go:411`-`424`):
  an edit with `published` shows a candidate as published that has no rule, and
  one with `merged` or `rejected` closes it in the same way. `PublishedHasRule`
  excepts what an edit declared.
* A request to cluster (`incubator.go:840`) has no `recover` but the server's: when it
  panics, the row of its job stays running for ever. `RowsSettled` and `JobsEnd`
  except it.
* Two `RunPipeline` requests that look at the same time (`incubator.go:2347`) both
  start. The row of a pipeline whose server died stays running, and
  `RunPipeline` refuses for ever.
* A job that ended between a poll and its turn is started again
  (`incubator_job.go:48`).
* A project created while a rule is published can get two rows for it in
  `project_review_configs`.
* Truncation (`agentic_state.go:1221`) drops an answer with the first of its tool
  results: if the answer made several calls the other results stay, without the
  call they answer, although line 37 wants histories complete. `CallsAnswered` is
  the direction that holds.
* Reminders are counted over the whole conversation, although line 22 calls the
  limit one of consecutive reminders.
* A stage whose agentic review fails reviews every batch again, also those that
  were finished, and counts the tokens of the last attempt only. A cancelled
  batch still gets a fallback row, which fails.
* `recorder.go:206` says that a batch that could not be written is kept for the next
  flush; `worker` empties it all the same (line 125). The set `lost` stands for it.
* A statement with a deadline (`recorder.go:210`) can report an error and have taken
  effect: the next attempt stores its records a second time, the set `doubted`.
* `recorder.go:138` says that the flag keeps producers out while workers drain. A
  `Record` that had read the flag sends afterwards; its record may stay in the
  channel (`"late"`). `Shutdown` waits for requests only, so goroutines that execute
  tasks still call `Record` during and after `Stop`.
* Two deliveries of a webhook can count at the same time (`webhook.go:589`) and both
  create a review: `Create` is not conditional in `TaskLifecycle`, and two reviews
  of a commit are two of its tasks.

## 7. Not modelled

Parsing, prompts, diffs, licences, program analysis and the vulnerability
database are functions of large texts with no control between steps. Handlers of
configuration rows, the web pages and the embedding store keep no state that two
actors race for. The fair scheduler is built anew for every engine, so it never
limits anything. The progress a stage displays is left out of `BatchReview`; it can
go backwards, since the counter and the update of the row are two statements
(`executors.go:1095`). Everything else that is not modelled is in the plan below.

## 8. Plan

Done: the modules of section 2, in the order task lifecycle and contract,
pipeline engine, dependency audit, synchronization queue, graph scans, incubator,
batch review and its conversations, LLM calls and their recorder.

Next:

1. `ModelPool`: the health daemon, which rereads a status and writes it later, the
   handlers that choose the primary and the order of backups, and the chains that
   read them in two queries.
2. `DelayedNotification`: timers that read the task's row again when they fire.
3. Middleware: windows of the rate limiter and of the login lock; optimistic
   locking.
4. The event hubs (`incubator_sse.go`, `mcp/server.go`).

Theorems worth proving next: that graph scans and incubator jobs implement an
abstract specification of work that is queued, claimed and settled, as far as their
stale writes allow; that a recomputed task is terminal only over terminal runs, as
far as it holds; what a conversation leaves in its row, as an action property.
