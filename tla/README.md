# A TLA+ model of the AIREX back end

AIREX evaluates AI models, prompts and agents.  A FastAPI server
(`apps/api/app`) writes to PostgreSQL, queues long work in a Redis list and lets
worker processes do it; a Next.js front end (`apps/web`) and a Python SDK
(`packages/airex-python`) talk to the server.  This directory holds TLA+ modules
of the parts whose correctness depends on the order in which processes,
transactions and coroutines take their steps, the TLC runs that check them on
small instances, and TLAPS proofs of what matters most.  Paths below are
relative to `apps/api/app` unless they begin with another directory.

## The system

| Component | State | Operations | Interacts with | Hard behaviour | Correct when |
|---|---|---|---|---|---|
| Task queue (`workers/queue.py`) | Redis list, dead-letter list | enqueue, blpop, enqueue_dlq | every service that queues work; the workers | a popped message lives only in the worker that popped it | no message is in two places |
| Worker loop (`workers/worker.py`) | semaphore, coroutines, processed keys, heartbeat row | receive, skip, spawn, retry, dead-letter, drain, stop | queue, task handlers, `task_failures`, stale recovery | interleaved coroutines share variables; retries travel through the queue; crashes | permits are conserved, attempts bounded, tasks not lost, keys executed once |
| Evaluation runs (`services/evaluation.py`, `evaluations/runner.py`) | run row, result rows | create, start, cancel, execute, finish, recover | queue, datasets, providers, judges | two jobs of one run; cancel and recovery race execution; crash | one complete result set per COMPLETED run; runs end |
| Cases of an attempt (`evaluations/runner.py`, `judge/`, `evaluators/`, `evaluations/aggregate.py`) | tasks, judge cache, outcomes | invoke, look up, judge, grade, count | gateway, rubrics | tasks share a queue, a cache and a session | equal outputs are graded alike; the figures are of the rows |
| Experiments, CI runs (`services/experiment.py`, `services/ci.py`, `evaluations/experiment_runner.py`) | experiment, run, gate results, CI run | create, start, cancel, execute two evaluations, poll, compare, resolve | evaluations, queue, worker slots | a polling job holds a slot its children need; cancel while polling; one key, two calls | a run ends, cancellation sticks, one CI run per key |
| Command line client (`cli.py`) | its polling loop | post, poll, read gates, exit | CI runs, experiments | the run changes between its requests | the exit code tells what happened |
| Benchmarks (`services/benchmark.py`, `evaluations/benchmark_runner.py`) | version, run, results | trigger, execute, aggregate | evaluations, queue | like experiments, without recovery | one result per candidate |
| Comparison (`evaluations/statistics.py`, `regression.py`, `gates.py`) | none | pure functions of two samples | experiment runner | zeros, few samples, no variance | three verdicts fit together |
| Datasets (`services/dataset.py`) | dataset, versions, cases, artifacts | create, archive, create version, export | object storage | number and artifact race; storage is not transactional | versions are immutable, numbered once, artifact equals rows |
| Generation (`services/generation.py`, `generation/runner.py`) | request, candidates | create, run, review, cancel, consume | queue, gateway, datasets | review and consumption race; recovery of a slow run | one batch; only accepted candidates are consumed |
| Models and gateway (`services/model.py`, `integrations/`) | provider, model, invocation records | invoke with retries, health check, rotate credential | every component that calls a model | rows change while the provider is awaited | a record tells what became of a call |
| Rubrics (`services/rubric.py`) | versions of a family | create, edit, archive, freeze | evaluation runs | checks without locks | one active version, frozen copies stay true |
| Agents (`services/agent_*.py`, `trajectory_evaluator.py`, `loop_detector.py`) | definition, runs, steps | edit, run, evaluate | models, providers, release decisions | overlapping edits; a deleted model is nulled in a definition; heuristics over sequences | a fingerprint names a configuration; a loop stays found |
| Sessions (`services/auth.py`) | refresh sessions | login, refresh, revoke | API | concurrent refresh of one token | reuse is detected; revocation is final |
| Organization (`services/organization.py`, `member.py`, `team_service.py`, `identity_service.py`, `core/permissions.py`) | members, teams, grants, identity provider | add, change, remove, grant, SSO | everything with a role check | read, check, write without locks | an owner remains |
| Governance (`services/governance_service.py`) | policy versions, approvals, reviews, service tokens | activate, decide, review, revoke | release decisions, memberships | two requests decide at once | one active version, one decision, reviews are enforced |
| Telemetry (`packages/airex-python`, `services/observability.py`) | client buffer, traces, spans, signals | trace, flush, ingest, record, sweep | SDK, queue, retention | batches cut by size; a flush that gives up; redelivery; JSON columns changed in place | an event is accounted for; spans follow their trace |
| Alerts (`evaluations/alert_engine.py`) | rules, alerts | evaluate, acknowledge, resolve | scheduler, webhooks | overlapping evaluations; pages before commit | one active alert per incident |
| Release decisions (`services/intelligence_service.py`, `decision_engine.py`, `evidence_*.py`) | policies, decisions, evidence | evaluate, supersede, publish, verify | evaluations, experiments, benchmarks, alerts, agents | the policy changes while it is applied; its updates overlap | an approval is earned and explained |
| Retention (`services/retention_service.py`) | policies, holds | create, hold, release, clean up | every stored record | holds placed during a cleanup; policies of several organizations | a held record is kept |
| Compliance (`services/compliance_service.py`) | framework versions, controls, assessments, remediations | activate, assess, decide, settle | evidence | executing again what is being approved | an approval covers its items |
| Backup (`services/backup_service.py`) | dump and checksum files | create, verify, restore | database | crash between the two files; names by the second; a file changes between its verification and its copy | what is restored is what was backed up |
| Operations (`services/system_readiness.py`, `operations_service.py`, `operational_alert_service.py`) | heartbeats, times of alerts | beat, diagnose, overview, alert | queue, pool, workers | an answer is put together in steps; alerts are suppressed for a time | a breach is told |
| HTTP layer, front end, migrations, scripts | | | | | not modelled |

Evaluations, experiments, benchmarks and generation requests are rows that a
service creates and a job executes; they interact through the queue, the slots of
a worker and each other's status.  The other components meet in the
database only, where most of them read, decide and write in one transaction without
a lock: what that does when two of them overlap is what their modules are about.

## Modules

Every module states in comments which function an action stands for;
`PROJECT.json` maps each definition to its lines.  Definitions that no
next-state relation uses and that stand before the one they resemble
(`FinishTwice`, `InsertBlindly`, `WeightsListed`, ...) are plausible wrong versions of
it, kept to show that the properties notice them.

| Module | Models | Composed of |
|---|---|---|
| `TaskWorker` | `workers/queue.py`, `workers/worker.py` | |
| `EvaluationRun` | `services/evaluation.py`, `evaluations/runner.py`, `repositories/evaluation.py` | `EvaluationContract` by refinement |
| `EvaluationContract` | what a reader of a run may rely on | |
| `Judging` | the tasks, cache and session of one attempt: `evaluations/runner.py`, `judge/` | |
| `Grading` | evaluators, pass policies, metrics: `evaluators/`, `evaluations/aggregate.py` | |
| `ExperimentRun` | `services/experiment.py`, `evaluations/experiment_runner.py`, `services/ci.py` | evaluations in the same slots |
| `CIClient` | `airex experiment run` of `cli.py` | extends `ExperimentRun` |
| `BenchmarkRun` | `services/benchmark.py`, `evaluations/benchmark_runner.py` | |
| `BenchmarkClient` | `airex benchmark run` of `cli.py` | extends `BenchmarkRun` |
| `CommandLine` | the two commands a pipeline waits for, side by side | extends `CIClient`, `BenchmarkClient` |
| `Comparison` | `evaluations/statistics.py`, `regression.py`, `gates.py` | |
| `DatasetVersions` | `services/dataset.py`, `repositories/dataset.py`, `storage.py` | `DatasetHistory` by refinement |
| `DatasetHistory` | an append-only sequence of contents | |
| `GenerationRequest` | `generation/runner.py` and the request half of `services/generation.py` | |
| `GenerationReview` | the review and consumption half of `services/generation.py` | extends `DatasetVersions`: consumption runs its import |
| `Sessions` | `services/auth.py` | |
| `Organization` | members, projects, teams, grants, SSO | |
| `Governance` | policies, approvals, access reviews, CI tokens | extends `Organization`: reviews revoke what members hold |
| `Telemetry` | SDK client, ingestion, quality signals, retention sweep | |
| `TraceStatistics` | the figures of the dashboards: `_load_stats`, `_percentile` of `services/observability.py` | |
| `Alerts` | `evaluations/alert_engine.py`, `api/v1/alerts.py` | |
| `DecisionEngine` | the rules of `services/decision_engine.py`, as operators | |
| `Evidence` | the rows of evaluations, experiments, benchmarks, traces, alerts and agent runs, aggregated | operators only |
| `Release` | policies, decisions, superseding, canonical evidence | extends `DecisionEngine`, `Evidence` |
| `DecisionReports` | the overview, the actions and the comparisons of decisions | extends `Release` |
| `Retention`, `Compliance`, `Backup` | the services of these names | |
| `AgentRun` | agent definitions, the local test agent, trajectories | |
| `ModelCalls` | `integrations/gateway.py`, `provider.py`, `services/model.py` | |
| `Rubrics` | `services/rubric.py` | |
| `Operations` | heartbeats, readiness, overview, operational alerts | |
| `TaskWorker_proofs`, `EvaluationRun_proofs`, `DatasetVersions_proofs`, `GenerationRequest_proofs`, `GenerationReview_proofs` | theorems about the module of that name | |
| `ExperimentRun_proofs` | theorems about experiments, benchmarks and the commands that wait for them | extends `CommandLine` |
| `Accounts_proofs` | theorems about sessions, backups, governance, retention, operations, alerts, compliance | extends those modules |
| `Platform_proofs` | theorems about telemetry, rubrics, judging, model calls, releases and their reports, agents, comparison, grading, figures | extends those modules |
| `MC...` | the constants of the small instances; see Runs | |

### TaskWorker

Redis' list is the sequence `queue`, the dead-letter list and the rows of
`task_failures` are sets.  Each worker process has the program counter `pc` of
its main loop, the free permits of its semaphore, the set `active` of coroutines
it spawned, and `processed`, the keys it remembers.  `cell` is the variable
`idempotency_key` of `run_worker`: the nested `execute_task` refers to it
by name, so all coroutines see the key of the message received last
(`worker.py:198` binds it, `:223` reads it).  That variable is the reason the
model has steps at the granularity of awaits.

| Action | Code |
|---|---|
| `Enqueue` | `RedisTaskQueue.enqueue`, called by a service |
| `Acquire`, `ReceiveNothing`, `ReceiveFails`, `Receive` | one iteration of the loop (`worker.py:174-212`): permit, `blpop`, skip, unknown task, spawn |
| `RejectToDlq`, `RejectRecord`, `RejectAborts` | the branch for a task that is not in `TASK_REGISTRY` |
| `Succeed`, `Fail`, `Retry`, `DeadLetter`, `RecordFailure`, `RouteFails` | `execute_task` with its except clauses and its `finally` |
| `Beat`, `Shutdown`, `Stop` | heartbeat coroutine, cancellation, `gather` and the STOPPED row |
| `Crash`, `Restart` | the process dies and is replaced |

A message is the pair of submission and attempts.  Job ids are drawn anew for
every enqueue, and a submission is enqueued once per attempt, so the pair
stands for the id.

### EvaluationRun

One row of `evaluation_runs` with its results, the create and cancel requests,
the stale-run recovery, and any number of `Jobs` executing the same run: the
creation queues one, `POST /evaluations/{id}/run` queues more while the run is
QUEUED.  A job's session is modelled by what SQLAlchemy keeps: `seen` is the
status the session loaded (`expire_on_commit` is off, so later reads return it),
`mine` its uncommitted inserts, `want` the case whose INSERT waits for another
transaction.  `Overwrite` is the ORM's rule that an UPDATE contains only
attributes that differ from what was loaded.  `Load`, `MarkRunning`, `Execute`,
`Insert`, `Unblock`, `Finish`, `FailEarly` and `FailLate` are the stages of
`EvaluationRunner.run`; `Interrupt` and `Crash` end a delivery from outside.
What a model or an evaluator answers is nondeterministic: `Produced` says which
sets of outcomes the scheduling of cases allows.

### DatasetVersions

Concurrent calls of `create_version` and their retry loop.  `Check` and `Refuse`
are the guard at the top, `Number` reads `max_version_number`, `Put` writes the
artifact under the key made of that number, `Insert` and `Commit` the version,
`Lose` is the except clause of the unique key (it deletes the key and retries),
`Fail` any other error or a crash.  `raced` is an observer: numbers that two
imports were working on at once.

### GenerationRequest and GenerationReview

`GenerationRequest` is the run of one request: it has the shape of an evaluation
run with one job, but `set_status` touches the heartbeat, which is what makes
its recovery work.  `GenerationReview` extends `DatasetVersions`: a call of
`create_dataset_version_from_candidates` checks its candidates one by one
(`Collect`, `Reject`), then runs the import (`CreateVersion`), then commits the
consumption in a second transaction (`MarkConsumed`); reviewers check and commit
in two steps.

### ExperimentRun and CIClient

Each experiment run is a row, a job and two evaluations; `Slots` is the
concurrency of the worker they all share.  A job goes through `Take`,
`MarkRunning`, `CreateBaseline`, `CreateCandidate`, `StoreIds`, one of the `Poll...`
actions and `Finish` or `Fail`, with a commit between any two; `Interrupt` is the
time-out or exception of a delivery, which is retried and then dead-lettered.
Cancellation and CI calls read in one step (`CancelRead`, `LookUpKey`) and commit in
another.  Starting a job recovers stale experiments (`Recovered`), as
`workers/tasks.py` does; nothing else recovers them.  A `Scenario` bounds what the users do, so
that each run of TLC can afford every interleaving of it.  `Finish` takes its
gates nondeterministically; what follows from the samples is `Comparison`.

`CIClient` adds a process that posts, polls and exits; its `ExitTruthful` relates
the exit code to what the rows say, including posts answered from an earlier run
of the same key and runs cancelled or deleted between poll and gates.

### BenchmarkRun

Suites with their versions, and the job of a run over one candidate after the other.
`CreateSuite` does not ask whether the name is taken; `Trigger` commits the run before it
enqueues, and a failed enqueue leaves a run without a job.  The ids of
the evaluations are local variables, so a retry creates new ones; results are
written in the transaction that completes the run (`BenchProcess`).  `TakeBench` and
`SkipBench` are the guard on the status.  There is neither a cancellation endpoint nor a
recovery, which is why liveness is not claimed.

`BenchmarkClient` adds pipelines that look the suite up by name, post a version or a
suite, trigger without naming a version, poll and exit.  `BenchmarkTold` says what the exit
code is worth, and which version was run: the pipeline's own, or one posted at
the same time or later.  `GiveUp` stands for all exits with codes 2 to 5.

### Judging, Grading and Comparison

`Judging` follows the tasks of one attempt at the granularity of their awaits: `TakeCase`
to the judge's reply; two statements on the shared session at once are an error
that ends the attempt, as SQLAlchemy does.  `Grading` is what happens to one
reply: the evaluators in their order, the first error, the weights, the policy, and the
figures of the run.  An evaluator is modelled on what it can tell of an output
("the same but for case", "a number at this distance"), not on strings.
`Comparison` grows two samples and computes the significance, the class, the severity and
the gates from them with integers; its results are multiplied out where the code
divides, so it does not round.

### Sessions, Organization, Governance

One user's refresh sessions with overlapping calls; one organization with
membership requests in two steps, since the count of owners and the write of the role
are two statements; policies, approvals and reviews in the same way.  Requests that a unique
constraint arbitrates are one step.  `EffectiveRole` is `core/permissions.py`:
own grant, best team, restriction to the organization's role.  A membership changes
during a review as well.

### Telemetry and Alerts

The client's `queue`, `batch` and background `thread` are those of
`airex/client.py`; a scope enters and exits a trace, spans end inside it, and the
thread cuts batches where it likes.  `Flush` is the return of `flush`, which may be at an empty queue or, its time
being up, at any other; what was left then is kept in `flush.left`.  Jobs hold batches, an ingestion reads
(`TakeBatch`, `ReadSpans`) and commits (`CommitBatch`), may crash and be delivered again, and
a retention sweep runs beside it.  A quality signal is read and written in two steps, and the second signal of a trace
changes the loaded object in place, so that its UPDATE is omitted: `quality` is the stored JSON, `rated` the
signals in the stored score.  `crossed`, `shared`, `raced` are observers of overlaps
the code does not exclude, as are `overlapped` of assessments, `beside` of an edit of an agent (another one was stored
since it loaded, or a null came), `contested` of policies (versions that overlapping updates may share) and `doubled` and `crossed`
of releases (a decision evaluated twice at once; the pairs of decisions that did not
see each other), and `clashed` and `alone` of backups.  An evaluation of alert rules is one transaction over all
rules with webhooks inside; `Trigger`, `Recover`, `Rollback`, `CommitEvaluation`,
and acknowledgements in two steps.

`TraceStatistics` are functions of rows of traces and spans, which arrive one at a time and are referred to by
position.  What stands at a place of the sorted values is the value that few enough are less than and enough are
at most (`Sorted`), and a total is a fold over the rows with nothing for those that are left out (`Added`).
`StatisticsAddUp` relates the pages that are filtered by environment, the breakdowns and the totals, and
orders the latencies.  Percentiles are multiplied by 100, costs stand for tokens too; both may be negative, since
nothing checks the durations and tokens a client reports.

### DecisionEngine, Evidence, Release and DecisionReports

`DecisionEngine` has no state: a policy and aggregated evidence give checks, an
outcome and a readiness score in hundredths.  `Evidence` aggregates: from the rows there are in the
database, each with the model or project it belongs to, it picks and sums up those the
decision is made on.  Rows are sequences, latest first, and a choice among them is the least position
at which a row qualifies.  `PolicyRules`, `WorldRows` and `EvidenceFacts` say which policies, rows and bodies of
evidence there can be; they are the hypotheses of the theorems about the operators.  `ApprovalIsEarned` says of the policy in force
and the rows there are, at the start and after every change of either, that an approval on them is earned and that rows of
other scopes decide nothing.  `Release` evaluates decisions with both while
policies are edited in place and the rows change.  An update loads the policy and stores into it (`LoadPolicy`,
`StorePolicy`), so `policies` holds for each version the set of rules ever stored under it.  An evaluation is: snapshot of the policy,
collection in two steps (`CollectRuns`, `CollectOperation`), since each statement sees what is committed by then, decision, superseding, publication and verification of the
canonical evidence.

`DecisionReports` reads what was stored: the decision that was evaluated last, its checks, and the one
before.  `ReportsAgree` says of the policy and rows in force (`EvidenceReported`, compared with the evidence of each of `EarlierWorlds`)
and of the decisions stored (`DecisionsReported`), at the start and after every change, that what is not approved lists a
reason, that a comparison read the other way says the opposite, and that no figure is improved whose rule broke.

### Retention, Compliance, Backup

A cleanup reads an organization's policies and holds, then deletes rule by rule
(`ReadOrganization`, `ApplyRule`, `CommitCleanup`); a request cleans one organization, the job
all of them.  Compliance keeps what each call loaded, since an ORM update omits columns that
did not change: `ExecuteAssessment` after a concurrent approval leaves the
approval standing on new items.

A content of the database is a number; a restoration under way makes it a content it never had, and so does
one that reads a damaged file or is not alone.  Whatever the content, it can be dumped.  A dump is `StartDump`, `EndDump`, `Digest`, `WriteSum`, and any of them
may be the last; a restoration is `VerifyFirst`, `BeginCopy`, `EndCopy`, and reads the file again in the last.
`alone` says that nothing wrote the file since it was verified, nor the database since it was first overwritten.

### AgentRun

Definitions are edited in two steps (`LoadAgent`, `StoreAgent`; `RefuseAgent` where the reference is gone by then) and run in one.
`DeleteTarget` is the deletion of a model or a provider, after which the database nulls the reference and
leaves version and fingerprint.  `lastEdit` tells what the last update was: clean, one with nulls (a null asked for, or a deletion since), or
overlapped.  A trajectory is a
sequence of steps that grows by any step; `Detect` (repetition and cycles),
`Violations`, `Failures`, `Recovered`, `GoalCompleted` and `ReliabilityScore` are functions of it.

### ModelCalls and Rubrics

A call loads provider, model and credential, waits any number of times with
retries and writes at the end; rows change meanwhile.  A rubric request reads in one step and
commits in another; a creation reads twice, the newest version (`ReadFamily`) and what it archives (`ListOlder`).
Evaluation runs freeze a copy.

### Operations

A console's overview is three steps (`EvaluateReadiness`, `ReadQueue`, `AnswerOverview` or
`RaiseOverview`) while workers beat and stop and the plant changes.  The diagnostic reads every heartbeat, the overview the
newest `Shown` of any status (`NewestRows`).  `since` is the
class-level dictionary of alert times, kept as ages that stop at the window; `told` is an observer:
how long ago the alert was in an answer.  Overviews of one console do not overlap: the
alerts of an answer are computed without an await.

## Runs

Runs that pass (time on four cores):

| Run | Instance | States | Shows |
|---|---|---|---|
| `worker` | 2 workers, 2 permits, 3 submissions (keyed, plain, unknown), 2 attempts, 1 fault, set cleared above 1 key | 2.5 M | permits, single place |
| `worker_live` | 2 workers, 1 permit, 3 plain submissions (one unknown), no fault | 265 K | every submission is executed or dead-lettered |
| `evaluation` | 2 jobs, 2 cases, 2 deliveries each, 1 fault, stop_on_error | 2.7 M | one result per case, complete results, refinement of `EvaluationContract` |
| `evaluation_live` | 2 jobs, 2 cases, 2 deliveries, no fault, no stop_on_error | 527 K | a queued run ends unless a job of it is dead-lettered, lock waits and deadlocks included |
| `datasets` | `MCDatasets`: 4 imports with 2 attempts; 2 imports sharing a candidate and 2 reviewers; 1 request with 2 fingerprints, 3 items, 3 deliveries, 2 faults | 210 K | artifacts, refinement of `DatasetHistory`, imports end, truthful consumption, one batch, requests end |
| `experiment` | `MCExperimentRun`: 2 runs in 2 slots, 6 scenarios; 1 client; 1 benchmark run over 2 candidates with 2 edits; 2 benchmark pipelines | 601 K | pairs, cancellations, CI keys, results, exit codes, jobs end |
| `platform` | `MCPlatform`: telemetry and its figures, releases and their reports, agents with 3 editors, calls, judging, comparison, rubrics, grading | 485 K | the properties of those modules |
| `accounts` | `MCAccounts`: sessions, organization, governance, retention, compliance, backup, alerts, operations | 965 K | the properties of those modules |

An `MC` module that covers several components has a variable `part`, chosen
in the initial state: a behaviour moves the variables of one part and leaves the others at
their initial values.  Parts share no state, so nothing is lost against one run per component, and
the distinct questions stay the properties.

Why these bounds are enough to be interesting:

* Two workers with two permits give two coroutines that share `cell` next to a
  worker that does not; two attempts give both the retry and the dead letter; one fault
  hits any step.
* Two jobs with two cases are the least that can wait for each other in a circle, and two
  deliveries let a rolled-back job come again.
* Four imports with two attempts are the least in which an import loses every attempt
  while two others are still racing.  Three items with two fingerprints always
  repeat one, at a distance too.
* Two experiment runs in two slots fill every slot with pollers, so that no
  evaluation can start; one slot free lets one pair end.  Two CI calls share a key.
* Three users are two who demote each other and one they demote; two teams with
  different roles give a best one.  Three sessions are a chain in which a reuse can be
  found after a rotation.
* Two traces, three spans, a queue of two and batches of two give a full queue, a span that
  misses its trace, and a batch delivered twice.  One flush, at any moment, tells what several do.  Three signals of one trace are a
  first, one that is omitted and one after it; signals of two traces do not meet.
* The part "release" starts from one policy and one set of rows and changes both; the part "engine" starts from every
  policy and every set of rows listed and takes no step, so the two properties of changes are checked there too.
  The part "policies" has two users whose updates give at most three versions, and one decision, evaluated once, or twice beside one
  update; there the rows stay.  Where both the policy and the rows change there are two evaluations instead of three; alerts and agent runs are varied one at a time,
  and with no row of an experiment.  The fifth step of a trajectory is not a call.
* One model is deleted while two fields and three editors give every kind of `beside`.  Two backups in one
  second share the only file name; with two restorations beside them (four of both kinds) one verifies what the other dump overwrites.  One
  change of the database is enough for two backups to differ.
* Decisions, updates of an agent and a client's traces and spans do not differ from each other.  Of two in the same state only the first
  moves (`DecisionsInTurn`, `EditorsInTurn`, `SpansInTurn`, `TracesInTurn`, `BackupPart`), which loses no behaviour but for the names.
  Policies: none, each rule alone, the sample rule with each of three others, all rules; every
  source absent, good or bad, samples and severities at each edge.
* A trajectory of nine calls is one more than the length at which two-fold cycles are
  forgotten; samples of up to five observations reach the five that significance needs.
* Evaluators: each alone and pairs under all three policies, disabled and zero-weight ones
  before others, thresholds 0 and 100 %, replies right, nearly right, wrong, not comparable.
* A heartbeat limit of one tick and a window of two let an alert be told, silenced and told again with a
  plant that changes twice in between.  Two workers of which an overview reads one (`Shown`) are the least in which a
  stopped one hides a running one.  Six of seven connections are 85.7 %, at the edge of the rule.

`MaxFaults`, `MaxItems`, `MaxSessions`, `MaxTokens`, `MaxVersions`, `MaxScopes`, `MaxRules`, `MaxPlants` and the other
`Max...` constants that no setting of the code corresponds to bound how often something
happens; `ProcessedCap` stands for 10 000, `QueueMax` for 1000, `BatchMax` for 100, `Shown` for 20.

Deadlock is checked in the worker runs, where something can always happen.  The
other systems end (a run is terminal, all requests are answered), so those
configurations set `CHECK_DEADLOCK FALSE`, and liveness properties say what must
happen before.

Runs that TLC finds violated, each a disagreement between the code and its own
words:

| Run | The repository says | The code does |
|---|---|---|
| `worker_loss` | "zero silent task loss" (`docs/development/PHASE12_IMPLEMENTATION_REPORT.md:67`) | a coroutine that succeeds marks the key of the message received last; when that message fails, its retry is skipped as a duplicate |
| `dataset_export` | the artifact "is exactly what is stored and exported" (`datasets/canonical.py:12-14`) | the import that loses the number overwrites and then deletes the winner's artifact |
| `ci_gates` | "exit code is non-zero when the quality gate fails" (`docs/ARCHITECTURE/INTEGRATION_ARCHITECTURE.md:61`) | the gates of a CI call have a field name that the experiment's schema drops |
| `retention_holds` | "resources under active legal hold are NEVER deleted" (`services/retention_service.py:185`) | one organization's policy deletes the held records of another |

Others are stated in the modules, or met while modelling, and have no run of their own:

* `TerminalIsFinal` of `EvaluationRun` and of `GenerationRequest`: the runner
  overwrites a cancellation committed after its load (`evaluations/state.py:13-15` has no such
  transition).  `NeverStuckRunning` of `EvaluationRun`, which no run checks: `heartbeat_at` stays NULL until the run
  ends (`evaluations/runner.py:9`).  `ConsumedOnce` of `GenerationReview`: two calls
  check before either commits (`services/generation.py:466`).  `DecisionIsFinal`: the later of two
  reviewers wins.  `ArchivedIsFrozen` of `DatasetVersions`: the archive check is not repeated.
* `CountsMatchRows` of `EvaluationRun` has a theorem and no run.
  So have `KeylessNeverLost` and `DeadLetterFinal` of `TaskWorker`, `ReleaseFollowsApproval` of `Governance` and
  `OthersGrantsNeverRaise` of `Organization`.
* A key is recorded after its handler returned (`workers/worker.py:223`), so a second message with the same
  key that is received meanwhile is executed too.
* `ExperimentRun`: `cancel_run` commits over a completion read earlier; cancelling or
  recovering an experiment never resolves its CI run; a job may finish before the CI run is linked to it
  (`services/ci.py:319`); the loser of a key leaves an experiment behind.
* `BenchmarkRun`: `cmd_benchmark_run` posts a version and triggers a run without
  naming it, so it may run a concurrent pipeline's version; a failed enqueue leaves the run QUEUED.
* `AgentRun`: an explicit null is hashed and not stored; deleting a model or provider nulls the reference under an
  unchanged fingerprint (`models/agent.py:63-68`); two overlapping updates write one version number, and the
  next fingerprint names neither; `run_agent_execution` is queued by nothing.
* `Retention`: a third policy of one type always raises (`scalar_one_or_none`); a hold under the other spelling of a
  type protects nothing; the branch for traces deletes spans by the wrong type.
  `Compliance` looks up the check "worker_fleet", which readiness calls "workers".
* `Backup`: a dump without a checksum is accepted, and two backups in one second share a name.  A database that a failed
  restoration left half is dumped, checksummed and restored like any other.  Between `verify_backup`
  (`services/backup_service.py:163`) and the copy (`:182-206`) nothing locks the file.
* `Telemetry`: `SignalsKept` ("store quality signals in metadata", `services/observability.py:506`) fails with the second signal of a
  trace, whose UPDATE is omitted (`:519-523` on a plain JSON column).  `flush` ("Manually flush all buffered
  events", `client.py:121` of the SDK) returns at its time-out, or while the thread still holds a batch.
* `Evidence`: a model without a benchmark result is decided on the last completed run of any project, where the comment
  says "in project" (`services/evidence_aggregator.py:222`), and one without an experiment on another model's:
  `Borrowed` names these cases, and `ApprovalIsEarned` shows that nothing else of others decides.
* `Release`: superseding a published decision makes its verification say TAMPERED; with no samples
  at all the sample rule is MISSING, which does not block; overlapping updates store different rules under one version of a
  policy (`repositories/release_decision.py:91-102`), and no update takes a rule back.
* `DecisionReports`: failing checks other than alerts ask for no action, so a rejected or blocked decision can be answered
  with "All policy rules satisfied. Model is ready for deployment." (`services/intelligence_service.py:505`); all
  clear means no more than `Consistent` says.  The decision before a superseded one may be a later one.
* `TraceStatistics`: the requests of the environments are spans, those of the total are traces
  (`services/observability.py:273`); an empty environment, which ingestion accepts, has no page of its own.
* `Alerts`: two active alerts of one rule stop the evaluation of every rule.
* `Grading`: a tolerance or length that is no number raises `ValueError`, which ends the
  attempt, while `evaluators/base.py:5-7` promises an ERROR result; an evaluator's error drops the
  scores of those before it.  `Comparison`: in floats, equal observations in different numbers can
  differ in the last bit of their means and become a regression (`evaluations/statistics.py:86`).
* `Operations`: an alert row has no name, which the overview asks for, so one row makes it raise; a queue that is
  down counts as empty; workers that stopped lately can hide one that runs from the 20 rows of an overview
  (`services/operations_service.py:52`), which then says "offline" beside a diagnostic that found it; open connections are taken for the size of the pool, so one used connection is 100 %;
  a missing version table aborts the transaction for the checks after it.

## Fairness

* `TaskWorker`: the event loop of a live process keeps scheduling the main loop
  and the coroutines, `wait_for` bounds each handler, and the supervisor of the
  deployment restarts a stopped worker.  Weak fairness is on the loop of each
  worker, on its coroutines together, on `Stop` and on `Restart`.  Submitting, failing
  and shutting down are never obligatory.  `EventuallySettled` assumes in its
  premise that workers are not shut down for ever again.
* `EvaluationRun`: weak fairness on queueing what was created, on the commit of a
  cancellation, on the recovery (every iteration of every worker calls it), on
  each job, and on ending a blocked INSERT (the database's deadlock detection or the
  time-out of the task).  Crashes and other interrupts are not obligatory.
* `ExperimentRun`: weak fairness on delivering and carrying on each job, or ending that
  delivery by its time-out.  No evaluation is obliged to end: `JobsEnd` must hold
  even when pollers fill every slot.
* `GenerationRequest`: as for evaluations, for one job.
* `DatasetVersions`: weak fairness on each import; a lock wait ends when its
  holder's transaction does.
* `MCDatasets` restates the last two for its parts.  The other modules have no fairness and no
  liveness: nothing in them waits for another.

## Proofs

TLAPS checks the theorems for every value of the constants, from the assumptions the modules name
(`TaskWorkerAssumption`, `EvaluationAssumption`, `ExperimentAssumption`, `SessionsAssumption`, ...), which the
runs evaluate.  They say what a constant is: a set is finite, a limit a number, a start of a run has one request
(`ExperimentAssumption`), a sentinel no value (`TelemetryAssumption`, `AgentAssumption`), and of what users and the platform write, what
the tables and schemas admit (`ReleaseAssumption`, `ReportsAssumption`, `GradingAssumption`, `OperationsAssumption`,
`ComparisonAssumption`, `OrganizationAssumption`, `TraceStatisticsAssumption`).  Fairness plays no part.  Every safety
invariant and every action property of the passing runs has a theorem.

`TaskWorker_proofs`: `TypeCorrect`, `PermitsAreConserved`, `SubmissionsStaySingle`,
`AttemptsAreBounded`, `StoppedIsIdle`.  None of these is inductive alone.  That a
handler starts at most `MaxRetries` times needs to know that the attempts a
message carries are the starts its submission has had (`QueueCounts`), that a
coroutine carries the same number and backs off only with attempts left
(`ActiveCounts`), and, so that no second message can carry an older number, that
a submission is in one place (`SinglePlace`).  `SinglePlace` in turn needs that
what was not submitted was never started (`Rest`).  Permits need the number
left after the loop has ended (`Permits`).  The conjunction `Inv` is preserved
by each action, one lemma per action.

Where submissions end is proved on top of it: `DeadLettersAreFinal` and `KeylessSubmissionsAreNeverLost`, from `Fates`.
What was executed is nowhere any more, so it is not set aside later, and a coroutine routes to the dead-letter list only
with its attempts used up (`Ends`).  A submission without a key is skipped only if a worker takes its job id for one it
has processed; `KnownJobsGone` says that a job id a worker knows is of a message that is gone for good, since its attempt
was made or nobody knows its task.  A job id is fresh (`TaskWorkerAssumption`: no key of a client is one).

`EvaluationRun_proofs`: `TypeCorrect`, `InsertsAreExclusive`, `OneResult`,
`CompletedRunsAreComplete`.  The last is the delicate one: a job that loses a unique
key is rolled back and goes on, and marks the run COMPLETED although its own rows
are gone.  It is right because somebody else's commit took them away, and every
commit publishes a whole set: `Covering` says that as long as no row is
committed, a job still holds whatever it no longer has to insert, and
`Completeness` that the first commit, and so every later state, is whole.  The
lemma `Publish` is the heart of the proof.  `Exclusive` (uncommitted rows exclude
committed and other uncommitted rows of the same case) gives uniqueness.

For a run that one job executes, through all its deliveries, `CountsAreOfRows` and the refinement
`ContractImplemented`: results appear at once, whole, in the step that ends the run, and no run cancelled before it started has
any (`CancelledBeforeStart`).  Their invariant `SoleInv` says that a session
of the only job works on an unpublished run (`Alone`: no row and no heartbeat, so nothing is stale and no lock makes
it wait) and that what was published has ended it (`SoleJob`).  `CancellationSticksBeforeStart`
is about any number of jobs, and the refinement cites it: who arrives at a cancelled run finds a terminal status.

`DatasetVersions_proofs`: `TypeCorrect`, `NumbersAreConsecutive`,
`ArtifactsUncontended`, `RefusalsAreJustified`, `HistoryImplemented`.  `Numbering`
says the numbers in use are 1 to the number of versions; `Trying` that a number
being tried is at most one past it, and that the one inserted and not committed
is that one and alone; `Budget` relates the attempts an import has lost to the versions
others published; `Artifacts` gives every number without a race one writer.
`HistoryImplemented` shows each step of an import to append one version to the
abstract history or to change nothing of it.

`GenerationRequest_proofs`: `TypeCorrect`, `OneBatchOnly`, `OneOriginalEach`.
`Published` says that a committed batch ends the request and that no session of
it is left or will begin (`LoadedPhase` leaves terminal requests alone); that is
also why the batch is the only one.  That duplicates point to one original needs
the first position of a fingerprint to exist, for which `LeastNumber` derives
from the library's `WFMin` that every non-empty set of numbers has a least
element.

`GenerationReview_proofs`: `ReviewTypeCorrect`, `OnlyApproved`,
`ConsumptionTruthful`, `ConsumedStaysOutOfLater`, `ReviewRunsImports`.  Each step of
the composition is a step of `DatasetVersions` or stutters there
(`ReviewStepIsImportStep`), so the invariant proved of the imports is reused as
it is.  `Collection` carries the argument: every candidate an import has collected was
approved by then and was not consumed when the import began, and an import past
its loop has collected its whole payload.  Repeated ids, which pass unchecked
(`InSessionAlready`), repeat what was checked in the round before.

`ExperimentRun_proofs`: `ExperimentTypeCorrect`, `CompletedRunsCompared`, `CancellationsStick`, `CIRunsTruthful`, all from
`ExperimentInv`.  `Deciding` is its core: a delivery that polls has a pair, one that decides has seen it
completed, and a run with a verdict stays compared, since nothing runs after it; a cancellation that hits an evaluation
after that had read it before (`cancel.hits`).  `EarlyHeld` says that after an early cancellation no delivery holds a copy of
the row that it could write back.  `OneRowPerKey` is the unique constraint.  `ResultsPerCandidate` of `BenchmarkRun` needs that the
results already written are of the candidates before the current one (`Counting`).  `ClientsUseTheServer` and
`PipelinesUseTheServer` show that the commands only take steps of the modules they extend, so those
invariants are reused, and `ClientsToldTruly` adds what a client may conclude from what it read last
(`ClientInv`), and that a pipeline's pinned version is its own or one of no lower number in its suite (`PipelineInv` with
`Numbering`: numbers of a suite only grow).

`Accounts_proofs`, one group per module:

| Theorem | Inductive invariant | Why the property is not enough |
|---|---|---|
| `SessionChains` | `SessionsInv` | what a refresh read of a valid session must still be so when it commits: every child is younger than the read (`ReadsHold`), and a rotated session is revoked (`RotatedAreRevoked`) |
| `RestoredWhole` | `BackupInv` | a digest, in memory or on disk, is of a dump that had ended, and so intact, unless two backups wrote the file at once; and what was verified is still in the file while the restoration is alone |
| `HoldsAreRespected` | `RetentionInv` | a cleanup must keep what the holds it has read protect (`CleanupsRespectHolds`), and its organization has one policy per type in force unless two were created at once (`OneInForce`) |
| `RulesAreKept` | `MembersInv`, `DecidedOnce` | a request that removes an owner has seen another one, who is still there unless requests overlapped |
| `ReleasesFollowApprovals` | `DecisionsAgree` | inductive as it stands, with the types: whoever decides last writes both, which is why a race does not break it |
| `GrantsOfOthersNeverRaise` | `MembersTypes`, `GrantTypes` | there is a best role of any teams (`BestIsOneOfThem`), roles are ranked, and a grant to others can only make the project restricted (`GrantOfAnother`) |
| `ReviewsAreEnforced` | `ReviewInv` | what was marked in time has been read when the revocations begin, and revocation is final |
| `OverviewsTellBreaches` | `OperationsInv` | in a calm console's answer every part was computed from one plant, and an alert left out was told less than a window ago (`CalmAgrees`: `since` is never older than `told`); that a worker is left out of the newest rows takes as many that stopped lately (`HiddenByStopped`) |
| `IncidentsAlertOnce` | `AlertsInv` | an uncommitted insert excludes an active alert of its rule and other inserts (`NoOverlap`); pages are counted against inserts, pending and rolled back (`PagesAddUp`) |
| `ApprovalsCover` | `FrameworksInv`, `AssessmentInv` | the controls of an active version only grow by what crept in; what an execution found covers them if nothing overlapped it |

`Platform_proofs`:

* `EventsAccountedFor`, `IngestionStoresWhatWasPosted`: every ended event is buffered, posted, dropped or lost, and so is what was left at
  the return of a flush (`AccountsInv`, with sequences as sets of events); what an ingestion holds belongs to its job and a span's trace is stored, about to be, or swept
  (`ServerInv`); a writer has read signals that were acknowledged, all those
  stored if no other overlapped it, and the score is at most its signal ahead (`QualityInv`).
* `RubricsStayVersioned`: a request whose reads agree on a family nobody else edits still knows its active version (`RubricsInv`).
* `VerdictsConsistent`: a cached answer is acceptable and was given for some judged case (`JudgingInv`).
* `CallsAreTold`: the answers a call has received explain the stage it is in (`CallsInv`).
* `DecisionsStayExplained`: `ReleaseInv` says that an evaluation under way has found one body of evidence of a known kind and goes by
  rules stored under its version, that a version that is not contested was stored once (an update nobody stored beside goes one past the
  last version), that
  a stored decision shows that one and the outcome that follows, and that of two decisions in force the later one had not
  seen the other (`SeenOrCrossed`).
* `ApprovalsAreEarned`, for every policy and every body of evidence, and `ApprovalStaysEarned`, for all rows there can be: `AggregateKnown`
  shows that aggregation of any rows lands in `EvidenceFacts`, which needs the greatest value of a finite set, the counting of traces
  and the sum of gates to be numbers; `OwnRowsDecide` that dropping the rows of others changes nothing unless
  they were `Borrowed`.  `ApprovedDecisionsEarnedIt` puts the three together for the decisions stored.
* `ReportsStayTrue`: `ReportsConsistent` and `ReportsTruthful` are about the operators; `DecisionsAreReported` needs `OrderInv`, that
  evaluations take different times of one clock and that something decided stays in force (`TimesApart`, `SomethingStands`), so
  that exactly one decision is the latest.
* `FingerprintsTell`: of an update under way, what it loaded is what the definition is until another is stored beside it; the version
  number alone does not tell (`EditAgrees`).  After a deletion name and configuration differ in nulls only.
* `VerdictsFit`: significance, class, severity and gates of any two samples, with sums over any finite set of observed values.
* `GradesFit`: every outcome is sound for its configuration (`GradingInv`), statuses partition the cases, and a weighted mean lies
  between the scores it is of.
* `LoopsAreKept`: the calls of a prefix are a prefix of the calls, so what was found in it stays found.
* `TheStatisticsAddUp`: the invariant is only that the rows are rows (`StatRows`), the rest is about the figures.  There is a value at
  every place, and a later place has no lesser one (`SortedIs`, `SortedGrows`), by counting; a percentile lies between its two
  neighbours, and the lower neighbour of a higher percentile is at or past the upper one of a lower, or they are the same two, of which the
  shares decide (`PercentilesInOrder`).  The sums of the groups are the sum of what is in a group (`Grouped`, by the size of the set of
  keys), and the rows with a key and those without one are all rows (`CostsSplit`, `TotalsAddUp`).

Sums, greatest elements and counted prefixes are facts about folds and recursive functions that hold by induction over data.  The
library's induction theorems take an operator, which the provers cannot instantiate; these proofs refute the least number at
which the claim would fail (`LeastNumber`).  That works where the recursion is a function whose next value is given by an
equation, as in `MapThenFoldSet`, the folds of functions and the calls of a trajectory.  The lemmas on sums
(`SumUnfolds` to `SumPositive`) say in this way that a sum stays in a set closed under addition, is linear and not negative, and so
that a variance is not negative; `OnesCount` that a sum of ones is a cardinality, `Grouped` that sums by key add up.

What the proofs and a comparison with the code line by line changed in the model: superseding was one step, while two evaluations can leave two decisions in force; two
overlapping updates of an agent can store one version twice, which takes three editors to matter; the contract of an evaluation
did not admit a run without cases that stops on error; overlapping cases in the severity of `Comparison` are now exclusive; evidence is
chosen by position instead of by filtered sequences, and so are the figures of `TraceStatistics`, whose percentiles were places in a
sorted sequence and whose breakdowns were only said to stay below the total, which negative tokens refute; that no key is a job id was
left unsaid; `ApprovalIsEarned` and `ReportsAgree` are about every change of policy and
rows instead of about a list of instances; updates of a policy, signals of a trace and restorations were one step or did what they
should, flushes waited for ever, nothing nulled a definition, and both reads of the heartbeats saw all of them.

Only model-checked:

* Liveness (`EventuallySettled`, `EndsUnlessJobLost`, `ImportsEnd`, `NeverStuckRunning`, `JobsEnd`), which is outside what the provers do.
* That the named exceptions are the only ones: `Borrowed`, `raced`, `crossed`, `doubled`, `contested`, `overlapped`, `alone`, `clashed` and the like are hypotheses of the
  properties; the runs that take them show that they happen.

## Not modelled

* Content: what providers, evaluators and judges answer, prompts,
  parsing and validation of files.  Outcomes are nondeterministic, or a small set of cases that the code
  tells apart.
* Access checks of single endpoints, listings, pagination, formatting, metrics, logging.
* The in-memory queue is the Redis queue in one process; `once` mode of the worker is
  for tests; the periodic scheduler is left out; `NotImplementedError` is raised
  by no registered handler.
* The dataset's cases as edited in place, exports of reports, leaderboards, anomaly detection, audit
  intelligence and the administration overview: they read and count rows.
* Most commands of the command line: they post or print one request.
* Passwords, signatures, encryption and the per-process rate limiter.
* The front end, migrations, seed data, deployment: outside the behaviour of the running
  server.

## Plan

1. The converse of `Borrowed`: evidence of others that does decide, as a run.  That a key recorded late admits a second
   execution (`workers/worker.py:223`), as a run.
2. The type invariants of the modules whose theorems carry only the types they need.
3. `benchmark reproduce` and the remaining commands of the command line; the all clear of a
   decision that is not approved (`DecisionReports`) and the requests by environment (`TraceStatistics`) as runs of their own.
