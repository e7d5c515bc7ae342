# FGVC platform: TLA+ specifications

Formal models of the coordination logic of this repository: what the Go control plane, its relays, the Python
workers and the agent service do when calls are late, repeated, lost or reordered and when processes die. The
models are TLA+ modules; TLC checks them on small instances, TLAPS proves some of their theorems for all values of
the constants.

Check a run with `tlc -config MCTrainingLifecycle.cfg MCTrainingLifecycle.tla`, a proof with
`tlapm TrainingLifecycle_proofs.tla`. `PROJECT.json` lists every run, every definition with the source lines it
models, the mutations each property detects, the hazards and the theorems.

## 1. The system

A platform to train, register, deploy and use fine-grained image classifiers. PostgreSQL holds all authoritative
state. Components talk through database rows, gRPC calls to the control plane and RabbitMQ messages.

| Component | State | Operations | Interacts through |
|---|---|---|---|
| **Training lifecycle** (`go/internal/training`, `postgres/training_repository.go`, `training_delete.go`) | `jobs`, `training_runs`, `job_attempts`, `outbox_events`, `model_versions`, metric points, audit events | Create, Claim, Heartbeat, Progress, Complete, Fail, Pause, Cancel, CancelOperation, Resume, ReapExpired, DeleteTrainingRun | one transaction per call on a job locked `FOR UPDATE`; events in the outbox |
| **Outbox relay** (`go/internal/outbox`, `postgres/outbox_store.go`, `rabbitmq/publisher.go`, `cmd/outbox-relay`) | lock owner, lock deadline, attempts and due time of every outbox row; one RabbitMQ channel | Claim batch, Publish, MarkPublished, MarkFailed | reads rows the lifecycle inserted, publishes to RabbitMQ |
| **Training worker and dispatch** (`backend/.../compute/queue_worker.py`, `worker/jobs.py`) | the unacknowledged message, the attempt it works for | deliver, Claim, ack/nack, heartbeat thread, progress, Complete, Fail | RabbitMQ queue; gRPC calls with timeouts |
| **Deployments** (`postgres/deployments.go`, `cmd/deployment-relay`, `compute/deployment_worker.py`) | a deployment row with build token, worker and lease; its outbox; each builder's message and disk | Create, Retry, Claim, Heartbeat, Complete, expiry, dispatch; consume, compile, finish; Select and record of an inference | own queue and relay; reads the model's stage |
| **Model registry and releases** (`modelregistry`, `postgres/model_registry.go`, `model_publication.go`) | model version status, release number, exports, aliases | Publish, Transition, SetAlias | reads before its transaction, exports in between; rows read by inference and deployments |
| **Inference, review and abstention policies** (`postgres/inference_service.go`, `review_repository.go`, `policy_repository.go`, `httpapi/reviews.go`) | inference events, review items and feedback, policies, shadow decisions | predict, review, ask for assistance, propose, activate, retire | reads model and policy before the worker computes |
| **Dataset versions and imports** (`dataset`, `postgres/dataset_repository.go`, `dataset_import_queue.go`) | versions with their archives, import jobs with leases | expand, import, claim, heartbeat, finish | HTTP calls, consumers and coordinators publish versions through the same code |
| **Annotation publication** (`annotation/publication.go`, `dataset/annotation_build.go`) | batches, reserved sources, an advisory lock | preview, publish, retry, cancel, ProcessNext | takes confirmed annotations and review feedback, publishes dataset versions |
| **Annotation tasks** (`annotation/annotation.go`, `annotation/worker.py`) | tasks with leases, indexing outbox, result files of workers | Queue, Confirm, Claim, Finish, MemoryNext/Ack | polled by the annotation worker, which calls the provider process |
| **Provider process** (`cmd/annotation-agent`) | adaptive limit, circuit, calls under way | admit, connect, read, done, report | between the annotation worker and a paid model |
| **Dataset cards** (`datasetcard`, `postgres/dataset_card_repository.go`) | revisions, drafts | Save, Generate, Apply, expiry | calls a paid model |
| **Agent runs** (`agent/internal/storage/store.go`, `agent/internal/runner/runner.go`) | runs with status, epoch, lease, stop flag and state; a runner's own copy of the state | Submit, Confirm, Cancel, Resume; Claim, Heartbeat, Save and the stages of the runner's loop | calls the LLM gateway and the control plane's tools |
| **Agent training watches** (`storage/watches.go`, `runner/watches.go`) | watches, epochs, leases, grants | register, poll, cancel, reauthorise, expire | reads training runs through the control plane's tools |
| **Agent tool operations** (`agenttools`, `postgres/agent_tool_operations.go`) | one row per operation key | Begin, Finish, Recover | makes the agent's writes idempotent |
| **Approval of agent plans** (`runner`, `agent/internal/httpapi`, `httpapi/agent_tools.go`, `agenttools/operations.go`) | proposal and receipt of a run; sessions | propose, complete and validate, confirm, sign, verify | agent, browser and control plane, with the accounts |
| **Accounts** (`auth`) | users, sessions, failed logins, audit events | login, logout, UpdateUser, DeleteSession, BootstrapAdmin | every HTTP request |
| **Worker registry** (`workers`, `compute/worker_reporter.py`) | worker instances and sessions | register, heartbeat, stop | posts of worker processes |
| **Hardware telemetry** (`hardware`) | nodes, samples | Ingest, prune, alerts | posts of collectors |
| **Artifact store** (`artifact/store.go`, `adapters/s3artifact`) | objects by digest, caches of callers | PutFile, MaterializeVerified, Verify | used by training, deployments, datasets |
| **Test errors** (`testerrors`, `postgres/training_test_errors.go`, `ml_toolkit/error_analysis.py`) | the report that training wrote | Analyze | read by the models' page |
| **LLM gateway; frontend; ML toolkit, compute services, legacy Python persistence** | see `PROJECT.json` | | |

Hard behaviours, by component:

- *Training lifecycle*: three kinds of actors (workers, users, reapers) race on one job. A worker that lost its job
  goes on calling; the reaper acts on a list it read without a lock; a handler reads the clock before it waits for
  the row lock. Correct means: one owner at a time, no start beyond the budget, one model exactly when the job
  succeeded, one dispatch per generation, nothing changes a job that ended.
- *Outbox relay*: replicas share the rows; a process dies between publish and mark, a confirm or a mark is lost, a
  batch outlives its lock, the connection breaks, a queue is missing, and listeners of earlier calls fill up. Correct
  means: locks are honoured, a row is marked only when the broker has answered for the message, and every event is
  published in the end as long as a relay can.
- *Training worker and dispatch*: the message is acknowledged once the claim is recorded, so afterwards the only
  trace of the work is the lease; every answer can be lost although the call took effect. Correct means: a queued
  job can always still be found, and both queued and running jobs move on.
- *Agent runs*: a runner dies or stalls between announcing a paid or irreversible call and saving its result, users
  stop and confirm at any moment, a superseded runner wakes up. Correct means: no write without a confirmation of its
  own, no model round asked twice, a run believes what really happened, progress is never rewound, limits hold, and
  no run is stuck in the queue.
- *Agent tool operations*: a write, its registration and its response are three transactions, and requests are
  repeated and overlap. Correct means: executed at most once, and every definite answer is true and final.
- *Deployments*: a message is delivered again whenever a builder is cut off, so two builders may race for one build,
  and a completion may arrive after the lease ran out, the model was archived or the build was requested again.
  Correct means: compiled once, ready only with the verified engine of the holder, no inference recorded for an
  archived model, no queued build without a message, every build ends.
- *Models*: calls of the registry read, export for minutes and then write; predictions read model and policy, wait for
  a worker and are recorded later. Correct means: release numbers are unique and grow, nothing that was archived comes
  back or is served, aliases go to models that deserve them, one active policy at most, and what people submitted stays.
- *Datasets*: imports, expansions and batches publish versions of one dataset at the same time, with a build of
  minutes between reading and saving, and saves that commit without an answer. Correct means: numbered without gaps,
  nothing published twice, images that a model was evaluated with are never trained with, outcomes that are true.
- *Annotation tasks*: a lease lapses while a worker has the paid answer in a file. Correct means: paid once, confirmed
  labels are final, every task ends.
- *Provider process*: calls come back after the circuit opened, streams break off in the middle. Correct means: counts
  and cooldown are kept, and nothing that may be paid again is called safe to repeat.
- *Cards, watches, workers, hosts, accounts*: late and repeated requests, overtaking posts, overlapping logins and
  changes of access. Correct means: each is fenced by its revision, epoch, session, time stamp or lock.
- *Approval*: proposal, confirmation, receipt and write are separate requests. Correct means: what is admitted is what
  its owner saw, completed, and confirmed with a session that still stands.
- *Artifact store, test errors*: copies that end in the middle and damaged files; reports of three ages. Correct means:
  only whole files are handed out, and only figures that the report supports.

`PROJECT.json` lists each hazard at its source line, with the properties that cover it.

## 2. Modules

| Module | What it is |
|---|---|
| `TrainingJob` | Abstract: what a training job promises to the rest of the platform |
| `TrainingLifecycle` | The lifecycle, one action per handler; implements `TrainingJob` |
| `TrainingLifecycle_proofs` | Type correctness, the safety invariants, the action properties and the refinement of `TrainingJob`, proved |
| `EventDelivery` | Abstract: what a transactional outbox promises |
| `OutboxRelay`, `OutboxRelay_proofs` | Relays, rows and broker; implements `EventDelivery`; types, locks and the refinement proved |
| `TrainingDispatch`, `TrainingDispatch_proofs` | Lifecycle + event delivery + queue + workers, end to end; that no dispatch is lost, proved |
| `OperationOutcome` | Abstract: what the platform promises about a write under an operation id |
| `AgentToolOperations` | Registration, execution, response and recovery of such writes; implements `OperationOutcome` |
| `Deployment` | One deployment, its relay, its builders and the inference that uses it |
| `Deployment_proofs` | Its type correctness, invariants and fencing, proved |
| `AgentRun`, `AgentRun_proofs` | Runs of the agent service, their runners and users; relies on `OperationOutcome`; its invariants, its action property and its limits, proved |
| `DatasetVersions` | Publication of dataset versions by any number of overlapping calls |
| `DatasetImport` | The import queue and its consumers; extends `DatasetVersions` |
| `AnnotationPublication` | Batches and their coordinators; extends `DatasetVersions` |
| `AnnotationTasks` | Tasks, their worker and its files |
| `DataPlatform`, `DataPlatform_proofs` | Composes the four above; all their safety properties, proved |
| `ModelRelease` | Publication, promotion, archiving and aliases of the models of a dataset |
| `PolicyReview` | Predictions, reviews and abstention policies; extends `ModelRelease` |
| `ArtifactStore` | The store's two adapters and its caches |
| `TestErrors` | The report of a test and what is said of it |
| `ModelServing`, `ModelServing_proofs` | Composes the four above; all safety properties of the first three, proved |
| `AccountAccess` | Logins, lockout, sessions, administrators |
| `ToolApproval` | From a proposed plan to the admitted write; extends `AccountAccess` |
| `AgentWatch`, `ProviderGate`, `WorkerRegistry`, `HardwareTelemetry`, `DatasetCard` | The component of that name |
| `PlatformServices`, `PlatformServices_proofs` | Composes these with `AgentToolOperations` and the queue of `AgentRun`; their safety properties and the refinement of `OperationOutcome`, proved |
| `MC*` | The instances TLC checks |

`TrainingDispatch` EXTENDS `TrainingLifecycle` and uses its handlers unchanged; of the relay it keeps what
`EventDelivery` promises (a row is sent when due, at least once, perhaps again), which is what `OutboxRelay` is
shown to provide; that a message is returned for want of a queue is left out there, since the relay declares
its queue durable when it starts, and that relays go on is not assumed. `AgentRun` uses the actions of
`OperationOutcome` for the platform, in place of `AgentToolOperations`, which is shown to implement it.

`DataPlatform`, `ModelServing` and `PlatformServices` put components into one specification. Where components share
rows (batches, imports and expansions share `DatasetVersions`; predictions share-lock the models that the registry
archives; approvals depend on sessions and accounts) the steps of all of them interleave. Where they share nothing, a
behaviour has a *scene*: one of them acts and the others rest. Their steps commute, so no order between them is lost.

### TrainingLifecycle

One *aggregate* per job: `job` is the `jobs` row, `run` the status of its `training_runs` row, `attempts` the
`job_attempts` rows, `outbox` the job's `outbox_events`, `modelVersions` and `metrics` the rows a run produced,
`operations` the agent operation keys found in its audit events. `Repository.Update` loads an aggregate
`FOR UPDATE`, runs one handler and writes everything back in one transaction: hence one atomic action per handler.
`ReapExpired` is the exception: it lists jobs without lock (`ReapScan`) and then updates them one by one
(`ReapOne`), and an error gives up the rest (`ReapAbort`).

- *Callers.* Any call may arrive at any time with the attempt number and epoch that were once handed out, so late,
  duplicated and reordered calls are ordinary steps. In `Claim` the dispatch may be of any generation the job ever had.
- *Time.* `now` is the wall clock; a handler uses a reading up to `MaxStall` seconds old, since it reads the clock
  before it gets the row lock. The reaper compares leases with the time of its scan.
- *Names.* Attempt ids are UUIDs in the code; the model uses the attempt number, unique for a job.
- *Left out.* Payloads, artifact metadata, lineage checks, audit wording, permission checks, heartbeat telemetry,
  dataset and initial-model lookups in Create; and creating a job again under an operation key whose job was
  deleted. Artifact verification happens before the transaction and is an input: a call that fails it changes
  nothing.

### OutboxRelay

`row` is the outbox row; `relay` a process: whether its channel works, how old the clock reading of its batch is,
which events are left, and the event being published and not marked yet. Times are relative to the present and
`Elapse` ages them all by a second, so behaviours are infinite and liveness is meaningful; a time in the past stops
at the point from which no guard tells it apart. Publishing and marking are separate actions, so a crash or takeover
falls between. `Restart` is an operator's restart: the process itself never redials.

`channel` is the AMQP channel, which a relay opens once. Every call of `Publish` registers a confirm channel and a return
channel of capacity one and never takes them away, and the client's reader hands each confirm and each return to all of
them, in the order of the calls, and waits for room. So the first call reads its confirm, at the second the first
call's channel is filled, and at the third the reader stops and `Publish` waits for ever. `confirms` is how far that has
gone, whatever the number of calls (`Confirmed`); `returns`, that a return channel is full. A message that no queue
takes is returned and confirmed, and `Publish` takes either answer (`Unroutable`). The clients of the publisher are
modelled from `publisher.go` and the comment in `cmd/deployment-relay/main.go:113`, which opens a channel for every event
and limits the wait to five seconds, and so is not concerned.

### TrainingDispatch

`queue` is the RabbitMQ queue as a sequence; `nack(requeue)` returns a message to its head. A worker is idle, holds a
delivered message, trains, or reports a failure (at most twice, as `_run_train_classifier` and `_on_message` do).
`late` holds calls whose worker got a timeout; they take effect at any later time, or never. Training itself and
artifact upload are one step that succeeds or fails. After Complete the worker's last progress report is refused and
it reports a failure that is refused too: the model has these steps.

### AgentToolOperations

`record` is the stored status with the class of its HTTP code: `failed` is a 5xx, which leaves the outcome open.
`effects` counts commits of the business transaction, `trace` says that its rows still name the operation (Recover
looks for them). A request is a small program: register (`Invoke`), execute, store (`Finish`), and for a repetition
or an inquiry, recover and store. It may be `Lost` after any transaction. `Forget` is the deletion of the training
job that carries the trace.

- *A refusal has no effect.* 4xx answers of the three write tools come from before their business transaction or
  from its rollback; an error the code does not recognise is a 503 (`trainingToolStatus`). The one answer that
  replaces a committed one, the 422 for a response over 512 KiB, needs an inference result of that size.
- *Left out.* Argument digests (a repetition has the same arguments), the tools themselves; approval is in `ToolApproval`.

### AgentRun

`row` is the runs table. `runner[w]` is a runner goroutine: the stage of its loop, the run and epoch it claimed, its
copy of the state, and whether its context is still alive. Each `save` of the code is a stage of its own, because
what a runner did before it is lost if it dies there. `Beat` is the heartbeat thread. A lease is live or not: it
lapses when its runner is gone (`Lapse`) or stalls (`Stall`, a fault).

- *Writes.* A request is in `requests` from its sending until the platform handles it, in a way `OperationOutcome`
  allows; the answer, a refusal before registration, or nothing reaches the runner.
- *Operation ids* are UUIDs in the code; the model uses the run's count of tool calls at the proposal, which no other
  saved proposal of the run has.
- *Left out.* Messages (hence also that a group of reads is one call of the budget here, up to four in the code),
  token budgets, the ages of grants and receipts (their expiry may happen whenever they are looked at), events,
  conversations as rows, the age order among the runs of one owner.
- *A shut down* of the process is a crash here; the code returns without saving in that case.

### Deployment

`row` is the row in `model_deployments`; `live` says that its lease has not run out. `outbox` and `queue` hold the
requested builds by token, `builder[b]` is the process on host `b` with its unacknowledged message, `disk[b]` the
outcome files it keeps of each build, which a restarted process finds again. The worker id is the host with the number
of its starts. The relay publishes inside the transaction that locks the outbox row, so `Dispatch` is one step and
`DispatchUnmarked` the one whose commit is lost.

- *Calls.* A call whose answer is lost stays in `late` and is executed or dropped at any later time, while the builder
  calls again. After four failures the connection breaks and the message is delivered again.
- *Lease.* `Heartbeat` renews only a lease that is live, so the step leaves the row as it is; what it can do otherwise
  is fail, which is `BuildInterrupted`. `Lapse` lets the lease run out at any time, also of a builder at work.
- *Complete* checks the engine and its log against the object store; the outcomes are `good`, `invalid` (422, then
  reported as a failure) and `unreadable` (a server error). The stale read before its transaction can only give a
  refusal where the row has moved on, and builders acknowledge that as they do a repetition.
- *Left out.* Target profiles (a queue has one, so every builder matches), the order of the queue, the artifact's
  contents, other deployments of the model; Create again finds the row and changes nothing.

### DatasetVersions, DatasetImport, AnnotationPublication

`call` is one execution of `publishPlanned`: it looks its request up, reads the base version and the feedback, builds
without a lock and saves in one transaction, whose answer may be lost. Clients, import consumers and coordinators all
make such calls, and they meet in the check of the base version and in the unique request. Images are their digests;
the scanner is an outcome. An import job has attempts and a lease; its consumers crash, stall beyond the lease and lose
answers. A batch is worked on by whoever holds the advisory lock, which is lost with the session while the coordinator
works on. The split of new images is modelled by how many of them go where, at the smallest counts at which a split
can be empty. `Retry`, `Cancel` and previews may come at any time the code accepts them.

### AnnotationTasks

A task holds a claim number and a lease; the worker writes its paid answer to `resultFile` before it delivers it and
finds it again after a crash. `calls` counts payments. Left out: projects (their classes are a constant), the event log.

### ModelRelease, PolicyReview

A call of the registry is *read*, then one or two transaction steps under the locks that the code takes (`datasetLock`
and the version's row, which predictions share-lock). Publication's transaction is two steps, because it takes the
release number from rows it does not update. A prediction is resolve, decide, predict, insert with its shadow
decisions, commit. Thresholds are multiples of a rounding step: the search interpolates between scores, in fractions, and
rounds each candidate to `Steps` to the unit (10^6 in the code), halves up (`Rounded`). Left out: the package that is
exported (an outcome), images, the margin (compared like the score).

### ArtifactStore, TestErrors

An object or a cached file is absent, a part, whole or wrong (perhaps with the right size). Clients run the steps of
`PutFile`, `MaterializeReader` and `Verify`, overlap, and end anywhere; a disk damages whole files. A damaged object
of the file system makes every later `PutFile` of its content fail, since what is under a key is taken for immutable;
the bucket overwrites it. Temporary files of a process that died stay for ever. `TestErrors` computes the evidence of
each version of the trainer from a matrix of counts and what `Analyze` makes of it; averages stand for their terms. A
bundle in which two classes of equal support have changed places cannot be told from the right order: the property
says so (`Exchanged`).

### AccountAccess, ToolApproval

A login is the three statements of the code (read, count or clear, open a session), a change of access one
transaction under an advisory lock. `ToolApproval` adds the path of a write: the proposal, its completion by the
platform's defaults (which an upgrade changes), the page the user looks at, confirmation, receipt, delegation and
admission. What is signed cannot be made up. Numbers of a plan are left out, one of two values, or zero. A plan for
the backbone `color_stats` without an image size is completed with 0, passes `validate_plan`, and is refused at
approval by the tool's schema: `CompletedPlansStand` excepts it.

### AgentWatch, ProviderGate, WorkerRegistry, HardwareTelemetry, DatasetCard

- *Watches* of one user in one conversation. A poll is claim, ask, save, fenced by the watch's epoch.
- *Provider*: what begins with a request is one thing (`handled`), the status of the answer another. An error status may
  come although the work was begun; 408, 429, 500, 502, 503 and 504 are reported as safe to repeat, as in the code. An
  error of the input is reported as fatal and closes the gate for good.
- *Workers*: requests are a set, so they are lost, repeated and reordered. A late *first* registration of an older
  process takes the worker over; `docs/worker-status.md:68` promises it only of repeated ones, and so does the property.
- *Hosts*: time is counted in seconds, and the samples that arrive in one second are ordered. The constants keep the
  relations of 60, 15, 15 and 90 seconds, with which the window is exactly long enough. The history is read in buckets of
  a second, of which the last sample is kept (`Thinned`), and alerts are decided by it. Overlapping posts can make an
  alert speak of another sample than the one shown.
- *Cards*: a draft expires after 180 seconds, which nothing binds to the 105 seconds of its call, so it may be
  answered after it was given up.

## 3. Runs

| Run | Shows | Bounds and why they are enough |
|---|---|---|
| `lifecycle` | `SoleOwner`, `AttemptsAccounted`, `OneResult`, `AnnouncedOnce`, `LateCallsHarmless`, `LiveLeaseNotReaped`, refinement of `TrainingJob` | One job: aggregates do not share state except through the reaper's batch, which checks everything again. Two attempts: a superseded worker, its successor, and the budget reached. Two digests make a conflicting repetition, `MaxTime` 4 with leases of 1 lets both attempts expire, generation 3 covers retry after resume |
| `outbox` | `LockHonoured`, `EventDelivery`, every event published for which a relay is left | Two relays, two events: takeover and a batch with a second row. `LockTTL` 2 and two faults: a crash or overrun in the middle of a takeover. Retries and deliveries by both relays make the third confirm on a channel, although there are two events |
| `dispatch` | `DispatchNotLost`, and `JobsMove` from the queue on | One job, two workers and attempts, one fault of any kind at any point |
| `agent_runs` (337,000 states) | `RunsSound`, `ProgressKept`, `RunSettles` | One run (runs share only the limits, see `services`). Two runners: one superseded by another. Two rounds and two tool calls: a training plan, or a write after a read. One fault. Three epochs before users stop confirming and resuming, so a proposal can be refused, confirmed again and recovered |
| `deployment` | `CompiledOnce`, `ServedInProduction`, `BuildNotLost`, `ActivationIsFenced`, `BuildSettles` | One deployment (they share only the queue, whose order is left out). Two builders race for a message; two builds put a late call of the first against the second; two faults let a message be duplicated and a call be late |
| `data` | `DatasetsSound`, `OutcomesHonest`, `TasksSound`, `ImportsFenced`, `QueuedWorkEnds` | Scenes: *annotating* (two tasks, a worker, two faults), *publishing* (two batches, two coordinators), *expanding* (a batch against a client on the same dataset), *importing* (two imports, two consumers); one fault each. Two of a kind make the races, a second attempt or coordinator the takeovers |
| `models` (1.2 million states) | `ReleasesSound`, `StaleCallsRefused`, `PredictionsSound`, `ActivePoliciesSound`, `ArtifactsSound`, `ReportsHonest` | Scenes: *releasing* (three models of two plans, two calls), *inferring* (three predictions, two of them reviewed before, two policies, one call that may archive), *storing* (one content, two clients, either adapter), *reporting* (every test of up to four images of three classes, every format, two of the pairs kept). With three scores and three predictions a threshold can lie between scores; halves are rounded to thirds, so candidates move by rounding and the condition on the distance of scores is needed |
| `services` | `OperationsSound`, `OutcomeSpec`, `AgentQueueBounded`, `AccountsSound`, `ReportsFenced`, `GateSound`, `TelemetrySound`, `CardsSound`, `ApprovalsSound` | Nine scenes, three of them in two trials each: one operation and three requests; three runs of three owners at limits of 2, 1, 2 and 2; two watches with one poller, and one watch with two; three calls at the gate; two accounts, callers and sessions while access changes; two accounts and callers whose logins fail, one of which succeeds; one worker started twice, three of its reports under way; one resource of a host whose posts overlap and arrive in one second; two drafts and writers of a card; two proposals of one plan while sessions end; every plan once |
| `lifecycle_resume`, `dispatch_blocked`, `agent_stop`, `data_twice` | violations, see below | The smallest instances that show them |

Every property is broken by at least one plausible mutation of the code (`PROJECT.json`, "mutants"). Properties are
conjunctions of named parts (`DatasetsSound` is `VersionsSound`, `EvaluationPreserved` and `AddedClassesTrained`), each
with a comment of its own in the module.
`MaxTime`, `MaxGeneration`, `Present`, `FaultLimit`, `MaxDelay`, `MaxEpoch`, `MaxFailures`, `MaxChanges`, `MaxSequence`,
`MaxTries`, `MaxRevision`, `Overlap`, `Plans`, `Targets` and the `*Faults` are bounds of the checking, not of the code;
they are guards of the modules and any value is allowed by the theorems. What only the run leaves out is in
`MCPlatformServices` and in no specification: `OnePoller`, `OneWatch`, `LoginsSucceed`, `OneLogin`, `ThreeReports`,
`AccessChanges`, `PlansChosen` and `PlannedOnce` play a large scene in two smaller trials or bound it, and `TakenInOrder`
and `WatchesInTurn` use interchangeable ids in order. What the trials exclude (two busy pollers with two watches, logins
that fail while an administrator changes access) is covered by the theorems, for the invariants and fencing. Deadlock
is not checked where the bounded clock, generation or number of calls stops the model, and where nothing is left to
do.

### Fairness, and why the code justifies it

- Relays: `cmd/outbox-relay` loops every 500 ms for ever and continues after errors: weak fairness of `RunBatch`. A
  `Publish` that waits behind a full listener is not a step of it: nothing ends that wait. Faults (crash, lost confirm,
  failed mark, overrun lock, missing queue) are never forced and are bounded in number.
- Reaper: `runReaper` runs every 20 seconds for ever: weak fairness of `Sweep`.
- Workers: they are restarted by their supervisor and consume for ever, training terminates or fails: weak fairness
  of `Work`. Heartbeats are *not* fair: a worker that never beats is legal.
- `Restart` of a relay that hangs or is disconnected is *not* fair: the relay dials RabbitMQ once and opens one channel;
  neither a hanging `Publish` nor a failing batch ends the process, so the restart policy does not help. Therefore
  `EventuallyPublished` excepts the states in which every relay hangs, and those in which a relay without a connection goes
  on claiming what is due and failing it.
- Publishing in `TrainingDispatch` is therefore *not* fair either: `QueuedJobClaimed` speaks of dispatches that are in the
  queue or with a worker.
- The data side: consumers, coordinators and annotation workers poll for ever and are restarted, paid calls and builds
  end or fail, and leases run out. Weak fairness of `SystemStep` as a whole: as long as the platform can do something by
  itself it does something. No fairness between its processes is needed, and users need not act. `QueuedWorkEnds`
  excepts users who retry a failed batch for ever.
- Agent runners: `Start` claims every 500 ms for ever, `execute` goes on until it returns and every call in it has a
  timeout, the beat ticks every 5 seconds: weak fairness of `Claim`, `Step` and `Beat`. A lease nobody holds lapses.
  The platform need not answer, users need not act, and which answer comes is never forced.
- Deployment relay and builders: the relay's loop runs every 2 seconds for ever and redials, builders are restarted
  and consume for ever, a compilation has a time limit, and a lease that no builder works under runs out: weak fairness
  of `Dispatch`, `ExpireLease`, `Work` and `LapseUnheld`. Heartbeats are not fair. `BuildSettles` excepts an engine
  that stays unreadable: Complete answers with a server error, the builder puts the message back and claims it
  again, which renews its lease, so such a build goes on for as long as the object cannot be read.
- Time passes (`Elapse`).

### What the code does otherwise than its documentation says

1. `lifecycle_resume`: a job paused during its last attempt is accepted by Resume and queued with no attempt left.
   `Claim` refuses every delivery with ATTEMPTS_EXHAUSTED, so it stays queued for ever.
2. `dispatch_blocked`: the worker puts a message back on every RPC error, including NOT_FOUND for a deleted job and
   ATTEMPTS_EXHAUSTED. With prefetch 1 such a message returns to the head of the queue and is taken again for ever;
   the messages behind it wait.
3. `agent_stop`: stopping a running agent run only raises a flag. If the runner saves next that it waits for its user,
   the flag stays up on a run that Confirm and Resume refuse and Claim passes by; it blocks its conversation until
   the user stops it again.

4. `data_twice`: when a version is saved but its answer is lost, and the second look-up fails too, the batch is recorded
   as failed. Cancelling it frees its annotations, and a second batch publishes them again.

More that no violation run is about; the models have these steps, and the properties are stated so that they say what
remains true:

- *A training relay hangs at its third confirm* (`publisher.go:29`): the listeners of earlier calls are never drained, so
  the client's reader stops and `Publish` waits for the context of the process. README.md's at-least-once delivery then
  needs somebody to restart the relay for every two messages. The backlog gauge is set after `RunBatch` has returned
  (`cmd/outbox-relay/main.go`), so it keeps its last value. `EventuallyPublished` without its exceptions is violated.
- *An event may be marked published although no queue took it* (`publisher.go:49`): the select finds the return and the
  confirm ready and takes either. `EventDelivery` without `returned` is not implemented.
- *A disconnected relay takes work from the others*: it goes on claiming due rows and fails each, with backoff.
- *A call that is reported as safe to repeat may have been begun* (`cmd/annotation-agent/main.go:172`): 408, 429, 500, 502,
  503 and 504 are retryable whatever the provider had done, while `main.go:147` and `docs/annotation-platform.md:51`
  ("超时/断流等结果未知会隔离") isolate outcomes that are unknown. `OutcomesTold` says that apart from these answers nothing
  retryable was begun.
- *Alerts do not use all samples* (`hardware/store.go:71`): of samples that arrive in one second all but the last are
  dropped before alerts are decided, while `docs/hardware-monitoring.md:50` says "告警始终使用最近 90 秒原始数据，不依赖图表降采样".
  An unpressed sample can be lost that way, and an alert made up. `AlertsComplete` relative to every stored sample is
  violated; it is stated of the history by seconds.
- *The threshold search may miss the best threshold* where scores are only a few rounding steps apart, since candidates
  are rounded to 10^-6 (`policy_repository.go:178`): with 0.9999991 wrong and 0.9999995 right nothing is accepted. The
  claim is made of scores that are `(samples + 1) / 2` steps apart or more (`GridSeparates`).
- *The runner reads its stop flag at the top of a loop* and calls the model or a write after it (`runner.go:106`).
  Cancelling a run with an unresolved write shows it as cancelled; the operation stays open to an inquiry (`store.go:328`).

Three simplifications that no property depends on: the annotation worker puts a file aside after a 409 only, and
delivers one that is refused otherwise again every five seconds (`worker.py:122`), where the model puts every refused one
aside; callers of the artifact store share a cache by digest and look at a file and remove it in two steps
(`store.go:128`, `store.go:132`), where `LookIntoCache` is one step on a cache of each client; and a worker that trains may
already hold the next message (`queue_worker.py:441`), where the model leaves it in the queue.

## 4. Proofs

Each theorem holds for every value of the constants that the named assumptions of its modules allow; TLC evaluates
them on every run.

- *Training*: any sets of jobs, keys, reapers and workers, any attempt limit, lease, batch size, clock skew and number
  of faults (`ConstantsAssumption`, `DispatchAssumption`).
- *Operations and deployments*: any sets of operations and requests, from no assumption; any set of builders and any
  number of builds and faults (`ConstantsAssumption` of `Deployment`).
- *Outbox relay*: any sets of events and relays, any lock, backoff and age of clock readings (`ConstantsAssumption` of
  `OutboxRelay`; `NamesAssumption`: no relay or event is called as the value that stands for none).
- *Agent runs*: any sets of runs, owners, conversations and runners, any budget of rounds and tool calls and any limits
  (`ConstantsAssumption` of `AgentRun`).
- *Models*: any sets of models, plans, precisions, calls, predictions, reviews, policies, scores, targets, contents and
  clients, any tests of any classes and any limits on the pairs and classes that are kept, asked for and shown
  (`CallsAssumption`, `PoliciesAssumption`, `ModelScenesAssumption`, `TestErrorsAssumption`). Assumed are names that
  stand for no call and no policy, a positive highest score, a search with two points at least, that what was
  recorded before the first step is finite, as a table is, and that the classes are numbered and finitely many.
- *Data*: any sets of tasks, workers, callers, images, labels, batches, coordinators, jobs and consumers, and any split
  plans of whole percents that leave some to train with (`TasksAssumption`, `VersionsAssumption`,
  `PublicationAssumption`, `ImportAssumption`, `ScenesAssumption`). Assumed are the finiteness of the images that are
  annotated, that batches and jobs bear numbers, and that coordinators are not HTTP requests.
- *Services*: any sets of watches, pollers, calls, users, callers, sessions, workers, resources, dataset versions,
  drafts and proposals, and any limits and times (`WatchesAssumption`, `GateAssumption`, `AccountsAssumption`,
  `ApprovalAssumption`, `PlansAssumption`, `RegistryAssumption`, `TelemetryAssumption`, `CardAssumption`,
  `ServicesAssumption`). Assumed are that no caller or worker is called as the value that stands for none, and that the
  first administrator and the owner of the approved plans are users.

| Theorem | Establishes |
|---|---|
| `TypeCorrect` | `TypeOK` |
| `Invariance` | the inductive invariant `IInv` |
| `OwnershipIsSole`, `EveryStartCounted`, `ResultIsOne`, `EveryGenerationAnnounced` | `SoleOwner`, `AttemptsAccounted`, `OneResult`, `AnnouncedOnce` |
| `EndedJobsKept`, `LostAttemptsStayLost`, `LiveLeasesKept` | `TerminalIsFinal`, `LostOwnershipIsFinal`, `LiveLeaseNotReaped` |
| `LateCallsChangeNothing` | `LateCallsHarmless`, the first two together |
| `LifecycleImplementsJob` | `TrainingLifecycle` implements `TrainingJob` |
| `OperationsTypeCorrect`, `ExecutedAtMostOnce`, `CallersToldTheTruth` | `TypeOK`, `ExecutedOnce`, `AnswersTrue` of `AgentToolOperations` |
| `OperationsAreSound` | `OperationsSound`, the last two together |
| `OperationsImplementOutcome` | `AgentToolOperations` implements `OperationOutcome` |
| `TypesAreCorrect`, `TokensAreCompiledOnce`, `ServedModelsArePublished`, `QueuedBuildsAreFound` | `TypeOK`, `CompiledOnce`, `ServedInProduction`, `BuildNotLost` of `Deployment` |
| `ActivationsAreFenced` | `ActivationIsFenced` |
| `OutboxTypesCorrect`, `LocksAreHonoured`, `RelaysDeliver` | `TypeOK`, `LockHonoured` of `OutboxRelay`, which implements `EventDelivery` |
| `DispatchInvariance`, `DispatchesAreNotLost` | the invariant of `TrainingDispatch`, and `DispatchNotLost` |
| `RunsAreSound`, `ProgressIsKept`, `LimitsAreKept` (with `Invariance` of `AgentRun_proofs`) | `RunsSound`, `ProgressKept`, and that the limits on running and unfinished runs hold |
| `ServingInvariance` | the inductive invariant of models, releases, policies, reviews and predictions |
| `ReleasesAreSound`, `StaleCallsAreRefused` | `ReleasesSound`, `StaleCallsRefused` |
| `ActivePoliciesAreSound`, `PredictionsAreSound` | `ActivePoliciesSound`, `PredictionsSound` |
| `StoreTypesCorrect`, `ArtifactsAreSound` | `StoreTypeOK`, `ArtifactsSound` of `ArtifactStore` |
| `ReportsAreHonest` | `ReportsHonest` of `TestErrors` |
| `DataInvariance`, `DataTypesCorrect` | the inductive invariant of the data side, and `DataTypeOK` |
| `DatasetsAreSound`, `OutcomesAreHonest` | `DatasetsSound`, `OutcomesHonest` |
| `TasksAreSound`, `ImportsAreFenced` | `TasksSound`, `ImportsFenced` |
| `ServicesInvariance` | the inductive invariant of all services but the operations, in every scene |
| `ReportsAreFenced`, `AgentQueueIsBounded` | `ReportsFenced`, `AgentQueueBounded` |
| `AccountsAreSound`, `ApprovalsAreSound` | `AccountsSound`, `ApprovalsSound` |
| `GateIsSound`, `CardsAreSound` | `GateSound`, `CardsSound` |
| `MeasurementsAreSound` | `TelemetrySound` |

*Why an inductive invariant.* None of the four safety invariants is inductive alone. That the new attempt of `Claim`
does not overwrite an old one needs that the numbers issued are exactly `1..attemptCount`; that it is the only
running one needs that a queued job has none; that a model version is never added twice needs that a job with one is
not running; that Complete's key is new needs that only a succeeded attempt holds a key. `IInv` therefore says of
every job that its rows agree with each other (`RowsAgree`), its attempts with its counters (`AttemptsAgree`) and its
outbox with its generation and due time (`OutboxAgrees`).

*How it is laid out.* All three parts speak of one aggregate, and every handler changes at most one. `LocalStep`
reduces preservation to the aggregate a step touches; one lemma per handler follows. The reaper's list appears in no
part of `IInv`, since `ReapOne` checks everything again under the lock: that is the argument for why an unlocked scan
is harmless. The action properties follow from `IInv` in the same way, and so does the refinement: each handler is
mapped to its counterpart in `TrainingJob`, or to a stutter.

*Agent operations.* An answer may be given long after the execution, by a request that knows only what is stored. The
invariant follows the truth from the execution to the caller: only the request that registered an operation executes
it (`OneExecutes`); a trace is left by an effect (`Registered`); what a request is about to store is true and nobody
executes any more (`StoresTruth`); what is stored is true (`RecordsTruth`); what was answered is stored
(`AnswersStored`). That a server error can be overwritten by a recovery, and by nothing that is false, is in these.

*Deployments.* `CompiledOnce` needs to know why a second claim of the same token does not compile again. A claim is
granted on a queued row or to the process that holds it, tokens only grow (`TokensGrow`), and that process either is
still compiling, has left a result on its disk or is gone (`Spent`, `CompiledIsSpent`). Results are never overwritten
(`BuildingIsNew`), so what a late call says is still what lies on the disk of its host (`LateIsTrue`), which fences
the activation. All changes of the row are first brought into one list (`RowStep`, `StepsOfRow`); the lemmas about
the row then go through that list, and the others through the actions that touch their variable.

*Outbox relay.* `LockHonoured` says who owns a row and is not inductive: why a lock that is counted from an old clock
reading cannot lapse early is in `LocksHeld`, by which the time left of a lock and the age of the batch always make up
at least `LockTTL`. A second that passes moves one unit from the first to the second; a claim, whose reading is `stall`
seconds old, takes only locks that lapsed at least that long ago, and so none that another relay can still count on.
The refinement needs that a confirmation is held only of what is stored or was returned (`AcksAreTrue`) and that a batch holds
only rows that were recorded (`BatchesRecorded`): a row that is deleted under a relay may still be delivered. That a
backoff is a number of seconds at all, and no longer than the last, needs powers of two: they count the subsets of a
finite set.

*Dispatch.* Every step is a call of the lifecycle for one job, a step of the delivery that leaves the lifecycle alone,
or the passing of time, so `IInv` holds end to end without being proved again. What has to be added: only rows that
exist are marked published (`PublishedExist`), so the row of a new generation is unpublished; and a dispatch moves from
the row to the queue, to a worker and perhaps back, and leaves them only by a claim, or when no queued job waits for
it (`WaitingFound`). Workers that got an error put the message back, which is the step where it could be lost.

*Agent runs.* The runner whose epoch is that of the row holds the run: it works on what the row says, or is about to
save a step from it (`HoldersWork`). A runner that lost its run may still send what it had saved the intent of. Why
this sends nothing twice: an intent is saved once for each confirmation, so at most one runner ever has it in hand
(`OneSends`, for model rounds `OneAsks`), and a confirmation is used up before anything leaves (`Permitted`,
`SendsCounted`). Why a run is told the truth: a write is called rejected only when it is dead, when it is neither
requested nor can be requested by anybody (`Dead`, `TellsTrue`). That an old runner cannot rewind progress
follows from the epoch in every save (`Saves`, `Progresses`). The limits count sets of runs that need not be finite:
what was submitted is, one run at a time (`Limits`).

*Models.* A call reads, exports for minutes and writes. It remembers the revision of the row, and every write makes a
new one, so a write that still finds its revision is about what was read (`SeenOK`, `CallsReady`); the lock of the
dataset keeps the release number that a publication has computed the next one until it is written (`NextReady`), and
between two publications no number is lost (`NumbersFollow`). A prediction share-locks its version, so the status that
was checked stands when it is recorded (`SharesHeld`); a policy is in the shadow before it decides and never after
(`EventsReady`, `ShadowsReady`), so it is not asked twice. That the threshold search keeps at least as much as any
threshold at a score within its target does (`Best`) is proved for any scores, step and number of samples: the least and
greatest of a set of numbers come from the well-foundedness of the naturals. It holds as long as the grid has a point for
every sample and the two ends (`samples + 2 <= GridPoints`), and scores that differ are so far apart that the candidate
between them stays there when it is rounded (`RoundedBetween`: a candidate has at least the `(samples + 1)`th part of
the distance to either side, and rounding moves it by half a step at most). Both are conditions of the property
(`GridSeparates`); with more samples, or closer scores, the code may miss the best. Of the artifact store the type invariant is
all that is needed of a state: every step that hands out or moves a file has itself compared the bytes with the digest,
whatever other clients did before.

*Test errors.* The invariant is short: the report is the one that was written of the test, and what was last answered is
true of it (`TestErrorsInv`). The rest is counting. A sum over a finite set is a recursive function of the community
modules; that it exists, and is the same in whatever order elements are taken, is shown by the smallest table for which
it would not be (`TableExists`, `TablesAgree`), without induction over data. From there sums are split
(`PartsAdd`), renamed (`PartRenamed`) and gathered by class (`PartByClass`). Thus the errors of the classes and the counts
of the pairs are sums over the same cells of the matrix (`ConfusedSum`, `CountsOfPairs`), which is why `validate` takes
what a trainer writes (`EvidenceValid`); and what a class is predicted for is what is right of it and the pairs that name
it (`PredictedSum`), which is why macro-F1 can be made up for as soon as no pair was left out (`RecomputedTrue`). The
pairs are cut twice, by the trainer and by the answer; what is first of the first is first (`FirstOfGreater`).

*Data.* The versions are treated as a set: it stays sound when one is added (`Versions`, `AddingKeeps`), because its
number is the largest, its request is new and what it takes was not taken. All that callers have in hand between two
steps is an order, and what an order relies on, its base, never changes (`OrderSound`, `ArchiveSound`, `Grows`): so
calls survive each other's saves, and a build without lock is harmless. Calls, batches, coordinators, jobs and
consumers each add one thing. A coordinator or consumer asks for what its batch or job has frozen (`CoordinatorsOK`,
`ConsumersOK`). That the version which answers for a batch has the batch's archive, also when an HTTP request with the
same identity saved it, is not in the fingerprint: a batch on an existing dataset always has the first version's test
image in its order and a client can only order images to train with, so their prints differ (`AnswerHasVersion`).
Reservations hold as long as no session of a coordinator was lost (`LocksOK`); afterwards two may work on one batch, and
it is the request identity that keeps them from publishing it twice. That each class which a batch adds has an image
to train with is arithmetic of largest remainders (`TrainShare`). A task is queued only before its first claim
(`TaskSound`), so one worker at most predicts it (`PredictionsOwned`), and what lies in a file was paid for
(`FilesSound`). The parts that a scene does not play rest on versions that only grow.

*Services.* Each has an invariant of its own, which its own steps keep; `ServicesStepTaken` says that a step of the
platform is for each of them one of its steps or none. The queue is that of `AgentRun`, and what is proved there is
instantiated and not proved again.

- *Watches*: a poll works on what it claimed while the row moves on. While the epoch stands, a poll holds the grant of
  its watch (`PollOf`), and what it is about to save stays true, since trainings do not begin again and grants are
  added for new epochs only (`OutcomeTrue`, `GrantsNew`).
- *Accounts*: that an administrator remains is checked when a change takes its locks and relied on when it commits.
  Meanwhile nobody takes the role from another, because all such changes wait for one lock, and the operator's command,
  which does not, only gives it (`CallerSound`). The row lock keeps what the event will say of the access before.
- *Approvals*: the platform completes a plan three times, perhaps under three versions. A plan that was completed has
  every number its mode has (`PlanComplete`), and completing such a plan changes nothing (`CompleteStands`), so what is
  signed and admitted is what was on the screen. That the screen and the run mean one plan by an operation id is
  because ids are used once (`PageSound`).
- *Gate*: `active` is the number of the calls from their admission until they are done, whatever becomes of them
  (`CallsCounted`); while a probe is under way the circuit is half-open and nobody else is admitted (`ProbeHoldsGate`). What
  a caller is told follows the stage of its call and the status of the answer, if one came (`StageTold`).
- *Workers*: a report under way is no newer than its process, and one that says good-bye is its last
  (`ReportsOfProcesses`); a session that was ever registered keeps its row, so none can be new twice.
- *Measurements*: what was stamped lies within the tolerance of its arrival (`Stamped`), so a sample that arrived a short
  time ago is not old. The samples that the window shows are those that were ever stored and arrived within it, and in
  one second they have an order (`HistoryInv`), so of each second one is kept (`HistoryKept`). The walk back over them
  is a recursive function; that it exists, and stops where pressure began or a gap was too long, is shown by the first
  instant for which it would not (`WalkExists`, `WalkSound`, `WalkReaches`), without induction over data. That the
  window is long enough for the pressure, the gap before it and the age of the last sample is an assumption on the
  constants, and no more than that: 60 + 15 + 15 seconds of 90.
- *Cards*: a draft says which card and which revision it was made from, and each revision that was made from a draft is
  the one the draft says (`RevisionsFromDrafts`); a draft that was applied or given up stays so (`DraftKept`).

`PublishedAsPreviewed` and `ImportsHonest` name the fingerprint and the content of the version rather than an equal
order, since another caller's order with the same print is answered with "ok" too.

Only model-checked is liveness (`RunSettles`, `JobsMove`, `BuildSettles`, `QueuedWorkEnds` and the publishing of every
event), which the prover does not do.

`ServicesTypeOK` also bounds numbers that only the model bounds; the theorems need the types in `ServicesInv`, which leave
these bounds out.

## 5. Not modelled, and the plan

Not modelled, and why:

- *The HTTP layer, reads, listings, paging, metrics, formatting, generated code*: no state of their own.
- *LLM gateway*: forwards requests without state; the agent's side of a lost answer is in `AgentRun`.
- *Garbage collection* (`artifact/gc.go`): the guard counts references in four tables and is called by tests only;
  nothing deletes an object.
- *Numerical pipeline, artifact contents, the scanner of archives, the packages of exports*: one outcome each.
- *Frontend; the in-memory repository used in tests; the Python persistence that the control plane replaced.*
- *Of training*: payloads, audit wording, lineage checks. *Of test errors*: examples, confidences, findings in words and
  the limit of two readers.

Worth doing next, in this order:

1. The agent's conversations and messages, on which the order of runs depends.
2. The control plane's start-up and shut-down, with calls that are cut off in the middle.
