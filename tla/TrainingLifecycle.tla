------------------------- MODULE TrainingLifecycle -------------------------
(***************************************************************************)
(* The training lifecycle of the control plane: one aggregate per training *)
(* job (job row, run row, attempts, dispatch outbox, model version), every *)
(* operation a transaction that loads the aggregate FOR UPDATE, runs one   *)
(* handler on it and writes it back (postgres/training_repository.go       *)
(* Update, training/lifecycle.go).                                         *)
(*                                                                         *)
(* Workers, users and the reaper are the environment: they may call any    *)
(* handler at any time, with any attempt and execution epoch that was ever *)
(* handed out.  So a late, duplicated or reordered call is an ordinary     *)
(* step.  A handler reads the clock before it waits for the row lock, so   *)
(* its time t may be up to MaxStall old when its transaction runs.         *)
(*                                                                         *)
(* Attempt ids are random UUIDs in the code; here an attempt is named by   *)
(* its number, which the database keeps unique for a job.                  *)
(***************************************************************************)
EXTENDS Integers, Sequences, FiniteSets

CONSTANTS
    Jobs,           \* the jobs that may ever be created
    AttemptLimit,   \* the largest max_attempts a caller may ask for
    LeaseTTL,       \* the lease granted by Claim and Heartbeat
    CompletionKeys, \* completion keys a worker may send
    Digests,        \* result digests a worker may send
    MetricSteps,    \* steps of the one metric the model keeps
    OperationKeys,  \* keys of agent operations
    Reapers,        \* control plane replicas that run the reaper
    ReapLimit,      \* the batch size of a reaper scan
    MaxStall,       \* how old a handler's clock reading may be
    MaxTime,        \* bound: the clock stops here
    MaxGeneration   \* bound: no Resume beyond this dispatch generation

NoKey == "no key"

ASSUME ConstantsAssumption ==
    /\ AttemptLimit \in Nat \ {0}
    /\ NoKey \notin CompletionKeys \cup Digests
    /\ LeaseTTL \in Nat
    /\ ReapLimit \in Nat
    /\ MaxStall \in Nat
    /\ MaxTime \in Nat
    /\ MaxGeneration \in Nat

VARIABLES
    job,            \* jobs: the authoritative state of every job
    run,            \* training_runs.status
    attempts,       \* job_attempts
    outbox,         \* outbox_events of the job, in insertion order
    modelVersions,  \* number of model_versions rows of the run
    metrics,        \* training_metric_points, as <<attempt, step>>
    operations,     \* operation keys found in the job's audit events
    reaper,         \* a reaper between its scan and its updates
    now             \* wall clock, in seconds

jobVars == <<job, run, attempts, outbox, modelVersions, metrics, operations>>
vars == <<job, run, attempts, outbox, modelVersions, metrics, operations, reaper, now>>

-----------------------------------------------------------------------------
AttemptNumbers == 1..AttemptLimit
NoAttempt == 0

TerminalStatus == {"succeeded", "failed", "cancelled"}
Status == {"queued", "paused", "running"} \cup TerminalStatus
\* A row that is not there yet, and one that DeleteTrainingRun removed.
Missing == {"absent", "deleted"}

AttemptStatus == {"running", "succeeded", "failed", "fenced", "cancelled", "expired"}

Job == [status : Status \cup Missing, maxAttempts : 0..AttemptLimit,
        attemptCount : 0..AttemptLimit, generation : Nat, epoch : Nat,
        active : AttemptNumbers \cup {NoAttempt}, availableAt : Nat]
Attempt == [status : AttemptStatus \cup {"none"}, epoch : Nat, lease : Nat,
            key : CompletionKeys \cup {NoKey}, digest : Digests \cup {NoKey}]
Event == [generation : Nat, at : Nat]

NoJob(status) == [status |-> status, maxAttempts |-> 0, attemptCount |-> 0,
                  generation |-> 0, epoch |-> 0, active |-> NoAttempt, availableAt |-> 0]
UnusedAttempt == [status |-> "none", epoch |-> 0, lease |-> 0,
                  key |-> NoKey, digest |-> NoKey]
IdleReaper == [now |-> 0, ids |-> {}]

\* The rows and the reaper's batches hold values of the kinds the code declares;
\* no attempt is numbered beyond the largest budget a job can have.
TypeOK ==
    /\ job \in [Jobs -> Job]
    /\ run \in [Jobs -> Status \cup Missing]
    /\ attempts \in [Jobs -> [AttemptNumbers -> Attempt]]
    /\ outbox \in [Jobs -> Seq(Event)]
    /\ modelVersions \in [Jobs -> Nat]
    /\ metrics \in [Jobs -> SUBSET (AttemptNumbers \X MetricSteps)]
    /\ operations \in [Jobs -> SUBSET OperationKeys]
    /\ reaper \in [Reapers -> [now : Nat, ids : SUBSET Jobs]]
    /\ now \in Nat

\* Nothing has been created at time t.
InitAt(t) ==
    /\ job = [j \in Jobs |-> NoJob("absent")]
    /\ run = [j \in Jobs |-> "absent"]
    /\ attempts = [j \in Jobs |-> [n \in AttemptNumbers |-> UnusedAttempt]]
    /\ outbox = [j \in Jobs |-> <<>>]
    /\ modelVersions = [j \in Jobs |-> 0]
    /\ metrics = [j \in Jobs |-> {}]
    /\ operations = [j \in Jobs |-> {}]
    /\ reaper = [r \in Reapers |-> IdleReaper]
    /\ now = t

Init == InitAt(0)

-----------------------------------------------------------------------------
Exists(j) == job[j].status \notin Missing
Terminal(status) == status \in TerminalStatus

\* What a handler may have read from the clock before it got the row lock.
ClockReadings == {t \in 0..now : t + MaxStall >= now}

\* Mutant of Owns: any attempt of a running job is believed by its epoch.
Owns_anyAttempt(j, n, e) ==
    /\ job[j].status = "running"
    /\ attempts[j][n].epoch = e

\* currentAttempt: the caller still owns the active execution epoch.
Owns(j, n, e) ==
    /\ job[j].status = "running"
    /\ job[j].active = n
    /\ job[j].epoch = e
    /\ n \in AttemptNumbers
    /\ attempts[j][n].epoch = e
    /\ attempts[j][n].status = "running"

\* Mutant of AttemptsLeft: off by one.
AttemptsLeft_offByOne(j) == job[j].attemptCount <= job[j].maxAttempts

\* Fail and ReapExpired queue the job again only within its budget.
AttemptsLeft(j) == job[j].attemptCount < job[j].maxAttempts

ReadyEvent(generation, at) == [generation |-> generation, at |-> at]

\* 1 << min(count - 1, 6) seconds
BackoffSeconds == <<1, 2, 4, 8, 16, 32, 64>>
Backoff(count) == BackoffSeconds[IF count <= 7 THEN count ELSE 7]

\* The job row r put back in the queue, to be dispatched again from time at on.
Requeued(r, at) == [r EXCEPT !.status = "queued", !.generation = r.generation + 1,
                             !.active = NoAttempt, !.availableAt = at]

\* Mutant of Requeue: the event carries the generation before the increment.
Requeue_oldGeneration(j, r, at) ==
    /\ job' = [job EXCEPT ![j] = Requeued(r, at)]
    /\ run' = [run EXCEPT ![j] = "queued"]
    /\ outbox' = [outbox EXCEPT ![j] = Append(@, ReadyEvent(r.generation, at))]

\* Queue job j again and insert the event that dispatches its new generation.
Requeue(j, r, at) ==
    /\ job' = [job EXCEPT ![j] = Requeued(r, at)]
    /\ run' = [run EXCEPT ![j] = "queued"]
    /\ outbox' = [outbox EXCEPT ![j] = Append(@, ReadyEvent(r.generation + 1, at))]

\* End job j for good, or put it in a state only a user can leave.
Settle(j, r, status) ==
    /\ job' = [job EXCEPT ![j] = [r EXCEPT !.status = status]]
    /\ run' = [run EXCEPT ![j] = status]
    /\ UNCHANGED outbox

-----------------------------------------------------------------------------
\* Create: the job, its run and its first dispatch event in one transaction.
Create(j, max, t) ==
    /\ job[j].status = "absent"
    /\ job' = [job EXCEPT ![j] =
          [status |-> "queued", maxAttempts |-> max, attemptCount |-> 0,
           generation |-> 1, epoch |-> 0, active |-> NoAttempt, availableAt |-> t]]
    /\ run' = [run EXCEPT ![j] = "queued"]
    /\ outbox' = [outbox EXCEPT ![j] = <<ReadyEvent(1, t)>>]
    /\ UNCHANGED <<attempts, modelVersions, metrics, operations, reaper, now>>

ClaimAnswer_offByOne(j, g, t) ==
    IF ~Exists(j) THEN "not found"
    ELSE IF g # job[j].generation \/ job[j].status # "queued" THEN "obsolete"
    ELSE IF t < job[j].availableAt THEN "unavailable"
    ELSE IF job[j].attemptCount > job[j].maxAttempts THEN "exhausted"
    ELSE "claimed"

\* What Claim answers to a worker that holds a dispatch of generation g.
ClaimAnswer(j, g, t) ==
    IF ~Exists(j) THEN "not found"
    ELSE IF g # job[j].generation \/ job[j].status \in {"running", "paused"} THEN "obsolete"
    ELSE IF Terminal(job[j].status) THEN "terminal"
    ELSE IF t < job[j].availableAt THEN "unavailable"
    ELSE IF job[j].attemptCount >= job[j].maxAttempts THEN "exhausted"
    ELSE "claimed"

Claim(j, g, t) ==
    /\ ClaimAnswer(j, g, t) = "claimed"
    /\ LET n == job[j].attemptCount + 1
           e == job[j].epoch + 1
       IN  /\ job' = [job EXCEPT ![j] = [@ EXCEPT !.status = "running", !.attemptCount = n,
                                               !.epoch = e, !.active = n]]
           /\ attempts' = [attempts EXCEPT ![j][n] =
                  [status |-> "running", epoch |-> e, lease |-> t + LeaseTTL,
                   key |-> NoKey, digest |-> NoKey]]
    /\ run' = [run EXCEPT ![j] = "running"]
    /\ UNCHANGED <<outbox, modelVersions, metrics, operations, reaper, now>>

Heartbeat(j, n, e, t) ==
    /\ Owns(j, n, e)
    /\ attempts' = [attempts EXCEPT ![j][n].lease = t + LeaseTTL]
    /\ UNCHANGED <<job, run, outbox, modelVersions, metrics, operations, reaper, now>>

\* Points already stored for the attempt are kept; a call with an invalid
\* point changes nothing.
Progress(j, n, e, steps) ==
    /\ Owns(j, n, e)
    /\ metrics' = [metrics EXCEPT ![j] = @ \cup ({n} \X steps)]
    /\ UNCHANGED <<job, run, attempts, outbox, modelVersions, operations, reaper, now>>

\* Mutant of Interrupt: the attempt is left running.
Interrupt_forgotten(j, status) == UNCHANGED attempts

\* The attempt a control transition takes away from its worker, if it still runs.
Interrupt(j, status) ==
    LET n == job[j].active IN
    attempts' = IF n # NoAttempt /\ attempts[j][n].status = "running"
                THEN [attempts EXCEPT ![j][n].status = status]
                ELSE attempts

\* transitionControl, past its early returns: advance the epoch, stop the
\* running attempt, set the target.  The active attempt stays recorded.
Control(j, target) ==
    /\ Interrupt(j, IF target = "cancelled" THEN "cancelled" ELSE "fenced")
    /\ Settle(j, [job[j] EXCEPT !.epoch = @ + 1], target)
    /\ UNCHANGED <<modelVersions, metrics, reaper, now>>

Pause(j) ==
    /\ job[j].status \in {"queued", "running"}
    /\ Control(j, "paused")
    /\ UNCHANGED operations

\* Mutant of Cancel: a job that ended can be cancelled.
Cancel_ended(j) ==
    /\ Exists(j)
    /\ Control(j, "cancelled")
    /\ UNCHANGED operations

Cancel(j) ==
    /\ Exists(j) /\ ~Terminal(job[j].status)
    /\ Control(j, "cancelled")
    /\ UNCHANGED operations

\* Cancel for an agent operation: repeated under the same key it does nothing;
\* on a job that is cancelled already it only leaves the key in the audit log.
CancelOperation(j, key) ==
    /\ Exists(j)
    /\ key \notin operations[j]
    /\ operations' = [operations EXCEPT ![j] = @ \cup {key}]
    /\ \/ /\ job[j].status = "cancelled"
          /\ UNCHANGED <<job, run, attempts, outbox, modelVersions, metrics, reaper, now>>
       \/ /\ ~Terminal(job[j].status)
          /\ Control(j, "cancelled")

Resume(j, t) ==
    /\ job[j].status = "paused"
    /\ job[j].generation < MaxGeneration
    /\ Requeue(j, job[j], t)
    /\ UNCHANGED <<attempts, modelVersions, metrics, operations, reaper, now>>

\* Mutant of CompleteAnswer: the call is not asked whether its attempt
\* still owns the job.
CompleteAnswer_noFence(j, n, e, key, digest) ==
    IF ~Exists(j) THEN "not found"
    ELSE IF attempts[j][n].key = key THEN "repeated"
    ELSE IF attempts[j][n].status = "none" THEN "fenced"
    ELSE "completed"

\* What Complete answers to a call whose artifacts passed verification (outside
\* the transaction), have the right lineage and include a model: one that is
\* repeated gets the stored result, or a refusal if its digest is another one.
CompleteAnswer(j, n, e, key, digest) ==
    IF ~Exists(j) THEN "not found"
    ELSE IF attempts[j][n].key = key /\ attempts[j][n].digest # digest THEN "conflict"
    ELSE IF attempts[j][n].key = key /\ attempts[j][n].status = "succeeded" THEN "repeated"
    ELSE IF ~Owns(j, n, e) THEN "fenced"
    ELSE "completed"

Complete(j, n, e, key, digest) ==
    /\ CompleteAnswer(j, n, e, key, digest) = "completed"
    /\ attempts' = [attempts EXCEPT ![j][n] =
           [@ EXCEPT !.status = "succeeded", !.key = key, !.digest = digest]]
    /\ Settle(j, job[j], "succeeded")
    /\ modelVersions' = [modelVersions EXCEPT ![j] = @ + 1]
    /\ UNCHANGED <<metrics, operations, reaper, now>>

Fail(j, n, e, retryable, t) ==
    /\ Owns(j, n, e)
    /\ attempts' = [attempts EXCEPT ![j][n].status = "failed"]
    /\ IF retryable /\ AttemptsLeft(j)
       THEN Requeue(j, [job[j] EXCEPT !.epoch = @ + 1], t + Backoff(job[j].attemptCount))
       ELSE Settle(j, job[j], "failed")
    /\ UNCHANGED <<modelVersions, metrics, operations, reaper, now>>

-----------------------------------------------------------------------------
\* Jobs whose lease had run out at time t: jobs.lease_expires_at is the lease of
\* the active attempt while that attempt runs, and NULL otherwise.
LeaseLapsed(j, t) ==
    LET n == job[j].active IN
    /\ job[j].status = "running"
    /\ n # NoAttempt
    /\ attempts[j][n].lease < t

\* Repository.Expired: at most ReapLimit jobs, the oldest leases first, read
\* without a lock.
Scans(t) ==
    LET lapsed == {j \in Jobs : LeaseLapsed(j, t)}
        lease(j) == attempts[j][job[j].active].lease
    IN  {ids \in SUBSET lapsed :
           /\ Cardinality(ids) <= ReapLimit
           /\ ids # lapsed => Cardinality(ids) = ReapLimit
           /\ \A i \in ids, j \in lapsed \ ids : lease(i) <= lease(j)}

ReapScan(r) ==
    /\ reaper[r].ids = {}
    /\ \E t \in ClockReadings : \E ids \in Scans(t) :
         /\ ids # {}
         /\ reaper' = [reaper EXCEPT ![r] = [now |-> t, ids |-> ids]]
    /\ UNCHANGED <<jobVars, now>>

\* Mutant of Reapable: the list the scan returned is trusted.
Reapable_listed(r, j) == job[j].status = "running" /\ job[j].active # NoAttempt

\* Mutant of Reapable: a job is left alone when it has no attempt to go on with.
Reapable_lastAttempt(r, j) == LeaseLapsed(j, reaper[r].now) /\ AttemptsLeft(j)

\* The lease is checked again under the row lock, against the time of the scan.
Reapable(r, j) == LeaseLapsed(j, reaper[r].now)

\* One update of the batch.
ReapOne(r, j) ==
    LET n == job[j].active
        t == reaper[r].now
    IN  /\ j \in reaper[r].ids /\ Exists(j)
        /\ LET rest == reaper[r].ids \ {j} IN
           reaper' = [reaper EXCEPT ![r] =
              IF rest = {} THEN IdleReaper ELSE [now |-> t, ids |-> rest]]
        /\ IF Reapable(r, j)
           THEN /\ attempts' = [attempts EXCEPT ![j][n].status = "expired"]
                /\ IF AttemptsLeft(j)
                   THEN Requeue(j, [job[j] EXCEPT !.epoch = @ + 1], t)
                   ELSE Settle(j, [job[j] EXCEPT !.epoch = @ + 1, !.active = NoAttempt],
                               "failed")
           ELSE UNCHANGED <<job, run, attempts, outbox>>
        /\ UNCHANGED <<modelVersions, metrics, operations, now>>

\* An update that fails (its job was deleted, the database is gone) or a crash
\* of the control plane abandons the rest of the batch.
ReapAbort(r) ==
    /\ reaper[r].ids # {}
    /\ reaper' = [reaper EXCEPT ![r] = IdleReaper]
    /\ UNCHANGED <<jobVars, now>>

\* DeleteTrainingRun: only a failed or cancelled job without any model version.
DeleteTrainingRun(j) ==
    /\ job[j].status \in {"failed", "cancelled"}
    /\ modelVersions[j] = 0
    /\ job' = [job EXCEPT ![j] = NoJob("deleted")]
    /\ run' = [run EXCEPT ![j] = "deleted"]
    /\ attempts' = [attempts EXCEPT ![j] = [n \in AttemptNumbers |-> UnusedAttempt]]
    /\ outbox' = [outbox EXCEPT ![j] = <<>>]
    /\ metrics' = [metrics EXCEPT ![j] = {}]
    /\ operations' = [operations EXCEPT ![j] = {}]
    /\ UNCHANGED <<modelVersions, reaper, now>>

Tick ==
    /\ now < MaxTime
    /\ now' = now + 1
    /\ UNCHANGED <<jobVars, reaper>>

-----------------------------------------------------------------------------
\* The calls a worker makes for an attempt: it presents the number and epoch it
\* was given at its claim, however long ago that was.
AttemptCall(j, n) ==
    LET e == attempts[j][n].epoch IN
    \/ \E t \in ClockReadings : Heartbeat(j, n, e, t)
    \/ \E steps \in SUBSET MetricSteps : Progress(j, n, e, steps)
    \/ \E key \in CompletionKeys, digest \in Digests : Complete(j, n, e, key, digest)
    \/ \E retryable \in BOOLEAN, t \in ClockReadings : Fail(j, n, e, retryable, t)

UserCall(j) ==
    \/ \E max \in AttemptNumbers, t \in ClockReadings : Create(j, max, t)
    \/ Pause(j)
    \/ Cancel(j)
    \/ \E key \in OperationKeys : CancelOperation(j, key)
    \/ \E t \in ClockReadings : Resume(j, t)
    \/ DeleteTrainingRun(j)

ReaperStep(r) ==
    \/ ReapScan(r)
    \/ \E j \in Jobs : ReapOne(r, j)
    \/ ReapAbort(r)

Next ==
    \/ \E j \in Jobs : UserCall(j)
    \/ \E j \in Jobs, t \in ClockReadings :
         \E g \in 1..job[j].generation : Claim(j, g, t)
    \/ \E j \in Jobs, n \in AttemptNumbers : AttemptCall(j, n)
    \/ \E r \in Reapers : ReaperStep(r)
    \/ Tick

Spec == Init /\ [][Next]_vars

-----------------------------------------------------------------------------
\* Correctness

Issued(j) == {n \in AttemptNumbers : attempts[j][n].status # "none"}
Running(j) == {n \in AttemptNumbers : attempts[j][n].status = "running"}
Succeeded(j) == {n \in AttemptNumbers : attempts[j][n].status = "succeeded"}

\* A job runs exactly while one attempt runs, and that attempt is the active
\* one and holds the job's current execution epoch: whatever the order of
\* claims, control transitions, late callbacks and reaper updates, no two
\* workers own a job and no running attempt is orphaned (lifecycle.go Claim,
\* transitionControl, Fail, ReapExpired).
SoleOwner ==
    \A j \in Jobs :
        /\ Running(j) = IF job[j].status = "running" THEN {job[j].active} ELSE {}
        /\ job[j].status = "running" => attempts[j][job[j].active].epoch = job[j].epoch

\* Every start is on record and within the budget, numbered without gaps, and
\* a later attempt has a strictly later epoch, so that the epoch alone tells a
\* superseded worker from its successor (Claim; the unique constraints on
\* job_attempts never fire).
AttemptsAccounted ==
    \A j \in Jobs :
        /\ Issued(j) = 1..job[j].attemptCount
        /\ job[j].attemptCount <= job[j].maxAttempts
        /\ \A n \in Issued(j) : attempts[j][n].epoch <= job[j].epoch
        /\ \A m, n \in Issued(j) : m < n => attempts[j][m].epoch < attempts[j][n].epoch

\* A job has a model version if and only if it succeeded, and then exactly one,
\* made by the one attempt that succeeded and was active; no other attempt
\* holds a completion key (Complete, insertModelVersion, DeleteTrainingRun).
OneResult ==
    \A j \in Jobs :
        /\ modelVersions[j] = IF job[j].status = "succeeded" THEN 1 ELSE 0
        /\ Succeeded(j) = IF job[j].status = "succeeded" THEN {job[j].active} ELSE {}
        /\ \A n \in AttemptNumbers : attempts[j][n].key # NoKey => n \in Succeeded(j)

\* Every dispatch generation was announced by exactly one outbox event, in
\* order, and a queued job's current event becomes available neither before
\* the job does (its delivery would bounce) nor after it (the job would sleep)
\* (Create, Resume, Fail, ReapExpired with readyEvent).
AnnouncedOnce ==
    \A j \in Jobs :
        /\ Len(outbox[j]) = job[j].generation
        /\ \A g \in 1..Len(outbox[j]) : outbox[j][g].generation = g
        /\ job[j].status = "queued" => outbox[j][job[j].generation].at = job[j].availableAt

\* What a step may do to a job that ended.
OutcomeKept(j) ==
    Terminal(job[j].status) =>
       \/ job'[j] = job[j] /\ attempts'[j] = attempts[j] /\ metrics'[j] = metrics[j]
          /\ modelVersions'[j] = modelVersions[j] /\ outbox'[j] = outbox[j]
       \/ job'[j].status = "deleted" /\ job[j].status # "succeeded"

\* A job that ended keeps its outcome, its attempts and its model, whatever
\* calls still arrive for it; all that may follow is its deletion.
TerminalIsFinal == [][\A j \in Jobs : OutcomeKept(j)]_vars

\* What a step may do to an attempt n that is on record but does not own job j.
LostForGood(j, n) ==
    ~Owns(j, n, attempts[j][n].epoch) /\ job'[j].status # "deleted" =>
       /\ ~Owns(j, n, attempts[j][n].epoch)'
       /\ attempts'[j][n] = attempts[j][n]
       /\ \A s \in MetricSteps : <<n, s>> \in metrics'[j] => <<n, s>> \in metrics[j]

\* A worker that lost its attempt never owns it again, even when its job is
\* paused, resumed and running once more: from then on none of its calls
\* changes the lease or the metrics of the job (currentAttempt).
LostOwnershipIsFinal == [][\A j \in Jobs : \A n \in Issued(j) : LostForGood(j, n)]_vars

\* Late, repeated and reordered calls are harmless: neither those for a job that ended nor
\* those of a worker that lost its attempt change anything (currentAttempt, CompletionReplay).
LateCallsHarmless == TerminalIsFinal /\ LostOwnershipIsFinal

\* What a step may do to the lease of a running attempt.
ExpiredOnTime(j, n) ==
    attempts[j][n].status = "running" /\ attempts'[j][n].status = "expired" =>
       attempts[j][n].lease < now

\* An attempt whose lease has not run out is never expired, although the reaper
\* acts on a list of jobs it read earlier: a heartbeat between the scan and the
\* update saves the attempt, and so does a new claim (ReapExpired).
LiveLeaseNotReaped == [][\A j \in Jobs, n \in AttemptNumbers : ExpiredOnTime(j, n)]_vars

\* Users can resume every paused training job (the operation's summary in
\* api/openapi/finevision.yaml): a queued job has an attempt left to run with.
QueuedJobCanRun ==
    \A j \in Jobs : job[j].status = "queued" => job[j].attemptCount < job[j].maxAttempts

-----------------------------------------------------------------------------
\* The attempt that succeeded, where there is a model version.
ResultOf(j) ==
    IF modelVersions[j] = 0 THEN 0 ELSE CHOOSE n \in AttemptNumbers : n \in Succeeded(j)

\* The abstract specification: the phase users see is the run's, the result is
\* the attempt that succeeded.
Abstract == INSTANCE TrainingJob WITH
    phase <- run,
    budget <- [j \in Jobs |-> job[j].maxAttempts],
    starts <- [j \in Jobs |-> job[j].attemptCount],
    result <- [j \in Jobs |-> ResultOf(j)]

\* What users and the model registry see of a job is a TrainingJob: it starts
\* within its budget, one start at a time, and has a model if and only if it
\* succeeded, that of the start then running (all handlers of lifecycle.go).
AbstractSpec == Abstract!Spec
=============================================================================
