-------------------------- MODULE TrainingDispatch --------------------------
(***************************************************************************)
(* Training end to end: the lifecycle of the control plane together with   *)
(* the delivery of its outbox events, the RabbitMQ queue and the Python    *)
(* workers that consume it (compute/queue_worker.py, worker/jobs.py).      *)
(*                                                                         *)
(* A worker holds one unacknowledged message at a time.  It calls Claim,   *)
(* acknowledges the message before it trains, sends heartbeats from a      *)
(* thread, reports progress, and ends with Complete or Fail.  Any of its   *)
(* calls can time out while the control plane still executes it: it is     *)
(* then kept in `late' and executed, or not, at any later time.            *)
(*                                                                         *)
(* Outbox rows are delivered as EventDelivery allows while the queue       *)
(* exists, so that no message is returned: at least once before the row is *)
(* marked, and perhaps never, since nothing keeps a relay from stopping.   *)
(* The clock of the lifecycle stands still at Present and Elapse moves     *)
(* every timestamp one second into the past instead, so behaviours do not  *)
(* run out of time.                                                        *)
(***************************************************************************)
EXTENDS TrainingLifecycle

CONSTANTS
    Workers,     \* training worker processes
    Present,     \* bound: a reaper's batch takes less than Present seconds
    FaultLimit   \* bound: crashes, lost answers and repeated publishes

ASSUME DispatchAssumption == Present \in Nat \ {0} /\ FaultLimit \in Nat

VARIABLES
    published,  \* outbox rows marked published, as <<job, position>>
    queue,      \* the RabbitMQ queue, of dispatches <<job, generation>>
    worker,     \* the worker processes
    late,       \* calls their worker gave up on, not executed yet
    faults      \* faults so far

deliveryVars == <<published, queue, worker, late, faults>>
allVars == <<vars, deliveryVars>>

-----------------------------------------------------------------------------
Dispatches == Jobs \X (1..MaxGeneration + AttemptLimit)

IdleWorker == [at |-> "idle", job |-> NoAttempt, tag |-> 0, epoch |-> 0]
WorkerAt(at, j, tag, e) == [at |-> at, job |-> j, tag |-> tag, epoch |-> e]
Call(op, j, tag, e) == [op |-> op, job |-> j, tag |-> tag, epoch |-> e]

\* A worker that trains or reports a failure has an attempt to do it for, and
\* only dispatches of generations the job reached travel through the queue.
TypeOKDispatch ==
    /\ TypeOK
    /\ published \subseteq Dispatches
    /\ queue \in Seq(Dispatches)
    /\ \A w \in Workers :
         \/ worker[w] = IdleWorker
         \/ /\ worker[w].at = "delivered" /\ <<worker[w].job, worker[w].tag>> \in Dispatches
         \/ /\ worker[w].at \in {"training", "failing", "failing again"}
            /\ worker[w].job \in Jobs /\ worker[w].tag \in AttemptNumbers
    /\ faults \in 0..FaultLimit

DispatchInit ==
    /\ InitAt(Present)
    /\ published = {}
    /\ queue = <<>>
    /\ worker = [w \in Workers |-> IdleWorker]
    /\ late = {}
    /\ faults = 0

\* Workers that can go wrong: count the fault.
Faulty == faults < FaultLimit /\ faults' = faults + 1

Become(w, state) == worker' = [worker EXCEPT ![w] = state]

-----------------------------------------------------------------------------
\* A relay sends the event in the job's g-th outbox row when it is due; it may
\* have been sent before, when the row was not marked in time.
PublishEvent(j, g) ==
    /\ g \in 1..Len(outbox[j]) /\ <<j, g>> \notin published
    /\ outbox[j][g].at <= now
    /\ queue' = Append(queue, <<j, outbox[j][g].generation>>)
    /\ \/ published' = published \cup {<<j, g>>} /\ UNCHANGED faults
       \/ Faulty /\ UNCHANGED published
    /\ UNCHANGED <<vars, worker, late>>

\* The broker hands the first message to an idle worker (prefetch_count=1).
Deliver(w) ==
    /\ worker[w] = IdleWorker
    /\ queue # <<>>
    /\ Become(w, WorkerAt("delivered", Head(queue)[1], Head(queue)[2], 0))
    /\ queue' = Tail(queue)
    /\ UNCHANGED <<vars, published, late, faults>>

\* Mutant of Nack: the message is not requeued.
Nack_dropped(w) == Become(w, IdleWorker) /\ UNCHANGED queue

\* basic_nack(requeue=True): the message goes back to where it came from.
Nack(w) ==
    /\ queue' = <<<<worker[w].job, worker[w].tag>>>> \o queue
    /\ Become(w, IdleWorker)

\* Mutant of Answered: the message is acknowledged before the claim succeeded.
Answered_ackAlways(w, answer) == Become(w, IdleWorker) /\ UNCHANGED queue

\* What the worker does with an answer other than "claimed": an obsolete or
\* terminal dispatch is acknowledged, every error puts the message back.
Answered(w, answer) ==
    IF answer \in {"obsolete", "terminal"}
    THEN Become(w, IdleWorker) /\ UNCHANGED queue
    ELSE Nack(w)

ClaimCall(w) ==
    LET j == worker[w].job
        g == worker[w].tag
        answer == ClaimAnswer(j, g, now)
    IN  /\ worker[w].at = "delivered"
        /\ IF answer = "claimed"
           THEN /\ Claim(j, g, now)
                /\ Become(w, WorkerAt("training", j, job'[j].active, job'[j].epoch))
                /\ UNCHANGED queue
           ELSE Answered(w, answer) /\ UNCHANGED vars
        /\ UNCHANGED <<published, late, faults>>

\* The answer to Claim does not arrive, or the worker dies before it
\* acknowledges the message: the message is delivered again.
ClaimLost(w) ==
    /\ worker[w].at = "delivered"
    /\ Faulty
    /\ Nack(w)
    /\ late' = late \cup {Call("claim", worker[w].job, worker[w].tag, 0)}
    /\ UNCHANGED <<vars, published>>

-----------------------------------------------------------------------------
OwnsWork(w) == Owns(worker[w].job, worker[w].tag, worker[w].epoch)

\* HeartbeatLoop: an error is ignored, and the directive is always "continue".
Beat(w) ==
    /\ worker[w].at \in {"training", "failing", "failing again"}
    /\ Heartbeat(worker[w].job, worker[w].tag, worker[w].epoch, now)
    /\ UNCHANGED deliveryVars

\* Training goes wrong, or ReportProgress or Complete returns an error: the
\* worker reports a failure of its attempt, whatever the error was.  An error
\* before the training proper (the dataset, the weights) is reported only once.
TrainingFails(w) ==
    /\ worker[w].at = "training"
    /\ \E at \in {"failing", "failing again"} : Become(w, [worker[w] EXCEPT !.at = at])
    /\ UNCHANGED <<vars, published, queue, late, faults>>

\* Complete succeeds.  The progress report that follows it is refused, because
\* the job does not run any more, and makes the worker report a failure.
CompleteCall(w) ==
    /\ worker[w].at = "training"
    /\ \E key \in CompletionKeys, digest \in Digests :
         Complete(worker[w].job, worker[w].tag, worker[w].epoch, key, digest)
    /\ Become(w, [worker[w] EXCEPT !.at = "failing"])
    /\ UNCHANGED <<published, queue, late, faults>>

\* An error of mark_failed: it is called once more, and then the job is left to
\* the reaper.
GivesUp(w) ==
    Become(w, IF worker[w].at = "failing" THEN [worker[w] EXCEPT !.at = "failing again"]
                                          ELSE IdleWorker)

\* mark_failed in _run_train_classifier, and once more in _on_message when the
\* first call returned an error.
FailCall(w) ==
    /\ worker[w].at \in {"failing", "failing again"}
    /\ \/ /\ \E retryable \in BOOLEAN :
               Fail(worker[w].job, worker[w].tag, worker[w].epoch, retryable, now)
          /\ Become(w, IdleWorker)
       \/ /\ ~OwnsWork(w)
          /\ UNCHANGED vars
          /\ GivesUp(w)
    /\ UNCHANGED <<published, queue, late, faults>>

\* The answer to Complete or Fail does not arrive.
CallLost(w) ==
    /\ Faulty
    /\ \/ /\ worker[w].at = "training"
          /\ late' = late \cup {Call("complete", worker[w].job, worker[w].tag, worker[w].epoch)}
          /\ Become(w, [worker[w] EXCEPT !.at = "failing"])
       \/ /\ worker[w].at \in {"failing", "failing again"}
          /\ late' = late \cup {Call("fail", worker[w].job, worker[w].tag, worker[w].epoch)}
          /\ GivesUp(w)
    /\ UNCHANGED <<vars, published, queue>>

\* The worker dies while it trains and is started again.
WorkerCrash(w) ==
    /\ worker[w].at \in {"training", "failing", "failing again"}
    /\ Faulty
    /\ Become(w, IdleWorker)
    /\ UNCHANGED <<vars, published, queue, late>>

\* The control plane executes a call nobody waits for any more.
LateCall(c) ==
    /\ c \in late
    /\ late' = late \ {c}
    /\ \/ c.op = "claim" /\ Claim(c.job, c.tag, now)
       \/ /\ c.op = "complete"
          /\ \E key \in CompletionKeys, digest \in Digests :
               Complete(c.job, c.tag, c.epoch, key, digest)
       \/ /\ c.op = "fail"
          /\ \E retryable \in BOOLEAN : Fail(c.job, c.tag, c.epoch, retryable, now)
    /\ UNCHANGED <<published, queue, worker, faults>>

\* Or refuses it, or never received it.
LateCallDropped(c) ==
    /\ c \in late
    /\ late' = late \ {c}
    /\ UNCHANGED <<vars, published, queue, worker, faults>>

-----------------------------------------------------------------------------
\* A user's call.  Deleting a job deletes its outbox rows; messages that are
\* in the queue stay there.
User(j) ==
    /\ UserCall(j)
    /\ published' = IF outbox'[j] = <<>> THEN published \ ({j} \X (1..Len(outbox[j]))) ELSE published
    /\ UNCHANGED <<queue, worker, late, faults>>

\* runReaper; a deleted job in its batch makes it give up the rest.
Sweep(r) ==
    /\ \/ ReapScan(r)
       \/ \E j \in Jobs : ReapOne(r, j)
       \/ (\E j \in reaper[r].ids : ~Exists(j)) /\ ReapAbort(r)
    /\ UNCHANGED deliveryVars

\* The database, or the control plane, fails during a batch.
SweepFails(r) ==
    /\ ReapAbort(r)
    /\ Faulty
    /\ UNCHANGED <<published, queue, worker, late>>

\* One second into the past.
Earlier(t) == IF t = 0 THEN 0 ELSE t - 1

Elapse ==
    /\ \A r \in Reapers : reaper[r].ids # {} => reaper[r].now > 1
    /\ job' = [j \in Jobs |-> [job[j] EXCEPT !.availableAt = Earlier(@)]]
    /\ attempts' = [j \in Jobs |->
          [n \in AttemptNumbers |-> [attempts[j][n] EXCEPT !.lease = Earlier(@)]]]
    /\ outbox' = [j \in Jobs |->
          [g \in 1..Len(outbox[j]) |-> [outbox[j][g] EXCEPT !.at = Earlier(@)]]]
    /\ reaper' = [r \in Reapers |-> [reaper[r] EXCEPT !.now = Earlier(@)]]
    /\ UNCHANGED <<run, modelVersions, metrics, operations, now, deliveryVars>>

-----------------------------------------------------------------------------
\* What a worker does next when nothing goes wrong.
Work(w) == Deliver(w) \/ ClaimCall(w) \/ CompleteCall(w) \/ TrainingFails(w) \/ FailCall(w)

WorkerFault(w) == ClaimLost(w) \/ CallLost(w) \/ WorkerCrash(w)

DispatchNext ==
    \/ \E j \in Jobs, g \in 1..MaxGeneration + AttemptLimit : PublishEvent(j, g)
    \/ \E w \in Workers : Work(w) \/ Beat(w) \/ WorkerFault(w)
    \/ \E c \in late : LateCall(c) \/ LateCallDropped(c)
    \/ \E j \in Jobs : User(j)
    \/ \E r \in Reapers : Sweep(r) \/ SweepFails(r)
    \/ Elapse

\* Workers and reapers keep running and time keeps passing; the relays need not
\* (OutboxRelay shows when they stop).
Fairness ==
    /\ \A w \in Workers : WF_allVars(Work(w))
    /\ \A r \in Reapers : WF_allVars(Sweep(r))
    /\ WF_allVars(Elapse)

DispatchSpec == DispatchInit /\ [][DispatchNext]_allVars /\ Fairness

-----------------------------------------------------------------------------
InHand(w) == <<worker[w].job, worker[w].tag>>
Delivered == {InHand(w) : w \in {v \in Workers : worker[v].at = "delivered"}}
Queued == {queue[i] : i \in 1..Len(queue)}

\* A job that waits for a worker can be found by one: its current dispatch is
\* still to be published, in the queue, or with a worker that has not yet
\* acknowledged it.  Nothing dispatches a queued job a second time, so if this
\* failed the job would wait for ever (RunBatch, _on_message, Resume, Fail,
\* ReapExpired).
DispatchNotLost ==
    \A j \in Jobs : job[j].status = "queued" =>
        LET d == <<j, job[j].generation>> IN
        \/ \E g \in 1..Len(outbox[j]) :
             outbox[j][g].generation = job[j].generation /\ <<j, g>> \notin published
        \/ d \in Queued \cup Delivered

\* A job that is queued with attempts left does not wait for ever once its
\* dispatch is in the queue: it is claimed, or its user pauses or cancels it.
QueuedJobClaimed ==
    \A j \in Jobs :
        job[j].status = "queued" /\ AttemptsLeft(j) /\ <<j, job[j].generation>> \in Queued \cup Delivered
            ~> job[j].status # "queued"

\* RabbitMQ delivers every message at least once (README.md, architecture): the
\* message of a job that waits in the queue reaches a worker, unless the job
\* stops waiting.
EveryDispatchDelivered ==
    \A d \in Dispatches :
        d \in Queued /\ job[d[1]].status = "queued"
            ~> d \in Delivered \/ job[d[1]].status # "queued"

\* A job does not run for ever, although its worker may be gone and the only
\* trace of its claim may be the attempt row (ReapExpired).
RunningJobEnds == \A j \in Jobs : job[j].status = "running" ~> job[j].status # "running"

\* No job with attempts left whose dispatch a relay has published stays where it
\* is for ever, unless its user wants it to.
JobsMove == QueuedJobClaimed /\ RunningJobEnds
=============================================================================
