---------------------- MODULE TrainingLifecycle_proofs ----------------------
(***************************************************************************)
(* Proofs about TrainingLifecycle for all values of its constants.         *)
(*                                                                         *)
(* Jobs do not share rows, so the inductive invariant is stated for one    *)
(* aggregate: Consistent relates the job row, the run row, the attempts,   *)
(* the outbox and the model versions of a single job.  Each handler        *)
(* changes the aggregate of one job only; its lemma shows that the new     *)
(* aggregate is consistent, and OtherJobs that the remaining ones stay so. *)
(***************************************************************************)
EXTENDS TrainingLifecycle, TLAPS

RowsAgree(jb, rn, mv) ==
    /\ rn = jb.status
    /\ jb.status \in Missing => jb = NoJob(jb.status)
    /\ jb.attemptCount <= jb.maxAttempts
    /\ jb.active # NoAttempt => jb.active = jb.attemptCount
    /\ jb.status \in {"running", "succeeded"} => jb.active # NoAttempt
    /\ mv = IF jb.status = "succeeded" THEN 1 ELSE 0

AttemptsAgree(jb, at) ==
    /\ \A n \in AttemptNumbers :
         /\ at[n].status # "none" <=> n <= jb.attemptCount
         /\ at[n].status = "running" <=> jb.status = "running" /\ n = jb.active
         /\ at[n].status = "succeeded" <=> jb.status = "succeeded" /\ n = jb.active
         /\ at[n].key # NoKey => at[n].status = "succeeded"
         /\ n <= jb.attemptCount => at[n].epoch <= jb.epoch
    /\ \A m, n \in AttemptNumbers :
         m < n /\ n <= jb.attemptCount => at[m].epoch < at[n].epoch
    /\ jb.status = "running" => at[jb.active].epoch = jb.epoch

OutboxAgrees(jb, ob) ==
    /\ Len(ob) = jb.generation
    /\ \A g \in 1..Len(ob) : ob[g].generation = g
    /\ jb.status = "queued" => ob[jb.generation].at = jb.availableAt

Consistent(jb, rn, at, ob, mv) ==
    RowsAgree(jb, rn, mv) /\ AttemptsAgree(jb, at) /\ OutboxAgrees(jb, ob)

IInv ==
    /\ TypeOK
    /\ \A j \in Jobs : Consistent(job[j], run[j], attempts[j], outbox[j], modelVersions[j])

USE DEF NoAttempt, AttemptNumbers

\* Whatever the time at which nothing has been created yet.
LEMMA StartConsistent ==
  ASSUME NEW t \in Nat, InitAt(t)
  PROVE  IInv
  <1>1. TypeOK
    BY ConstantsAssumption DEF InitAt, TypeOK, NoJob, UnusedAttempt, IdleReaper, Job, Attempt,
       Status, Missing, TerminalStatus, AttemptStatus, Event
  <1>2. ASSUME NEW j \in Jobs
        PROVE  Consistent(job[j], run[j], attempts[j], outbox[j], modelVersions[j])
    BY ConstantsAssumption DEF InitAt, Consistent, RowsAgree, AttemptsAgree, OutboxAgrees, NoJob, UnusedAttempt, Missing
  <1> QED BY <1>1, <1>2 DEF IInv

LEMMA InitConsistent == Init => IInv
  BY StartConsistent DEF Init

-----------------------------------------------------------------------------
\* The aggregate of job j, in the current state.
Aggregate(j) == Consistent(job[j], run[j], attempts[j], outbox[j], modelVersions[j])

\* A step that keeps the types and changes only the aggregate of job j needs to
\* be looked at for j alone.
LEMMA OneAggregate ==
  ASSUME IInv, TypeOK', NEW j \in Jobs, Aggregate(j)',
         \A i \in Jobs \ {j} : /\ job'[i] = job[i] /\ run'[i] = run[i]
                               /\ attempts'[i] = attempts[i] /\ outbox'[i] = outbox[i]
                               /\ modelVersions'[i] = modelVersions[i]
  PROVE  IInv'
  <1>1. ASSUME NEW i \in Jobs, i # j PROVE Aggregate(i)'
    BY <1>1 DEF IInv, Aggregate
  <1> QED BY <1>1 DEF IInv, Aggregate

LEMMA CreateConsistent ==
  ASSUME IInv, NEW j \in Jobs, NEW max \in AttemptNumbers, NEW t \in Nat, Create(j, max, t)
  PROVE  IInv'
  <1> DEFINE r == [status |-> "queued", maxAttempts |-> max, attemptCount |-> 0,
                   generation |-> 1, epoch |-> 0, active |-> NoAttempt, availableAt |-> t]
  <1>1. TypeOK'
    <2>1. r \in Job
      BY ConstantsAssumption DEF Job, Status
    <2>2. <<ReadyEvent(1, t)>> \in Seq(Event)
      BY DEF Event, ReadyEvent
    <2> HIDE DEF r
    <2>3. job' = [job EXCEPT ![j] = r]
      BY DEF Create, r
    <2> QED BY <2>1, <2>2, <2>3 DEF IInv, TypeOK, Create, Status
  <1>2. Aggregate(j)'
    <2>1. /\ job'[j] = r
          /\ run'[j] = "queued"
          /\ outbox'[j] = <<ReadyEvent(1, t)>>
          /\ attempts'[j] = attempts[j] /\ modelVersions'[j] = modelVersions[j]
      BY DEF IInv, TypeOK, Create
    <2>2. Aggregate(j) /\ job[j] = NoJob("absent")
      BY DEF IInv, Aggregate, Consistent, RowsAgree, Create, Missing
    <2> QED BY <2>1, <2>2 DEF Aggregate, Consistent, RowsAgree, AttemptsAgree, OutboxAgrees,
                                 NoJob, ReadyEvent, Missing
  <1> QED BY <1>1, <1>2, OneAggregate DEF Create, IInv, TypeOK

LEMMA ClaimConsistent ==
  ASSUME IInv, NEW j \in Jobs, NEW g, NEW t \in Nat, Claim(j, g, t)
  PROVE  IInv'
  <1> DEFINE n == job[j].attemptCount + 1
             e == job[j].epoch + 1
             r == [job[j] EXCEPT !.status = "running", !.attemptCount = n, !.epoch = e, !.active = n]
             a == [status |-> "running", epoch |-> e, lease |-> t + LeaseTTL,
                   key |-> NoKey, digest |-> NoKey]
  <1>0. job[j] \in Job /\ job[j].status = "queued" /\ job[j].attemptCount < job[j].maxAttempts
    BY DEF IInv, TypeOK, Claim, ClaimAnswer, Exists, Terminal, Job, Status, TerminalStatus
  <1>1. /\ job' = [job EXCEPT ![j] = r]
        /\ attempts' = [attempts EXCEPT ![j][n] = a]
        /\ run' = [run EXCEPT ![j] = "running"]
        /\ UNCHANGED <<outbox, modelVersions, metrics, operations, reaper, now>>
    BY DEF Claim
  <1>2. n \in AttemptNumbers /\ e \in Nat
    BY <1>0, ConstantsAssumption DEF Job
  <1>3. a \in Attempt
    BY <1>2, ConstantsAssumption DEF Attempt, AttemptStatus
  <1>4. r \in Job
    <2>1. /\ "running" \in Status \cup Missing
          /\ n \in 0..AttemptLimit /\ n \in AttemptNumbers \cup {NoAttempt}
      BY <1>2 DEF Status
    <2> HIDE DEF n, e
    <2> QED BY <1>0, <1>2, <2>1 DEF Job
  <1>5. TypeOK'
    <2> HIDE DEF n, e, r, a
    <2> QED BY <1>1, <1>2, <1>3, <1>4 DEF IInv, TypeOK, Status
  <1>6. Aggregate(j)'
    <2>1. Aggregate(j) /\ attempts[j] \in [AttemptNumbers -> Attempt]
      BY DEF IInv, TypeOK, Aggregate
    <2>2. /\ job'[j] = r
          /\ attempts'[j] = [attempts[j] EXCEPT ![n] = a]
          /\ run'[j] = "running" /\ outbox'[j] = outbox[j]
          /\ modelVersions'[j] = modelVersions[j]
      BY <1>1 DEF IInv, TypeOK
    <2>3. a.status = "running" /\ a.key = NoKey /\ a.epoch = e
      OBVIOUS
    <2>4. /\ r.status = "running" /\ r.attemptCount = n /\ r.epoch = e /\ r.active = n
          /\ r.maxAttempts = job[j].maxAttempts /\ r.generation = job[j].generation
      BY <1>0 DEF Job
    <2> HIDE DEF r, a
    <2>5. \A m \in AttemptNumbers : attempts'[j][m] = IF m = n THEN a ELSE attempts[j][m]
      BY <1>2, <2>1, <2>2
    <2>6. \A m \in AttemptNumbers : attempts[j][m] \in Attempt
      BY <2>1
    <2>7. RowsAgree(r, "running", modelVersions[j])
      BY <1>0, <1>2, <2>1, <2>4 DEF Aggregate, Consistent, RowsAgree, Missing, Job
    <2>8. AttemptsAgree(r, attempts'[j])
      <3>1. AttemptsAgree(job[j], attempts[j])
        BY <2>1 DEF Aggregate, Consistent
      <3>2. job[j].attemptCount \in Nat /\ job[j].epoch \in Nat
        BY <1>0 DEF Job
      <3>3. \A m \in AttemptNumbers :
              /\ attempts'[j][m].status # "none" <=> m <= n
              /\ attempts'[j][m].status = "running" <=> m = n
              /\ attempts'[j][m].status = "succeeded" <=> FALSE
              /\ attempts'[j][m].key # NoKey => attempts'[j][m].status = "succeeded"
        BY <1>0, <2>3, <2>5, <3>1, <3>2 DEF AttemptsAgree
      <3>4. \A m \in AttemptNumbers : attempts[j][m].epoch \in Nat
        BY <2>6 DEF Attempt
      <3>5. \A m \in AttemptNumbers : m <= n => attempts'[j][m].epoch <= e
        BY <2>3, <2>5, <3>1, <3>2, <3>4 DEF AttemptsAgree
      <3>6. \A k, m \in AttemptNumbers :
              k < m /\ m <= n => attempts'[j][k].epoch < attempts'[j][m].epoch
        BY <2>3, <2>5, <3>1, <3>2, <3>4 DEF AttemptsAgree
      <3> QED BY <1>2, <2>3, <2>4, <2>5, <3>3, <3>5, <3>6 DEF AttemptsAgree
    <2>9. OutboxAgrees(r, outbox[j])
      BY <1>0, <2>1, <2>4 DEF Aggregate, Consistent, OutboxAgrees
    <2> QED BY <2>2, <2>7, <2>8, <2>9 DEF Aggregate, Consistent
  <1> QED BY <1>1, <1>5, <1>6, OneAggregate DEF IInv, TypeOK

-----------------------------------------------------------------------------
\* Constant-level lemmas on one aggregate.

StoppedStatus == {"failed", "expired", "cancelled", "fenced"}
RestingStatus == {"queued", "paused", "failed", "cancelled"}

\* Stopping one attempt leaves the rows of a job's attempts well typed.
LEMMA AttemptsStay ==
  ASSUME NEW at \in [AttemptNumbers -> Attempt], NEW n \in AttemptNumbers, NEW st \in StoppedStatus
  PROVE  [at EXCEPT ![n].status = st] \in [AttemptNumbers -> Attempt]
  <1>1. PICK a : a = [at[n] EXCEPT !.status = st]
    OBVIOUS
  <1>2. a \in Attempt
    BY <1>1 DEF Attempt, AttemptStatus, StoppedStatus
  <1>3. [at EXCEPT ![n].status = st] = [at EXCEPT ![n] = a]
    BY <1>1
  <1> QED BY <1>2, <1>3

\* When the running attempt is stopped, the attempts agree with every job row
\* that is not running or succeeded, counts the same starts and has not gone
\* back in its epoch.
LEMMA StopAttempt ==
  ASSUME NEW jb \in Job, NEW at \in [AttemptNumbers -> Attempt], AttemptsAgree(jb, at),
         jb.status = "running", jb.active \in AttemptNumbers,
         NEW r \in Job, r.status \in RestingStatus,
         r.attemptCount = jb.attemptCount, jb.epoch <= r.epoch,
         NEW st \in StoppedStatus
  PROVE  AttemptsAgree(r, [at EXCEPT ![jb.active].status = st])
  <1> DEFINE new == [at EXCEPT ![jb.active].status = st]
  <1>1. /\ jb.epoch \in Nat /\ r.epoch \in Nat /\ jb.attemptCount \in Nat
        /\ r.status \notin {"running", "succeeded"}
    BY DEF Job, RestingStatus
  <1>2. \A n \in AttemptNumbers :
          /\ at[n].epoch \in Nat
          /\ new[n].epoch = at[n].epoch
          /\ new[n].key = at[n].key
          /\ new[n].status = IF n = jb.active THEN st ELSE at[n].status
    BY DEF Attempt
  <1>3. \A n \in AttemptNumbers :
          /\ new[n].status # "none" <=> n <= jb.attemptCount
          /\ new[n].status # "running" /\ new[n].status # "succeeded"
          /\ new[n].key = NoKey
    BY <1>2 DEF AttemptsAgree, StoppedStatus
  <1>4. \A n \in AttemptNumbers : n <= jb.attemptCount => new[n].epoch <= r.epoch
    BY <1>1, <1>2 DEF AttemptsAgree
  <1>5. \A m, n \in AttemptNumbers :
          m < n /\ n <= jb.attemptCount => new[m].epoch < new[n].epoch
    BY <1>2 DEF AttemptsAgree
  <1> HIDE DEF new
  <1>6. AttemptsAgree(r, new)
    BY <1>1, <1>3, <1>4, <1>5 DEF AttemptsAgree
  <1> QED BY <1>6 DEF new

\* A job that was not running moves without its attempts.
LEMMA KeepAttempts ==
  ASSUME NEW jb \in Job, NEW at \in [AttemptNumbers -> Attempt], AttemptsAgree(jb, at),
         jb.status \in RestingStatus, NEW r \in Job, r.status \in RestingStatus,
         r.attemptCount = jb.attemptCount, jb.epoch <= r.epoch
  PROVE  AttemptsAgree(r, at)
  <1>1. jb.epoch \in Nat /\ r.epoch \in Nat
    BY DEF Job
  <1>2. \A n \in AttemptNumbers : at[n].epoch \in Nat
    BY DEF Attempt
  <1> QED BY <1>1, <1>2 DEF AttemptsAgree, RestingStatus

\* The event a requeued job inserts is the one of its new generation.
LEMMA RequeueOutbox ==
  ASSUME NEW jb \in Job, NEW ob \in Seq(Event), OutboxAgrees(jb, ob),
         NEW r \in Job, r.generation = jb.generation, NEW at \in Nat
  PROVE  /\ OutboxAgrees(Requeued(r, at), Append(ob, ReadyEvent(r.generation + 1, at)))
         /\ Append(ob, ReadyEvent(r.generation + 1, at)) \in Seq(Event)
  <1> DEFINE q == Requeued(r, at)
             ev == ReadyEvent(r.generation + 1, at)
             new == Append(ob, ev)
  <1>1. r.generation \in Nat /\ Len(ob) = r.generation
    BY DEF Job, OutboxAgrees
  <1>2. ev \in Event /\ ev.generation = r.generation + 1 /\ ev.at = at
    BY <1>1 DEF ReadyEvent, Event
  <1>3. q.generation = r.generation + 1 /\ q.availableAt = at
    BY DEF Requeued, Job
  <1> HIDE DEF ev, q
  <1>4. /\ new \in Seq(Event)
        /\ Len(new) = r.generation + 1
        /\ new[r.generation + 1] = ev
        /\ \A g \in 1..Len(ob) : new[g] = ob[g]
    BY <1>1, <1>2
  <1>5. \A g \in 1..Len(new) : new[g].generation = g
    BY <1>1, <1>2, <1>4 DEF OutboxAgrees
  <1>6. OutboxAgrees(q, new)
    BY <1>1, <1>2, <1>3, <1>4, <1>5 DEF OutboxAgrees
  <1> QED BY <1>4, <1>6 DEF q, ev

\* A job that rests, with the same starts and budget, agrees with its run row
\* and has no model version.
LEMMA RestingRows ==
  ASSUME NEW jb \in Job, jb.status \notin Missing \cup {"succeeded"}, NEW rn, NEW mv,
         RowsAgree(jb, rn, mv), NEW r \in Job, r.status \in RestingStatus,
         r.attemptCount = jb.attemptCount, r.maxAttempts = jb.maxAttempts,
         r.active \in {jb.active, NoAttempt}
  PROVE  RowsAgree(r, r.status, mv)
  BY DEF RowsAgree, RestingStatus, Missing

LEMMA RequeuedJob ==
  ASSUME NEW r \in Job, NEW at \in Nat
  PROVE  /\ Requeued(r, at) \in Job
         /\ Requeued(r, at).status = "queued"
         /\ Requeued(r, at).active = NoAttempt
         /\ Requeued(r, at).attemptCount = r.attemptCount
         /\ Requeued(r, at).maxAttempts = r.maxAttempts
         /\ Requeued(r, at).epoch = r.epoch
  <1>1. /\ "queued" \in Status \cup Missing /\ r.generation + 1 \in Nat
        /\ NoAttempt \in AttemptNumbers \cup {NoAttempt}
    BY DEF Status, Job
  <1> QED BY <1>1 DEF Requeued, Job

-----------------------------------------------------------------------------
\* The handlers that stop a job: each replaces the job row by r, whose status
\* is a resting one, and the attempts and the outbox by rows that agree with r.
LEMMA Rest ==
  ASSUME IInv, NEW j \in Jobs, job[j].status \notin Missing \cup {"succeeded"},
         NEW r \in Job, r.status \in RestingStatus,
         r.attemptCount = job[j].attemptCount, r.maxAttempts = job[j].maxAttempts,
         r.active \in {job[j].active, NoAttempt},
         NEW at \in [AttemptNumbers -> Attempt], AttemptsAgree(r, at),
         NEW ob \in Seq(Event), OutboxAgrees(r, ob),
         job' = [job EXCEPT ![j] = r], run' = [run EXCEPT ![j] = r.status],
         attempts' = [attempts EXCEPT ![j] = at], outbox' = [outbox EXCEPT ![j] = ob],
         UNCHANGED <<modelVersions, metrics, now>>,
         operations' \in [Jobs -> SUBSET OperationKeys],
         reaper' \in [Reapers -> [now : Nat, ids : SUBSET Jobs]]
  PROVE  IInv'
  <1>1. TypeOK'
    BY DEF IInv, TypeOK, RestingStatus, Status, TerminalStatus
  <1>2. Aggregate(j)'
    <2>1. /\ job'[j] = r /\ run'[j] = r.status /\ attempts'[j] = at /\ outbox'[j] = ob
          /\ modelVersions'[j] = modelVersions[j] /\ job[j] \in Job
      BY DEF IInv, TypeOK
    <2>2. RowsAgree(job[j], run[j], modelVersions[j])
      BY DEF IInv, Consistent
    <2>3. RowsAgree(r, r.status, modelVersions[j])
      BY <2>1, <2>2, RestingRows
    <2> QED BY <2>1, <2>3 DEF Aggregate, Consistent
  <1> QED BY <1>1, <1>2, OneAggregate DEF IInv, TypeOK

\* What ownership of an attempt says about its job.
LEMMA OwnerFacts ==
  ASSUME IInv, NEW j \in Jobs, NEW n, NEW e, Owns(j, n, e)
  PROVE  /\ job[j] \in Job /\ job[j].status = "running" /\ job[j].epoch = e
         /\ n \in AttemptNumbers /\ job[j].active = n /\ job[j].attemptCount = n
         /\ attempts[j] \in [AttemptNumbers -> Attempt]
         /\ attempts[j][n].status = "running" /\ attempts[j][n].epoch = e
         /\ RowsAgree(job[j], run[j], modelVersions[j])
         /\ AttemptsAgree(job[j], attempts[j])
         /\ OutboxAgrees(job[j], outbox[j]) /\ outbox[j] \in Seq(Event)
  <1>1. job[j].active = n /\ n # NoAttempt
    BY ConstantsAssumption DEF Owns
  <1> QED BY <1>1 DEF Owns, IInv, TypeOK, Consistent, RowsAgree

\* The same for a running job, whose active attempt owns it.
LEMMA RunningFacts ==
  ASSUME IInv, NEW j \in Jobs, job[j].status = "running"
  PROVE  Owns(j, job[j].active, job[j].epoch)
  <1>1. job[j] \in Job /\ job[j].active # NoAttempt
    BY DEF IInv, TypeOK, Consistent, RowsAgree
  <1>2. job[j].active \in AttemptNumbers
    BY <1>1 DEF Job
  <1>3. AttemptsAgree(job[j], attempts[j])
    BY DEF IInv, Consistent
  <1> QED BY <1>2, <1>3 DEF Owns, AttemptsAgree

LEMMA HeartbeatConsistent ==
  ASSUME IInv, NEW j \in Jobs, NEW n, NEW e, NEW t \in Nat, Heartbeat(j, n, e, t)
  PROVE  IInv'
  <1> DEFINE at == [attempts[j] EXCEPT ![n].lease = t + LeaseTTL]
  <1>1. Owns(j, n, e) /\ attempts' = [attempts EXCEPT ![j] = at]
    BY DEF Heartbeat
  <1>2. /\ job[j] \in Job /\ n \in AttemptNumbers
        /\ attempts[j] \in [AttemptNumbers -> Attempt] /\ AttemptsAgree(job[j], attempts[j])
    BY <1>1, OwnerFacts
  <1>3. t + LeaseTTL \in Nat
    BY ConstantsAssumption
  <1>4. /\ at \in [AttemptNumbers -> Attempt]
        /\ \A m \in AttemptNumbers : /\ at[m].status = attempts[j][m].status
                                     /\ at[m].epoch = attempts[j][m].epoch
                                     /\ at[m].key = attempts[j][m].key
    BY <1>2, <1>3 DEF Attempt
  <1> HIDE DEF at
  <1>5. job[j].status = "running" => job[j].active \in AttemptNumbers
    BY RunningFacts DEF Owns
  <1>6. AttemptsAgree(job[j], at)
    BY <1>2, <1>4, <1>5 DEF AttemptsAgree
  <1>7. TypeOK'
    BY <1>1, <1>4 DEF IInv, TypeOK, Heartbeat
  <1>8. Aggregate(j)'
    BY <1>1, <1>6 DEF IInv, TypeOK, Aggregate, Consistent, Heartbeat
  <1> QED BY <1>1, <1>7, <1>8, OneAggregate DEF IInv, TypeOK, Heartbeat

LEMMA ProgressConsistent ==
  ASSUME IInv, NEW j \in Jobs, NEW n, NEW e, NEW steps \in SUBSET MetricSteps,
         Progress(j, n, e, steps)
  PROVE  IInv'
  <1>1. metrics[j] \cup ({n} \X steps) \in SUBSET (AttemptNumbers \X MetricSteps)
    BY OwnerFacts DEF Progress, IInv, TypeOK
  <1>2. TypeOK'
    BY <1>1 DEF IInv, TypeOK, Progress
  <1> QED BY <1>2 DEF IInv, Progress

\* The job row jb, settled in epoch e with active attempt a and status st.
Settled(jb, e, a, st) == [jb EXCEPT !.epoch = e, !.active = a, !.status = st]

LEMMA SettledJob ==
  ASSUME NEW jb \in Job, NEW ob, OutboxAgrees(jb, ob), NEW e \in Nat,
         NEW a \in {jb.active, NoAttempt}, NEW st \in RestingStatus \ {"queued"}
  PROVE  /\ Settled(jb, e, a, st) \in Job
         /\ Settled(jb, e, a, st).status = st
         /\ Settled(jb, e, a, st).epoch = e
         /\ Settled(jb, e, a, st).active = a
         /\ Settled(jb, e, a, st).attemptCount = jb.attemptCount
         /\ Settled(jb, e, a, st).maxAttempts = jb.maxAttempts
         /\ OutboxAgrees(Settled(jb, e, a, st), ob)
  <1> DEFINE r == Settled(jb, e, a, st)
  <1>1. st \in Status \cup Missing /\ a \in AttemptNumbers \cup {NoAttempt} /\ st # "queued"
    BY DEF RestingStatus, Status, TerminalStatus, Job
  <1>2. r \in Job
    BY <1>1 DEF Job, Settled
  <1>3. /\ r.status = st /\ r.epoch = e /\ r.active = a /\ r.generation = jb.generation
        /\ r.attemptCount = jb.attemptCount /\ r.maxAttempts = jb.maxAttempts
    BY DEF Job, Settled
  <1> HIDE DEF r
  <1>4. OutboxAgrees(r, ob)
    BY <1>1, <1>3 DEF OutboxAgrees
  <1> QED BY <1>2, <1>3, <1>4 DEF r

LEMMA ControlConsistent ==
  ASSUME IInv, NEW j \in Jobs, job[j].status \in {"queued", "running", "paused"},
         NEW target \in {"paused", "cancelled"}, Control(j, target),
         operations' \in [Jobs -> SUBSET OperationKeys]
  PROVE  IInv'
  <1> DEFINE jb == job[j]
             r == Settled(jb, jb.epoch + 1, jb.active, target)
             st == IF target = "cancelled" THEN "cancelled" ELSE "fenced"
             stopped == [attempts[j] EXCEPT ![jb.active].status = st]
  <1>1. /\ jb \in Job /\ jb.epoch \in Nat /\ attempts[j] \in [AttemptNumbers -> Attempt]
        /\ AttemptsAgree(jb, attempts[j]) /\ OutboxAgrees(jb, outbox[j])
        /\ outbox[j] \in Seq(Event)
    BY DEF IInv, TypeOK, Consistent, Job
  <1>2. /\ r \in Job /\ r.status = target /\ r.epoch = jb.epoch + 1 /\ r.active = jb.active
        /\ r.attemptCount = jb.attemptCount /\ r.maxAttempts = jb.maxAttempts
        /\ OutboxAgrees(r, outbox[j])
    <2>1. jb.epoch + 1 \in Nat /\ jb.active \in {jb.active, NoAttempt}
          /\ target \in RestingStatus \ {"queued"}
      BY <1>1 DEF RestingStatus
    <2> HIDE DEF jb
    <2> QED BY <1>1, <2>1, SettledJob
  <1>3. [[jb EXCEPT !.epoch = @ + 1] EXCEPT !.status = target] = r
    BY <1>1 DEF Job, Settled
  <1>4. /\ job' = [job EXCEPT ![j] = r] /\ run' = [run EXCEPT ![j] = r.status]
        /\ outbox' = [outbox EXCEPT ![j] = outbox[j]]
        /\ Interrupt(j, st) /\ UNCHANGED <<modelVersions, metrics, reaper, now>>
    BY <1>2, <1>3 DEF Control, Settle, IInv, TypeOK
  <1>5. r.status \in RestingStatus /\ jb.status \notin Missing \cup {"succeeded"}
        /\ st \in StoppedStatus
    BY <1>2 DEF RestingStatus, Missing, StoppedStatus
  <1>6. reaper' \in [Reapers -> [now : Nat, ids : SUBSET Jobs]]
    BY <1>4 DEF IInv, TypeOK
  <1>7. PICK at \in [AttemptNumbers -> Attempt] :
          AttemptsAgree(r, at) /\ attempts' = [attempts EXCEPT ![j] = at]
    <2>1. CASE jb.status = "running"
      <3>1. jb.active \in AttemptNumbers /\ attempts[j][jb.active].status = "running"
        BY <2>1, RunningFacts DEF Owns
      <3>2. AttemptsAgree(r, stopped)
        <4>1. jb.epoch <= r.epoch
          BY <1>1, <1>2
        <4> HIDE DEF r, st, jb
        <4> QED BY <1>1, <1>2, <1>5, <2>1, <3>1, <4>1, StopAttempt
      <3>3. stopped \in [AttemptNumbers -> Attempt]
        BY <1>1, <1>5, <3>1, AttemptsStay
      <3>4. attempts' = [attempts EXCEPT ![j] = stopped]
        BY <1>4, <3>1, ConstantsAssumption DEF Interrupt
      <3> QED BY <3>2, <3>3, <3>4
    <2>2. CASE jb.status # "running"
      <3>1. AttemptsAgree(r, attempts[j])
        <4>1. jb.epoch <= r.epoch /\ jb.status \in RestingStatus
          BY <1>1, <1>2, <2>2 DEF RestingStatus
        <4> HIDE DEF r, jb
        <4> QED BY <1>1, <1>2, <1>5, <4>1, KeepAttempts
      <3>2. jb.active # NoAttempt => attempts[j][jb.active].status # "running"
        BY <1>1, <2>2 DEF AttemptsAgree, Job
      <3>3. attempts' = [attempts EXCEPT ![j] = attempts[j]]
        BY <1>4, <3>2 DEF Interrupt, IInv, TypeOK
      <3> QED BY <1>1, <3>1, <3>3
    <2> QED BY <2>1, <2>2
  <1> HIDE DEF r
  <1> QED BY <1>1, <1>2, <1>4, <1>5, <1>6, <1>7, Rest

LEMMA PauseConsistent ==
  ASSUME IInv, NEW j \in Jobs, Pause(j) PROVE IInv'
  BY ControlConsistent DEF Pause, IInv, TypeOK

LEMMA LiveStatus ==
  ASSUME IInv, NEW j \in Jobs, Exists(j), ~Terminal(job[j].status)
  PROVE  job[j].status \in {"queued", "running", "paused"}
  BY DEF IInv, TypeOK, Job, Status, Exists, Terminal

LEMMA CancelConsistent ==
  ASSUME IInv, NEW j \in Jobs, Cancel(j) PROVE IInv'
  BY ControlConsistent, LiveStatus DEF Cancel, IInv, TypeOK

LEMMA CancelOperationConsistent ==
  ASSUME IInv, NEW j \in Jobs, NEW key \in OperationKeys, CancelOperation(j, key)
  PROVE  IInv'
  <1>1. operations' \in [Jobs -> SUBSET OperationKeys]
    BY DEF CancelOperation, IInv, TypeOK
  <1>2. CASE UNCHANGED <<job, run, attempts, outbox, modelVersions, metrics, reaper, now>>
    BY <1>1, <1>2 DEF IInv, TypeOK
  <1>3. CASE ~Terminal(job[j].status) /\ Control(j, "cancelled")
    BY <1>1, <1>3, ControlConsistent, LiveStatus DEF CancelOperation
  <1> QED BY <1>2, <1>3 DEF CancelOperation

\* Requeue from a row r that differs from the job's at most in its epoch.
LEMMA RequeueConsistent ==
  ASSUME IInv, NEW j \in Jobs, job[j].status \notin Missing \cup {"succeeded"},
         NEW r \in Job, r.generation = job[j].generation,
         r.attemptCount = job[j].attemptCount, r.maxAttempts = job[j].maxAttempts,
         NEW t \in Nat, Requeue(j, r, t),
         NEW at \in [AttemptNumbers -> Attempt], AttemptsAgree(Requeued(r, t), at),
         attempts' = [attempts EXCEPT ![j] = at],
         UNCHANGED <<modelVersions, metrics, operations, now>>,
         reaper' \in [Reapers -> [now : Nat, ids : SUBSET Jobs]]
  PROVE  IInv'
  <1> DEFINE q == Requeued(r, t)
             ob == Append(outbox[j], ReadyEvent(r.generation + 1, t))
  <1>1. job[j] \in Job /\ outbox[j] \in Seq(Event) /\ OutboxAgrees(job[j], outbox[j])
    BY DEF IInv, TypeOK, Consistent
  <1>2. ob \in Seq(Event) /\ OutboxAgrees(q, ob)
    BY <1>1, RequeueOutbox
  <1>3. /\ q \in Job /\ q.status = "queued" /\ q.active = NoAttempt
        /\ q.attemptCount = job[j].attemptCount /\ q.maxAttempts = job[j].maxAttempts
    BY RequeuedJob
  <1>4. /\ job' = [job EXCEPT ![j] = q] /\ run' = [run EXCEPT ![j] = q.status]
        /\ outbox' = [outbox EXCEPT ![j] = ob]
    BY <1>3 DEF Requeue
  <1>5. /\ q.status \in RestingStatus /\ q.active \in {job[j].active, NoAttempt}
        /\ operations' \in [Jobs -> SUBSET OperationKeys]
    BY <1>3 DEF RestingStatus, IInv, TypeOK
  <1> HIDE DEF q, ob
  <1> QED BY <1>1, <1>2, <1>3, <1>4, <1>5, Rest DEF q

LEMMA ResumeConsistent ==
  ASSUME IInv, NEW j \in Jobs, NEW t \in Nat, Resume(j, t)
  PROVE  IInv'
  <1>1. /\ job[j] \in Job /\ job[j].status = "paused" /\ Requeue(j, job[j], t)
        /\ attempts[j] \in [AttemptNumbers -> Attempt] /\ AttemptsAgree(job[j], attempts[j])
        /\ attempts' = [attempts EXCEPT ![j] = attempts[j]]
        /\ reaper' \in [Reapers -> [now : Nat, ids : SUBSET Jobs]]
    BY DEF IInv, TypeOK, Consistent, Resume
  <1>2. AttemptsAgree(Requeued(job[j], t), attempts[j])
    <2> DEFINE q == Requeued(job[j], t)
    <2>1. /\ q \in Job /\ q.status \in RestingStatus
          /\ q.attemptCount = job[j].attemptCount /\ q.epoch = job[j].epoch
      BY <1>1, RequeuedJob DEF RestingStatus
    <2>2. job[j].epoch <= job[j].epoch /\ job[j].status \in RestingStatus
      BY <1>1 DEF Job, RestingStatus
    <2> HIDE DEF q
    <2>3. AttemptsAgree(q, attempts[j])
      BY <1>1, <2>1, <2>2, KeepAttempts
    <2> QED BY <2>3 DEF q
  <1>3. job[j].status \notin Missing \cup {"succeeded"}
    BY <1>1 DEF Missing
  <1> QED BY <1>1, <1>2, <1>3, RequeueConsistent DEF Resume

LEMMA CompleteConsistent ==
  ASSUME IInv, NEW j \in Jobs, NEW n \in AttemptNumbers, NEW e, NEW key \in CompletionKeys,
         NEW digest \in Digests, Complete(j, n, e, key, digest)
  PROVE  IInv'
  <1> DEFINE r == [job[j] EXCEPT !.status = "succeeded"]
             a == [attempts[j][n] EXCEPT !.status = "succeeded", !.key = key, !.digest = digest]
             at == [attempts[j] EXCEPT ![n] = a]
  <1>1. Owns(j, n, e)
    BY DEF Complete, CompleteAnswer
  <1>2. /\ job[j] \in Job /\ job[j].status = "running"
        /\ job[j].active = n /\ job[j].attemptCount = n
        /\ attempts[j] \in [AttemptNumbers -> Attempt] /\ attempts[j][n].status = "running"
        /\ RowsAgree(job[j], run[j], modelVersions[j])
        /\ AttemptsAgree(job[j], attempts[j]) /\ OutboxAgrees(job[j], outbox[j])
    BY <1>1, OwnerFacts
  <1>3. /\ job' = [job EXCEPT ![j] = r] /\ run' = [run EXCEPT ![j] = "succeeded"]
        /\ attempts' = [attempts EXCEPT ![j] = at] /\ outbox' = outbox
        /\ modelVersions' = [modelVersions EXCEPT ![j] = @ + 1]
        /\ UNCHANGED <<metrics, operations, reaper, now>>
    BY DEF Complete, Settle
  <1>4. /\ r \in Job /\ r.status = "succeeded" /\ r.active = n /\ r.attemptCount = n
        /\ r.epoch = job[j].epoch /\ r.maxAttempts = job[j].maxAttempts
        /\ r.generation = job[j].generation
    BY <1>2 DEF Job, Status, TerminalStatus
  <1>5. a \in Attempt /\ a.status = "succeeded" /\ a.epoch = attempts[j][n].epoch
    BY <1>2 DEF Attempt, AttemptStatus
  <1> HIDE DEF a, r
  <1>6. /\ at \in [AttemptNumbers -> Attempt]
        /\ \A m \in AttemptNumbers : at[m] = IF m = n THEN a ELSE attempts[j][m]
    BY <1>2, <1>5
  <1> HIDE DEF at
  <1>7. AttemptsAgree(r, at)
    <2>1. \A m \in AttemptNumbers : at[m].epoch = attempts[j][m].epoch
      BY <1>5, <1>6
    <2>2. \A m \in AttemptNumbers :
            /\ at[m].status # "none" <=> m <= n
            /\ at[m].status # "running"
            /\ at[m].status = "succeeded" <=> m = n
            /\ at[m].key # NoKey => at[m].status = "succeeded"
      BY <1>2, <1>5, <1>6 DEF AttemptsAgree
    <2> QED BY <1>2, <1>4, <2>1, <2>2 DEF AttemptsAgree
  <1>8. RowsAgree(r, "succeeded", 1) /\ modelVersions[j] = 0
    BY <1>2, <1>4 DEF RowsAgree, Missing
  <1>9. OutboxAgrees(r, outbox[j])
    BY <1>2, <1>4 DEF OutboxAgrees
  <1>10. TypeOK'
    BY <1>3, <1>4, <1>6 DEF IInv, TypeOK, Status, TerminalStatus
  <1>11. Aggregate(j)'
    <2>1. /\ job'[j] = r /\ run'[j] = "succeeded" /\ attempts'[j] = at
          /\ outbox'[j] = outbox[j] /\ modelVersions'[j] = 1
      BY <1>3, <1>8 DEF IInv, TypeOK
    <2> QED BY <1>7, <1>8, <1>9, <2>1 DEF Aggregate, Consistent
  <1> QED BY <1>3, <1>10, <1>11, OneAggregate DEF IInv, TypeOK

\* The active attempt of a running job is stopped and the job is queued again.
LEMMA StopAndRequeue ==
  ASSUME IInv, NEW j \in Jobs, job[j].status = "running", NEW st \in StoppedStatus,
         attempts' = [attempts EXCEPT ![j][job[j].active].status = st],
         NEW e \in Nat, job[j].epoch <= e, NEW t \in Nat,
         Requeue(j, [job[j] EXCEPT !.epoch = e], t),
         UNCHANGED <<modelVersions, metrics, operations, now>>,
         reaper' \in [Reapers -> [now : Nat, ids : SUBSET Jobs]]
  PROVE  IInv'
  <1> DEFINE jb == job[j]
             at == [attempts[j] EXCEPT ![jb.active].status = st]
             r == [jb EXCEPT !.epoch = e]
             q == Requeued(r, t)
  <1>1. /\ jb \in Job /\ jb.active \in AttemptNumbers /\ jb.status = "running"
        /\ attempts[j] \in [AttemptNumbers -> Attempt] /\ AttemptsAgree(jb, attempts[j])
        /\ jb.status \notin Missing \cup {"succeeded"}
    BY RunningFacts, OwnerFacts DEF Missing
  <1>2. /\ at \in [AttemptNumbers -> Attempt]
        /\ attempts' = [attempts EXCEPT ![j] = at]
    <2>1. at \in [AttemptNumbers -> Attempt]
      BY <1>1, AttemptsStay
    <2>2. attempts' = [attempts EXCEPT ![j] = at]
      OBVIOUS
    <2> QED BY <2>1, <2>2
  <1>3. /\ r \in Job /\ r.generation = jb.generation /\ r.epoch = e
        /\ r.attemptCount = jb.attemptCount /\ r.maxAttempts = jb.maxAttempts
    BY <1>1 DEF Job
  <1>4. /\ q \in Job /\ q.status \in RestingStatus
        /\ q.attemptCount = jb.attemptCount /\ jb.epoch <= q.epoch
    BY <1>3, RequeuedJob DEF RestingStatus
  <1>5. AttemptsAgree(q, at)
    <2> HIDE DEF jb, q
    <2> QED BY <1>1, <1>4, StopAttempt
  <1> HIDE DEF r, at
  <1> QED BY <1>1, <1>2, <1>3, <1>5, RequeueConsistent DEF r

\* The active attempt of a running job is stopped and the job fails for good.
LEMMA StopAndFail ==
  ASSUME IInv, NEW j \in Jobs, job[j].status = "running", NEW st \in StoppedStatus,
         attempts' = [attempts EXCEPT ![j][job[j].active].status = st],
         NEW e \in Nat, job[j].epoch <= e, NEW a \in {job[j].active, NoAttempt},
         job' = [job EXCEPT ![j] = Settled(job[j], e, a, "failed")],
         run' = [run EXCEPT ![j] = "failed"], UNCHANGED outbox,
         UNCHANGED <<modelVersions, metrics, operations, now>>,
         reaper' \in [Reapers -> [now : Nat, ids : SUBSET Jobs]]
  PROVE  IInv'
  <1> DEFINE jb == job[j]
             at == [attempts[j] EXCEPT ![jb.active].status = st]
             r == Settled(jb, e, a, "failed")
  <1>1. /\ jb \in Job /\ jb.active \in AttemptNumbers /\ jb.status = "running"
        /\ attempts[j] \in [AttemptNumbers -> Attempt] /\ AttemptsAgree(jb, attempts[j])
        /\ OutboxAgrees(jb, outbox[j]) /\ outbox[j] \in Seq(Event)
        /\ jb.status \notin Missing \cup {"succeeded"}
    BY RunningFacts, OwnerFacts DEF Missing
  <1>2. /\ at \in [AttemptNumbers -> Attempt]
        /\ attempts' = [attempts EXCEPT ![j] = at]
    <2>1. at \in [AttemptNumbers -> Attempt]
      BY <1>1, AttemptsStay
    <2>2. attempts' = [attempts EXCEPT ![j] = at]
      OBVIOUS
    <2> QED BY <2>1, <2>2
  <1>3. "failed" \in RestingStatus \ {"queued"}
    BY DEF RestingStatus
  <1>4. /\ r \in Job /\ r.status = "failed" /\ r.epoch = e /\ r.active = a
        /\ r.attemptCount = jb.attemptCount /\ r.maxAttempts = jb.maxAttempts
        /\ OutboxAgrees(r, outbox[j])
    BY <1>1, <1>3, SettledJob
  <1>5. r.status \in RestingStatus /\ jb.epoch <= r.epoch
    BY <1>3, <1>4
  <1>6. AttemptsAgree(r, at)
    <2>1. PICK old : old = attempts[j]
      OBVIOUS
    <2>2. old \in [AttemptNumbers -> Attempt] /\ AttemptsAgree(jb, old)
      BY <1>1, <2>1
    <2> HIDE DEF jb, r
    <2>3. AttemptsAgree(r, [old EXCEPT ![jb.active].status = st])
      BY <1>1, <1>4, <1>5, <2>2, StopAttempt
    <2> QED BY <2>1, <2>3
  <1>7. /\ outbox' = [outbox EXCEPT ![j] = outbox[j]]
        /\ run' = [run EXCEPT ![j] = r.status]
        /\ operations' \in [Jobs -> SUBSET OperationKeys]
    BY <1>4 DEF IInv, TypeOK
  <1> HIDE DEF r, at
  <1> QED BY <1>1, <1>2, <1>4, <1>5, <1>6, <1>7, Rest DEF r

LEMMA BackoffIsNat == ASSUME NEW count \in Nat \ {0} PROVE Backoff(count) \in Nat
  <1> DEFINE i == IF count <= 7 THEN count ELSE 7
  <1>1. i \in 1..7
    OBVIOUS
  <1> HIDE DEF i
  <1>2. i = 1 \/ i = 2 \/ i = 3 \/ i = 4 \/ i = 5 \/ i = 6 \/ i = 7
    BY <1>1
  <1>3. BackoffSeconds[i] \in Nat
    BY <1>2 DEF BackoffSeconds
  <1> QED BY <1>3 DEF Backoff, i

LEMMA FailConsistent ==
  ASSUME IInv, NEW j \in Jobs, NEW n \in AttemptNumbers, NEW e, NEW retryable \in BOOLEAN,
         NEW t \in Nat, Fail(j, n, e, retryable, t)
  PROVE  IInv'
  <1>1. /\ job[j] \in Job /\ job[j].status = "running" /\ job[j].active = n
        /\ job[j].attemptCount = n
    BY OwnerFacts DEF Fail
  <1>2. /\ attempts' = [attempts EXCEPT ![j][job[j].active].status = "failed"]
        /\ UNCHANGED <<modelVersions, metrics, operations, now>>
        /\ reaper' \in [Reapers -> [now : Nat, ids : SUBSET Jobs]]
    BY <1>1 DEF Fail, IInv, TypeOK
  <1>3. "failed" \in StoppedStatus /\ job[j].epoch \in Nat
    BY <1>1 DEF StoppedStatus, Job
  <1>4. CASE Requeue(j, [job[j] EXCEPT !.epoch = @ + 1], t + Backoff(job[j].attemptCount))
    <2>1. t + Backoff(job[j].attemptCount) \in Nat
      BY <1>1, BackoffIsNat
    <2>2. job[j].epoch + 1 \in Nat /\ job[j].epoch <= job[j].epoch + 1
      BY <1>3
    <2> DEFINE ep == job[j].epoch + 1
               at == t + Backoff(job[j].attemptCount)
    <2>3. Requeue(j, [job[j] EXCEPT !.epoch = ep], at)
      BY <1>4
    <2> HIDE DEF ep, at
    <2> QED BY <1>1, <1>2, <1>3, <2>1, <2>2, <2>3, StopAndRequeue DEF ep, at
  <1>5. CASE Settle(j, job[j], "failed")
    <2>1. Settled(job[j], job[j].epoch, job[j].active, "failed")
             = [job[j] EXCEPT !.status = "failed"]
      BY <1>1 DEF Job, Settled
    <2>2. /\ job' = [job EXCEPT ![j] = Settled(job[j], job[j].epoch, job[j].active, "failed")]
          /\ run' = [run EXCEPT ![j] = "failed"] /\ UNCHANGED outbox
      BY <1>5, <2>1 DEF Settle
    <2>3. job[j].epoch <= job[j].epoch
      BY <1>3
    <2> QED BY <1>1, <1>2, <1>3, <2>2, <2>3, StopAndFail
  <1> QED BY <1>4, <1>5 DEF Fail

LEMMA ReapScanConsistent ==
  ASSUME IInv, NEW r \in Reapers, ReapScan(r) PROVE IInv'
  <1>0. PICK t \in ClockReadings :
          \E ids \in Scans(t) : reaper' = [reaper EXCEPT ![r] = [now |-> t, ids |-> ids]]
    BY DEF ReapScan
  <1>1. PICK ids \in Scans(t) : reaper' = [reaper EXCEPT ![r] = [now |-> t, ids |-> ids]]
    BY <1>0
  <1>2. t \in Nat /\ ids \in SUBSET Jobs
    BY <1>1 DEF ClockReadings, Scans
  <1>3. TypeOK'
    BY <1>1, <1>2 DEF IInv, TypeOK, ReapScan, jobVars
  <1> QED BY <1>3 DEF IInv, ReapScan, jobVars

LEMMA ReapAbortConsistent ==
  ASSUME IInv, NEW r \in Reapers, ReapAbort(r) PROVE IInv'
  <1>1. TypeOK'
    BY DEF IInv, TypeOK, ReapAbort, jobVars, IdleReaper
  <1> QED BY <1>1 DEF IInv, ReapAbort, jobVars

LEMMA ReapOneConsistent ==
  ASSUME IInv, NEW r \in Reapers, NEW j \in Jobs, ReapOne(r, j) PROVE IInv'
  <1> DEFINE t == reaper[r].now
             e == job[j].epoch + 1
  <1>1. /\ reaper[r] \in [now : Nat, ids : SUBSET Jobs] /\ t \in Nat
        /\ job[j] \in Job /\ e \in Nat /\ job[j].epoch <= e
    BY DEF IInv, TypeOK, Job
  <1>2. reaper' \in [Reapers -> [now : Nat, ids : SUBSET Jobs]]
    BY <1>1 DEF ReapOne, IInv, TypeOK, IdleReaper
  <1>3. CASE Reapable(r, j)
    <2>1. /\ job[j].status = "running" /\ "expired" \in StoppedStatus
          /\ attempts' = [attempts EXCEPT ![j][job[j].active].status = "expired"]
          /\ UNCHANGED <<modelVersions, metrics, operations, now>>
      BY <1>3 DEF ReapOne, Reapable, LeaseLapsed, StoppedStatus
    <2>2. CASE AttemptsLeft(j)
      <3>1. Requeue(j, [job[j] EXCEPT !.epoch = e], t)
        BY <1>3, <2>2 DEF ReapOne
      <3> HIDE DEF t, e
      <3> QED BY <1>1, <1>2, <2>1, <3>1, StopAndRequeue
    <2>3. CASE ~AttemptsLeft(j)
      <3>1. Settle(j, [job[j] EXCEPT !.epoch = e, !.active = NoAttempt], "failed")
        BY <1>3, <2>3 DEF ReapOne
      <3>2. Settled(job[j], e, NoAttempt, "failed")
              = [[job[j] EXCEPT !.epoch = e, !.active = NoAttempt] EXCEPT !.status = "failed"]
        BY <1>1 DEF Job, Settled
      <3>3. /\ job' = [job EXCEPT ![j] = Settled(job[j], e, NoAttempt, "failed")]
            /\ run' = [run EXCEPT ![j] = "failed"] /\ UNCHANGED outbox
        BY <3>1, <3>2 DEF Settle
      <3> HIDE DEF t, e
      <3> QED BY <1>1, <1>2, <2>1, <3>3, StopAndFail
    <2> QED BY <2>2, <2>3
  <1>4. CASE ~Reapable(r, j)
    <2>1. UNCHANGED jobVars /\ UNCHANGED now
      BY <1>4 DEF ReapOne, jobVars
    <2> QED BY <1>2, <2>1 DEF IInv, TypeOK, jobVars
  <1> QED BY <1>3, <1>4

LEMMA DeleteTrainingRunConsistent ==
  ASSUME IInv, NEW j \in Jobs, DeleteTrainingRun(j) PROVE IInv'
  <1> DEFINE r == NoJob("deleted")
             at == [n \in AttemptNumbers |-> UnusedAttempt]
  <1>1. r \in Job /\ at \in [AttemptNumbers -> Attempt]
    BY ConstantsAssumption DEF NoJob, Job, Missing, UnusedAttempt, Attempt
  <1>2. /\ job' = [job EXCEPT ![j] = r] /\ run' = [run EXCEPT ![j] = "deleted"]
        /\ attempts' = [attempts EXCEPT ![j] = at] /\ outbox' = [outbox EXCEPT ![j] = <<>>]
        /\ modelVersions[j] = 0
    BY DEF DeleteTrainingRun
  <1> HIDE DEF r, at
  <1>3. TypeOK'
    BY <1>1, <1>2 DEF IInv, TypeOK, DeleteTrainingRun, Missing
  <1>4. Aggregate(j)'
    <2>1. /\ job'[j] = r /\ run'[j] = "deleted" /\ attempts'[j] = at /\ outbox'[j] = <<>>
          /\ modelVersions'[j] = 0
      BY <1>2 DEF IInv, TypeOK, DeleteTrainingRun
    <2> QED BY <2>1, ConstantsAssumption
            DEF r, at, Aggregate, Consistent, RowsAgree, AttemptsAgree, OutboxAgrees, NoJob,
                UnusedAttempt, Missing
  <1> QED BY <1>2, <1>3, <1>4, OneAggregate DEF IInv, TypeOK, DeleteTrainingRun

-----------------------------------------------------------------------------
\* Every step keeps the inductive invariant.
LEMMA NextConsistent == IInv /\ [Next]_vars => IInv'
  <1> SUFFICES ASSUME IInv, [Next]_vars PROVE IInv'
    OBVIOUS
  <1>1. ClockReadings \subseteq Nat
    BY DEF ClockReadings
  <1>2. ASSUME NEW j \in Jobs, UserCall(j) PROVE IInv'
    BY <1>1, <1>2, CreateConsistent, PauseConsistent, CancelConsistent,
       CancelOperationConsistent, ResumeConsistent, DeleteTrainingRunConsistent DEF UserCall
  <1>3. ASSUME NEW j \in Jobs, NEW t \in ClockReadings, NEW g, Claim(j, g, t) PROVE IInv'
    BY <1>1, <1>3, ClaimConsistent
  <1>4. ASSUME NEW j \in Jobs, NEW n \in AttemptNumbers, AttemptCall(j, n) PROVE IInv'
    BY <1>1, <1>4, HeartbeatConsistent, ProgressConsistent, CompleteConsistent, FailConsistent
    DEF AttemptCall
  <1>5. ASSUME NEW r \in Reapers, ReaperStep(r) PROVE IInv'
    BY <1>5, ReapScanConsistent, ReapOneConsistent, ReapAbortConsistent DEF ReaperStep
  <1>6. CASE Tick
    BY <1>6 DEF Tick, IInv, TypeOK, jobVars
  <1>7. CASE UNCHANGED vars
    BY <1>7 DEF vars, IInv, TypeOK
  <1> QED BY <1>2, <1>3, <1>4, <1>5, <1>6, <1>7 DEF Next

\* The rows of every aggregate agree with each other in every reachable state.
THEOREM Invariance == Spec => []IInv
  BY InitConsistent, NextConsistent, PTL DEF Spec

\* Every variable keeps its type, in particular no attempt is ever numbered
\* beyond the limit and no counter runs below zero.
THEOREM TypeCorrect == Spec => []TypeOK
  <1>1. IInv => TypeOK
    BY DEF IInv
  <1> QED BY <1>1, Invariance, PTL

\* No two workers ever own one job and no running attempt is orphaned.
THEOREM OwnershipIsSole == Spec => []SoleOwner
  <1>1. IInv => SoleOwner
    <2> SUFFICES ASSUME IInv, NEW j \in Jobs
                 PROVE  /\ Running(j) = IF job[j].status = "running" THEN {job[j].active} ELSE {}
                        /\ job[j].status = "running" => attempts[j][job[j].active].epoch = job[j].epoch
      BY DEF SoleOwner
    <2>1. AttemptsAgree(job[j], attempts[j])
      BY DEF IInv, Consistent
    <2>2. job[j].status = "running" => job[j].active \in AttemptNumbers
      BY RunningFacts DEF Owns
    <2> QED BY <2>1, <2>2 DEF AttemptsAgree, Running
  <1> QED BY <1>1, Invariance, PTL

\* No job starts more often than its budget allows, its attempts are numbered
\* without gaps and each of them has a later epoch than the one before.
THEOREM EveryStartCounted == Spec => []AttemptsAccounted
  <1>1. IInv => AttemptsAccounted
    <2> SUFFICES ASSUME IInv, NEW j \in Jobs
                 PROVE  /\ Issued(j) = 1..job[j].attemptCount
                        /\ job[j].attemptCount <= job[j].maxAttempts
                        /\ \A n \in Issued(j) : attempts[j][n].epoch <= job[j].epoch
                        /\ \A m, n \in Issued(j) :
                             m < n => attempts[j][m].epoch < attempts[j][n].epoch
      BY DEF AttemptsAccounted
    <2>1. /\ AttemptsAgree(job[j], attempts[j]) /\ job[j].attemptCount <= job[j].maxAttempts
          /\ job[j].attemptCount \in 0..AttemptLimit
      BY DEF IInv, Consistent, RowsAgree, TypeOK, Job
    <2>2. \A n \in AttemptNumbers : n \in Issued(j) <=> n <= job[j].attemptCount
      BY <2>1 DEF AttemptsAgree, Issued
    <2>3. Issued(j) = 1..job[j].attemptCount
      BY <2>1, <2>2, ConstantsAssumption DEF Issued
    <2> QED BY <2>1, <2>2, <2>3 DEF AttemptsAgree, Issued
  <1> QED BY <1>1, Invariance, PTL

\* A job has exactly one model version when it succeeded and none otherwise, and
\* only the attempt it succeeded with holds a completion key.
THEOREM ResultIsOne == Spec => []OneResult
  <1>1. IInv => OneResult
    <2> SUFFICES ASSUME IInv, NEW j \in Jobs
                 PROVE  /\ modelVersions[j] = IF job[j].status = "succeeded" THEN 1 ELSE 0
                        /\ Succeeded(j) = IF job[j].status = "succeeded"
                                          THEN {job[j].active} ELSE {}
                        /\ \A n \in AttemptNumbers :
                             attempts[j][n].key # NoKey => n \in Succeeded(j)
      BY DEF OneResult
    <2>1. /\ AttemptsAgree(job[j], attempts[j])
          /\ RowsAgree(job[j], run[j], modelVersions[j]) /\ job[j] \in Job
      BY DEF IInv, Consistent, TypeOK
    <2>2. job[j].status = "succeeded" => job[j].active \in AttemptNumbers
      BY <2>1 DEF RowsAgree, Job
    <2> QED BY <2>1, <2>2 DEF AttemptsAgree, RowsAgree, Succeeded
  <1> QED BY <1>1, Invariance, PTL

\* Every dispatch generation of a job has exactly one outbox event, and the
\* event of a queued job is due when the job is.
THEOREM EveryGenerationAnnounced == Spec => []AnnouncedOnce
  <1>1. IInv => AnnouncedOnce
    BY DEF IInv, Consistent, OutboxAgrees, AnnouncedOnce
  <1> QED BY <1>1, Invariance, PTL

-----------------------------------------------------------------------------
\* The steps of the lifecycle: what no step does to a job that ended, to an attempt that was
\* lost, to a lease that still runs; and that every step is a step of TrainingJob or leaves it
\* unchanged.  LocalStep reduces each of them to the calls made for a single job.

\* No row of job j changes.
Untouched(j) ==
    /\ job'[j] = job[j] /\ run'[j] = run[j] /\ attempts'[j] = attempts[j]
    /\ outbox'[j] = outbox[j] /\ modelVersions'[j] = modelVersions[j]
    /\ metrics'[j] = metrics[j]

\* A call made for job j.
CallFor(j) ==
    \/ UserCall(j)
    \/ \E t \in ClockReadings, g \in Nat : Claim(j, g, t)
    \/ \E n \in AttemptNumbers : AttemptCall(j, n)
    \/ \E r \in Reapers : ReapOne(r, j)

LEMMA CallTouchesOne ==
  ASSUME IInv, NEW i \in Jobs, CallFor(i), NEW j \in Jobs, i # j
  PROVE  Untouched(j)
  <1> USE DEF IInv, TypeOK, Untouched, Requeue, Settle
  <1>1. ASSUME UserCall(i) PROVE Untouched(j)
    BY <1>1 DEF UserCall, Create, Pause, Cancel, CancelOperation, Resume, DeleteTrainingRun,
                Control, Interrupt
  <1>2. ASSUME NEW t, NEW g, Claim(i, g, t) PROVE Untouched(j)
    BY <1>2 DEF Claim
  <1>3. ASSUME NEW n, AttemptCall(i, n) PROVE Untouched(j)
    BY <1>3 DEF AttemptCall, Heartbeat, Progress, Complete, Fail
  <1>4. ASSUME NEW r, ReapOne(r, i) PROVE Untouched(j)
    BY <1>4 DEF ReapOne
  <1> QED BY <1>1, <1>2, <1>3, <1>4 DEF CallFor

\* A step leaves job j alone or is a call for it.
LEMMA LocalStep ==
  ASSUME IInv, [Next]_vars, NEW j \in Jobs
  PROVE  Untouched(j) \/ CallFor(j)
  <1>1. CASE UNCHANGED jobVars
    BY <1>1 DEF jobVars, Untouched
  <1>2. ASSUME NEW i \in Jobs, CallFor(i) PROVE Untouched(j) \/ CallFor(j)
    BY <1>2, CallTouchesOne
  <1>3. CASE Next
    <2>1. ASSUME NEW i \in Jobs, NEW t \in ClockReadings, NEW g \in 1..job[i].generation,
                 Claim(i, g, t)
          PROVE  CallFor(i)
      <3>1. g \in Nat
        BY DEF IInv, TypeOK, Job
      <3> QED BY <2>1, <3>1 DEF CallFor
    <2>2. ASSUME NEW r \in Reapers, ReaperStep(r)
          PROVE  UNCHANGED jobVars \/ \E i \in Jobs : CallFor(i)
      BY <2>2 DEF ReaperStep, ReapScan, ReapAbort, CallFor
    <2>3. CASE Tick
      BY <2>3, <1>1 DEF Tick
    <2> QED BY <1>1, <1>2, <1>3, <2>1, <2>2, <2>3 DEF Next, CallFor
  <1> QED BY <1>1, <1>3 DEF vars, jobVars

-----------------------------------------------------------------------------
LEMMA EndedJobKept ==
  ASSUME IInv, [Next]_vars, NEW j \in Jobs PROVE OutcomeKept(j)
  <1> SUFFICES ASSUME Terminal(job[j].status), CallFor(j) PROVE OutcomeKept(j)
    BY LocalStep DEF OutcomeKept, Untouched
  <1>0. job[j].status \in {"succeeded", "failed", "cancelled"}
    BY DEF Terminal, TerminalStatus
  <1>1. CASE UserCall(j)
    <2>1. CASE DeleteTrainingRun(j)
      <3>1. job'[j] = NoJob("deleted") /\ job[j].status # "succeeded"
        BY <2>1 DEF DeleteTrainingRun, IInv, TypeOK
      <3> QED BY <3>1 DEF OutcomeKept, NoJob
    <2>2. ASSUME NEW key, CancelOperation(j, key) PROVE OutcomeKept(j)
      BY <2>2 DEF CancelOperation, OutcomeKept
    <2> QED BY <1>0, <1>1, <2>1, <2>2 DEF UserCall, Create, Pause, Cancel, Resume
  <1>2. ASSUME NEW t, NEW g, Claim(j, g, t) PROVE FALSE
    BY <1>0, <1>2 DEF Claim, ClaimAnswer, Terminal, TerminalStatus
  <1>3. ASSUME NEW n, AttemptCall(j, n) PROVE FALSE
    BY <1>0, <1>3 DEF AttemptCall, Heartbeat, Progress, Complete, CompleteAnswer, Fail, Owns
  <1>4. ASSUME NEW r, ReapOne(r, j) PROVE OutcomeKept(j)
    BY <1>0, <1>4 DEF ReapOne, Reapable, LeaseLapsed, OutcomeKept
  <1> QED BY <1>1, <1>2, <1>3, <1>4 DEF CallFor

\* A job that succeeded, failed or was cancelled keeps its outcome, attempts,
\* metrics and model in every step but its deletion.
THEOREM EndedJobsKept == Spec => TerminalIsFinal
  <1>1. IInv /\ [Next]_vars => [\A j \in Jobs : OutcomeKept(j)]_vars
    BY EndedJobKept
  <1> QED BY <1>1, Invariance, PTL DEF Spec, TerminalIsFinal

-----------------------------------------------------------------------------
\* An attempt on record that does not own its job has stopped.
LEMMA LostHasStopped ==
  ASSUME IInv, NEW j \in Jobs, NEW n \in Issued(j), ~Owns(j, n, attempts[j][n].epoch)
  PROVE  n \in AttemptNumbers /\ attempts[j][n].status \notin {"none", "running"}
  <1>1. /\ AttemptsAgree(job[j], attempts[j]) /\ n \in AttemptNumbers
        /\ attempts[j][n].status # "none"
    BY DEF IInv, Consistent, Issued
  <1> QED BY <1>1 DEF AttemptsAgree, Owns

\* The metrics of attempt n of job j do not grow.
NoNewMetrics(j, n) == \A s \in MetricSteps : <<n, s>> \in metrics'[j] => <<n, s>> \in metrics[j]

\* No call for a job, other than its deletion, changes an attempt that stopped.
LEMMA StoppedAttemptKept ==
  ASSUME IInv, NEW j \in Jobs, NEW n \in AttemptNumbers,
         attempts[j][n].status \notin {"none", "running"}, CallFor(j),
         job'[j].status # "deleted"
  PROVE  attempts'[j][n] = attempts[j][n] /\ NoNewMetrics(j, n)
  <1> DEFINE Kept == attempts'[j][n] = attempts[j][n] /\ NoNewMetrics(j, n)
  <1>0. /\ attempts \in [Jobs -> [AttemptNumbers -> Attempt]]
        /\ metrics \in [Jobs -> SUBSET (AttemptNumbers \X MetricSteps)]
        /\ job \in [Jobs -> Job] /\ AttemptsAgree(job[j], attempts[j])
    BY DEF IInv, TypeOK, Consistent
  <1>1. ASSUME NEW m, m # n, NEW a, attempts' = [attempts EXCEPT ![j][m] = a] \/ attempts' = attempts,
               metrics' = metrics
        PROVE  Kept
    BY <1>0, <1>1 DEF NoNewMetrics
  <1>2. ASSUME NEW m, m # n, metrics' = [metrics EXCEPT ![j] = @ \cup ({m} \X MetricSteps)]
        PROVE  NoNewMetrics(j, n)
    BY <1>0, <1>2 DEF NoNewMetrics
  <1>3. ASSUME UserCall(j) PROVE Kept
    <2>1. ASSUME NEW target, Control(j, target) PROVE Kept
      <3>1. /\ metrics' = metrics
            /\ \/ attempts' = attempts
               \/ /\ job[j].active # n
                  /\ \E a : attempts' = [attempts EXCEPT ![j][job[j].active] = a]
        BY <2>1 DEF Control, Interrupt
      <3> QED BY <1>1, <3>1 DEF NoNewMetrics
    <2>2. ASSUME DeleteTrainingRun(j) PROVE FALSE
      BY <1>0, <2>2 DEF DeleteTrainingRun, NoJob
    <2> QED BY <1>3, <2>1, <2>2 DEF UserCall, Create, Pause, Cancel, CancelOperation, Resume,
                                    NoNewMetrics
  <1>4. ASSUME NEW t, NEW g, Claim(j, g, t) PROVE Kept
    <2>1. job[j].attemptCount + 1 # n
      BY <1>0 DEF AttemptsAgree, Job
    <2> QED BY <1>1, <1>4, <2>1 DEF Claim
  <1>5. ASSUME NEW m \in AttemptNumbers, AttemptCall(j, m) PROVE Kept
    <2>1. ASSUME NEW e, Owns(j, m, e) PROVE m # n
      BY <2>1 DEF Owns
    <2>2. ASSUME NEW e, NEW t, Heartbeat(j, m, e, t) PROVE Kept
      BY <1>0, <2>1, <2>2 DEF Heartbeat, NoNewMetrics
    <2>3. ASSUME NEW e, NEW steps \in SUBSET MetricSteps, Progress(j, m, e, steps) PROVE Kept
      BY <1>0, <2>1, <2>3 DEF Progress, NoNewMetrics
    <2>4. ASSUME NEW e, NEW key, NEW digest, Complete(j, m, e, key, digest) PROVE Kept
      BY <1>0, <2>1, <2>4 DEF Complete, CompleteAnswer, NoNewMetrics
    <2>5. ASSUME NEW e, NEW retryable, NEW t, Fail(j, m, e, retryable, t) PROVE Kept
      BY <1>0, <2>1, <2>5 DEF Fail, NoNewMetrics
    <2> QED BY <1>5, <2>2, <2>3, <2>4, <2>5 DEF AttemptCall
  <1>6. ASSUME NEW r, ReapOne(r, j) PROVE Kept
    <2>1. CASE Reapable(r, j)
      <3>1. job[j].active # n
        BY <2>1, RunningFacts DEF Reapable, LeaseLapsed, Owns
      <3>2. attempts' = [attempts EXCEPT ![j][job[j].active].status = "expired"] /\ metrics' = metrics
        BY <1>6, <2>1 DEF ReapOne
      <3> QED BY <1>0, <3>1, <3>2 DEF NoNewMetrics
    <2> QED BY <1>6, <2>1 DEF ReapOne, NoNewMetrics
  <1> QED BY <1>3, <1>4, <1>5, <1>6 DEF CallFor

\* An attempt that was paused, cancelled, failed or expired away never gets its
\* job, its lease or its metrics back.
THEOREM LostAttemptsStayLost == Spec => LostOwnershipIsFinal
  <1>1. ASSUME IInv, [Next]_vars, NEW j \in Jobs, NEW n \in Issued(j)
        PROVE  LostForGood(j, n)
    <2> SUFFICES ASSUME ~Owns(j, n, attempts[j][n].epoch), job'[j].status # "deleted"
                 PROVE  /\ ~Owns(j, n, attempts[j][n].epoch)'
                        /\ attempts'[j][n] = attempts[j][n] /\ NoNewMetrics(j, n)
      BY DEF LostForGood, NoNewMetrics
    <2>1. n \in AttemptNumbers /\ attempts[j][n].status \notin {"none", "running"}
      BY <1>1, LostHasStopped
    <2>2. attempts'[j][n] = attempts[j][n] /\ NoNewMetrics(j, n)
      BY <1>1, <2>1, LocalStep, StoppedAttemptKept DEF Untouched, NoNewMetrics
    <2> QED BY <2>1, <2>2 DEF Owns
  <1>2. IInv /\ [Next]_vars => [\A j \in Jobs : \A n \in Issued(j) : LostForGood(j, n)]_vars
    BY <1>1
  <1> QED BY <1>2, Invariance, PTL DEF Spec, LostOwnershipIsFinal

\* Late calls change neither a job that ended nor an attempt that was lost.
THEOREM LateCallsChangeNothing == Spec => LateCallsHarmless
  BY EndedJobsKept, LostAttemptsStayLost DEF LateCallsHarmless

-----------------------------------------------------------------------------
\* A reaper works with a time that has passed.
ScanPast == \A r \in Reapers : reaper[r].now <= now

LEMMA ScanPastInvariant == Spec => []ScanPast
  <1>1. Init => ScanPast
    BY DEF Init, InitAt, ScanPast, IdleReaper
  <1>2. ASSUME IInv, ScanPast, [Next]_vars PROVE ScanPast'
    <2> USE DEF ScanPast
    <2>1. /\ reaper \in [Reapers -> [now : Nat, ids : SUBSET Jobs]] /\ now \in Nat
      BY <1>2 DEF IInv, TypeOK
    <2>2. ASSUME NEW r \in Reapers, ReapScan(r) PROVE ScanPast'
      <3>1. PICK t \in ClockReadings : \E ids : reaper' = [reaper EXCEPT ![r] = [now |-> t, ids |-> ids]]
        BY <2>2 DEF ReapScan
      <3> QED BY <1>2, <2>1, <2>2, <3>1 DEF ReapScan, ClockReadings
    <2>3. ASSUME NEW r \in Reapers, NEW j, ReapOne(r, j) PROVE ScanPast'
      <3>1. /\ now' = now
            /\ \E ids : reaper' = [reaper EXCEPT ![r] = [now |-> reaper[r].now, ids |-> ids]]
               \/ reaper' = [reaper EXCEPT ![r] = IdleReaper]
        BY <2>3 DEF ReapOne
      <3> QED BY <1>2, <2>1, <3>1 DEF IdleReaper
    <2>4. ASSUME NEW r \in Reapers, ReapAbort(r) PROVE ScanPast'
      BY <1>2, <2>1, <2>4 DEF ReapAbort, IdleReaper
    <2>5. CASE Tick
      BY <1>2, <2>1, <2>5 DEF Tick
    <2>6. CASE UNCHANGED <<reaper, now>>
      BY <1>2, <2>6
    <2>7. ASSUME NEW j, UserCall(j) PROVE UNCHANGED <<reaper, now>>
      BY <2>7 DEF UserCall, Create, Pause, Cancel, CancelOperation, Resume, DeleteTrainingRun,
                  Control
    <2>8. ASSUME NEW j, NEW n, AttemptCall(j, n) PROVE UNCHANGED <<reaper, now>>
      BY <2>8 DEF AttemptCall, Heartbeat, Progress, Complete, Fail
    <2>9. ASSUME NEW j, NEW g, NEW t, Claim(j, g, t) PROVE UNCHANGED <<reaper, now>>
      BY <2>9 DEF Claim
    <2> QED BY <1>2, <2>2, <2>3, <2>4, <2>5, <2>6, <2>7, <2>8, <2>9 DEF Next, ReaperStep, vars
  <1> QED BY <1>1, <1>2, Invariance, PTL DEF Spec

\* A heartbeat, or a new claim, that is in time saves an attempt from a reaper
\* that listed its job earlier.
THEOREM LiveLeasesKept == Spec => LiveLeaseNotReaped
  <1>1. ASSUME IInv, ScanPast, [Next]_vars, NEW j \in Jobs, NEW n \in AttemptNumbers
        PROVE  ExpiredOnTime(j, n)
    <2> SUFFICES ASSUME attempts[j][n].status = "running", attempts'[j][n].status = "expired"
                 PROVE  attempts[j][n].lease < now
      BY DEF ExpiredOnTime
    <2>1. /\ attempts \in [Jobs -> [AttemptNumbers -> Attempt]]
          /\ reaper \in [Reapers -> [now : Nat, ids : SUBSET Jobs]] /\ now \in Nat
          /\ AttemptsAgree(job[j], attempts[j])
          /\ attempts[j][n] \in Attempt
      <3>1. /\ attempts \in [Jobs -> [AttemptNumbers -> Attempt]]
            /\ reaper \in [Reapers -> [now : Nat, ids : SUBSET Jobs]] /\ now \in Nat
        BY <1>1 DEF IInv, TypeOK
      <3>2. AttemptsAgree(job[j], attempts[j])
        BY <1>1 DEF IInv, Consistent
      <3>3. attempts[j][n] \in Attempt
        BY <1>1, <3>1
      <3> QED BY <3>1, <3>2, <3>3
    <2>2. CallFor(j)
      BY <1>1, LocalStep DEF Untouched
    <2>3. ASSUME NEW m, NEW st \in AttemptStatus \ {"expired"},
                 attempts' = [attempts EXCEPT ![j][m].status = st]
          PROVE  FALSE
      BY <2>1, <2>3 DEF Attempt
    <2>4. ASSUME UserCall(j) PROVE FALSE
      <3>1. ASSUME NEW target, Control(j, target) PROVE FALSE
        BY <2>3, <3>1 DEF Control, Interrupt, AttemptStatus
      <3>2. ASSUME DeleteTrainingRun(j) PROVE FALSE
        BY <2>1, <3>2 DEF DeleteTrainingRun, UnusedAttempt
      <3> QED BY <2>4, <3>1, <3>2 DEF UserCall, Create, Pause, Cancel, CancelOperation, Resume
    <2>5. ASSUME NEW t, NEW g, Claim(j, g, t) PROVE FALSE
      BY <2>1, <2>5 DEF Claim
    <2>6. ASSUME NEW m \in AttemptNumbers, AttemptCall(j, m) PROVE FALSE
      <3>1. ASSUME NEW e, NEW t, Heartbeat(j, m, e, t) PROVE FALSE
        BY <2>1, <3>1 DEF Heartbeat, Attempt
      <3>2. ASSUME NEW e, NEW key, NEW digest, Complete(j, m, e, key, digest) PROVE FALSE
        BY <2>1, <3>2 DEF Complete, Attempt
      <3>3. ASSUME NEW e, NEW retryable, NEW t, Fail(j, m, e, retryable, t) PROVE FALSE
        BY <2>3, <3>3 DEF Fail, AttemptStatus
      <3> QED BY <2>6, <3>1, <3>2, <3>3 DEF AttemptCall, Progress
    <2>7. ASSUME NEW r \in Reapers, ReapOne(r, j) PROVE attempts[j][n].lease < now
      <3>1. Reapable(r, j)
        BY <2>7 DEF ReapOne
      <3>2. job[j].active = n /\ attempts[j][n].lease < reaper[r].now
        BY <2>1, <3>1 DEF Reapable, LeaseLapsed, AttemptsAgree
      <3>3. /\ reaper[r].now \in Nat /\ reaper[r].now <= now
            /\ attempts[j][n].lease \in Nat
        BY <1>1, <2>1 DEF ScanPast, Attempt
      <3> QED BY <2>1, <3>2, <3>3
    <2> QED BY <2>2, <2>4, <2>5, <2>6, <2>7 DEF CallFor
  <1>2. IInv /\ ScanPast /\ [Next]_vars
          => [\A j \in Jobs, n \in AttemptNumbers : ExpiredOnTime(j, n)]_vars
    BY <1>1
  <1> QED BY <1>2, Invariance, ScanPastInvariant, PTL DEF Spec, LiveLeaseNotReaped


-----------------------------------------------------------------------------
\* The refinement of TrainingJob.

ResultsAgree ==
    \A j \in Jobs : ResultOf(j) = IF run[j] = "succeeded" THEN job[j].attemptCount ELSE 0

LEMMA ResultValue == IInv => ResultsAgree
  <1> SUFFICES ASSUME IInv, NEW j \in Jobs
               PROVE  ResultOf(j) = IF run[j] = "succeeded" THEN job[j].attemptCount ELSE 0
    BY DEF ResultsAgree
  <1>1. /\ RowsAgree(job[j], run[j], modelVersions[j]) /\ AttemptsAgree(job[j], attempts[j])
        /\ job[j] \in Job
    BY DEF IInv, TypeOK, Consistent
  <1>2. CASE run[j] = "succeeded"
    <2>1. job[j].active \in AttemptNumbers /\ job[j].active = job[j].attemptCount
      BY <1>1, <1>2 DEF RowsAgree, Job
    <2>2. \A n \in AttemptNumbers : n \in Succeeded(j) <=> n = job[j].active
      BY <1>1, <1>2 DEF RowsAgree, AttemptsAgree, Succeeded
    <2>3. (CHOOSE n \in AttemptNumbers : n \in Succeeded(j)) = job[j].active
      BY <2>1, <2>2
    <2> QED BY <1>1, <1>2, <2>1, <2>3 DEF RowsAgree, ResultOf
  <1>3. CASE run[j] # "succeeded"
    BY <1>1, <1>3 DEF RowsAgree, ResultOf
  <1> QED BY <1>2, <1>3

\* What a call changes of job j, as TrainingJob sees it.
Sees(j, from, to, budget, starts) ==
    /\ run[j] \in from /\ run'[j] = to
    /\ job'[j].maxAttempts = budget
    /\ job'[j].attemptCount = starts

\* A call for job j that lets TrainingJob see a transition is that transition.
LEMMA AbstractMove ==
  ASSUME IInv, IInv', NEW j \in Jobs, \A i \in Jobs \ {j} : Untouched(i)
  PROVE  LET max == job[j].maxAttempts
             count == job[j].attemptCount
         IN
         /\ \A m \in 1..AttemptLimit :
              Sees(j, {"absent"}, "queued", m, 0) /\ count = 0 => Abstract!Submit(j)
         /\ Sees(j, {"queued"}, "running", max, count + 1) /\ count < max => Abstract!Start(j)
         /\ Sees(j, {"running"}, "queued", max, count) /\ count < max => Abstract!Retry(j)
         /\ Sees(j, {"running"}, "failed", max, count) => Abstract!GiveUp(j)
         /\ Sees(j, {"queued", "running"}, "paused", max, count) => Abstract!Suspend(j)
         /\ Sees(j, {"paused"}, "queued", max, count) => Abstract!Continue(j)
         /\ Sees(j, {"queued", "running", "paused"}, "cancelled", max, count)
              => Abstract!Withdraw(j)
         /\ Sees(j, {"running"}, "succeeded", max, count) => Abstract!Deliver(j)
         /\ Sees(j, {"failed", "cancelled"}, "deleted", 0, 0) => Abstract!Erase(j)
  <1>1. /\ run \in [Jobs -> Status \cup Missing] /\ run' \in [Jobs -> Status \cup Missing]
        /\ \A i \in Jobs \ {j} : run'[i] = run[i]
    BY DEF IInv, TypeOK, Untouched
  <1>2. run' = [run EXCEPT ![j] = run'[j]]
    BY <1>1
  <1>3. ResultsAgree /\ ResultsAgree'
    BY ResultValue, PTL
  <1>4. \A i \in Jobs \ {j} : /\ job'[i].maxAttempts = job[i].maxAttempts
                              /\ job'[i].attemptCount = job[i].attemptCount
                              /\ ResultOf(i)' = ResultOf(i)
    BY <1>1, <1>3 DEF Untouched, ResultsAgree
  <1>5. /\ ResultOf(j) = IF run[j] = "succeeded" THEN job[j].attemptCount ELSE 0
        /\ ResultOf(j)' = IF run'[j] = "succeeded" THEN job'[j].attemptCount ELSE 0
    BY <1>3 DEF ResultsAgree
  <1> USE <1>2, <1>4, <1>5 DEF Sees, Abstract!Move, Abstract!NoResult
  <1>6. ASSUME NEW m \in 1..AttemptLimit, Sees(j, {"absent"}, "queued", m, 0),
               job[j].attemptCount = 0
        PROVE  Abstract!Submit(j)
    BY <1>6 DEF Abstract!Submit
  <1>7. Sees(j, {"queued"}, "running", job[j].maxAttempts, job[j].attemptCount + 1)
          /\ job[j].attemptCount < job[j].maxAttempts => Abstract!Start(j)
    BY DEF Abstract!Start
  <1>8. Sees(j, {"running"}, "queued", job[j].maxAttempts, job[j].attemptCount)
          /\ job[j].attemptCount < job[j].maxAttempts => Abstract!Retry(j)
    BY DEF Abstract!Retry
  <1>9. Sees(j, {"running"}, "failed", job[j].maxAttempts, job[j].attemptCount)
          => Abstract!GiveUp(j)
    BY DEF Abstract!GiveUp
  <1>10. Sees(j, {"queued", "running"}, "paused", job[j].maxAttempts, job[j].attemptCount)
          => Abstract!Suspend(j)
    BY DEF Abstract!Suspend
  <1>11. Sees(j, {"paused"}, "queued", job[j].maxAttempts, job[j].attemptCount)
          => Abstract!Continue(j)
    BY DEF Abstract!Continue
  <1>12. Sees(j, {"queued", "running", "paused"}, "cancelled", job[j].maxAttempts,
              job[j].attemptCount) => Abstract!Withdraw(j)
    BY DEF Abstract!Withdraw
  <1>13. Sees(j, {"running"}, "succeeded", job[j].maxAttempts, job[j].attemptCount)
          => Abstract!Deliver(j)
    BY DEF Abstract!Deliver
  <1>14. Sees(j, {"failed", "cancelled"}, "deleted", 0, 0) => Abstract!Erase(j)
    BY DEF Abstract!Erase
  <1> QED BY <1>6, <1>7, <1>8, <1>9, <1>10, <1>11, <1>12, <1>13, <1>14


\* A step that keeps the job and run rows leaves TrainingJob unchanged.
LEMMA AbstractStutter ==
  ASSUME IInv, IInv', job' = job, run' = run PROVE UNCHANGED Abstract!vars
  <1>1. ResultsAgree /\ ResultsAgree'
    BY ResultValue, PTL
  <1>2. \A i \in Jobs : ResultOf(i)' = ResultOf(i)
    BY <1>1 DEF ResultsAgree
  <1> QED BY <1>2 DEF Abstract!vars

\* What the handlers change of the rows TrainingJob sees.
LEMMA RequeueSees ==
  ASSUME IInv, NEW j \in Jobs, NEW e, NEW t, Requeue(j, [job[j] EXCEPT !.epoch = e], t)
  PROVE  Sees(j, {run[j]}, "queued", job[j].maxAttempts, job[j].attemptCount)
  <1> DEFINE r == [job[j] EXCEPT !.epoch = e]
  <1>1. job[j] \in Job /\ job'[j] = Requeued(r, t) /\ run'[j] = "queued"
    BY DEF IInv, TypeOK, Requeue
  <1>2. r.maxAttempts = job[j].maxAttempts /\ r.attemptCount = job[j].attemptCount
    BY <1>1 DEF Job
  <1>3. /\ Requeued(r, t).maxAttempts = r.maxAttempts
        /\ Requeued(r, t).attemptCount = r.attemptCount
    BY <1>1 DEF Requeued, Job
  <1> QED BY <1>1, <1>2, <1>3 DEF Sees

LEMMA SettleSees ==
  ASSUME IInv, NEW j \in Jobs, NEW r, Settle(j, r, run'[j]),
         r.maxAttempts = job[j].maxAttempts, r.attemptCount = job[j].attemptCount
  PROVE  Sees(j, {run[j]}, run'[j], job[j].maxAttempts, job[j].attemptCount)
  BY DEF IInv, TypeOK, Settle, Sees

LEMMA ControlSees ==
  ASSUME IInv, NEW j \in Jobs, NEW target, Control(j, target)
  PROVE  Sees(j, {run[j]}, target, job[j].maxAttempts, job[j].attemptCount)
  <1>1. job[j] \in Job /\ run'[j] = target
    BY DEF IInv, TypeOK, Control, Settle
  <1>2. Settle(j, [job[j] EXCEPT !.epoch = @ + 1], run'[j])
    BY <1>1 DEF Control
  <1> QED BY <1>1, <1>2, SettleSees DEF Job

LEMMA AbstractCall ==
  ASSUME IInv, IInv', NEW j \in Jobs, CallFor(j)
  PROVE  Abstract!Next \/ UNCHANGED Abstract!vars
  <1> DEFINE Goal == Abstract!Next \/ UNCHANGED Abstract!vars
             max == job[j].maxAttempts
             count == job[j].attemptCount
  <1>0. /\ job[j] \in Job /\ run[j] = job[j].status /\ count \in Nat /\ max \in Nat
        /\ RowsAgree(job[j], run[j], modelVersions[j])
    BY DEF IInv, TypeOK, Job, Consistent, RowsAgree
  <1>1. \A i \in Jobs \ {j} : Untouched(i)
    BY CallTouchesOne
  <1>2. /\ \A m \in 1..AttemptLimit :
             Sees(j, {"absent"}, "queued", m, 0) /\ count = 0 => Abstract!Submit(j)
        /\ Sees(j, {"queued"}, "running", max, count + 1) /\ count < max => Abstract!Start(j)
        /\ Sees(j, {"running"}, "queued", max, count) /\ count < max => Abstract!Retry(j)
        /\ Sees(j, {"running"}, "failed", max, count) => Abstract!GiveUp(j)
        /\ Sees(j, {"queued", "running"}, "paused", max, count) => Abstract!Suspend(j)
        /\ Sees(j, {"paused"}, "queued", max, count) => Abstract!Continue(j)
        /\ Sees(j, {"queued", "running", "paused"}, "cancelled", max, count)
             => Abstract!Withdraw(j)
        /\ Sees(j, {"running"}, "succeeded", max, count) => Abstract!Deliver(j)
        /\ Sees(j, {"failed", "cancelled"}, "deleted", 0, 0) => Abstract!Erase(j)
    BY <1>1, AbstractMove
  <1>3. ASSUME job' = job, run' = run PROVE Goal
    BY <1>3, AbstractStutter
  <1> HIDE DEF max, count
  <1>4. ASSUME UserCall(j) PROVE Goal
    <2>1. ASSUME NEW m \in AttemptNumbers, NEW t, Create(j, m, t) PROVE Goal
      <3>1. Sees(j, {"absent"}, "queued", m, 0) /\ count = 0
        BY <1>0, <2>1 DEF Create, Sees, IInv, TypeOK, RowsAgree, Missing, NoJob, count
      <3> QED BY <1>2, <3>1 DEF Abstract!Next
    <2>2. ASSUME Pause(j) PROVE Goal
      <3>1. Sees(j, {"queued", "running"}, "paused", max, count)
        BY <1>0, <2>2, ControlSees DEF Pause, Sees, max, count
      <3> QED BY <1>2, <3>1 DEF Abstract!Next
    <2>3. ASSUME Control(j, "cancelled"), Exists(j), ~Terminal(job[j].status) PROVE Goal
      <3>1. Sees(j, {"queued", "running", "paused"}, "cancelled", max, count)
        BY <1>0, <2>3, ControlSees, LiveStatus DEF Sees, max, count
      <3> QED BY <1>2, <3>1 DEF Abstract!Next
    <2>4. ASSUME NEW key, CancelOperation(j, key) PROVE Goal
      BY <1>3, <2>3, <2>4 DEF CancelOperation
    <2>5. ASSUME NEW t, Resume(j, t) PROVE Goal
      <3>1. [job[j] EXCEPT !.epoch = job[j].epoch] = job[j]
        BY <1>0 DEF Job
      <3>2. Requeue(j, [job[j] EXCEPT !.epoch = job[j].epoch], t) /\ run[j] = "paused"
        BY <1>0, <2>5, <3>1 DEF Resume
      <3>3. Sees(j, {"paused"}, "queued", max, count)
        BY <3>2, RequeueSees DEF max, count
      <3> QED BY <1>2, <3>3 DEF Abstract!Next
    <2>6. ASSUME DeleteTrainingRun(j) PROVE Goal
      <3>1. Sees(j, {"failed", "cancelled"}, "deleted", 0, 0)
        BY <1>0, <2>6 DEF DeleteTrainingRun, Sees, IInv, TypeOK, NoJob
      <3> QED BY <1>2, <3>1 DEF Abstract!Next
    <2> QED BY <1>4, <2>1, <2>2, <2>3, <2>4, <2>5, <2>6 DEF UserCall, Cancel
  <1>5. ASSUME NEW t, NEW g, Claim(j, g, t) PROVE Goal
    <2>1. job[j].status = "queued" /\ job[j].attemptCount < job[j].maxAttempts
      BY <1>0, <1>5 DEF Claim, ClaimAnswer, Exists, Terminal, Job, Status, TerminalStatus
    <2>2. Sees(j, {"queued"}, "running", max, count + 1) /\ count < max
      BY <1>0, <1>5, <2>1 DEF Claim, Sees, IInv, TypeOK, Job, max, count
    <2> QED BY <1>2, <2>2 DEF Abstract!Next
  <1>6. ASSUME run[j] = "running", NEW e, NEW t, AttemptsLeft(j),
               Requeue(j, [job[j] EXCEPT !.epoch = e], t)
        PROVE  Goal
    <2>1. Sees(j, {"running"}, "queued", max, count) /\ count < max
      BY <1>6, RequeueSees DEF AttemptsLeft, max, count
    <2> QED BY <1>2, <2>1 DEF Abstract!Next
  <1>7. ASSUME run[j] = "running", NEW r, NEW st \in {"failed", "succeeded"},
               r.maxAttempts = max, r.attemptCount = count, Settle(j, r, st)
        PROVE  Goal
    <2>1. run'[j] = st
      BY <1>7 DEF Settle, IInv, TypeOK
    <2>2. Sees(j, {"running"}, st, max, count)
      BY <1>7, <2>1, SettleSees DEF max, count
    <2> QED BY <1>2, <1>7, <2>2 DEF Abstract!Next
  <1>8. ASSUME NEW n \in AttemptNumbers, AttemptCall(j, n) PROVE Goal
    <2>1. ASSUME NEW e, Owns(j, n, e) PROVE run[j] = "running"
      BY <1>0, <2>1 DEF Owns
    <2>2. ASSUME NEW e, NEW key, NEW digest, Complete(j, n, e, key, digest) PROVE Goal
      BY <1>7, <2>1, <2>2 DEF Complete, CompleteAnswer, max, count
    <2>3. ASSUME NEW e, NEW retryable, NEW t, Fail(j, n, e, retryable, t) PROVE Goal
      BY <1>6, <1>7, <2>1, <2>3 DEF Fail, max, count
    <2> QED BY <1>3, <1>8, <2>2, <2>3 DEF AttemptCall, Heartbeat, Progress
  <1>9. ASSUME NEW r, ReapOne(r, j) PROVE Goal
    <2>1. CASE Reapable(r, j)
      <3>1. run[j] = "running"
        BY <1>0, <2>1 DEF Reapable, LeaseLapsed
      <3>2. CASE AttemptsLeft(j)
        BY <1>6, <1>9, <2>1, <3>1, <3>2 DEF ReapOne
      <3>3. CASE ~AttemptsLeft(j)
        <4> DEFINE q == [job[j] EXCEPT !.epoch = @ + 1, !.active = NoAttempt]
        <4>1. q.maxAttempts = max /\ q.attemptCount = count /\ Settle(j, q, "failed")
          BY <1>0, <1>9, <2>1, <3>3 DEF ReapOne, Job, max, count
        <4> HIDE DEF q
        <4> QED BY <1>7, <3>1, <4>1
      <3> QED BY <3>2, <3>3
    <2>2. CASE ~Reapable(r, j)
      BY <1>3, <1>9, <2>2 DEF ReapOne
    <2> QED BY <2>1, <2>2
  <1> QED BY <1>4, <1>5, <1>8, <1>9 DEF CallFor

\* Every behaviour of the lifecycle is one of a TrainingJob.
THEOREM LifecycleImplementsJob == Spec => AbstractSpec
  <1>1. Init => Abstract!Init
    <2> SUFFICES ASSUME Init PROVE Abstract!Init
      OBVIOUS
    <2>1. \A j \in Jobs : ResultOf(j) = 0 /\ job[j].maxAttempts = 0 /\ job[j].attemptCount = 0
      BY DEF Init, InitAt, ResultOf, NoJob
    <2> QED BY <2>1 DEF Init, InitAt, Abstract!Init, Abstract!NoResult
  <1>2. IInv /\ IInv' /\ [Next]_vars => [Abstract!Next]_Abstract!vars
    <2> SUFFICES ASSUME IInv, IInv', [Next]_vars
                 PROVE  Abstract!Next \/ UNCHANGED Abstract!vars
      OBVIOUS
    <2>1. CASE \E j \in Jobs : CallFor(j)
      BY <2>1, AbstractCall
    <2>2. CASE ~\E j \in Jobs : CallFor(j)
      <3>1. \A j \in Jobs : Untouched(j)
        BY <2>2, LocalStep
      <3>2. job' = job /\ run' = run
        BY <3>1 DEF IInv, TypeOK, Untouched
      <3> QED BY <3>2, AbstractStutter
    <2> QED BY <2>1, <2>2
  <1> QED BY <1>1, <1>2, Invariance, PTL DEF Spec, AbstractSpec, Abstract!Spec

=============================================================================
