------------------------ MODULE TrainingDispatch_proofs ------------------------
(***************************************************************************)
(* Proofs about TrainingDispatch, for any number of jobs, workers and      *)
(* reapers and any number of faults.                                       *)
(*                                                                         *)
(* Every step is one of the lifecycle, one of the delivery that leaves the *)
(* lifecycle alone, or the passing of time, so the invariant of the        *)
(* lifecycle holds here too.  Of the delivery it has to be known that only *)
(* rows that exist are marked published, so that the row of a new          *)
(* generation is not, and that a dispatch leaves the queue and the workers *)
(* only by a claim or when no queued job is waiting for it.                *)
(***************************************************************************)
EXTENDS TrainingDispatch, TrainingLifecycle_proofs

WorkerState == [at : {"idle", "delivered", "training", "failing", "failing again"},
                job : Jobs \cup {NoAttempt}, tag : Nat, epoch : Nat]

\* Messages are dispatches of jobs; a worker that is not idle, and a call that was given up,
\* is about a job.
DeliveryReady ==
    /\ queue \in Seq(Jobs \X Nat)
    /\ worker \in [Workers -> WorkerState]
    /\ \A w \in Workers : worker[w].at # "idle" => worker[w].job \in Jobs
    /\ \A c \in late : c.job \in Jobs

\* Only rows that exist were published.
PublishedExist == \A j \in Jobs, g \in Nat : <<j, g>> \in published => g <= job[j].generation

\* A worker holds the dispatch of job j's generation g and has not acknowledged it.
Holds(w, j, g) == worker[w].at = "delivered" /\ worker[w].job = j /\ worker[w].tag = g

\* The dispatch of job j's generation g is still to be published, queued or held.
Findable(j, g) ==
    \/ <<j, g>> \notin published
    \/ \E i \in 1..Len(queue) : queue[i] = <<j, g>>
    \/ \E w \in Workers : Holds(w, j, g)

WaitingFound ==
    \A j \in Jobs, g \in Nat :
        job[j].status = "queued" /\ job[j].generation = g => g >= 1 /\ Findable(j, g)

DispatchInv == IInv /\ DeliveryReady /\ PublishedExist /\ WaitingFound

LEMMA DispatchInitInv == DispatchInit => DispatchInv
  <1> SUFFICES ASSUME DispatchInit PROVE DispatchInv
    OBVIOUS
  <1>1. IInv
    BY StartConsistent, DispatchAssumption DEF DispatchInit
  <1>2. DeliveryReady
    BY DEF DispatchInit, DeliveryReady, WorkerState, IdleWorker
  <1>3. PublishedExist /\ WaitingFound
    BY DEF DispatchInit, InitAt, NoJob, PublishedExist, WaitingFound
  <1> QED
    BY <1>1, <1>2, <1>3 DEF DispatchInv

-----------------------------------------------------------------------------
\* What a step may do to the generation of job j, so that a queued job's dispatch is either
\* the one it was or a new one.
GenerationMoves(j) ==
    /\ job'[j].status = "queued" =>
          \/ job[j].status = "queued" /\ job'[j].generation = job[j].generation
          \/ job'[j].generation = job[j].generation + 1
    /\ job'[j].generation >= job[j].generation

LEMMA RequeueMoves ==
  ASSUME IInv, NEW j \in Jobs, NEW r, NEW t, Requeue(j, r, t), r.generation = job[j].generation,
         r \in Job
  PROVE  GenerationMoves(j)
  <1>1. job'[j] = Requeued(r, t)
    BY DEF Requeue, IInv, TypeOK
  <1>2. Requeued(r, t).generation = job[j].generation + 1 /\ job[j].generation \in Nat
    BY DEF Requeued, Job
  <1> QED
    BY <1>1, <1>2 DEF GenerationMoves

LEMMA SettleMoves ==
  ASSUME IInv, NEW j \in Jobs, NEW r, NEW status, Settle(j, r, status), status # "queued",
         r.generation = job[j].generation, r \in Job
  PROVE  GenerationMoves(j)
  <1>1. job'[j] = [r EXCEPT !.status = status]
    BY DEF Settle, IInv, TypeOK
  <1>2. job'[j].status = status /\ job'[j].generation = job[j].generation /\ job[j].generation \in Nat
    BY <1>1 DEF Job
  <1> QED
    BY <1>2 DEF GenerationMoves

\* What workers and reapers do to job j.
WorkFor(j) ==
    \/ \E t \in ClockReadings, g \in Nat : Claim(j, g, t)
    \/ \E n \in AttemptNumbers : AttemptCall(j, n)
    \/ \E r \in Reapers : ReapOne(r, j)

LEMMA WorkMoves ==
  ASSUME IInv, NEW j \in Jobs, WorkFor(j)
  PROVE  GenerationMoves(j)
  <1>1. job[j] \in Job /\ job[j].generation \in Nat /\ job[j].epoch + 1 \in Nat
    BY DEF IInv, TypeOK, Job
  <1>2. PICK later : later = [job[j] EXCEPT !.epoch = @ + 1]
    OBVIOUS
  <1>3. later \in Job /\ later.generation = job[j].generation
    BY <1>1, <1>2 DEF Job
  <1>4. CASE UNCHANGED job
    BY <1>1, <1>4 DEF GenerationMoves
  <1>5. ASSUME NEW t, NEW g, Claim(j, g, t) PROVE GenerationMoves(j)
    <2>1. job'[j].status = "running" /\ job'[j].generation = job[j].generation
      BY <1>1, <1>5 DEF Claim, IInv, TypeOK, Job
    <2> QED
      BY <1>1, <2>1 DEF GenerationMoves
  <1>6. ASSUME NEW n, AttemptCall(j, n) PROVE GenerationMoves(j)
    <2>1. ASSUME NEW e, NEW key, NEW digest, Complete(j, n, e, key, digest) PROVE GenerationMoves(j)
      BY <1>1, <2>1, SettleMoves DEF Complete
    <2>2. ASSUME NEW e, NEW retryable, NEW t, Fail(j, n, e, retryable, t) PROVE GenerationMoves(j)
      BY <1>1, <1>2, <1>3, <2>2, SettleMoves, RequeueMoves DEF Fail
    <2> QED
      BY <1>4, <1>6, <2>1, <2>2 DEF AttemptCall, Heartbeat, Progress
  <1>7. ASSUME NEW r, ReapOne(r, j) PROVE GenerationMoves(j)
    <2>1. CASE Reapable(r, j) /\ AttemptsLeft(j)
      BY <1>2, <1>3, <1>7, <2>1, RequeueMoves DEF ReapOne
    <2>2. CASE Reapable(r, j) /\ ~AttemptsLeft(j)
      <3>1. PICK ended : ended = [job[j] EXCEPT !.epoch = @ + 1, !.active = NoAttempt]
        OBVIOUS
      <3>2. ended \in Job /\ ended.generation = job[j].generation
        BY <1>1, <3>1 DEF Job
      <3> QED
        BY <1>7, <2>2, <3>1, <3>2, SettleMoves DEF ReapOne
    <2> QED
      BY <1>4, <1>7, <2>1, <2>2 DEF ReapOne
  <1> QED
    BY <1>5, <1>6, <1>7 DEF WorkFor

LEMMA UserMoves ==
  ASSUME IInv, NEW j \in Jobs, UserCall(j)
  PROVE  GenerationMoves(j) \/ (outbox'[j] = <<>> /\ job'[j].status = "deleted" /\ job'[j].generation = 0)
  <1>1. job[j] \in Job /\ job[j].generation \in Nat /\ job[j].epoch + 1 \in Nat
    BY DEF IInv, TypeOK, Job
  <1>2. PICK later : later = [job[j] EXCEPT !.epoch = @ + 1]
    OBVIOUS
  <1>3. later \in Job /\ later.generation = job[j].generation
    BY <1>1, <1>2 DEF Job
  <1>4. CASE UNCHANGED job
    BY <1>1, <1>4 DEF GenerationMoves
  <1>5. ASSUME NEW target \in {"paused", "cancelled"}, Control(j, target) PROVE GenerationMoves(j)
    BY <1>2, <1>3, <1>5, SettleMoves DEF Control
  <1>6. ASSUME NEW max, NEW t, Create(j, max, t) PROVE GenerationMoves(j)
    <2>1. job[j] = NoJob("absent")
      BY <1>6 DEF Create, IInv, Consistent, RowsAgree, Missing
    <2>2. job'[j].generation = 1 /\ job[j].generation = 0
      BY <1>6, <2>1 DEF Create, NoJob, IInv, TypeOK
    <2> QED
      BY <2>2 DEF GenerationMoves
  <1>7. ASSUME NEW t, Resume(j, t) PROVE GenerationMoves(j)
    BY <1>1, <1>7, RequeueMoves DEF Resume
  <1>8. CASE DeleteTrainingRun(j)
    BY <1>8 DEF DeleteTrainingRun, IInv, TypeOK, NoJob
  <1> QED
    BY <1>4, <1>5, <1>6, <1>7, <1>8 DEF UserCall, Pause, Cancel, CancelOperation

\* What no call touches stays where it is.
LEMMA RestMoves ==
  ASSUME IInv, NEW j \in Jobs, Untouched(j)
  PROVE  GenerationMoves(j)
  <1>1. job[j].generation \in Nat
    BY DEF IInv, TypeOK, Job
  <1> QED
    BY <1>1 DEF Untouched, GenerationMoves

-----------------------------------------------------------------------------
LEMMA EarlierIsNat == \A t \in Nat : Earlier(t) \in Nat
  BY DEF Earlier

\* Time passes for all rows of an aggregate alike.
LEMMA ElapseConsistent ==
  ASSUME IInv, WaitingFound, Elapse
  PROVE  IInv'
  <1>1. ASSUME NEW j \in Jobs
        PROVE  /\ job[j] \in Job /\ attempts[j] \in [AttemptNumbers -> Attempt] /\ outbox[j] \in Seq(Event)
               /\ job'[j] = [job[j] EXCEPT !.availableAt = Earlier(@)]
               /\ attempts'[j] = [n \in AttemptNumbers |-> [attempts[j][n] EXCEPT !.lease = Earlier(@)]]
               /\ outbox'[j] = [g \in 1..Len(outbox[j]) |-> [outbox[j][g] EXCEPT !.at = Earlier(@)]]
    BY <1>1 DEF Elapse, IInv, TypeOK
  <1>2. ASSUME NEW j \in Jobs
        PROVE  /\ job'[j] \in Job
               /\ job'[j].status = job[j].status /\ job'[j].maxAttempts = job[j].maxAttempts
               /\ job'[j].attemptCount = job[j].attemptCount /\ job'[j].generation = job[j].generation
               /\ job'[j].epoch = job[j].epoch /\ job'[j].active = job[j].active
               /\ job'[j].availableAt = Earlier(job[j].availableAt)
    <2>1. PICK v : v = Earlier(job[j].availableAt)
      OBVIOUS
    <2>2. job[j] \in Job /\ job'[j] = [job[j] EXCEPT !.availableAt = v]
      BY <1>1, <1>2, <2>1
    <2>3. v \in Nat
      BY <2>1, <2>2, EarlierIsNat DEF Job
    <2> QED
      BY <2>1, <2>2, <2>3 DEF Job
  <1>3. ASSUME NEW j \in Jobs, NEW n \in AttemptNumbers
        PROVE  /\ attempts'[j][n] \in Attempt
               /\ attempts'[j][n].status = attempts[j][n].status /\ attempts'[j][n].epoch = attempts[j][n].epoch
               /\ attempts'[j][n].key = attempts[j][n].key
    <2>1. PICK v : v = Earlier(attempts[j][n].lease)
      OBVIOUS
    <2>2. attempts[j][n] \in Attempt
      BY <1>1, <1>3
    <2>3. attempts'[j][n] = [attempts[j][n] EXCEPT !.lease = v]
      <3>1. attempts'[j] = [k \in AttemptNumbers |-> [attempts[j][k] EXCEPT !.lease = Earlier(@)]]
        BY <1>1, <1>3
      <3>2. attempts'[j][n] = [attempts[j][n] EXCEPT !.lease = Earlier(attempts[j][n].lease)]
        BY <1>3, <3>1
      <3> QED
        BY <2>1, <3>2
    <2>4. v \in Nat
      BY <2>1, <2>2, EarlierIsNat DEF Attempt
    <2> QED
      BY <2>2, <2>3, <2>4 DEF Attempt
  <1>4. ASSUME NEW j \in Jobs, NEW g \in 1..Len(outbox[j])
        PROVE  /\ outbox'[j][g] \in Event
               /\ outbox'[j][g].generation = outbox[j][g].generation
               /\ outbox'[j][g].at = Earlier(outbox[j][g].at)
    <2>1. PICK v : v = Earlier(outbox[j][g].at)
      OBVIOUS
    <2>2. outbox[j] \in Seq(Event)
      BY <1>4 DEF IInv, TypeOK
    <2>3. outbox[j][g] \in Event
      BY <1>4, <2>2
    <2>4. outbox'[j][g] = [outbox[j][g] EXCEPT !.at = v]
      <3>1. outbox'[j] = [k \in 1..Len(outbox[j]) |-> [outbox[j][k] EXCEPT !.at = Earlier(@)]]
        BY <1>1, <1>4
      <3>2. outbox'[j][g] = [outbox[j][g] EXCEPT !.at = Earlier(outbox[j][g].at)]
        BY <1>4, <3>1
      <3> QED
        BY <2>1, <3>2
    <2>5. v \in Nat
      BY <2>1, <2>3, EarlierIsNat DEF Event
    <2> QED
      BY <2>1, <2>3, <2>4, <2>5 DEF Event
  <1>5. ASSUME NEW j \in Jobs PROVE outbox'[j] \in Seq(Event) /\ Len(outbox'[j]) = Len(outbox[j])
    <2>1. Len(outbox[j]) \in Nat
      BY <1>1, <1>5
    <2>2. \A g \in 1..Len(outbox[j]) : outbox'[j][g] \in Event
      BY <1>4, <1>5
    <2>3. PICK o : o = outbox'[j]
      OBVIOUS
    <2>4. o = [g \in 1..Len(outbox[j]) |-> o[g]]
      BY <1>1, <1>5, <2>3
    <2>5. o \in [1..Len(outbox[j]) -> Event]
      BY <2>2, <2>3, <2>4
    <2> QED
      BY <2>1, <2>3, <2>5
  <1>6. reaper' \in [Reapers -> [now : Nat, ids : SUBSET Jobs]]
    BY EarlierIsNat DEF Elapse, IInv, TypeOK
  <1>7. TypeOK'
    <2>1. job' \in [Jobs -> Job]
      BY <1>2 DEF Elapse
    <2>2. attempts' \in [Jobs -> [AttemptNumbers -> Attempt]]
      <3>1. \A j \in Jobs : attempts'[j] \in [AttemptNumbers -> Attempt]
        BY <1>1, <1>3
      <3> QED
        BY <3>1 DEF Elapse
    <2>3. outbox' \in [Jobs -> Seq(Event)]
      BY <1>5 DEF Elapse
    <2> QED
      BY <1>6, <2>1, <2>2, <2>3 DEF Elapse, IInv, TypeOK
  <1>8. ASSUME NEW j \in Jobs PROVE Aggregate(j)'
    <2>1. /\ RowsAgree(job[j], run[j], modelVersions[j]) /\ AttemptsAgree(job[j], attempts[j])
          /\ OutboxAgrees(job[j], outbox[j])
      BY <1>8 DEF IInv, Consistent
    <2>2. RowsAgree(job'[j], run[j], modelVersions[j])
      <3>1. job[j].status \in Missing => job'[j] = NoJob(job[j].status)
        <4>1. Earlier(0) = 0
          BY DEF Earlier
        <4>2. job[j].status \in Missing => job[j] = NoJob(job[j].status)
          BY <2>1 DEF RowsAgree
        <4>3. job'[j] = [job[j] EXCEPT !.availableAt = Earlier(job[j].availableAt)]
          BY <1>1, <1>8
        <4> QED
          BY <4>1, <4>2, <4>3 DEF NoJob
      <3> QED
        BY <1>2, <1>8, <2>1, <3>1 DEF RowsAgree
    <2>3. AttemptsAgree(job'[j], attempts'[j])
      <3>1. \A n \in AttemptNumbers :
              /\ attempts'[j][n].status = attempts[j][n].status /\ attempts'[j][n].epoch = attempts[j][n].epoch
              /\ attempts'[j][n].key = attempts[j][n].key
        BY <1>3, <1>8
      <3>2. job[j].status = "running" => job[j].active \in AttemptNumbers
        BY <1>1, <1>8, <2>1 DEF RowsAgree, Job
      <3> QED
        BY <1>2, <1>8, <2>1, <3>1, <3>2 DEF AttemptsAgree
    <2>4. OutboxAgrees(job'[j], outbox'[j])
      <3>1. \A g \in 1..Len(outbox[j]) : outbox'[j][g].generation = g
        BY <1>4, <1>8, <2>1 DEF OutboxAgrees
      <3>2. job[j].status = "queued" => outbox'[j][job[j].generation].at = Earlier(job[j].availableAt)
        <4>1. job[j].generation \in Nat /\ Len(outbox[j]) = job[j].generation
          BY <1>1, <1>8, <2>1 DEF OutboxAgrees, Job
        <4>2. job[j].status = "queued" => job[j].generation \in 1..Len(outbox[j])
          BY <1>8, <4>1 DEF WaitingFound
        <4> QED
          BY <1>4, <1>8, <2>1, <4>2 DEF OutboxAgrees
      <3> QED
        BY <1>2, <1>5, <1>8, <2>1, <3>1, <3>2 DEF OutboxAgrees
    <2> QED
      BY <2>2, <2>3, <2>4 DEF Aggregate, Consistent, Elapse
  <1> QED
    BY <1>7, <1>8 DEF IInv, Aggregate

-----------------------------------------------------------------------------
\* What the relays, the broker, the workers and the reapers do to the lifecycle is a call for
\* one job, made by whom the lifecycle expects it from, or nothing that a job would notice.
Served ==
    \/ \E j \in Jobs : WorkFor(j)
    \/ \E r \in Reapers : ReapScan(r) \/ ReapAbort(r)
    \/ UNCHANGED vars

LEMMA OwnCall ==
  ASSUME NEW j \in Jobs, NEW n, NEW e,
         \/ Heartbeat(j, n, e, now)
         \/ \E key \in CompletionKeys, digest \in Digests : Complete(j, n, e, key, digest)
         \/ \E retryable \in BOOLEAN : Fail(j, n, e, retryable, now),
         now \in Nat
  PROVE  WorkFor(j)
  <1>1. Owns(j, n, e)
    BY DEF Heartbeat, Complete, CompleteAnswer, Fail
  <1>2. n \in AttemptNumbers /\ e = attempts[j][n].epoch
    BY <1>1 DEF Owns
  <1>3. now \in ClockReadings
    BY ConstantsAssumption DEF ClockReadings
  <1>4. AttemptCall(j, n)
    BY <1>2, <1>3 DEF AttemptCall
  <1> QED
    BY <1>2, <1>4 DEF WorkFor

LEMMA ClaimIsServed ==
  ASSUME IInv, NEW j \in Jobs, NEW g, Claim(j, g, now)
  PROVE  WorkFor(j)
  <1>1. g \in Nat /\ now \in Nat
    BY DEF Claim, ClaimAnswer, IInv, TypeOK, Job
  <1>2. now \in ClockReadings
    BY <1>1, ConstantsAssumption DEF ClockReadings
  <1> QED
    BY <1>1, <1>2 DEF WorkFor

LEMMA Kinds ==
  ASSUME IInv, DeliveryReady, DispatchNext
  PROVE  Served \/ (\E j \in Jobs : User(j)) \/ Elapse
  <1>0. now \in Nat
    BY DEF IInv, TypeOK
  <1>1. ASSUME UNCHANGED vars PROVE Served
    BY <1>1 DEF Served
  <1>2. ASSUME NEW j \in Jobs, NEW g, PublishEvent(j, g) PROVE Served
    BY <1>1, <1>2 DEF PublishEvent
  <1>3. ASSUME NEW w \in Workers, Work(w) \/ Beat(w) \/ WorkerFault(w) PROVE Served
    <2>1. worker[w].at \in {"delivered", "training", "failing", "failing again"} => worker[w].job \in Jobs
      BY DEF DeliveryReady
    <2>2. CASE Deliver(w)
      BY <1>1, <2>2 DEF Deliver
    <2>3. CASE ClaimCall(w)
      BY <1>1, <2>1, <2>3, ClaimIsServed DEF ClaimCall, Served
    <2>4. CASE CompleteCall(w)
      BY <1>0, <2>1, <2>4, OwnCall DEF CompleteCall, Served
    <2>5. CASE FailCall(w)
      BY <1>0, <1>1, <2>1, <2>5, OwnCall DEF FailCall, Served
    <2>6. CASE Beat(w)
      BY <1>0, <2>1, <2>6, OwnCall DEF Beat, Served
    <2>7. CASE TrainingFails(w)
      BY <1>1, <2>7 DEF TrainingFails
    <2>8. CASE WorkerFault(w)
      BY <1>1, <2>8 DEF WorkerFault, ClaimLost, CallLost, WorkerCrash
    <2> QED
      BY <1>3, <2>2, <2>3, <2>4, <2>5, <2>6, <2>7, <2>8 DEF Work
  <1>4. ASSUME NEW c \in late, LateCall(c) \/ LateCallDropped(c) PROVE Served
    BY <1>0, <1>1, <1>4, OwnCall, ClaimIsServed DEF LateCall, LateCallDropped, DeliveryReady, Served
  <1>5. ASSUME NEW r \in Reapers, Sweep(r) \/ SweepFails(r) PROVE Served
    BY <1>5 DEF Sweep, SweepFails, WorkFor, Served
  <1> QED
    BY <1>2, <1>3, <1>4, <1>5 DEF DispatchNext

\* The calls are steps of the lifecycle, so its invariant survives them.
LEMMA DispatchConsistent ==
  ASSUME DispatchInv, [DispatchNext]_allVars
  PROVE  IInv'
  <1>1. ClockReadings \subseteq Nat
    BY DEF ClockReadings
  <1>2. ASSUME NEW j \in Jobs, WorkFor(j) PROVE IInv'
    BY <1>1, <1>2, ClaimConsistent, HeartbeatConsistent, ProgressConsistent, CompleteConsistent, FailConsistent,
       ReapOneConsistent
    DEF DispatchInv, WorkFor, AttemptCall
  <1>3. ASSUME NEW j \in Jobs, User(j) PROVE IInv'
    BY <1>3, NextConsistent DEF User, Next, DispatchInv
  <1>4. CASE Elapse
    BY <1>4, ElapseConsistent DEF DispatchInv
  <1>5. CASE UNCHANGED vars
    BY <1>5, NextConsistent DEF DispatchInv
  <1>6. ASSUME NEW r \in Reapers, ReapScan(r) \/ ReapAbort(r) PROVE IInv'
    BY <1>6, ReapScanConsistent, ReapAbortConsistent DEF DispatchInv
  <1> QED
    BY <1>2, <1>3, <1>4, <1>5, <1>6, Kinds DEF DispatchInv, Served, allVars

\* How far the generation of a job moves in a step, unless the job is deleted.
LEMMA DispatchMoves ==
  ASSUME DispatchInv, [DispatchNext]_allVars, NEW j \in Jobs
  PROVE  GenerationMoves(j) \/ (User(j) /\ outbox'[j] = <<>> /\ job'[j].status = "deleted" /\ job'[j].generation = 0)
  <1>1. ASSUME Untouched(j) PROVE GenerationMoves(j)
    BY <1>1, RestMoves DEF DispatchInv
  <1>2. ASSUME NEW i \in Jobs, WorkFor(i) PROVE GenerationMoves(j)
    <2>1. CASE i = j
      BY <1>2, <2>1, WorkMoves DEF DispatchInv
    <2>2. CASE i # j
      BY <1>1, <1>2, <2>2, CallTouchesOne DEF DispatchInv, WorkFor, CallFor
    <2> QED
      BY <2>1, <2>2
  <1>3. ASSUME NEW i \in Jobs, User(i), i # j PROVE GenerationMoves(j)
    BY <1>1, <1>3, CallTouchesOne DEF DispatchInv, User, CallFor
  <1>4. CASE User(j)
    BY <1>4, UserMoves DEF User, DispatchInv
  <1>5. CASE Elapse
    <2>1. job[j] \in Job /\ job'[j] = [job[j] EXCEPT !.availableAt = Earlier(@)]
      BY <1>5 DEF Elapse, DispatchInv, IInv, TypeOK
    <2>2. job'[j].status = job[j].status /\ job'[j].generation = job[j].generation /\ job[j].generation \in Nat
      BY <2>1 DEF Job
    <2> QED
      BY <2>2 DEF GenerationMoves
  <1>6. CASE UNCHANGED jobVars
    BY <1>1, <1>6 DEF jobVars, Untouched
  <1>7. (\E r \in Reapers : ReapScan(r) \/ ReapAbort(r)) \/ UNCHANGED vars => UNCHANGED jobVars
    BY DEF ReapScan, ReapAbort, vars, jobVars
  <1> QED
    BY <1>2, <1>3, <1>4, <1>5, <1>6, <1>7, Kinds DEF DispatchInv, Served, allVars

-----------------------------------------------------------------------------
\* What a step marks published is the row of a generation that was reached, and a deleted job
\* keeps no marks.
LEMMA MarksExist ==
  ASSUME DispatchInv, [DispatchNext]_allVars, NEW j \in Jobs, NEW g \in Nat, <<j, g>> \in published'
  PROVE  g <= job[j].generation
  <1>1. Len(outbox[j]) = job[j].generation
    BY DEF DispatchInv, IInv, Consistent, OutboxAgrees
  <1>2. CASE <<j, g>> \in published
    BY <1>2 DEF DispatchInv, PublishedExist
  <1>3. ASSUME NEW i \in Jobs, NEW h, PublishEvent(i, h) PROVE g <= job[j].generation
    <2>1. <<j, g>> \in published \/ <<j, g>> = <<i, h>>
      BY <1>3 DEF PublishEvent
    <2> QED
      BY <1>1, <1>2, <1>3, <2>1 DEF PublishEvent
  <1>4. (\A i \in Jobs, h \in 1..MaxGeneration + AttemptLimit : ~ PublishEvent(i, h)) => published' \subseteq published
    BY DEF DispatchNext, Work, Beat, WorkerFault, Deliver, ClaimCall, CompleteCall, TrainingFails, FailCall, ClaimLost,
           CallLost, WorkerCrash, LateCall, LateCallDropped, User, Sweep, SweepFails, Elapse, deliveryVars, allVars
  <1> QED
    BY <1>2, <1>3, <1>4

LEMMA PublishedExistKept ==
  ASSUME DispatchInv, [DispatchNext]_allVars
  PROVE  PublishedExist'
  <1> SUFFICES ASSUME NEW j \in Jobs, NEW g \in Nat, <<j, g>> \in published'
               PROVE  g <= job'[j].generation
    BY DEF PublishedExist
  <1>1. g <= job[j].generation /\ job[j].generation \in Nat
    BY MarksExist DEF DispatchInv, IInv, TypeOK, Job
  <1>2. job'[j].generation \in Nat
    BY DispatchConsistent DEF IInv, TypeOK, Job
  <1>3. CASE GenerationMoves(j)
    BY <1>1, <1>2, <1>3 DEF GenerationMoves
  <1>4. CASE User(j) /\ outbox'[j] = <<>> /\ job'[j].generation = 0
    <2>1. Len(outbox[j]) = job[j].generation
      BY DEF DispatchInv, IInv, Consistent, OutboxAgrees
    <2>2. <<j, g>> \notin {j} \X (1..Len(outbox[j]))
      BY <1>4 DEF User
    <2>3. g = 0
      BY <1>1, <2>1, <2>2
    <2> QED
      BY <1>4, <2>3
  <1> QED
    BY <1>3, <1>4, DispatchMoves

-----------------------------------------------------------------------------
\* The queue is a sequence of dispatches, and every worker knows its job.
LEMMA BecomeReady ==
  ASSUME DeliveryReady, NEW w \in Workers, NEW s \in WorkerState, Become(w, s),
         s.at # "idle" => s.job \in Jobs
  PROVE  /\ worker' \in [Workers -> WorkerState]
         /\ \A v \in Workers : worker'[v].at # "idle" => worker'[v].job \in Jobs
  BY DEF DeliveryReady, Become

LEMMA IdleIsState == IdleWorker \in WorkerState /\ IdleWorker.at = "idle"
  BY DEF IdleWorker, WorkerState

LEMMA NackReady ==
  ASSUME DeliveryReady, NEW w \in Workers, worker[w].at # "idle", Nack(w)
  PROVE  /\ queue' \in Seq(Jobs \X Nat) /\ worker' \in [Workers -> WorkerState]
         /\ \A v \in Workers : worker'[v].at # "idle" => worker'[v].job \in Jobs
  <1>1. worker[w].job \in Jobs /\ worker[w].tag \in Nat
    BY DEF DeliveryReady, WorkerState
  <1>2. <<<<worker[w].job, worker[w].tag>>>> \in Seq(Jobs \X Nat)
    BY <1>1
  <1>3. queue' \in Seq(Jobs \X Nat)
    BY <1>2 DEF Nack, DeliveryReady
  <1> QED
    BY <1>3, BecomeReady, IdleIsState DEF Nack

LEMMA ChangedAt ==
  ASSUME NEW x \in WorkerState, NEW at \in {"idle", "delivered", "training", "failing", "failing again"}
  PROVE  [x EXCEPT !.at = at] \in WorkerState /\ [x EXCEPT !.at = at].job = x.job /\ [x EXCEPT !.at = at].at = at
  BY DEF WorkerState

LEMMA DeliveryReadyKept ==
  ASSUME DispatchInv, [DispatchNext]_allVars
  PROVE  DeliveryReady'
  <1> USE DEF DispatchInv
  <1>1. DeliveryReady
    OBVIOUS
  <1>2. ASSUME NEW j \in Jobs, NEW g, PublishEvent(j, g) PROVE DeliveryReady'
    <2>1. outbox[j] \in Seq(Event) /\ g \in 1..Len(outbox[j])
      BY <1>2 DEF PublishEvent, IInv, TypeOK
    <2>2. outbox[j][g].generation \in Nat
      <3>1. outbox[j][g] \in Event
        BY <2>1
      <3> QED
        BY <3>1 DEF Event
    <2>3. <<j, outbox[j][g].generation>> \in Jobs \X Nat
      BY <2>2
    <2>4. queue' \in Seq(Jobs \X Nat)
      BY <1>1, <1>2, <2>3 DEF PublishEvent, DeliveryReady
    <2> QED
      BY <1>1, <1>2, <2>4 DEF PublishEvent, DeliveryReady
  <1>3. ASSUME NEW w \in Workers, worker[w].at # "idle", NEW at \in {"training", "failing", "failing again"},
               Become(w, [worker[w] EXCEPT !.at = at]) \/ Become(w, IdleWorker), UNCHANGED queue,
               \A c \in late' : c.job \in Jobs
        PROVE  DeliveryReady'
    <2>1. worker[w] \in WorkerState /\ worker[w].job \in Jobs
      BY <1>1, <1>3 DEF DeliveryReady
    <2>2. PICK s \in WorkerState : s = [worker[w] EXCEPT !.at = at] /\ s.job = worker[w].job
      BY <2>1, ChangedAt
    <2>3. /\ worker' \in [Workers -> WorkerState]
          /\ \A v \in Workers : worker'[v].at # "idle" => worker'[v].job \in Jobs
      BY <1>1, <1>3, <2>1, <2>2, BecomeReady, IdleIsState
    <2> QED
      BY <1>1, <1>3, <2>3 DEF DeliveryReady
  <1>4. ASSUME NEW w \in Workers, worker[w].at # "idle", Nack(w), \A c \in late' : c.job \in Jobs
        PROVE  DeliveryReady'
    BY <1>1, <1>4, NackReady DEF DeliveryReady
  <1>5. ASSUME NEW w \in Workers, Deliver(w) PROVE DeliveryReady'
    <2>1. PICK d \in Jobs \X Nat : d = Head(queue)
      BY <1>1, <1>5 DEF Deliver, DeliveryReady
    <2>2. d[1] \in Jobs /\ d[2] \in Nat
      OBVIOUS
    <2>3. PICK s : s = WorkerAt("delivered", d[1], d[2], 0)
      OBVIOUS
    <2>4. s \in WorkerState /\ s.job \in Jobs
      BY <2>2, <2>3 DEF WorkerAt, WorkerState
    <2>5. Become(w, s)
      BY <1>5, <2>1, <2>3 DEF Deliver
    <2>6. queue' \in Seq(Jobs \X Nat)
      BY <1>1, <1>5 DEF Deliver, DeliveryReady
    <2> QED
      BY <1>1, <1>5, <2>4, <2>5, <2>6, BecomeReady DEF Deliver, DeliveryReady
  <1>6. ASSUME NEW w \in Workers, ClaimCall(w) PROVE DeliveryReady'
    <2>1. worker[w].at # "idle" /\ worker[w].job \in Jobs /\ UNCHANGED late
      BY <1>1, <1>6 DEF ClaimCall, DeliveryReady
    <2>2. CASE ClaimAnswer(worker[w].job, worker[w].tag, now) = "claimed"
      <3>1. PICK j \in Jobs : j = worker[w].job
        BY <2>1
      <3>2. PICK n, e : n = job'[j].active /\ e = job'[j].epoch
        OBVIOUS
      <3>3. n \in Nat /\ e \in Nat
        <4>1. job'[j] \in Job
          BY <3>1, DispatchConsistent DEF IInv, TypeOK
        <4>2. job'[j].active \in Nat /\ job'[j].epoch \in Nat
          BY <4>1, ConstantsAssumption DEF Job, AttemptNumbers, NoAttempt
        <4> QED
          BY <3>2, <4>2
      <3>4. PICK s : s = WorkerAt("training", j, n, e)
        OBVIOUS
      <3>5. s \in WorkerState /\ s.job \in Jobs
        BY <3>3, <3>4 DEF WorkerAt, WorkerState
      <3>6. Become(w, s) /\ UNCHANGED <<queue, late>>
        BY <1>6, <2>2, <3>1, <3>2, <3>4 DEF ClaimCall
      <3> QED
        BY <1>1, <3>5, <3>6, BecomeReady DEF DeliveryReady
    <2>3. CASE ClaimAnswer(worker[w].job, worker[w].tag, now) # "claimed"
      BY <1>1, <1>3, <1>4, <1>6, <2>1, <2>3 DEF ClaimCall, Answered, DeliveryReady
    <2> QED
      BY <2>2, <2>3
  <1>7. ASSUME NEW w \in Workers, ClaimLost(w) \/ CallLost(w) PROVE DeliveryReady'
    <2>1. worker[w].at # "idle" /\ worker[w].job \in Jobs
      BY <1>1, <1>7 DEF ClaimLost, CallLost, DeliveryReady
    <2>2. \A c \in late' : c.job \in Jobs
      <3>1. PICK op, tag, e : late' = late \cup {Call(op, worker[w].job, tag, e)}
        BY <1>7 DEF ClaimLost, CallLost
      <3>2. Call(op, worker[w].job, tag, e).job = worker[w].job
        BY DEF Call
      <3> QED
        BY <1>1, <2>1, <3>1, <3>2 DEF DeliveryReady
    <2> QED
      BY <1>3, <1>4, <1>7, <2>1, <2>2 DEF ClaimLost, CallLost, GivesUp
  <1>8. ASSUME NEW w \in Workers, CompleteCall(w) \/ TrainingFails(w) \/ FailCall(w) \/ WorkerCrash(w)
        PROVE  DeliveryReady'
    BY <1>1, <1>3, <1>8 DEF CompleteCall, TrainingFails, FailCall, WorkerCrash, GivesUp, DeliveryReady
  <1>9. CASE UNCHANGED <<queue, worker>> /\ late' \subseteq late
    BY <1>1, <1>9 DEF DeliveryReady
  <1>10. ASSUME NEW c \in late, LateCall(c) \/ LateCallDropped(c) PROVE DeliveryReady'
    BY <1>9, <1>10 DEF LateCall, LateCallDropped
  <1>11. (\E w \in Workers : Beat(w)) \/ (\E j \in Jobs : User(j)) \/ (\E r \in Reapers : Sweep(r) \/ SweepFails(r)) \/ Elapse
           => DeliveryReady'
    BY <1>9 DEF Beat, User, Sweep, SweepFails, Elapse, deliveryVars
  <1> QED
    BY <1>2, <1>5, <1>6, <1>7, <1>8, <1>9, <1>10, <1>11 DEF DispatchNext, Work, WorkerFault, allVars, deliveryVars

-----------------------------------------------------------------------------
\* A dispatch that can be found, of a job that waits for it and goes on waiting, can still be
\* found: it moves from its row to the queue, to a worker and back, whatever fails.
LEMMA StillQueued ==
  ASSUME DeliveryReady, NEW j \in Jobs, NEW g \in Nat, Findable(j, g), published' \subseteq published,
         UNCHANGED queue, NEW w \in Workers, NEW s, Become(w, s), worker[w].at # "delivered"
  PROVE  Findable(j, g)'
  <1>1. \A v \in Workers : Holds(v, j, g) => Holds(v, j, g)'
    BY DEF Holds, Become, DeliveryReady
  <1> QED
    BY <1>1 DEF Findable

LEMMA NackFinds ==
  ASSUME DeliveryReady, NEW j \in Jobs, NEW g \in Nat, Findable(j, g), UNCHANGED published,
         NEW w \in Workers, worker[w].at = "delivered", Nack(w)
  PROVE  Findable(j, g)'
  <1>1. worker[w].job \in Jobs /\ worker[w].tag \in Nat
    BY DEF DeliveryReady, WorkerState
  <1>2. PICK d \in Jobs \X Nat : d = <<worker[w].job, worker[w].tag>>
    BY <1>1
  <1>3. PICK q \in Seq(Jobs \X Nat) : q = queue
    BY DEF DeliveryReady
  <1>4. <<d>> \in Seq(Jobs \X Nat) /\ Len(<<d>>) = 1 /\ <<d>>[1] = d
    OBVIOUS
  <1>5. /\ Len(<<d>> \o q) = Len(q) + 1 /\ (<<d>> \o q)[1] = d
        /\ \A i \in 1..Len(q) : (<<d>> \o q)[i + 1] = q[i]
    BY <1>3, <1>4
  <1>6. queue' = <<d>> \o q
    BY <1>2, <1>3 DEF Nack
  <1>7. Len(q) \in Nat /\ 1 \in 1..Len(queue') /\ \A i \in 1..Len(q) : i + 1 \in 1..Len(queue')
    BY <1>5, <1>6
  <1>8. \A v \in Workers : v # w /\ Holds(v, j, g) => Holds(v, j, g)'
    BY DEF Holds, Nack, Become, DeliveryReady
  <1>9. CASE <<j, g>> = d
    BY <1>5, <1>6, <1>7, <1>9 DEF Findable
  <1>10. CASE <<j, g>> # d
    <2>1. ~ Holds(w, j, g)
      BY <1>2, <1>10 DEF Holds
    <2>2. (\E i \in 1..Len(queue) : queue[i] = <<j, g>>) => \E i \in 1..Len(queue') : queue'[i] = <<j, g>>
      BY <1>3, <1>5, <1>6, <1>7
    <2> QED
      BY <1>8, <2>1, <2>2 DEF Findable
  <1> QED
    BY <1>9, <1>10

LEMMA DeliverFinds ==
  ASSUME DeliveryReady, NEW j \in Jobs, NEW g \in Nat, Findable(j, g), NEW w \in Workers, Deliver(w)
  PROVE  Findable(j, g)'
  <1>1. PICK q \in Seq(Jobs \X Nat) : q = queue
    BY DEF DeliveryReady
  <1>2. q # <<>> /\ queue' = Tail(q) /\ UNCHANGED published
    BY <1>1 DEF Deliver
  <1>3. Len(q) \in Nat \ {0} /\ Len(Tail(q)) = Len(q) - 1 /\ \A i \in 1..Len(Tail(q)) : Tail(q)[i] = q[i + 1]
    BY <1>2
  <1>4. Head(q) = q[1]
    BY <1>2
  <1>5. \A v \in Workers : Holds(v, j, g) => Holds(v, j, g)'
    BY DEF Holds, Deliver, Become, DeliveryReady, IdleWorker
  <1>6. CASE Head(q) = <<j, g>>
    <2>1. worker'[w] = WorkerAt("delivered", j, g, 0)
      BY <1>1, <1>6 DEF Deliver, Become, DeliveryReady
    <2>2. Holds(w, j, g)'
      BY <2>1 DEF Holds, WorkerAt
    <2> QED
      BY <2>2 DEF Findable
  <1>7. CASE Head(q) # <<j, g>>
    <2>1. ASSUME NEW i \in 1..Len(q), q[i] = <<j, g>> PROVE \E k \in 1..Len(queue') : queue'[k] = <<j, g>>
      <3>1. i # 1
        BY <1>4, <1>7, <2>1
      <3>2. i - 1 \in 1..Len(Tail(q)) /\ Tail(q)[i - 1] = q[i]
        BY <1>3, <3>1
      <3> QED
        BY <1>2, <2>1, <3>2
    <2> QED
      BY <1>1, <1>2, <1>5, <2>1 DEF Findable
  <1> QED
    BY <1>6, <1>7

LEMMA PublishFinds ==
  ASSUME DispatchInv, NEW j \in Jobs, NEW g \in Nat, Findable(j, g), NEW i \in Jobs, NEW h, PublishEvent(i, h)
  PROVE  Findable(j, g)'
  <1>1. outbox[i] \in Seq(Event) /\ h \in 1..Len(outbox[i]) /\ outbox[i][h].generation = h
    BY DEF PublishEvent, DispatchInv, IInv, TypeOK, Consistent, OutboxAgrees
  <1>2. h \in Nat
    BY <1>1
  <1>3. PICK q \in Seq(Jobs \X Nat) : q = queue
    BY DEF DispatchInv, DeliveryReady
  <1>4. PICK d \in Jobs \X Nat : d = <<i, h>>
    BY <1>2
  <1>5. queue' = Append(q, d) /\ UNCHANGED worker /\ (published' = published \/ published' = published \cup {d})
    BY <1>1, <1>3, <1>4 DEF PublishEvent
  <1>6. /\ Len(queue') = Len(q) + 1 /\ queue'[Len(q) + 1] = d /\ \A k \in 1..Len(q) : queue'[k] = q[k]
        /\ Len(q) \in Nat
    BY <1>5
  <1>7. d = queue'[Len(q) + 1] /\ Len(q) + 1 \in 1..Len(queue') /\ 1..Len(q) \subseteq 1..Len(queue')
    BY <1>6
  <1>8. \A v \in Workers : Holds(v, j, g) => Holds(v, j, g)'
    BY <1>5 DEF Holds
  <1>9. CASE <<j, g>> = d
    BY <1>7, <1>9 DEF Findable
  <1>10. CASE <<j, g>> # d
    <2>1. <<j, g>> \notin published => <<j, g>> \notin published'
      BY <1>5, <1>10
    <2>2. (\E k \in 1..Len(queue) : queue[k] = <<j, g>>) => \E k \in 1..Len(queue') : queue'[k] = <<j, g>>
      BY <1>3, <1>6, <1>7
    <2> QED
      BY <1>8, <2>1, <2>2 DEF Findable
  <1> QED
    BY <1>9, <1>10

\* A claim that a waiting job's dispatch is refused is answered with an error.
LEMMA ClaimFinds ==
  ASSUME DispatchInv, NEW j \in Jobs, NEW g \in Nat, Findable(j, g), NEW w \in Workers, ClaimCall(w),
         job[j].status = "queued", job[j].generation = g, job'[j].status = "queued"
  PROVE  Findable(j, g)'
  <1>1. worker[w].at = "delivered" /\ worker[w].job \in Jobs /\ UNCHANGED published
    BY DEF ClaimCall, DispatchInv, DeliveryReady
  <1>2. CASE Holds(w, j, g)
    <2>1. ClaimAnswer(j, g, now) # "claimed"
      <3>1. ASSUME ClaimAnswer(j, g, now) = "claimed" PROVE job'[j].status = "running"
        <4>1. Claim(j, g, now)
          BY <1>2, <3>1 DEF ClaimCall, Holds
        <4>2. job[j] \in Job /\ job \in [Jobs -> Job]
          BY DEF DispatchInv, IInv, TypeOK
        <4> QED
          BY <4>1, <4>2 DEF Claim, Job
      <3> QED
        BY <3>1
    <2>2. ClaimAnswer(j, g, now) \notin {"obsolete", "terminal"}
      BY DEF ClaimAnswer, Exists, Terminal, Missing, TerminalStatus
    <2>3. Nack(w)
      BY <1>2, <2>1, <2>2 DEF ClaimCall, Answered, Holds
    <2> QED
      BY <1>1, <2>3, NackFinds DEF DispatchInv
  <1>3. CASE ~ Holds(w, j, g)
    <2>1. CASE Nack(w)
      BY <1>1, <2>1, NackFinds DEF DispatchInv
    <2>2. ASSUME NEW s, Become(w, s), UNCHANGED queue PROVE Findable(j, g)'
      <3>1. \A v \in Workers : v # w /\ Holds(v, j, g) => Holds(v, j, g)'
        BY <2>2 DEF Holds, Become, DispatchInv, DeliveryReady
      <3> QED
        BY <1>1, <1>3, <2>2, <3>1 DEF Findable
    <2> QED
      BY <2>1, <2>2 DEF ClaimCall, Answered
  <1> QED
    BY <1>2, <1>3

LEMMA FindableKept ==
  ASSUME DispatchInv, [DispatchNext]_allVars, NEW j \in Jobs, NEW g \in Nat, Findable(j, g),
         job[j].status = "queued", job[j].generation = g, job'[j].status = "queued"
  PROVE  Findable(j, g)'
  <1>1. DeliveryReady
    BY DEF DispatchInv
  <1>2. CASE UNCHANGED <<queue, worker>> /\ published' \subseteq published
    BY <1>2 DEF Findable, Holds
  <1>3. ASSUME NEW w \in Workers, Work(w) \/ Beat(w) \/ WorkerFault(w) PROVE Findable(j, g)'
    <2>1. CASE Deliver(w)
      BY <1>1, <2>1, DeliverFinds
    <2>2. CASE ClaimCall(w)
      BY <2>2, ClaimFinds
    <2>3. CASE ClaimLost(w)
      BY <1>1, <2>3, NackFinds DEF ClaimLost
    <2>4. CASE CompleteCall(w) \/ TrainingFails(w) \/ FailCall(w) \/ CallLost(w) \/ WorkerCrash(w)
      BY <1>1, <1>2, <2>4, StillQueued DEF CompleteCall, TrainingFails, FailCall, CallLost, WorkerCrash, GivesUp
    <2>5. CASE Beat(w)
      BY <1>2, <2>5 DEF Beat, deliveryVars
    <2> QED
      BY <1>3, <2>1, <2>2, <2>3, <2>4, <2>5 DEF Work, WorkerFault
  <1>4. ASSUME NEW i \in Jobs, NEW h, PublishEvent(i, h) PROVE Findable(j, g)'
    BY <1>4, PublishFinds
  <1>5. (\E c \in late : LateCall(c) \/ LateCallDropped(c)) \/ (\E i \in Jobs : User(i))
          \/ (\E r \in Reapers : Sweep(r) \/ SweepFails(r)) \/ Elapse => Findable(j, g)'
    BY <1>2 DEF LateCall, LateCallDropped, User, Sweep, SweepFails, Elapse, deliveryVars
  <1> QED
    BY <1>2, <1>3, <1>4, <1>5 DEF DispatchNext, allVars, deliveryVars

LEMMA WaitingFoundKept ==
  ASSUME DispatchInv, [DispatchNext]_allVars
  PROVE  WaitingFound'
  <1> SUFFICES ASSUME NEW j \in Jobs, NEW g \in Nat, job'[j].status = "queued", job'[j].generation = g
               PROVE  g >= 1 /\ Findable(j, g)'
    BY DEF WaitingFound
  <1>1. job[j].generation \in Nat
    BY DEF DispatchInv, IInv, TypeOK, Job
  <1>2. GenerationMoves(j)
    BY DispatchMoves
  <1>3. CASE job[j].status = "queued" /\ job[j].generation = g
    BY <1>3, FindableKept DEF DispatchInv, WaitingFound
  <1>4. CASE g = job[j].generation + 1
    <2>1. <<j, g>> \notin published'
      BY <1>1, <1>4, MarksExist
    <2> QED
      BY <1>1, <1>4, <2>1 DEF Findable
  <1> QED
    BY <1>2, <1>3, <1>4 DEF GenerationMoves

-----------------------------------------------------------------------------
\* The invariant of the lifecycle holds end to end, and dispatches can be found.
THEOREM DispatchInvariance == DispatchSpec => []DispatchInv
  <1>1. DispatchInv /\ [DispatchNext]_allVars => DispatchInv'
    BY DispatchConsistent, DeliveryReadyKept, PublishedExistKept, WaitingFoundKept DEF DispatchInv
  <1> QED
    BY <1>1, DispatchInitInv, PTL DEF DispatchSpec

\* The current dispatch of a queued job is to be published, in the queue, or with a worker that
\* has not acknowledged it (RunBatch, _on_message, Resume, Fail, ReapExpired), whatever is
\* lost, repeated or late.
THEOREM DispatchesAreNotLost == DispatchSpec => []DispatchNotLost
  <1>1. DispatchInv => DispatchNotLost
    <2> SUFFICES ASSUME DispatchInv, NEW j \in Jobs, job[j].status = "queued"
                 PROVE  \/ \E g \in 1..Len(outbox[j]) :
                             outbox[j][g].generation = job[j].generation /\ <<j, g>> \notin published
                        \/ <<j, job[j].generation>> \in Queued \cup Delivered
      BY DEF DispatchNotLost
    <2>1. job[j].generation \in Nat
      BY DEF DispatchInv, IInv, TypeOK, Job
    <2>2. job[j].generation >= 1 /\ Findable(j, job[j].generation)
      BY <2>1 DEF DispatchInv, WaitingFound
    <2>3. Len(outbox[j]) = job[j].generation /\ \A g \in 1..Len(outbox[j]) : outbox[j][g].generation = g
      BY DEF DispatchInv, IInv, Consistent, OutboxAgrees
    <2>4. ASSUME NEW w \in Workers, Holds(w, j, job[j].generation)
          PROVE  <<j, job[j].generation>> \in Delivered
      BY <2>4 DEF Holds, Delivered, InHand
    <2> QED
      BY <2>1, <2>2, <2>3, <2>4 DEF Findable, Queued
  <1> QED
    BY <1>1, DispatchInvariance, PTL

=============================================================================
