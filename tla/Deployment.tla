------------------------------ MODULE Deployment ------------------------------
(***************************************************************************)
(* One hardware deployment of a published model: its row and outbox in     *)
(* the control plane (postgres/deployments.go), the relay that publishes   *)
(* its builds and ends those whose lease ran out (cmd/deployment-relay),   *)
(* the builders (compute/deployment_worker.py) and the inference that      *)
(* uses the result (postgres/inference_service.go).                        *)
(*                                                                         *)
(* Every request for a build has a token.  A builder holds one             *)
(* unacknowledged message at a time, claims the token, compiles in a child *)
(* process, keeps the result on its disk and completes the token.  A       *)
(* disconnected builder keeps its worker id, a restarted one gets another. *)
(* A call it gave up on is kept in `late' and executed, or not, later.     *)
(*                                                                         *)
(* All builders have the runtime and the target profile of the deployment, *)
(* as every queue has one profile.  The order of a queue is left out.      *)
(***************************************************************************)
EXTENDS Integers, FiniteSets

CONSTANTS
    Builders,   \* builder hosts, each with its disk
    MaxToken,   \* bound: builds that are requested
    FaultLimit  \* bound: crashes, disconnections, lost answers, repeated publishes

ASSUME ConstantsAssumption == MaxToken \in Nat /\ FaultLimit \in Nat

VARIABLES
    model,    \* status of the model version
    row,      \* its row in model_deployments
    outbox,   \* deployment_outbox, by token
    queue,    \* messages in the queue, by token
    builder,  \* the builder processes
    disk,     \* outcome.json or result.json of each build directory
    late,     \* calls their builder gave up on, not executed yet
    builds,   \* compilations started for each token
    request,  \* the artifact an inference is running with
    served,   \* recorded inferences, with the model's status at that time
    faults    \* faults so far

messageVars == <<outbox, queue>>
builderVars == <<builder, disk, builds>>
inferenceVars == <<request, served>>
vars == <<model, row, outbox, queue, builder, disk, late, builds, request, served, faults>>

-----------------------------------------------------------------------------
Tokens == 1..MaxToken
NoToken == 0

\* worker_id names one process: a host and how often it was started again.
WorkerIds == Builders \X Nat
NoWorker == <<"no worker", 0>>

\* A host compiles a token at most once (its result stays on the disk), so an
\* artifact is named by the two.
Artifacts == Tokens \X Builders
NoArtifact == <<0, "no builder">>

\* good: registered when completed.  invalid: refused with 422.  unreadable:
\* the engine or the build log cannot be verified, which is a server error.
Engines == {"good", "invalid", "unreadable"}
Results == Engines \cup {"failure"}
NoResult == "nothing"

\* live: the lease has not run out.
Row == [status : {"absent", "queued", "building", "ready", "failed"}, token : Tokens \cup {NoToken},
        worker : WorkerIds \cup {NoWorker}, live : BOOLEAN, compiled : Artifacts \cup {NoArtifact}]
NoRow == [status |-> "absent", token |-> NoToken, worker |-> NoWorker, live |-> FALSE,
          compiled |-> NoArtifact]

\* refused: about to report that the engine was refused with 422.
Builder == [at : {"idle"}, token : {NoToken}, starts : Nat]
      \cup [at : {"claiming", "building", "finishing", "refused"}, token : Tokens, starts : Nat]
Started(n) == [at |-> "idle", token |-> NoToken, starts |-> n]

Call == [op : {"claim", "complete"}, token : Tokens, worker : WorkerIds,
         result : Results \cup {NoResult}]

\* Rows, messages and processes hold values of these kinds: a builder that is
\* busy has the token of a build, and only requested builds are ever counted.
TypeOK ==
    /\ model \in {"production", "archived"}
    /\ row \in Row
    /\ outbox \in [Tokens -> {"none", "pending", "published"}]
    /\ queue \in [Tokens -> Nat]
    /\ builder \in [Builders -> Builder]
    /\ disk \in [Builders -> [Tokens -> Results \cup {NoResult}]]
    /\ late \subseteq Call
    /\ builds \in [Tokens -> Nat]
    /\ request \in Artifacts \cup {NoArtifact}
    /\ served \subseteq Artifacts \X {"production", "archived"}
    /\ faults \in 0..FaultLimit

Init ==
    /\ model = "production"
    /\ row = NoRow
    /\ outbox = [t \in Tokens |-> "none"]
    /\ queue = [t \in Tokens |-> 0]
    /\ builder = [b \in Builders |-> Started(0)]
    /\ disk = [b \in Builders |-> [t \in Tokens |-> NoResult]]
    /\ late = {}
    /\ builds = [t \in Tokens |-> 0]
    /\ request = NoArtifact
    /\ served = {}
    /\ faults = 0

Faulty == faults < FaultLimit /\ faults' = faults + 1

-----------------------------------------------------------------------------
\* Users

\* The row and its outbox row are written in one transaction.
Queued(t) ==
    /\ row' = [row EXCEPT !.status = "queued", !.token = t, !.worker = NoWorker, !.live = FALSE]
    /\ outbox' = [outbox EXCEPT ![t] = "pending"]

\* Repeating it finds the row, whose outbox row is never inserted twice.
Create ==
    /\ model = "production"
    /\ row.status = "absent" /\ 1 \in Tokens
    /\ Queued(1)
    /\ UNCHANGED <<model, queue, builderVars, late, inferenceVars, faults>>

Retry ==
    /\ row.status = "failed" /\ model = "production"
    /\ row.token + 1 \in Tokens
    /\ Queued(row.token + 1)
    /\ UNCHANGED <<model, queue, builderVars, late, inferenceVars, faults>>

\* Only a model that was never archived can be published again.
Archive ==
    /\ model = "production"
    /\ model' = "archived"
    /\ UNCHANGED <<row, messageVars, builderVars, late, inferenceVars, faults>>

-----------------------------------------------------------------------------
\* The relay.  It keeps the outbox row locked until it is marked.

\* Mutant of Dispatched: the row is marked although nothing was published.
Dispatched_unpublished(t) ==
    /\ outbox' = [outbox EXCEPT ![t] = "published"]
    /\ UNCHANGED queue

Dispatched(t) ==
    /\ outbox' = [outbox EXCEPT ![t] = "published"]
    /\ queue' = [queue EXCEPT ![t] = @ + 1]

\* The oldest pending row first.
Pending == {t \in Tokens : outbox[t] = "pending"}
Dispatch ==
    /\ \E t \in Pending : (\A u \in Pending : t <= u) /\ Dispatched(t)
    /\ UNCHANGED <<model, row, builderVars, late, inferenceVars, faults>>

\* The message was stored, but its confirm or the commit is lost.
DispatchUnmarked ==
    /\ \E t \in Pending : (\A u \in Pending : t <= u) /\ queue' = [queue EXCEPT ![t] = @ + 1]
    /\ Faulty
    /\ UNCHANGED <<model, row, outbox, builderVars, late, inferenceVars>>

\* Mutant of Expired: only leases that were given up count as run out.
Expired_givenUp == row.status = "building" /\ row.worker = NoWorker

Expired == row.status = "building" /\ ~row.live

ExpireLease ==
    /\ Expired
    /\ row' = [row EXCEPT !.status = "failed"]
    /\ UNCHANGED <<model, messageVars, builderVars, late, inferenceVars, faults>>

-----------------------------------------------------------------------------
\* What the control plane does with the calls of builders

\* Mutant of Claimable: a build whose lease ran out is handed to another worker.
Claimable_takeover(t, w) ==
    /\ row.token = t /\ model = "production"
    /\ \/ row.status = "queued"
       \/ row.status = "building" /\ (row.worker = w \/ ~row.live)

Claimable(t, w) ==
    /\ row.token = t /\ model = "production"
    /\ \/ row.status = "queued"
       \/ row.status = "building" /\ row.worker = w /\ row.live

Claimed(w) == [row EXCEPT !.status = "building", !.worker = w, !.live = TRUE]

\* Mutant of Holds: the token is not compared.
Holds_anyToken(t, w) == row.worker = w /\ row.status = "building" /\ row.live

\* The build t is w's, under a live lease: what Heartbeat and Complete ask for.
Holds(t, w) ==
    row.token = t /\ row.worker = w /\ row.status = "building" /\ row.live

\* Complete stores the failure a builder reports, a good engine, or a failure
\* because the model was archived meanwhile.
Completed(t, w, result) ==
    IF result = "failure" \/ model # "production"
    THEN [row EXCEPT !.status = "failed", !.live = FALSE]
    ELSE [row EXCEPT !.status = "ready", !.live = FALSE, !.compiled = <<t, w[1]>>]

Stores(t, w, result) == result \in {"good", "failure"} /\ Holds(t, w)

\* A failure may be reported again.  So may an engine, but builders do not tell
\* that from a 409.
RepeatsFailure(t, w) == row.token = t /\ row.worker = w /\ row.status = "failed"

\* The control plane executes a call nobody waits for any more.
LateCall(c) ==
    /\ c \in late
    /\ late' = late \ {c}
    /\ \/ c.op = "claim" /\ Claimable(c.token, c.worker) /\ row' = Claimed(c.worker)
       \/ /\ c.op = "complete" /\ Stores(c.token, c.worker, c.result)
          /\ row' = Completed(c.token, c.worker, c.result)
    /\ UNCHANGED <<model, messageVars, builderVars, inferenceVars, faults>>

\* Or refuses it, or never received it.
LateCallDropped(c) ==
    /\ c \in late
    /\ late' = late \ {c}
    /\ UNCHANGED <<model, row, messageVars, builderVars, inferenceVars, faults>>

-----------------------------------------------------------------------------
\* Builders

Id(b) == <<b, builder[b].starts>>
TokenOf(b) == builder[b].token
Result(b) == disk[b][TokenOf(b)]

\* What a call says the builder made: a refused engine is reported as a failure.
Reported(b) == IF builder[b].at = "refused" THEN "failure" ELSE Result(b)

At(b, at) == builder' = [builder EXCEPT ![b].at = at]
Idle(b) == builder' = [builder EXCEPT ![b] = Started(@.starts)]
Ack(b) == Idle(b) /\ UNCHANGED queue
\* An exception closes the connection, and the broker delivers the message again.
Requeue(b) == Idle(b) /\ queue' = [queue EXCEPT ![TokenOf(b)] = @ + 1]

Deliver(b) ==
    /\ builder[b].at = "idle"
    /\ \E t \in Tokens :
         /\ queue[t] > 0
         /\ queue' = [queue EXCEPT ![t] = @ - 1]
         /\ builder' = [builder EXCEPT ![b].at = "claiming", ![b].token = t]
    /\ UNCHANGED <<model, row, outbox, disk, late, builds, inferenceVars, faults>>

\* A claimed build that left a result on the disk is not compiled again.  A
\* message that is refused is acknowledged as a duplicate.
ClaimCall(b) ==
    /\ builder[b].at = "claiming"
    /\ \/ /\ Claimable(TokenOf(b), Id(b))
          /\ row' = Claimed(Id(b))
          /\ \/ Result(b) # NoResult /\ At(b, "finishing") /\ UNCHANGED builds
             \/ /\ Result(b) = NoResult /\ At(b, "building")
                /\ builds' = [builds EXCEPT ![TokenOf(b)] = @ + 1]
          /\ UNCHANGED queue
       \/ ~Claimable(TokenOf(b), Id(b)) /\ Ack(b) /\ UNCHANGED <<row, builds>>
    /\ UNCHANGED <<model, outbox, disk, late, inferenceVars, faults>>

\* The child process ends, and the outcome is kept before it is reported.
Compile(b) ==
    /\ builder[b].at = "building"
    /\ \E result \in Results : disk' = [disk EXCEPT ![b][TokenOf(b)] = result]
    /\ At(b, "finishing")
    /\ UNCHANGED <<model, row, messageVars, late, builds, inferenceVars, faults>>

\* Only a lease that is still live is renewed.
Heartbeat(b) ==
    /\ builder[b].at = "building"
    /\ Holds(TokenOf(b), Id(b))
    /\ row' = [row EXCEPT !.live = TRUE]
    /\ UNCHANGED <<model, messageVars, builderVars, late, inferenceVars, faults>>

\* A heartbeat is refused or not answered, or the time limit or the connection
\* ends the build: the child is ended too and a failure is left behind.
BuildInterrupted(b) ==
    /\ builder[b].at = "building"
    /\ disk' = [disk EXCEPT ![b][TokenOf(b)] = "failure"]
    /\ Requeue(b)
    /\ UNCHANGED <<model, row, outbox, late, builds, inferenceVars, faults>>

\* finish: what is stored, repeated or refused with 409 is acknowledged.
CompleteCall(b) ==
    /\ builder[b].at = "finishing"
    /\ \/ /\ Stores(TokenOf(b), Id(b), Result(b))
          /\ row' = Completed(TokenOf(b), Id(b), Result(b))
          /\ Ack(b)
       \/ /\ Result(b) \in {"good", "failure"} /\ ~Holds(TokenOf(b), Id(b))
          /\ Ack(b) /\ UNCHANGED row
       \/ Result(b) = "invalid" /\ At(b, "refused") /\ UNCHANGED <<row, queue>>
       \/ Result(b) = "unreadable" /\ Requeue(b) /\ UNCHANGED row
    /\ UNCHANGED <<model, outbox, disk, late, builds, inferenceVars, faults>>

\* The report that the engine was refused.  A 409 is not expected here.
RefusedCall(b) ==
    /\ builder[b].at = "refused"
    /\ \/ /\ Stores(TokenOf(b), Id(b), "failure")
          /\ row' = Completed(TokenOf(b), Id(b), "failure")
          /\ Ack(b)
       \/ RepeatsFailure(TokenOf(b), Id(b)) /\ Ack(b) /\ UNCHANGED row
       \/ /\ ~Holds(TokenOf(b), Id(b)) /\ ~RepeatsFailure(TokenOf(b), Id(b))
          /\ Requeue(b) /\ UNCHANGED row
    /\ UNCHANGED <<model, outbox, disk, late, builds, inferenceVars, faults>>

\* The answer to a call does not arrive in time.  The builder calls again.
CallLost(b) ==
    /\ builder[b].at \in {"claiming", "finishing", "refused"}
    /\ Faulty
    /\ late' = late \cup
         {IF builder[b].at = "claiming"
          THEN [op |-> "claim", token |-> TokenOf(b), worker |-> Id(b), result |-> NoResult]
          ELSE [op |-> "complete", token |-> TokenOf(b), worker |-> Id(b), result |-> Reported(b)]}
    /\ UNCHANGED <<model, row, messageVars, builderVars, inferenceVars>>

\* All four attempts failed, or the connection to the broker was lost.
Disconnect(b) ==
    /\ builder[b].at \in {"claiming", "finishing", "refused"}
    /\ Faulty
    /\ Requeue(b)
    /\ UNCHANGED <<model, row, outbox, disk, late, builds, inferenceVars>>

\* The process dies, and its child with it, and is started again.
Crash(b) ==
    /\ Faulty
    /\ builder' = [builder EXCEPT ![b] = Started(@.starts + 1)]
    /\ queue' = [t \in Tokens |-> IF t = TokenOf(b) THEN queue[t] + 1 ELSE queue[t]]
    /\ UNCHANGED <<model, row, outbox, disk, late, builds, inferenceVars>>

-----------------------------------------------------------------------------
\* Inference

Select ==
    /\ request = NoArtifact
    /\ model = "production" /\ row.status = "ready"
    /\ request' = row.compiled
    /\ UNCHANGED <<model, row, messageVars, builderVars, late, served, faults>>

\* Mutant of Usable: the status of the model is not read again.
Usable_modelOnce == row.status = "ready"

\* Read again, and locked, in the transaction that records the result.
Usable == model = "production" /\ row.status = "ready"

Record ==
    /\ request # NoArtifact
    /\ request' = NoArtifact
    /\ \/ Usable /\ served' = served \cup {<<request, model>>}
       \/ UNCHANGED served
    /\ UNCHANGED <<model, row, messageVars, builderVars, late, faults>>

-----------------------------------------------------------------------------
AtWork(b) == builder[b].at # "idle" /\ row.token = TokenOf(b) /\ row.worker = Id(b)

Lapse ==
    /\ row.live
    /\ row' = [row EXCEPT !.live = FALSE]
    /\ UNCHANGED <<model, messageVars, builderVars, late, inferenceVars, faults>>
LapseUnheld == (\A b \in Builders : ~AtWork(b)) /\ Lapse

User == Create \/ Retry \/ Archive
Relay == Dispatch \/ ExpireLease
Work(b) == Deliver(b) \/ ClaimCall(b) \/ Compile(b) \/ BuildInterrupted(b) \/ CompleteCall(b) \/ RefusedCall(b)
BuilderFault(b) == CallLost(b) \/ Disconnect(b) \/ Crash(b)

Next ==
    \/ User
    \/ Relay \/ DispatchUnmarked
    \/ \E b \in Builders : Work(b) \/ Heartbeat(b) \/ BuilderFault(b)
    \/ \E c \in late : LateCall(c) \/ LateCallDropped(c)
    \/ Select \/ Record
    \/ Lapse

\* The relay and the builders go on for ever, and a lease that nobody renews
\* runs out.
Fairness ==
    /\ WF_vars(Dispatch) /\ WF_vars(ExpireLease)
    /\ \A b \in Builders : WF_vars(Work(b))
    /\ WF_vars(LapseUnheld)

Spec == Init /\ [][Next]_vars /\ Fairness

-----------------------------------------------------------------------------
\* A deployment becomes ready only with the engine of the build requested last,
\* reported by the worker that claimed it while its lease was live and the model
\* was published, and with bytes that were verified; once ready it keeps that
\* engine (Complete; docs/inference-deployments.md, life cycle).
ActivationIsFenced ==
    [][/\ row.status # "ready" /\ row'.status = "ready" =>
            /\ row'.compiled[1] = row.token
            /\ row'.compiled[2] = row.worker[1]
            /\ disk[row.worker[1]][row.token] = "good"
            /\ row.live /\ model = "production"
       /\ row.status = "ready" => row' = row]_vars

\* No token is compiled twice, although its message may be delivered often, to
\* several builders, and its claim and completion be repeated (consume: "must
\* not compile a completed engine again").
CompiledOnce == \A t \in Tokens : builds[t] <= 1

\* No inference is recorded for a model after it was archived, nor for an engine
\* that is not the deployment's, although both were read before the prediction
\* (Predict: "a concurrently retired model cannot silently produce a newly
\* recorded production inference").
ServedInProduction ==
    \A s \in served : s[2] = "production" /\ s[1] = row.compiled /\ row.status = "ready"

\* A queued deployment of a published model can be found by a builder: its
\* message is still to be published, in the queue, or with a builder that has not
\* yet claimed it.  Retry only takes failed deployments, so if this failed the
\* deployment would stay queued for ever (Create, Retry, dispatch, consume).
BuildNotLost ==
    row.status = "queued" /\ model = "production" =>
        \/ outbox[row.token] = "pending"
        \/ queue[row.token] > 0
        \/ \E b \in Builders : TokenOf(b) = row.token /\ builder[b].at = "claiming"

\* A deployment does not wait or build for ever, unless its model is archived or
\* its engine cannot be read from the object store (serve, Complete).
BuildSettles ==
    row.status \in {"queued", "building"} ~>
        \/ row.status \in {"ready", "failed"}
        \/ model = "archived"
        \/ \E b \in Builders, t \in Tokens : t = row.token /\ disk[b][t] = "unreadable"
=============================================================================
