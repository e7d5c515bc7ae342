------------------------------ MODULE AgentRun ------------------------------
(***************************************************************************)
(* Runs of the agent service: the runs table, the runners that work on it, *)
(* and the users that submit, stop, confirm and resume (storage/store.go,  *)
(* runner/runner.go, httpapi/server.go under agent/internal).              *)
(*                                                                         *)
(* A runner claims a run with an epoch and a lease, works on its own copy  *)
(* of the run's state and writes it back with Save, which the epoch and    *)
(* the lease fence.  Between two Saves it asks the model, reads from the   *)
(* platform or dispatches one confirmed write.  A thread of its own beats  *)
(* the lease; when the run was stopped or lost it cancels the context, and *)
(* calls made with that context fail.  Runners crash and stall.            *)
(*                                                                         *)
(* The platform answers as OperationOutcome allows.  Messages, token       *)
(* counts, grants, receipts and events are left out.                       *)
(***************************************************************************)
EXTENDS Integers, FiniteSets

CONSTANTS
    Runs,          \* request keys; a repeated request gets the run it has
    Owners,        \* users
    Threads,       \* conversations of every user
    Runners,       \* runner goroutines of all replicas
    MaxRounds,     \* model rounds of a run (8)
    MaxTools,      \* tool calls of a run (24)
    RunningLimit,  \* running runs (8)
    OwnerRunning,  \* running runs of one owner (2)
    OwnerActive,   \* unfinished runs of one owner (8)
    QueueLimit,    \* queued and running runs a submission may find (128)
    MaxEpoch,      \* bound: users confirm and resume no run beyond this epoch
    FaultLimit     \* bound: crashes, stalls and failed heartbeats

ASSUME ConstantsAssumption ==
    /\ {MaxRounds, MaxTools, MaxEpoch, FaultLimit} \subseteq Nat
    /\ {RunningLimit, OwnerRunning, OwnerActive, QueueLimit} \subseteq Nat \ {0}

VARIABLES
    row,       \* the runs table
    runner,    \* the runners
    requests,  \* writes sent to the platform and not handled yet
    happened,  \* writes that took effect
    outcome,   \* what the platform reports of each write
    asked,     \* how often the model was asked for each round
    sent,      \* how often each write was sent
    confirms,  \* how often each write was confirmed by its user
    faults     \* faults so far

platformVars == <<happened, outcome>>
historyVars == <<asked, sent, confirms>>
vars == <<row, runner, requests, happened, outcome, asked, sent, confirms, faults>>

-----------------------------------------------------------------------------
Conversations == Owners \X Threads
NoConversation == <<"nobody", 0>>

\* The operation id of a proposal is new; the number of tool calls at that
\* moment is too, among the proposals of a run that were ever saved.
ToolNumbers == 1..MaxTools
NoProposal == 0
RunOperations == Runs \X ToolNumbers

Platform == INSTANCE OperationOutcome WITH Operations <- RunOperations

Active == {"queued", "running", "waiting_confirmation", "waiting_auth"}
Ended == {"succeeded", "failed", "cancelled", "unknown"}

\* What the model asked for last: one group of reads, a write, a training plan
\* (a write whose arguments are validated first), or calls that are refused.
CallKinds == {"none", "reads", "write", "plan", "invalid"}

State == [round : 0..MaxRounds, tools : 0..MaxTools, modelPending : BOOLEAN, calls : CallKinds,
          proposal : ToolNumbers \cup {NoProposal}, confirmed : BOOLEAN, writePending : BOOLEAN,
          told : [ToolNumbers -> {"nothing", "succeeded", "rejected"}]]
NewState == [round |-> 0, tools |-> 0, modelPending |-> FALSE, calls |-> "none",
             proposal |-> NoProposal, confirmed |-> FALSE, writePending |-> FALSE,
             told |-> [n \in ToolNumbers |-> "nothing"]]

\* live: the lease has not run out.
Row == [status : Active \cup Ended \cup {"absent"}, conversation : Conversations \cup {NoConversation},
        epoch : Nat, live : BOOLEAN, cancel : BOOLEAN, state : State]
NoRow == [status |-> "absent", conversation |-> NoConversation, epoch |-> 0, live |-> FALSE,
          cancel |-> FALSE, state |-> NewState]

Stages == {"top", "save", "inquire", "invoke", "answer", "read", "validate", "propose",
           "catalog", "ask", "reply"}

\* to and next: the status a Save is about to write, and what follows it.
\* ctx: the context is not cancelled.
Idle == [at |-> "idle", run |-> {}, epoch |-> 0, ctx |-> TRUE, state |-> NewState,
         to |-> "running", next |-> "idle"]
Busy == [at : Stages, run : {{r} : r \in Runs}, epoch : Nat, ctx : BOOLEAN, state : State,
         to : Active \cup Ended, next : Stages \cup {"idle"}]

\* Rows and runners hold values of these kinds: no budget of rounds or tools is
\* exceeded, in the table or in a runner's copy.
TypeOK ==
    /\ row \in [Runs -> Row]
    /\ runner \in [Runners -> {Idle} \cup Busy]
    /\ requests \subseteq RunOperations
    /\ happened \subseteq RunOperations
    /\ outcome \in [RunOperations -> Platform!Outcomes]
    /\ asked \in [Runs -> [1..MaxRounds -> Nat]]
    /\ sent \in [RunOperations -> Nat]
    /\ confirms \in [RunOperations -> Nat]
    /\ faults \in 0..FaultLimit

Init ==
    /\ row = [r \in Runs |-> NoRow]
    /\ runner = [w \in Runners |-> Idle]
    /\ requests = {}
    /\ Platform!Init
    /\ asked = [r \in Runs |-> [k \in 1..MaxRounds |-> 0]]
    /\ sent = [o \in RunOperations |-> 0]
    /\ confirms = [o \in RunOperations |-> 0]
    /\ faults = 0

Faulty == faults < FaultLimit /\ faults' = faults + 1

-----------------------------------------------------------------------------
\* Users

InConversation(rows, c, statuses) ==
    {r \in Runs : rows[r].conversation = c /\ rows[r].status \in statuses}
OfOwner(rows, u, statuses) ==
    {r \in Runs : rows[r].conversation[1] = u /\ rows[r].status \in statuses}
WithStatus(rows, statuses) == {r \in Runs : rows[r].status \in statuses}

\* Mutant of Admitted: runs that wait for their user do not count.
Admitted_ignoringWaiting(c) ==
    /\ InConversation(row, c, {"queued", "running"}) = {}
    /\ Cardinality(OfOwner(row, c[1], {"queued", "running"})) < OwnerActive
    /\ Cardinality(WithStatus(row, {"queued", "running"})) < QueueLimit

Admitted(c) ==
    /\ InConversation(row, c, Active) = {}
    /\ Cardinality(OfOwner(row, c[1], Active)) < OwnerActive
    /\ Cardinality(WithStatus(row, {"queued", "running"})) < QueueLimit

\* Submit holds the admission locks, so what it counts is exact.
Submit(r, c) ==
    /\ row[r].status = "absent"
    /\ Admitted(c)
    /\ row' = [row EXCEPT ![r] = [NoRow EXCEPT !.status = "queued", !.conversation = c]]
    /\ UNCHANGED <<runner, requests, platformVars, historyVars, faults>>

\* A run that a runner holds is only marked.
Cancel(r) ==
    /\ row[r].status \in Active \cup {"unknown"}
    /\ row' = [row EXCEPT ![r] =
          [row[r] EXCEPT !.cancel = TRUE, !.status = IF @ = "running" THEN @ ELSE "cancelled"]]
    /\ UNCHANGED <<runner, requests, platformVars, historyVars, faults>>

\* Mutant of Confirmable: the run may have been stopped meanwhile.
Confirmable_stopped(r, n) ==
    /\ row[r].state.proposal = n
    /\ ~row[r].state.confirmed
    /\ row[r].status \in {"waiting_confirmation", "cancelled"}

\* The proposal is the one the user saw and still waits for an answer.
Confirmable(r, n) ==
    /\ row[r].state.proposal = n
    /\ ~row[r].state.confirmed
    /\ row[r].status = "waiting_confirmation"
    /\ ~row[r].cancel

Confirm(r, n) ==
    /\ Confirmable(r, n)
    /\ row[r].epoch < MaxEpoch
    /\ row' = [row EXCEPT ![r] = [@ EXCEPT !.status = "queued", !.state.confirmed = TRUE]]
    /\ confirms' = [confirms EXCEPT ![<<r, n>>] = @ + 1]
    /\ UNCHANGED <<runner, requests, platformVars, asked, sent, faults>>

Resume(r) ==
    /\ row[r].status = "waiting_auth"
    /\ ~row[r].cancel
    /\ row[r].epoch < MaxEpoch
    /\ row' = [row EXCEPT ![r].status = "queued"]
    /\ UNCHANGED <<runner, requests, platformVars, historyVars, faults>>

-----------------------------------------------------------------------------
\* The queue

LeaseGone(r) == row[r].status = "running" /\ ~row[r].live

\* Mutants of RecoveredStatus: a model request that may have been made is made
\* again; a run that was stopped goes back to the queue.
RecoveredStatus_asksAgain(x) ==
    IF ~x.cancel THEN "queued" ELSE IF x.state.writePending THEN "unknown" ELSE "cancelled"

RecoveredStatus_forgetsStop(x) == IF x.state.modelPending THEN "unknown" ELSE "queued"

\* Where a run goes whose lease ran out: it is not known what became of a model
\* request, nor, when the run was stopped, of a write.
RecoveredStatus(x) ==
    IF x.state.modelPending \/ (x.cancel /\ x.state.writePending) THEN "unknown"
    ELSE IF x.cancel THEN "cancelled" ELSE "queued"

Recovered(x) == [x EXCEPT !.status = RecoveredStatus(x), !.epoch = @ + 1]

\* Mutant of Claimable: only the total is limited.
Claimable_ownerUnlimited(rows, r) ==
    /\ rows[r].status = "queued" /\ ~rows[r].cancel
    /\ Cardinality(WithStatus(rows, {"running"})) < RunningLimit

Claimable(rows, r) ==
    /\ rows[r].status = "queued" /\ ~rows[r].cancel
    /\ Cardinality(WithStatus(rows, {"running"})) < RunningLimit
    /\ Cardinality(OfOwner(rows, rows[r].conversation[1], {"running"})) < OwnerRunning

\* The owner with the fewest running runs goes first; which of its runs is the
\* oldest is not modelled.
Picks(rows) ==
    LET claimable == {r \in Runs : Claimable(rows, r)}
        load(r) == Cardinality(OfOwner(rows, rows[r].conversation[1], {"running"}))
    IN  {r \in claimable : \A q \in claimable : load(r) <= load(q)}

\* One transaction under a global lock: recover every run whose lease ran out,
\* then take one.
Claim(w) ==
    LET rows == [r \in Runs |-> IF LeaseGone(r) THEN Recovered(row[r]) ELSE row[r]] IN
    /\ runner[w].at = "idle"
    /\ \/ \E r \in Picks(rows) :
            /\ row' = [rows EXCEPT ![r] = [rows[r] EXCEPT !.status = "running", !.epoch = @ + 1, !.live = TRUE]]
            /\ runner' = [runner EXCEPT ![w] = [Idle EXCEPT !.at = "top", !.run = {r},
                              !.epoch = rows[r].epoch + 1, !.state = rows[r].state]]
       \/ /\ Picks(rows) = {} /\ rows # row
          /\ row' = rows
          /\ UNCHANGED runner
    /\ UNCHANGED <<requests, platformVars, historyVars, faults>>

-----------------------------------------------------------------------------
\* A runner's own steps

\* Mutant of Mine: the epoch is not compared.
Mine_anyEpoch(w) ==
    \E r \in runner[w].run : row[r].status = "running" /\ row[r].live

\* The condition that Heartbeat and Save put on the row they update.
Mine(w) ==
    \E r \in runner[w].run :
        row[r].status = "running" /\ row[r].live /\ row[r].epoch = runner[w].epoch

Stopped(w) == \E r \in runner[w].run : row[r].cancel

At(w, stage) == runner[w].at = stage

Goes(w, stage, s) == runner' = [runner EXCEPT ![w] = [@ EXCEPT !.at = stage, !.state = s]]

\* What follows in the code is save(to, ...), and then the stage next.
Saving(w, s, to, next) ==
    runner' = [runner EXCEPT ![w] = [@ EXCEPT !.at = "save", !.state = s, !.to = to, !.next = next]]
Ending(w, s, to) == Saving(w, s, to, "idle")
Continuing(w, s) == Saving(w, s, "running", "top")

\* The platform refuses the session or the account.
Unauthorised(w) == Ending(w, runner[w].state, "waiting_auth")

Proposed(s) == [s EXCEPT !.proposal = s.tools + 1, !.tools = @ + 1]

\* The result of the write is in the messages, and the proposal is done with.
Told(s, result) ==
    [s EXCEPT !.told[s.proposal] = result, !.proposal = NoProposal, !.confirmed = FALSE,
              !.writePending = FALSE, !.calls = "none"]

\* Mutant of TakeWrite: the recorded intent is not looked at.
TakeWrite_blindly(w, s) ==
    /\ s.confirmed
    /\ Saving(w, [s EXCEPT !.writePending = TRUE], "running", "invoke")

\* A confirmed write: a runner that finds its intent recorded does not send it
\* but asks what became of it.
TakeWrite(w, s) ==
    /\ s.confirmed
    /\ IF s.writePending
       THEN Goes(w, "inquire", s)
       ELSE Saving(w, [s EXCEPT !.writePending = TRUE], "running", "invoke")

\* The calls the model asked for.
TakeCalls(w, s) ==
    LET affordable == s.tools + (IF s.calls = "plan" THEN 2 ELSE 1) <= MaxTools IN
    /\ ~s.confirmed /\ s.calls # "none"
    /\ \/ ~affordable /\ Ending(w, s, "failed")
       \/ s.calls = "invalid" /\ Ending(w, s, "failed")
       \/ affordable /\ s.calls = "reads" /\ Saving(w, s, "running", "read")
       \/ affordable /\ s.calls = "write" /\ Ending(w, Proposed(s), "waiting_confirmation")
       \/ affordable /\ s.calls = "plan" /\ Goes(w, "validate", s)

\* Mutant of TakeRound: one round too many.
TakeRound_oneMore(w, s) ==
    /\ ~s.confirmed /\ s.calls = "none"
    /\ IF s.round > MaxRounds THEN Ending(w, s, "failed") ELSE Goes(w, "catalog", s)

TakeRound(w, s) ==
    /\ ~s.confirmed /\ s.calls = "none"
    /\ IF s.round >= MaxRounds THEN Ending(w, s, "failed") ELSE Goes(w, "catalog", s)

\* The head of the loop: a heartbeat, the grant, and then what is to be done.
Top(w) ==
    LET s == runner[w].state IN
    /\ At(w, "top")
    /\ IF ~runner[w].ctx \/ ~Mine(w) \/ Stopped(w)
       THEN Ending(w, s, "cancelled")
       ELSE Unauthorised(w) \/ TakeWrite(w, s) \/ TakeCalls(w, s) \/ TakeRound(w, s)

\* Mutant of Reported: what is not known to be done is taken for refused.
Reported_refused(o) == IF outcome[o] = "unknown" THEN {"rejected"} ELSE {outcome[o]}

\* The definite outcome of an operation, if the platform has one.
Reported(o) == {outcome[o]} \ {"unknown"}

\* GET operations/{id} after a restart.
Inquire(w) ==
    LET s == runner[w].state IN
    /\ At(w, "inquire")
    /\ \/ Unauthorised(w)
       \/ Ending(w, s, "unknown")
       \/ /\ runner[w].ctx
          /\ \E r \in runner[w].run : \E result \in Reported(<<r, s.proposal>>) :
                Continuing(w, Told(s, result))

\* A group of reads: as one call, repeated without harm.
ReadTools(w) ==
    LET s == runner[w].state IN
    /\ At(w, "read")
    /\ \/ Unauthorised(w)
       \/ Ending(w, s, "failed")
       \/ Continuing(w, [s EXCEPT !.calls = "none", !.tools = @ + 1])

\* training.validate_plan, before its arguments are proposed.
Validate(w) ==
    LET s == runner[w].state IN
    /\ At(w, "validate")
    /\ \/ Unauthorised(w)
       \/ Continuing(w, [s EXCEPT !.calls = "none", !.tools = @ + 1])
       \/ Ending(w, [s EXCEPT !.tools = @ + 1], "failed")
       \/ Saving(w, [s EXCEPT !.tools = @ + 1], "running", "propose")

Propose(w) ==
    /\ At(w, "propose")
    /\ Ending(w, Proposed(runner[w].state), "waiting_confirmation")

\* The catalog shows whether the user may still do this; then the model is asked,
\* once that is on record.
Catalog(w) ==
    LET s == runner[w].state IN
    /\ At(w, "catalog")
    /\ \/ Unauthorised(w)
       \/ Ending(w, s, "failed")
       \/ Saving(w, [s EXCEPT !.modelPending = TRUE], "running", "ask")

Reply(w) ==
    LET s == runner[w].state
        answered == [s EXCEPT !.modelPending = FALSE, !.round = @ + 1]
    IN
    /\ At(w, "reply")
    /\ \/ ~runner[w].ctx /\ Ending(w, s, "cancelled")
       \/ Ending(w, s, "unknown")
       \/ \E to \in {"failed", "succeeded"} : Ending(w, answered, to)
       \/ \E calls \in CallKinds \ {"none"} : Continuing(w, [answered EXCEPT !.calls = calls])

\* The answer to a write that was sent: what the platform did, or a refusal
\* before it did anything, or no answer.  A refusal for want of permission brings
\* the proposal back to the user.
Answer(w) ==
    LET s == runner[w].state IN
    /\ At(w, "answer")
    /\ \/ Ending(w, s, "unknown")
       \/ \E r \in runner[w].run :
            /\ <<r, s.proposal>> \notin requests
            /\ \/ outcome[<<r, s.proposal>>] = "succeeded" /\ Continuing(w, Told(s, "succeeded"))
               \/ /\ <<r, s.proposal>> \notin happened
                  /\ \/ Continuing(w, Told(s, "rejected"))
                     \/ Ending(w, [s EXCEPT !.writePending = FALSE, !.confirmed = FALSE],
                               "waiting_confirmation")

\* Steps that touch nothing but the runner's own state.
Local(w) ==
    /\ Top(w) \/ Inquire(w) \/ ReadTools(w) \/ Validate(w) \/ Propose(w) \/ Catalog(w) \/ Reply(w)
         \/ Answer(w)
    /\ UNCHANGED <<row, requests, platformVars, historyVars, faults>>

\* The write leaves for the platform; a cancelled context keeps it back.
Invoke(w) ==
    LET s == runner[w].state IN
    /\ At(w, "invoke")
    /\ \/ /\ runner[w].ctx
          /\ \E r \in runner[w].run :
                /\ requests' = requests \cup {<<r, s.proposal>>}
                /\ sent' = [sent EXCEPT ![<<r, s.proposal>>] = @ + 1]
          /\ Goes(w, "answer", s)
       \/ ~runner[w].ctx /\ Ending(w, s, "unknown") /\ UNCHANGED <<requests, sent>>
    /\ UNCHANGED <<row, platformVars, asked, confirms, faults>>

\* The request leaves for the model.
Ask(w) ==
    LET s == runner[w].state IN
    /\ At(w, "ask")
    /\ \/ /\ runner[w].ctx
          /\ \E r \in runner[w].run : asked' = [asked EXCEPT ![r][s.round + 1] = @ + 1]
          /\ Goes(w, "reply", s)
       \/ ~runner[w].ctx /\ Ending(w, s, "cancelled") /\ UNCHANGED asked
    /\ UNCHANGED <<row, requests, platformVars, sent, confirms, faults>>

\* The checkpoint, fenced by epoch and lease; a runner whose save is refused
\* gives the run up.  The context does not matter here.
Save(w) ==
    /\ At(w, "save")
    /\ IF Mine(w)
       THEN /\ row' = [r \in Runs |-> IF r \notin runner[w].run THEN row[r] ELSE
                          [row[r] EXCEPT !.state = runner[w].state, !.status = runner[w].to,
                                         !.live = @ /\ runner[w].to = "running"]]
            /\ runner' = [runner EXCEPT ![w] =
                              IF @.next = "idle" THEN Idle ELSE [@ EXCEPT !.at = runner[w].next]]
       ELSE UNCHANGED row /\ runner' = [runner EXCEPT ![w] = Idle]
    /\ UNCHANGED <<requests, platformVars, historyVars, faults>>

Step(w) == Local(w) \/ Invoke(w) \/ Ask(w) \/ Save(w)

-----------------------------------------------------------------------------
\* Beats, faults, the lease, and the platform

\* The beat every five seconds finds the run stopped or lost.
Beat(w) ==
    /\ runner[w].at # "idle" /\ runner[w].ctx
    /\ Stopped(w) \/ ~Mine(w)
    /\ runner' = [runner EXCEPT ![w].ctx = FALSE]
    /\ UNCHANGED <<row, requests, platformVars, historyVars, faults>>

\* A beat that the database does not answer counts as a stop.
BeatFails(w) ==
    /\ runner[w].at # "idle" /\ runner[w].ctx
    /\ runner' = [runner EXCEPT ![w].ctx = FALSE]
    /\ Faulty
    /\ UNCHANGED <<row, requests, platformVars, historyVars>>

\* The process ends, or the database does not take a checkpoint.
Crash(w) ==
    /\ runner[w].at # "idle"
    /\ runner' = [runner EXCEPT ![w] = Idle]
    /\ Faulty
    /\ UNCHANGED <<row, requests, platformVars, historyVars>>

Held(r) == \E w \in Runners : runner[w].run = {r} /\ runner[w].epoch = row[r].epoch

\* Sixty seconds pass without a beat: the runner is gone, or stalls.
LeaseEnds(r) ==
    /\ row[r].status = "running" /\ row[r].live
    /\ row' = [row EXCEPT ![r].live = FALSE]
    /\ UNCHANGED <<runner, requests, platformVars, historyVars>>

Lapse(r) == ~Held(r) /\ LeaseEnds(r) /\ UNCHANGED faults
Stall(r) == Held(r) /\ LeaseEnds(r) /\ Faulty

\* The platform handles a request, in a way that OperationOutcome allows or
\* without any effect; it may learn later that an operation was executed.
Handle(o) ==
    /\ o \in requests
    /\ requests' = requests \ {o}
    /\ Platform!Happen(o) \/ Platform!Report(o, "rejected") \/ UNCHANGED platformVars
    /\ UNCHANGED <<row, runner, historyVars, faults>>

Reconcile(o) ==
    /\ Platform!Report(o, "succeeded")
    /\ UNCHANGED <<row, runner, requests, historyVars, faults>>

UserStep ==
    \/ \E r \in Runs : Cancel(r) \/ Resume(r)
    \/ \E r \in Runs, c \in Conversations : Submit(r, c)
    \/ \E r \in Runs, n \in ToolNumbers : Confirm(r, n)

Next ==
    \/ UserStep
    \/ \E w \in Runners : Claim(w) \/ Step(w) \/ Beat(w) \/ BeatFails(w) \/ Crash(w)
    \/ \E r \in Runs : Lapse(r) \/ Stall(r)
    \/ \E o \in RunOperations : Handle(o) \/ Reconcile(o)

\* Every runner goes on polling, working and beating, and clocks go on.
Fairness ==
    /\ \A w \in Runners : WF_vars(Claim(w)) /\ WF_vars(Step(w)) /\ WF_vars(Beat(w))
    /\ \A r \in Runs : WF_vars(Lapse(r))

Spec == Init /\ [][Next]_vars /\ Fairness

-----------------------------------------------------------------------------
\* Properties

\* A write is sent to the platform at most as often as its user confirmed it,
\* whatever crashes, stalls and is claimed again, and however often the user
\* clicks (Confirm; the write_pending intent in execute).
SentAsConfirmed == \A o \in RunOperations : sent[o] <= confirms[o]

\* The model is asked at most once for each round of a run: a request whose
\* answer is lost is never billed again (model_pending in execute and Claim).
AskedOnce == \A r \in Runs, k \in 1..MaxRounds : asked[r][k] <= 1

\* What a run goes on with is what happened: a write that the run believes done
\* took effect, and one it believes refused did not and never will.
ToldTruth ==
    \A r \in Runs, n \in ToolNumbers :
        /\ row[r].state.told[n] = "succeeded" => <<r, n>> \in happened
        /\ row[r].state.told[n] = "rejected" => <<r, n>> \notin happened

\* The limits on running runs, in total and per owner, hold over all replicas and
\* although orphaned runs are recovered in the same transaction (Claim).
RunningLimits ==
    /\ Cardinality(WithStatus(row, {"running"})) <= RunningLimit
    /\ \A u \in Owners : Cardinality(OfOwner(row, u, {"running"})) <= OwnerRunning

\* The limits on unfinished runs, per owner and one per conversation, hold
\* whatever users submit, confirm, resume and stop at the same time (Submit): no
\* run comes back to life that was not counted.
AdmissionLimits ==
    /\ \A u \in Owners : Cardinality(OfOwner(row, u, Active)) <= OwnerActive
    /\ \A c \in Conversations : Cardinality(InConversation(row, c, Active)) <= 1

\* No queue grows beyond its limits.
QueueLimitsKept == RunningLimits /\ AdmissionLimits

\* A queued run can be claimed and worked on: it was not stopped, has no model
\* request open, and if it holds a proposal that is confirmed (Claim, Cancel).
QueuedIsReady ==
    \A r \in Runs : row[r].status = "queued" =>
        LET x == row[r] IN
        /\ ~x.cancel /\ ~x.state.modelPending
        /\ x.state.proposal # NoProposal => x.state.confirmed

\* A run stays within its rounds and tool calls; nothing it does is repeated or
\* misremembered, its writes, its model requests, and what it was told of them; and
\* a run that waits for a runner is one that a runner can go on with.
RunsSound == TypeOK /\ SentAsConfirmed /\ AskedOnce /\ ToldTruth /\ QueuedIsReady

\* The saved progress of a run is never rewound, not by a runner that lost its
\* lease either: rounds and tool calls are not forgotten, nor what the run was
\* told, and an ended run stays as it was (Save, Claim).
ProgressKept ==
    [][\A r \in Runs : row[r].status # "absent" =>
         LET old == row[r].state  new == row'[r].state IN
         /\ new.round >= old.round /\ new.tools >= old.tools
         /\ \A n \in ToolNumbers : old.told[n] # "nothing" => new.told[n] = old.told[n]
         /\ row[r].status \in Ended => new = old /\ row'[r].status \in {row[r].status, "cancelled"}]_vars

\* A run that is queued or running gets out of that, to wait for its user or to
\* end, whatever runners crash or stall (Claim, Heartbeat).
RunSettles ==
    \A r \in Runs : row[r].status \in {"queued", "running"} ~> row[r].status \notin {"queued", "running"}

\* A run that its user stopped ends: "停止助手任务 / 拒绝方案" (docs/runtime.md:96).
StoppedRunEnds == \A r \in Runs : row[r].cancel ~> row[r].status \in Ended
=============================================================================
