---------------------------- MODULE PlatformServices ----------------------------
(***************************************************************************)
(* The services around training and data, which share the platform's       *)
(* accounts and database but no rows: writes asked for by the agent, the   *)
(* agent's queue and its watches, the gate in front of the model for       *)
(* annotation, accounts, workers, host measurements and dataset cards.     *)
(* Each has a scene of its own, in which the others rest: their steps      *)
(* commute, so no order between them matters.                              *)
(***************************************************************************)
EXTENDS AgentToolOperations, AgentWatch, ProviderGate, AccountAccess, WorkerRegistry,
        HardwareTelemetry, DatasetCard, ToolApproval

CONSTANTS
    FirstAdmin,    \* the account that was made on the command line
    ServiceScenes, \* the scenes that are played
    \* the agent's queue (AgentRun)
    Runs, Owners, Threads, Runners, MaxRounds, MaxTools, RunningLimit, OwnerRunning,
    OwnerActive, QueueLimit, FaultLimit

AllScenes == {"operations", "queue", "watching", "gate", "accounts", "workers", "hosts", "cards", "approvals"}

ASSUME ServicesAssumption ==
    /\ FirstAdmin \in Users /\ ServiceScenes \subseteq AllScenes
    /\ {MaxRounds, MaxTools, FaultLimit} \subseteq Nat
    /\ {RunningLimit, OwnerRunning, OwnerActive, QueueLimit} \subseteq Nat \ {0}

VARIABLES
    scene,
    row, runner, requests, happened, outcome, asked, sent, confirms, faults   \* AgentRun

Queue == INSTANCE AgentRun

queueVars == <<row, runner, requests, happened, outcome, asked, sent, confirms, faults>>

servicesVars ==
    <<scene, vars, queueVars, watchVars, gateVars, accountVars, registryVars, telemetryVars, cardVars,
      approvalVars>>

ServicesTypeOK ==
    /\ TypeOK /\ Queue!TypeOK /\ WatchesTypeOK /\ GateTypeOK /\ AccountsTypeOK
    /\ RegistryTypeOK /\ TelemetryTypeOK /\ CardsTypeOK
    /\ ApprovalsTypeOK

\* Plans are approved for an owner that may be logged in, any number of times.
OwnerAtWork ==
    /\ account = [u \in Users |->
                    [access |-> IF u = FirstAdmin THEN ActiveAdmin ELSE [role |-> "business", status |-> "active"],
                     failures |-> 0, lock |-> "open"]]
    /\ session \in [Sessions -> {Owner, "unused"}]
    /\ trail = [u \in Users |-> <<>>]
    /\ caller = [c \in Callers |-> IdleCaller]
    /\ adminLock = Nobody

ServicesInit ==
    /\ scene \in ServiceScenes
    /\ Init /\ Queue!Init /\ WatchesInit /\ GateInit
    /\ IF scene = "approvals" THEN OwnerAtWork ELSE AccountsInit(FirstAdmin)
    /\ RegistryInit /\ TelemetryInit /\ CardsInit /\ ApprovalsInit

-----------------------------------------------------------------------------
Acting ==
    \/ scene = "operations" /\ Next
    \/ scene = "queue" /\ Queue!Next
    \/ scene = "watching" /\ WatchStep
    \/ scene = "gate" /\ GateStep
    \/ scene = "accounts" /\ AccountStep
    \/ scene = "workers" /\ RegistryStep
    \/ scene = "hosts" /\ TelemetryStep
    \/ scene = "cards" /\ CardStep
    \* Sessions end and accounts change while plans are approved.
    \/ scene = "approvals" /\ ApprovalStep /\ UNCHANGED accountVars
    \/ scene = "approvals" /\ AccountStep /\ UNCHANGED approvalVars

Resting ==
    /\ UNCHANGED scene
    /\ scene # "operations" => UNCHANGED vars
    /\ scene # "queue" => UNCHANGED queueVars
    /\ scene # "watching" => UNCHANGED watchVars
    /\ scene # "gate" => UNCHANGED gateVars
    /\ scene \notin {"accounts", "approvals"} => UNCHANGED accountVars
    /\ scene # "workers" => UNCHANGED registryVars
    /\ scene # "hosts" => UNCHANGED telemetryVars
    /\ scene # "cards" => UNCHANGED cardVars
    /\ scene # "approvals" => UNCHANGED approvalVars

ServicesNext == Acting /\ Resting

ServicesSpec == ServicesInit /\ [][ServicesNext]_servicesVars

-----------------------------------------------------------------------------
\* No queue of the agent grows beyond its limits, whatever users submit, confirm, resume and
\* stop at the same time and however many replicas claim.
AgentQueueBounded == Queue!QueueLimitsKept

\* What is reported late, twice or by somebody who was replaced misleads nobody: neither the
\* polls of a watch (SaveWatch) nor the reports of a worker (Report).
ReportsFenced == WatchesFenced /\ WorkerReportsFenced
=============================================================================
