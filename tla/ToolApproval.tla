---------------------------- MODULE ToolApproval ----------------------------
(***************************************************************************)
(* From a training plan that the agent proposes to the write that the      *)
(* platform admits (agent/internal/runner, agent/internal/httpapi,         *)
(* httpapi/agent_tools.go, agenttools/operations.go, auth).                *)
(*                                                                         *)
(* The platform completes the plan, the user sees it and confirms, the     *)
(* platform signs a receipt for exactly that plan, operation and session,  *)
(* and the agent hands the receipt in with the write.  Between these steps *)
(* the proposal can be withdrawn, the session can end, the account can     *)
(* change and the platform can be upgraded, with other defaults.           *)
(* Signatures are not modelled: what is signed cannot be made up.  The     *)
(* sessions and accounts are those of AccountAccess.                       *)
(***************************************************************************)
EXTENDS AccountAccess

CONSTANTS
    Owner,      \* the user whose agent it is
    Proposals,  \* operation ids of proposals
    Plans,      \* bound: the plans that the model comes up with
    Releases    \* bound: the versions of the platform, each with its defaults

ASSUME ApprovalAssumption == Owner \in Users

VARIABLES
    release,    \* the version of the platform that runs
    grant,      \* the session whose delegation the agent holds
    proposal,   \* the run's proposal, with its receipt
    proposed,   \* operation ids that are in use
    page,       \* the proposal that the user has on the screen
    confirming, \* the confirmation that is under way
    agreed,     \* what was on the screen when a user confirmed, and with which session
    admitted    \* what the platform admitted

approvalVars == <<release, grant, proposal, proposed, page, confirming, agreed, admitted>>

-----------------------------------------------------------------------------
\* A plan: of the numbers only whether they are said, and which of two values it is.
\* "size" stands for image size, attempts and batch size, "rate" for what the head's other
\* numbers have in common: a default that depends on the mode.
LeftOut == "left out"
Said == {"1", "2"}
Zero == "0"

Plan ==
    [backbone : {"dinov3", "imagenet", "mobilenet", "color_stats"},
     lora : {LeftOut, "on", "off"},
     size : Said \cup {LeftOut, Zero},
     rate : Said \cup {LeftOut},
     headRate : Said \cup {LeftOut}, backboneRate : Said \cup {LeftOut}, loraRate : Said \cup {LeftOut}]

ASSUME PlansAssumption == Plans \subseteq Plan

\* The tools take no plan with a size of zero.
InSchema(p) == p.size # Zero

NoDelegation == "no delegation"
NoProposal == [op |-> "none"]
NoPage == [op |-> "none"]
NotConfirming == [at |-> "idle"]
NoReceipt == [op |-> "none"]

Receipt == [op : Proposals, session : Sessions, plan : Plan, lapsed : BOOLEAN]
Proposal == [op : Proposals, plan : Plan, confirmed : BOOLEAN, receipt : Receipt \cup {NoReceipt}]
Confirmation == [at : {"asked", "approved"}, op : Proposals, session : Sessions, plan : Plan]

ApprovalsTypeOK ==
    /\ release \in Releases
    /\ grant \in Sessions \cup {NoDelegation}
    /\ proposal \in Proposal \cup {NoProposal}
    /\ proposed \subseteq Proposals
    /\ page \in [op : Proposals, plan : Plan] \cup {NoPage}
    /\ confirming \in Confirmation \cup {NotConfirming}
    /\ agreed \subseteq [op : Proposals, session : Sessions, plan : Plan]
    /\ admitted \subseteq [op : Proposals, session : Sessions, plan : Plan]

ApprovalsInit ==
    /\ release \in Releases
    /\ grant = NoDelegation
    /\ proposal = NoProposal
    /\ proposed = {}
    /\ page = NoPage
    /\ confirming = NotConfirming
    /\ agreed = {}
    /\ admitted = {}

-----------------------------------------------------------------------------
\* How the backbone is trained; the tools cannot ask for full training of a mobilenet.
Mode(p) ==
    CASE p.backbone = "imagenet" -> "full"
      [] p.backbone = "dinov3" /\ p.lora = "on" -> "lora"
      [] OTHER -> "frozen"

Inapplicable(p) ==
    \/ p.lora = "on" /\ p.backbone # "dinov3"
    \/ p.backboneRate # LeftOut /\ Mode(p) # "full"
    \/ p.loraRate # LeftOut /\ Mode(p) # "lora"

\* What prepareTrainingRun refuses; the head of color_stats is passed on as it is.
Refused(p) == ~InSchema(p) \/ (p.backbone # "color_stats" /\ Inapplicable(p))

Or(said, default) == IF said = LeftOut THEN default ELSE said

\* The defaults of a version, all different from those of the other.
Default(r) == IF r = 1 THEN "1" ELSE "2"
DefaultRate(mode, r) == IF mode = "frozen" THEN "2" ELSE Default(r)

\* Mutant of Complete: the rates of all parts are filled in, whatever the mode trains.
Complete_allParts(p, r) ==
    LET rate == Or(p.rate, DefaultRate(Mode(p), r)) IN
    IF p.backbone = "color_stats" THEN [p EXCEPT !.size = Or(@, Zero)]
    ELSE [p EXCEPT !.lora = Or(@, "off"), !.size = Or(@, Default(r)), !.rate = rate,
                   !.headRate = Or(@, rate), !.backboneRate = Or(@, rate), !.loraRate = Or(@, rate)]

\* Every number of the plan is said: those of the head, with the mode's defaults.
Complete(p, r) ==
    LET rate == Or(p.rate, DefaultRate(Mode(p), r)) IN
    IF p.backbone = "color_stats" THEN [p EXCEPT !.size = Or(@, Zero)]
    ELSE [p EXCEPT !.lora = Or(@, "off"), !.size = Or(@, Default(r)), !.rate = rate,
                   !.headRate = Or(@, rate),
                   !.backboneRate = IF Mode(p) = "full" THEN Or(@, rate) ELSE LeftOut,
                   !.loraRate = IF Mode(p) = "lora" THEN Or(@, rate) ELSE LeftOut]

-----------------------------------------------------------------------------
OwnSession(s) == session[s] = Owner /\ Served(s, "agent")

\* The user submits a message, or renews the authorisation of a run that waits for it.
Grant(s) ==
    /\ grant = NoDelegation
    /\ OwnSession(s)
    /\ grant' = s
    /\ UNCHANGED <<release, proposal, proposed, page, confirming, agreed, admitted>>

\* The delegation is over, or the platform no longer takes it.
GrantLapses ==
    /\ grant # NoDelegation
    /\ grant' = NoDelegation
    /\ UNCHANGED <<release, proposal, proposed, page, confirming, agreed, admitted>>

\* The model proposes a plan; validate_plan completes it under the agent's delegation.
Propose(o) ==
    /\ grant # NoDelegation /\ OwnSession(grant)
    /\ proposal = NoProposal
    /\ o \notin proposed
    /\ \E p \in Plans :
          /\ ~Refused(p)
          /\ proposal' = [op |-> o, plan |-> Complete(p, release), confirmed |-> FALSE, receipt |-> NoReceipt]
    /\ proposed' = proposed \cup {o}
    /\ UNCHANGED <<release, grant, page, confirming, agreed, admitted>>

\* The run is stopped, and its proposal with it.
Withdraw ==
    /\ proposal # NoProposal
    /\ proposal' = NoProposal
    /\ UNCHANGED <<release, grant, proposed, page, confirming, agreed, admitted>>

Show ==
    /\ proposal # NoProposal
    /\ page' = [op |-> proposal.op, plan |-> proposal.plan]
    /\ UNCHANGED <<release, grant, proposal, proposed, confirming, agreed, admitted>>

\* The user confirms what is on the screen; the agent's server reads the run, whose
\* proposal may be another by now.
AskConfirm(s) ==
    /\ confirming = NotConfirming
    /\ page # NoPage
    /\ OwnSession(s)
    /\ agreed' = agreed \cup {[op |-> page.op, session |-> s, plan |-> page.plan]}
    /\ proposal # NoProposal /\ proposal.op = page.op /\ ~proposal.confirmed
    /\ confirming' = [at |-> "asked", op |-> proposal.op, session |-> s, plan |-> proposal.plan]
    /\ UNCHANGED <<release, grant, proposal, proposed, page, admitted>>

ConfirmationEnds ==
    /\ confirming # NotConfirming
    /\ confirming' = NotConfirming
    /\ UNCHANGED <<release, grant, proposal, proposed, page, agreed, admitted>>

\* The platform completes the plan again and signs the receipt for the session that asks;
\* only the assertion of a request that the user makes is taken here, not the delegation.
Approve ==
    /\ confirming.at = "asked"
    /\ Served(confirming.session, "agent")
    /\ ~Refused(confirming.plan)
    /\ confirming' = [confirming EXCEPT !.at = "approved", !.plan = Complete(@, release)]
    /\ UNCHANGED <<release, grant, proposal, proposed, page, agreed, admitted>>

\* The receipt is for the proposal that the run still has.
SamePlan == proposal.op = confirming.op /\ proposal.plan = confirming.plan

Confirm ==
    /\ confirming.at = "approved"
    /\ proposal # NoProposal /\ SamePlan /\ ~proposal.confirmed
    /\ proposal' = [proposal EXCEPT !.confirmed = TRUE,
                        !.receipt = [op |-> confirming.op, session |-> confirming.session,
                                     plan |-> confirming.plan, lapsed |-> FALSE]]
    /\ grant' = confirming.session
    /\ confirming' = NotConfirming
    /\ UNCHANGED <<release, proposed, page, agreed, admitted>>

ReceiptLapses ==
    /\ proposal # NoProposal /\ proposal.receipt # NoReceipt /\ ~proposal.receipt.lapsed
    /\ proposal' = [proposal EXCEPT !.receipt.lapsed = TRUE]
    /\ UNCHANGED <<release, grant, proposed, page, confirming, agreed, admitted>>

\* Mutant of Verified: the receipt is good for every session of the user.
Verified_anySession(r) == r.op = proposal.op /\ r.plan = proposal.plan /\ ~r.lapsed

\* Verify: the receipt is for this session, operation and plan, and not too old.
Verified(r) == r.session = grant /\ r.op = proposal.op /\ r.plan = proposal.plan /\ ~r.lapsed

\* Mutant of SessionStands: that the session was there when the receipt was signed is enough.
SessionStands_once == grant # NoDelegation

\* agentSession: the session behind the delegation, and its account, as they are now.
SessionStands == grant # NoDelegation /\ OwnSession(grant)

\* The agent hands in the write.  What is admitted is registered as an operation and
\* executed (AgentToolOperations), with the plan completed once more.
HandIn ==
    /\ proposal # NoProposal /\ proposal.confirmed
    /\ SessionStands /\ Verified(proposal.receipt)
    /\ ~Refused(proposal.plan)
    /\ admitted' = admitted \cup
           {[op |-> proposal.op, session |-> grant, plan |-> Complete(proposal.plan, release)]}
    /\ proposal' = NoProposal
    /\ UNCHANGED <<release, grant, proposed, page, confirming, agreed>>

\* The platform refuses the session or the receipt: the user has to confirm again.
HandInRefused ==
    /\ proposal # NoProposal /\ proposal.confirmed
    /\ grant # NoDelegation
    /\ ~(SessionStands /\ Verified(proposal.receipt))
    /\ proposal' = [proposal EXCEPT !.confirmed = FALSE, !.receipt = NoReceipt]
    /\ UNCHANGED <<release, grant, proposed, page, confirming, agreed, admitted>>

Upgrade(r) ==
    /\ r > release
    /\ release' = r
    /\ UNCHANGED <<grant, proposal, proposed, page, confirming, agreed, admitted>>

ApprovalStep ==
    \/ \E s \in Sessions : Grant(s) \/ AskConfirm(s)
    \/ \E o \in Proposals : Propose(o)
    \/ GrantLapses \/ Withdraw \/ Show \/ ConfirmationEnds \/ Approve \/ Confirm
    \/ ReceiptLapses \/ HandIn \/ HandInRefused
    \/ \E r \in Releases : Upgrade(r)

-----------------------------------------------------------------------------
\* What the platform admits was confirmed by the owner, in a session that is still open
\* and of an account that may still do it, with every number as it was on the screen:
\* whatever was proposed, withdrawn, upgraded, logged out or changed in between
\* (invoke, Verify, Store.Confirm, agentSession).
AdmittedAsConfirmed ==
    [][\A x \in admitted' \ admitted :
          x \in agreed /\ session[x.session] = Owner /\ Served(x.session, "agent")]_approvalVars

\* A plan that the platform completed is complete: completing it again, under whatever
\* version, neither changes nor refuses it.  So what the user sees can be approved
\* (normalizeImageTrainingConfig, prepareTrainingRun; color_stats excepted).
CompletedPlansStand ==
    proposal # NoProposal /\ proposal.plan.backbone # "color_stats" =>
        ~Refused(proposal.plan) /\ \A r \in Releases : Complete(proposal.plan, r) = proposal.plan

\* Both, of what the agent writes (the lines of AdmittedAsConfirmed and CompletedPlansStand).
ApprovalsSound == AdmittedAsConfirmed /\ []CompletedPlansStand
=============================================================================
