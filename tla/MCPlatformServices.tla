--------------------------- MODULE MCPlatformServices ---------------------------
(***************************************************************************)
(* One operation asked for by three requests; three runs, owners and       *)
(* runners with small limits; two watches, trainings and pollers; three    *)
(* calls of the model; two accounts, callers and sessions; one worker      *)
(* started twice; one resource of a host; two drafts and writers of one    *)
(* card.  Ids are shared among the components.                             *)
(*                                                                         *)
(* Where a scene of the specification is too large, it is played in two    *)
(* trials, each of which lets only some of its steps through (Tried).      *)
(***************************************************************************)
EXTENDS PlatformServices, TLC

CONSTANTS
    k1, k2, k3, admin, user, v1,
    Trials   \* the trials that are played

VARIABLE trial

Scene ==
    [t \in AllScenes |-> t] @@ "polling" :> "watching" @@ "logins" :> "accounts" @@ "planning" :> "approvals"

\* Of the numbers of a plan, each is left out or said.
MCPlans == {p \in Plan : \A f \in {"size", "rate", "headRate", "backboneRate", "loraRate"} : p[f] \in {LeftOut, "1"}}
\* The plans that are tried while accounts change.
FewPlans ==
    {[backbone |-> "dinov3", lora |-> "on", size |-> LeftOut, rate |-> LeftOut, headRate |-> LeftOut,
      backboneRate |-> LeftOut, loraRate |-> LeftOut]}
MCTargets == {ActiveAdmin, [role |-> "business", status |-> "disabled"]}

-----------------------------------------------------------------------------
\* Ids that are fresh are interchangeable: of those, the lowest is used first.
Rank == k1 :> 1 @@ k2 :> 2 @@ k3 :> 3
LowestFirst(fresh, left) == \A x \in fresh \ left, y \in fresh : Rank[x] <= Rank[y]

FreshOwners(r) == {u \in Owners : \A q \in Runs : r[q].conversation[1] # u}
FreshThreads(r, u) == {t \in Threads : \A q \in Runs : r[q].conversation # <<u, t>>}

\* Of runners without faults, one as good as another, each takes the run of its rank.
TakenInOrder ==
    /\ LowestFirst({r \in Runs : row[r].status = "absent"}, {r \in Runs : row'[r].status = "absent"})
    /\ LowestFirst(FreshOwners(row), FreshOwners(row'))
    /\ \A u \in Owners : LowestFirst(FreshThreads(row, u), FreshThreads(row', u))
    /\ \A w \in Runners : \A r \in runner'[w].run : Rank[r] = Rank[w]

WatchesInTurn ==
    /\ LowestFirst({w \in Watches : watch[w] = NoWatch}, {w \in Watches : watch'[w] = NoWatch})
    /\ LowestFirst({p \in Pollers : poller[p] = IdlePoller}, {p \in Pollers : poller'[p] = IdlePoller})

\* Two watches of one user, of which one is polled at a time, once each; or one watch and
\* all pollers.
OnePoller ==
    /\ Cardinality({p \in Pollers : poller'[p] # IdlePoller}) <= 1
    /\ \A w \in Watches : watch'[w].epoch <= 1
OneWatch == Cardinality({w \in Watches : watch'[w] # NoWatch}) <= 1

\* Access changes while everybody knows the password; or logins fail, one succeeds and only
\* the operator changes access.
LoginsSucceed == \A u \in Users : account'[u].failures = 0
OneLogin ==
    LET unused == {s \in Sessions : session'[s] = "unused"} IN
    /\ \A c \in Callers : caller'[c].at # "asking"
    /\ Cardinality(Sessions \ unused) <= 1
    /\ LowestFirst({s \in Sessions : session[s] = "unused"}, unused)

\* Three reports of workers under way.
ThreeReports == Cardinality(reports') <= 3

\* Two proposals, while the operator changes the owner's account, or sessions end and
\* things lapse; or every plan, once, in time and with the account as it is.
AccessChanges == caller' = caller /\ trail'[FirstAdmin] = trail[FirstAdmin]
PlansChosen == \A o \in proposed' \ proposed : \E p \in FewPlans : proposal'.plan = Complete(p, release)
PlannedOnce ==
    /\ Cardinality(proposed') <= 1 /\ (grant # NoDelegation => grant' # NoDelegation)
    /\ UNCHANGED accountVars

Tried ==
    CASE trial = "queue" -> TakenInOrder
      [] trial = "watching" -> OnePoller /\ WatchesInTurn
      [] trial = "polling" -> OneWatch /\ WatchesInTurn
      [] trial = "accounts" -> LoginsSucceed
      [] trial = "logins" -> OneLogin
      [] trial = "workers" -> ThreeReports
      [] trial = "approvals" -> AccessChanges /\ PlansChosen
      [] trial = "planning" -> PlannedOnce
      [] OTHER -> TRUE

MCInit ==
    /\ trial \in Trials
    /\ ServicesInit
    /\ scene = Scene[trial]
    /\ scene = "approvals" => Cardinality({s \in Sessions : session[s] = Owner}) = IF trial = "planning" THEN 1 ELSE 2

MCNext == ServicesNext /\ Tried /\ UNCHANGED trial

MCSpec == MCInit /\ [][MCNext]_<<servicesVars, trial>>
=============================================================================
