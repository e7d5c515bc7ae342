------------------------------ MODULE AgentWatch ------------------------------
(***************************************************************************)
(* Training runs that the agent watches for a user (storage/watches.go,    *)
(* runner/watches.go, httpapi/watches.go under agent/internal).  A poller  *)
(* claims a due watch with an epoch and a lease, asks the platform with    *)
(* the watch's grant and saves what it learnt, which the epoch fences,     *)
(* while the user cancels or reauthorises the watch, leases and grants run *)
(* out and the training goes on.                                           *)
(***************************************************************************)
EXTENDS Integers, FiniteSets

CONSTANTS
    Watches,     \* watch ids
    Trainings,   \* training runs of one user
    Pollers,     \* goroutines that poll, of all replicas
    WatchLimit,  \* unfinished watches of a user (8)
    MaxEpoch     \* bound: claims and reauthorisations of a watch

ASSUME WatchesAssumption == WatchLimit \in Nat \ {0} /\ MaxEpoch \in Nat

VARIABLES
    watch,     \* the watches table
    poller,    \* the pollers
    training,  \* what the platform says of each training run
    grants     \* grants that the platform still accepts, as <<watch, epoch it was given>>

watchVars == <<watch, poller, training, grants>>

-----------------------------------------------------------------------------
NoTraining == "no training"
NoGrant == -1
Unfinished == {"active", "waiting_auth"}
WatchEnded == {"completed", "cancelled", "expired"}

\* rest: whether the watch can be claimed, is leased, or pauses until its next poll; over:
\* its life is.  A grant is known by the epoch of the watch when it was given.
Watch == [run : Trainings \cup {NoTraining}, status : {"none"} \cup Unfinished \cup WatchEnded,
          seen : {"nothing", "running", "ended"}, grant : NoGrant..MaxEpoch, epoch : 0..MaxEpoch + 1,
          rest : {"due", "leased", "paused"}, over : BOOLEAN]
NoWatch == [run |-> NoTraining, status |-> "none", seen |-> "nothing", grant |-> NoGrant, epoch |-> 0,
            rest |-> "due", over |-> FALSE]

IdlePoller == [at |-> "idle"]
PollOutcomes == [status : {"active", "waiting_auth", "completed"}, seen : {"as before", "running", "ended"}]
PollerStates ==
    {IdlePoller, [at |-> "claiming"]}
    \cup [at : {"asking"}, watch : Watches, epoch : 1..MaxEpoch, grant : 0..MaxEpoch]
    \cup [at : {"saving"}, watch : Watches, epoch : 1..MaxEpoch, grant : 0..MaxEpoch, outcome : PollOutcomes]

WatchesTypeOK ==
    /\ watch \in [Watches -> Watch]
    /\ \A p \in Pollers : poller[p] \in PollerStates
    /\ training \in [Trainings -> {"running", "ended", "deleted"}]
    /\ grants \subseteq Watches \X (0..MaxEpoch)

WatchesInit ==
    /\ watch = [w \in Watches |-> NoWatch]
    /\ poller = [p \in Pollers |-> IdlePoller]
    /\ training = [t \in Trainings |-> "running"]
    /\ grants = {}

-----------------------------------------------------------------------------
Open(status) == {w \in Watches : watch[w].status \in status}

\* Mutant of Creatable: watches that wait for their user are not counted.
Creatable_active(t) ==
    /\ \A w \in Open(Unfinished) : watch[w].run # t
    /\ Cardinality(Open({"active"})) < WatchLimit

\* One unfinished watch of a run, and few of a user; the user's lock is held meanwhile.
Creatable(t) ==
    /\ \A w \in Open(Unfinished) : watch[w].run # t
    /\ Cardinality(Open(Unfinished)) < WatchLimit

CreateWatch(w, t) ==
    /\ watch[w] = NoWatch
    /\ Creatable(t)
    /\ watch' = [watch EXCEPT ![w] = [NoWatch EXCEPT !.run = t, !.status = "active", !.grant = 0]]
    /\ grants' = grants \cup {<<w, 0>>}
    /\ UNCHANGED <<poller, training>>

\* Mutant of Revoked: the claim of the last poll stays good.
Revoked_sameEpoch(row) == [row EXCEPT !.rest = "due"]

\* Whatever is under way for the watch lost it.
Revoked(row) == [row EXCEPT !.epoch = @ + 1, !.rest = "due"]

CancelWatch(w) ==
    /\ watch[w].status \in Unfinished
    /\ watch' = [watch EXCEPT ![w] = [Revoked(@) EXCEPT !.status = "cancelled", !.grant = NoGrant]]
    /\ UNCHANGED <<poller, training, grants>>

ResumeWatch(w) ==
    LET grant == watch[w].epoch + 1 IN
    /\ watch[w].status \in Unfinished
    /\ watch[w].epoch < MaxEpoch
    /\ watch' = [watch EXCEPT ![w] = [Revoked(@) EXCEPT !.status = "active", !.grant = grant]]
    /\ grants' = grants \cup {<<w, grant>>}
    /\ UNCHANGED <<poller, training>>

\* ClaimWatch, first statement: whatever is over is expired.
ExpireWatches(p) ==
    /\ poller[p] = IdlePoller
    /\ poller' = [poller EXCEPT ![p] = [at |-> "claiming"]]
    /\ watch' = [w \in Watches |->
                    IF watch[w].status \in Unfinished /\ watch[w].over
                    THEN [watch[w] EXCEPT !.status = "expired", !.grant = NoGrant, !.epoch = @ + 1]
                    ELSE watch[w]]
    /\ UNCHANGED <<training, grants>>

\* ClaimWatch, second statement.
ClaimWatch(p, w) ==
    /\ poller[p].at = "claiming"
    /\ watch[w].status = "active" /\ watch[w].rest = "due"
    /\ watch[w].epoch < MaxEpoch
    /\ watch' = [watch EXCEPT ![w].epoch = @ + 1, ![w].rest = "leased"]
    /\ poller' = [poller EXCEPT ![p] = [at |-> "asking", watch |-> w, epoch |-> watch[w].epoch + 1,
                                       grant |-> watch[w].grant]]
    /\ UNCHANGED <<training, grants>>

\* What a poll may learn: nothing, that the grant is refused, or what the platform says.
Answers(w, grant) ==
    {[status |-> "active", seen |-> "as before"]}
    \cup IF <<w, grant>> \notin grants
         THEN {[status |-> "waiting_auth", seen |-> "as before"]}
         ELSE {CASE training[watch[w].run] = "running" -> [status |-> "active", seen |-> "running"]
                 [] training[watch[w].run] = "ended" -> [status |-> "completed", seen |-> "ended"]
                 [] OTHER -> [status |-> "completed", seen |-> "as before"]}

AskPlatform(p) ==
    /\ poller[p].at = "asking"
    /\ \E answer \in Answers(poller[p].watch, poller[p].grant) :
         poller' = [poller EXCEPT ![p] = [at |-> "saving", watch |-> @.watch, epoch |-> @.epoch,
                                          grant |-> @.grant, outcome |-> answer]]
    /\ UNCHANGED <<watch, training, grants>>

\* The row after SaveWatch; what was seen before is written again with the same value, as
\* nobody else writes it while the epoch stands.
Saved(row, outcome) ==
    [row EXCEPT !.status = outcome.status,
                !.seen = IF outcome.seen = "as before" THEN @ ELSE outcome.seen,
                !.rest = "paused",
                !.grant = IF outcome.status = "completed" THEN NoGrant ELSE @]

\* SaveWatch, if no one claimed, changed or expired the watch since.
SaveWatch(p) ==
    LET w == poller[p].watch IN
    /\ poller[p].at = "saving"
    /\ poller' = [poller EXCEPT ![p] = IdlePoller]
    /\ watch' = IF watch[w].epoch = poller[p].epoch /\ watch[w].status = "active"
                THEN [watch EXCEPT ![w] = Saved(@, poller[p].outcome)]
                ELSE watch
    /\ UNCHANGED <<training, grants>>

\* Nothing was claimed, or the process died.
PollerEnds(p) ==
    /\ poller[p] # IdlePoller
    /\ poller' = [poller EXCEPT ![p] = IdlePoller]
    /\ UNCHANGED <<watch, training, grants>>

\* Time passes for a watch: its lease or its pause ends, and its life.
TimePasses(w) ==
    /\ watch[w].status \in Unfinished
    /\ \/ watch[w].rest # "due" /\ watch' = [watch EXCEPT ![w].rest = "due"]
       \/ ~watch[w].over /\ watch' = [watch EXCEPT ![w].over = TRUE]
    /\ UNCHANGED <<poller, training, grants>>

GrantEnds(g) ==
    /\ g \in grants
    /\ grants' = grants \ {g}
    /\ UNCHANGED <<watch, poller, training>>

TrainingGoesOn(t) ==
    /\ \/ training[t] = "running" /\ training' = [training EXCEPT ![t] = "ended"]
       \/ training[t] = "ended" /\ training' = [training EXCEPT ![t] = "deleted"]
    /\ UNCHANGED <<watch, poller, grants>>

WatchStep ==
    \/ \E w \in Watches : CancelWatch(w) \/ ResumeWatch(w) \/ TimePasses(w)
    \/ \E w \in Watches, t \in Trainings : CreateWatch(w, t)
    \/ \E p \in Pollers : ExpireWatches(p) \/ AskPlatform(p) \/ SaveWatch(p) \/ PollerEnds(p)
    \/ \E p \in Pollers, w \in Watches : ClaimWatch(p, w)
    \/ \E g \in grants : GrantEnds(g)
    \/ \E t \in Trainings : TrainingGoesOn(t)

-----------------------------------------------------------------------------
\* Few watches, one for a run, and none that says its run is over when it is not.
WatchesInOrder ==
    /\ Cardinality(Open(Unfinished)) <= WatchLimit
    /\ \A v, w \in Open(Unfinished) : watch[v].run = watch[w].run => v = w
    /\ \A w \in Open({"completed"}) : training[watch[w].run] # "running"

\* What ended stays as it was, and what was seen of a training run is not forgotten.
EndedWatchesKept ==
    [][\A w \in Watches :
          /\ watch[w].status \in WatchEnded => watch'[w] = watch[w]
          /\ watch[w].seen # "nothing" => watch'[w].seen # "nothing"]_watchVars

\* A watch waits for its user only because the grant it has now was refused, never
\* because of one that the user has replaced meanwhile.
CurrentGrantDecides ==
    [][\A w \in Watches :
          watch[w].status = "active" /\ watch'[w].status = "waiting_auth" => <<w, watch[w].grant>> \notin grants]_watchVars

\* A late poll changes nothing: its watch was cancelled, reauthorised, claimed again or
\* expired, and keeps what it has since then (ChangeWatch, ClaimWatch, SaveWatch).
WatchesFenced == []WatchesInOrder /\ EndedWatchesKept /\ CurrentGrantDecides
=============================================================================
