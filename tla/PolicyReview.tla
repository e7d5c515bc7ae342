----------------------------- MODULE PolicyReview -----------------------------
(***************************************************************************)
(* Inference with the active abstention policy, human review of what was   *)
(* not accepted, and the policies proposed from the feedback               *)
(* (adapters/postgres/inference_service.go, policy_repository.go,          *)
(* review_repository.go, review/review.go, httpapi/reviews.go).            *)
(*                                                                         *)
(* A prediction reads the version, then the active policy, then waits for  *)
(* a worker; its transaction share-locks the version, adds the decisions   *)
(* of the shadow policies and commits.  A proposal works on one snapshot.  *)
(* Scores are one number: the margin is a second one compared in the same  *)
(* way.  Thresholds are rounded, scores are not.                           *)
(***************************************************************************)
EXTENDS ModelRelease

CONSTANTS
    Policies,       \* policies that are proposed
    TopScore,       \* confidences are 0..TopScore, and TopScore is 1.0
    Steps,          \* thresholds are rounded to multiples of 1 / Steps (10^6 in the code)
    GridPoints,     \* candidate thresholds of the search (11 in the code)
    MinFeedback,    \* feedback that an activation asks for (5 in the code)
    TargetRisk      \* wrong \div accepted allowed, as <<numerator, denominator>>

NoPolicy == "no policy"

ASSUME PoliciesAssumption ==
    /\ NoPolicy \notin Policies
    /\ {TopScore, Steps} \subseteq Nat \ {0} /\ GridPoints \in Nat /\ GridPoints >= 2 /\ MinFeedback \in Nat
    /\ TargetRisk \in Nat \X (Nat \ {0})

VARIABLES
    event,          \* the predictions: inference_runs and inference_events
    policy,         \* abstention_policy_versions
    proposal,       \* proposals whose transaction is open
    shadow,         \* abstention_shadow_decisions, as <<policy, event>> with a row number
    reviewItem      \* review_items and feedback_items, by event

policyVars == <<event, policy, proposal, shadow, reviewItem>>

-----------------------------------------------------------------------------
Event == [step : {"idle", "resolved", "decided", "predicted", "inserted", "recorded", "refused"},
          model : Models \cup {NoModel}, applied : Policies \cup {NoPolicy}, score : 0..TopScore,
          decision : {"none", "accept", "abstain"}, asked : BOOLEAN, shadows : SUBSET Policies]

\* What can be submitted, as far as a policy can tell: the predicted label; another label or
\* an image that has none (out of distribution, bad), which count as wrong; and feedback that
\* policies do not use (uncertain, ignore).
Outcomes == {"right label", "wrong label", "not used"}

\* A threshold is a number of steps.
Threshold == Nat
Sample == [event : Inferences, score : 0..TopScore, correct : BOOLEAN]

Policy == [status : {"absent", "shadow", "active", "superseded", "deactivated"},
           model : Models \cup {NoModel}, tau : Threshold, samples : SUBSET Sample]

ReviewItem == [status : {"none", "pending", "feedbacked"},
               outcome : {"none"} \cup Outcomes,
               assistance : {"none", "asked", "saved"}]

NewEvent == [step |-> "idle", model |-> NoModel, applied |-> NoPolicy, score |-> 0, decision |-> "none",
             asked |-> FALSE, shadows |-> {}]
NewPolicy == [status |-> "absent", model |-> NoModel, tau |-> 0, samples |-> {}]

\* A proposal has read its feedback and the events it will decide on.
Proposal == [open : BOOLEAN, policy : Policy, events : SUBSET Inferences]
NoProposal == [open |-> FALSE, policy |-> NewPolicy, events |-> {}]

PoliciesTypeOK ==
    /\ event \in [Inferences -> Event]
    /\ policy \in [Policies -> Policy]
    /\ proposal \in [Policies -> Proposal]
    /\ shadow \in [Policies \X Inferences -> Nat]
    /\ reviewItem \in [Inferences -> ReviewItem]

\* The predictions of earlier were made without a policy, abstained and were reviewed.
PoliciesInit(earlier, m) ==
    /\ \E score \in [earlier -> 0..TopScore], outcome \in [earlier -> Outcomes] :
          /\ event = [e \in Inferences |-> IF e \in earlier
                         THEN [NewEvent EXCEPT !.step = "recorded", !.model = m, !.score = score[e],
                                               !.decision = "abstain"]
                         ELSE NewEvent]
          /\ reviewItem = [e \in Inferences |-> IF e \in earlier
                              THEN [status |-> "feedbacked", outcome |-> outcome[e], assistance |-> "none"]
                              ELSE [status |-> "none", outcome |-> "none", assistance |-> "none"]]
    /\ policy = [p \in Policies |-> NewPolicy]
    /\ proposal = [p \in Policies |-> NoProposal]
    /\ shadow = [d \in Policies \X Inferences |-> 0]

-----------------------------------------------------------------------------
(* Predictions. *)

\* The policy that is active for m, or none: the read of the prediction.
ActivePolicy(m) ==
    LET active == {p \in Policies : policy[p].status = "active" /\ policy[p].model = m}
    IN IF active = {} THEN NoPolicy ELSE CHOOSE p \in active : TRUE

\* The version has to be in production and trained on the data the caller names.
Resolve(e, m, asked) ==
    /\ event[e].step = "idle" /\ model[m].status = "production"
    /\ event' = [event EXCEPT ![e].step = "resolved", ![e].model = m, ![e].asked = asked]
    /\ UNCHANGED <<modelVars, policy, proposal, shadow, reviewItem>>

ReadPolicy(e) ==
    /\ event[e].step = "resolved"
    /\ event' = [event EXCEPT ![e].step = "decided", ![e].applied = ActivePolicy(event[e].model)]
    /\ UNCHANGED <<modelVars, policy, proposal, shadow, reviewItem>>

\* Accepted by a threshold: score / TopScore >= tau / Steps.
Accepts(tau, score) == score * Steps >= tau * TopScore

\* The worker decides by the thresholds it was sent; a model's own are the worker's affair.
Predict(e, score, decision) ==
    /\ event[e].step = "decided"
    /\ event[e].applied \in Policies =>
          decision = IF Accepts(policy[event[e].applied].tau, score) THEN "accept" ELSE "abstain"
    /\ event' = [event EXCEPT ![e].step = "predicted", ![e].score = score, ![e].decision = decision]
    /\ UNCHANGED <<modelVars, policy, proposal, shadow, reviewItem>>

\* No worker answers, the artifact store is away, or the deployment it names is gone.
PredictionFails(e) ==
    /\ event[e].step \in {"resolved", "decided", "predicted"}
    /\ event' = [event EXCEPT ![e].step = "refused"]
    /\ UNCHANGED <<modelVars, policy, proposal, shadow, reviewItem>>

Shadowing(m) == {p \in Policies : policy[p].status = "shadow" /\ policy[p].model = m}

\* The transaction share-locks the version and looks at its status again; then it inserts
\* the decisions of the policies that are in shadow.
Insert(e) ==
    LET m == event[e].model
    IN /\ event[e].step = "predicted"
       /\ IF model[m].status = "production"
              THEN /\ shareLock' = [shareLock EXCEPT ![m] = @ \cup {e}]
                   /\ event' = [event EXCEPT ![e].step = "inserted", ![e].shadows = Shadowing(m)]
              ELSE /\ event' = [event EXCEPT ![e].step = "refused"]
                   /\ UNCHANGED shareLock
       /\ UNCHANGED <<model, alias, publisher, datasetLock, policy, proposal, shadow, reviewItem>>

\* Everything becomes visible at once; what was not accepted, or was asked for, is reviewed.
Commit(e) ==
    LET m == event[e].model
        reviewed == event[e].decision # "accept" \/ event[e].asked
    IN /\ event[e].step = "inserted"
       /\ event' = [event EXCEPT ![e].step = "recorded"]
       /\ shadow' = [d \in DOMAIN shadow |->
                        IF d[2] = e /\ d[1] \in event[e].shadows THEN shadow[d] + 1 ELSE shadow[d]]
       /\ reviewItem' = [reviewItem EXCEPT ![e].status = IF reviewed THEN "pending" ELSE @]
       /\ shareLock' = [shareLock EXCEPT ![m] = @ \ {e}]
       /\ UNCHANGED <<model, alias, publisher, datasetLock, policy, proposal>>

-----------------------------------------------------------------------------
(* Review. *)

\* Mutant of Open: the status is looked at before the call of the language model only.
Open_asked(item) == item.status # "none"

Open(item) == item.status = "pending"

Submit(e, outcome) ==
    /\ reviewItem[e].status = "pending"
    /\ reviewItem' = [reviewItem EXCEPT ![e].status = "feedbacked", ![e].outcome = outcome]
    /\ UNCHANGED <<modelVars, event, policy, proposal, shadow>>

AskAssistance(e) ==
    /\ reviewItem[e].status = "pending" /\ reviewItem[e].assistance = "none"
    /\ reviewItem' = [reviewItem EXCEPT ![e].assistance = "asked"]
    /\ UNCHANGED <<modelVars, event, policy, proposal, shadow>>

\* The answer of the language model is saved on an item that is still pending.
SaveAssistance(e) ==
    /\ reviewItem[e].assistance = "asked" /\ Open(reviewItem[e])
    /\ reviewItem' = [reviewItem EXCEPT ![e].assistance = "saved"]
    /\ UNCHANGED <<modelVars, event, policy, proposal, shadow>>

-----------------------------------------------------------------------------
(* Policies. *)

\* Feedback about m's predictions that a policy learns from; only the right label was correct.
Feedback(m) ==
    {[event |-> e, score |-> event[e].score, correct |-> reviewItem[e].outcome = "right label"] :
        e \in {x \in Inferences : event[x].model = m /\ event[x].step = "recorded"
                    /\ reviewItem[x].outcome \in {"right label", "wrong label"}}}

\* The scores of the samples in ascending order.
SortedScores(samples) ==
    [i \in 1..Cardinality(samples) |->
        CHOOSE k \in 0..TopScore :
            /\ Cardinality({x \in samples : x.score <= k}) >= i
            /\ Cardinality({x \in samples : x.score < k}) < i]

\* The multiple of 1 / Steps that is nearest to a fraction (math.Round).
Rounded(num, den) == (2 * num * Steps + den) \div (2 * den)

\* The number of points that candidates() puts at even distances between count sorted scores,
\* and the i-th of them, between the two scores nearest to it, rounded.
GridSize(count) == IF count + 2 < GridPoints THEN count + 2 ELSE GridPoints
GridPoint(s, count, i) ==
    LET gaps == GridSize(count) - 1
        lo == (i * (count - 1)) \div gaps
        over == i * (count - 1) - lo * gaps
        hi == IF over = 0 THEN lo ELSE lo + 1
    IN Rounded(s[lo + 1] * gaps + (s[hi + 1] - s[lo + 1]) * over, TopScore * gaps)

\* candidates(): the points, and accepting all or only what is certain.
Candidates(samples) ==
    LET count == Cardinality(samples)
    IN {0, Steps} \cup {GridPoint(SortedScores(samples), count, i) : i \in 0..(GridSize(count) - 1)}

AcceptedBy(tau, samples) == {x \in samples : Accepts(tau, x.score)}
KeepsTarget(accepted) ==
    Cardinality({x \in accepted : ~ x.correct}) * TargetRisk[2] <= TargetRisk[1] * Cardinality(accepted)
WithinTarget(tau, samples) == KeepsTarget(AcceptedBy(tau, samples))

\* Mutant of Chosen: the comparison of the accepted counts is turned round.
Chosen_fewest(samples) ==
    LET good == {tau \in Candidates(samples) : WithinTarget(tau, samples)}
    IN CHOOSE tau \in good : \A other \in good :
          Cardinality(AcceptedBy(tau, samples)) <= Cardinality(AcceptedBy(other, samples))

\* The search keeps the candidate that accepts most within the target.
Chosen(samples) ==
    LET good == {tau \in Candidates(samples) : WithinTarget(tau, samples)}
    IN CHOOSE tau \in good : \A other \in good :
          Cardinality(AcceptedBy(other, samples)) <= Cardinality(AcceptedBy(tau, samples))

Proposable(samples) ==
    samples # {} /\ \E tau \in Candidates(samples) : WithinTarget(tau, samples)

\* The transaction reads the feedback and the events of one snapshot.
BeginProposal(p, m) ==
    LET samples == Feedback(m)
    IN /\ policy[p].status = "absent" /\ ~ proposal[p].open /\ Proposable(samples)
       /\ proposal' = [proposal EXCEPT ![p] =
             [open |-> TRUE,
              policy |-> [status |-> "shadow", model |-> m, tau |-> Chosen(samples), samples |-> samples],
              events |-> {e \in Inferences : event[e].model = m /\ event[e].step = "recorded"}]]
       /\ UNCHANGED <<modelVars, event, policy, shadow, reviewItem>>

CommitProposal(p) ==
    /\ proposal[p].open
    /\ policy' = [policy EXCEPT ![p] = proposal[p].policy]
    /\ shadow' = [d \in DOMAIN shadow |->
                     IF d[1] = p /\ d[2] \in proposal[p].events THEN shadow[d] + 1 ELSE shadow[d]]
    /\ proposal' = [proposal EXCEPT ![p] = NoProposal]
    /\ UNCHANGED <<modelVars, event, reviewItem>>

\* Activation first retires the policy of the same model that is active.
Superseded(p) ==
    [o \in Policies |-> IF policy[o].status = "active" /\ policy[o].model = policy[p].model
                            THEN [policy[o] EXCEPT !.status = "superseded"] ELSE policy[o]]

Activate(p) ==
    /\ policy[p].status \in {"shadow", "superseded", "deactivated"}
    /\ Cardinality(policy[p].samples) >= MinFeedback /\ WithinTarget(policy[p].tau, policy[p].samples)
    /\ Writable(policy[p].model)
    /\ policy' = [Superseded(p) EXCEPT ![p].status = "active"]
    /\ UNCHANGED <<modelVars, event, proposal, shadow, reviewItem>>

Deactivate(p) ==
    /\ policy[p].status = "active" /\ Writable(policy[p].model)
    /\ policy' = [policy EXCEPT ![p].status = "deactivated"]
    /\ UNCHANGED <<modelVars, event, proposal, shadow, reviewItem>>

-----------------------------------------------------------------------------
InferenceWork(e) ==
    \/ ReadPolicy(e)
    \/ \E score \in 0..TopScore, decision \in {"accept", "abstain"} : Predict(e, score, decision)
    \/ PredictionFails(e)
    \/ Insert(e)
    \/ Commit(e)

PolicyStep ==
    \/ \E e \in Inferences : InferenceWork(e)
    \/ \E e \in Inferences, m \in Models, asked \in BOOLEAN : Resolve(e, m, asked)
    \/ \E e \in Inferences, outcome \in Outcomes : Submit(e, outcome)
    \/ \E e \in Inferences : AskAssistance(e) \/ SaveAssistance(e)
    \/ \E p \in Policies, m \in Models : BeginProposal(p, m)
    \/ \E p \in Policies : CommitProposal(p) \/ Activate(p) \/ Deactivate(p)

-----------------------------------------------------------------------------
\* A policy decides in the shadow about a prediction at most once, whether the proposal or
\* the prediction commits first, and never about one that it decided itself.
ShadowedOnce ==
    \A p \in Policies, e \in Inferences :
        /\ shadow[<<p, e>>] <= 1
        /\ event[e].applied = p => shadow[<<p, e>>] = 0

\* A prediction is recorded only while its model is in production: a model that is
\* archived during the prediction, or between the check and the commit, records nothing
\* (the comment on the share lock in InferenceService.Predict).
RecordedInProduction ==
    [][\A e \in Inferences : event[e].step # "recorded" /\ event'[e].step = "recorded"
          => model[event[e].model].status = "production"]_<<event, model>>

\* One policy at most is active for a model.
OneActivePolicy ==
    \A p, o \in Policies :
        policy[p].status = "active" /\ policy[o].status = "active" /\ policy[o].model = policy[p].model => o = p

\* The grid has a point between any two samples, and two scores are far enough apart for it
\* to stay between them when it is rounded.
GridSeparates(samples) ==
    /\ Cardinality(samples) + 2 <= GridPoints
    /\ \A x, y \in samples : x.score < y.score =>
          2 * (y.score - x.score) * Steps >= (Cardinality(samples) + 1) * TopScore

\* A policy accepts as much of its feedback as a threshold at any score does that keeps the
\* target risk, as long as the grid separates the scores: rounding the candidates, and having
\* few of them, costs nothing then (candidates, propose).
BestThreshold ==
    \A p \in Policies : policy[p].status # "absent" /\ GridSeparates(policy[p].samples) =>
        \A t \in 0..TopScore : LET cut == {x \in policy[p].samples : x.score >= t} IN
            KeepsTarget(cut) => Cardinality(cut) <= Cardinality(AcceptedBy(policy[p].tau, policy[p].samples))

\* Activations that race leave one policy, and the best of its kind (PolicyAction, propose).
ActivePoliciesSound == OneActivePolicy /\ BestThreshold

\* What a reviewer submitted stays as it is: no late answer of the language model and no
\* second reviewer changes an item that has its feedback.
FeedbackFinal ==
    [][\A e \in Inferences : reviewItem[e].status = "feedbacked" => reviewItem'[e] = reviewItem[e]]_reviewItem

\* What is recorded was predicted by a published model, with every policy in its place, and
\* what people said of it stays.
PredictionsSound == RecordedInProduction /\ []ShadowedOnce /\ FeedbackFinal
=============================================================================
