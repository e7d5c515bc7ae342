------------------------------ MODULE DatasetCard ------------------------------
(***************************************************************************)
(* The card of a dataset version (internal/datasetcard and its             *)
(* repository): revisions are saved by users against the revision they     *)
(* read, and a model may draft one.  A draft is paid for, so a request     *)
(* that is repeated must not call the model again, and a draft may only    *)
(* replace the card it was written about.  The control plane may stop      *)
(* while the model writes; an unfinished draft then expires.               *)
(*                                                                         *)
(* The text of a card is left out: a draft is written about a revision.    *)
(* Expiry (180 s) is not bound to the call's own deadline (105 s): the     *)
(* process may be suspended in between.                                    *)
(***************************************************************************)
EXTENDS Integers, Sequences

CONSTANTS
    Versions,      \* dataset versions
    Drafts,        \* request ids of drafts
    Writers,       \* calls of Generate that may be under way at one time
    NoDraft, NoVersion,
    MaxRevision    \* bound: revisions of a card

ASSUME CardAssumption ==
    MaxRevision \in Nat /\ NoDraft \notin Drafts /\ NoVersion \notin Versions

VARIABLES
    card,     \* dataset_card_revisions: the draft each revision was made from
    draft,    \* dataset_card_generations
    writer,   \* calls of Generate
    paid      \* calls of the model that were made for each draft

cardVars == <<card, draft, writer, paid>>

-----------------------------------------------------------------------------
NoRow == [version |-> NoVersion, base |-> 0, status |-> "none", expired |-> FALSE, applied |-> 0]
Rows ==
    [version : Versions \cup {NoVersion}, base : 0..MaxRevision,
     status : {"none", "running", "succeeded", "failed"}, expired : BOOLEAN, applied : 0..MaxRevision]

IdleWriter == [at |-> "idle", version |-> NoVersion, draft |-> NoDraft, base |-> 0, result |-> "none"]
WriterStates ==
    [at : {"idle", "read", "calling", "finishing", "told"}, version : Versions \cup {NoVersion},
     draft : Drafts \cup {NoDraft}, base : 0..MaxRevision, result : {"none", "succeeded", "failed"}]

Revision(v) == Len(card[v])

CardsTypeOK ==
    /\ card \in [Versions -> Seq(Drafts \cup {NoDraft})] /\ \A v \in Versions : Revision(v) <= MaxRevision
    /\ draft \in [Drafts -> Rows]
    /\ writer \in [Writers -> WriterStates]
    /\ paid \in [Drafts -> Nat]

CardsInit ==
    /\ card = [v \in Versions |-> <<>>]
    /\ draft = [d \in Drafts |-> NoRow]
    /\ writer = [w \in Writers |-> IdleWriter]
    /\ paid = [d \in Drafts |-> 0]

-----------------------------------------------------------------------------
\* Mutant of MayApply: any finished draft is taken, also one written about an older card.
MayApply_anyBase(v, d) == draft[d].version = v /\ draft[d].status = "succeeded" /\ draft[d].applied = 0

\* What Save asks of a draft.
MayApply(v, d) ==
    /\ draft[d].version = v /\ draft[d].status = "succeeded" /\ draft[d].applied = 0
    /\ draft[d].base = Revision(v)

\* Save, by a user who read revision `expected`; refused unless it is still the last.
Save(v, expected, d) ==
    /\ expected = Revision(v) /\ expected < MaxRevision
    /\ d # NoDraft => MayApply(v, d)
    /\ card' = [card EXCEPT ![v] = Append(@, d)]
    /\ draft' = IF d = NoDraft THEN draft ELSE [draft EXCEPT ![d].applied = expected + 1]
    /\ UNCHANGED <<writer, paid>>

Moves(w, state) == writer' = [writer EXCEPT ![w] = state]

\* Generate reads the version and its card.
Read(w, v, d) ==
    /\ writer[w].at = "idle"
    /\ Moves(w, [IdleWriter EXCEPT !.at = "read", !.version = v, !.draft = d, !.base = Revision(v)])
    /\ UNCHANGED <<card, draft, paid>>

\* Drafts of a version after Begin failed the expired ones.
Swept(v) ==
    [d \in Drafts |-> IF draft[d].version = v /\ draft[d].status = "running" /\ draft[d].expired
                      THEN [draft[d] EXCEPT !.status = "failed"] ELSE draft[d]]

\* Mutant of Startable: a draft that failed is written again.
Startable_failed(rows, d) == rows[d].status \in {"none", "failed"}

\* Begin inserts a request it does not know yet.
Startable(rows, d) == rows[d].status = "none"

\* Begin, on a card that has changed, or a request id of another card: a conflict.
BeginConflict(w) ==
    /\ writer[w].at = "read"
    /\ LET v == writer[w].version
           d == writer[w].draft
           b == writer[w].base
           rows == Swept(v)
       IN  \/ Revision(v) # b
           \/ rows[d].status # "none" /\ (rows[d].version # v \/ rows[d].base # b)
           \/ Startable(rows, d) /\ \E e \in Drafts : rows[e].version = v /\ rows[e].status = "running"
    /\ Moves(w, IdleWriter)
    /\ UNCHANGED <<card, draft, paid>>

\* Begin, on a request it knows: the call is answered with the draft as it is.
BeginKnown(w) ==
    /\ writer[w].at = "read"
    /\ LET v == writer[w].version
           d == writer[w].draft
           rows == Swept(v)
       IN  /\ Revision(v) = writer[w].base
           /\ ~Startable(rows, d) /\ rows[d].version = v /\ rows[d].base = writer[w].base
           /\ draft' = rows
           /\ Moves(w, [writer[w] EXCEPT !.at = "told", !.result = IF rows[d].status = "running" THEN "none"
                                                                     ELSE rows[d].status])
    /\ UNCHANGED <<card, paid>>

\* Begin, on a new request; one draft of a version may be running.
Begin(w) ==
    /\ writer[w].at = "read"
    /\ LET v == writer[w].version
           d == writer[w].draft
           rows == Swept(v)
       IN  /\ Revision(v) = writer[w].base
           /\ Startable(rows, d)
           /\ \A e \in Drafts : rows[e].version = v => rows[e].status # "running"
           /\ draft' = [rows EXCEPT ![d] = [NoRow EXCEPT !.version = v, !.base = writer[w].base, !.status = "running"]]
           /\ paid' = [paid EXCEPT ![d] = @ + 1]
    /\ Moves(w, [writer[w] EXCEPT !.at = "calling"])
    /\ UNCHANGED card

\* The model answers, or fails.
ModelAnswers(w, result) ==
    /\ writer[w].at = "calling"
    /\ Moves(w, [writer[w] EXCEPT !.at = "finishing", !.result = result])
    /\ UNCHANGED <<card, draft, paid>>

\* Mutant of StillRunning: an answer is kept however late it comes.
StillRunning_late(d) == draft[d].status # "succeeded"

\* The condition of Finish's update.
StillRunning(d) == draft[d].status = "running" /\ ~draft[d].expired

\* Finish, also after the browser is gone; without the row the caller is told of a conflict.
FinishDraft(w) ==
    /\ writer[w].at = "finishing"
    /\ LET d == writer[w].draft IN
       IF StillRunning(d)
       THEN /\ draft' = [draft EXCEPT ![d].status = writer[w].result]
            /\ Moves(w, [writer[w] EXCEPT !.at = "told"])
       ELSE Moves(w, IdleWriter) /\ UNCHANGED draft
    /\ UNCHANGED <<card, paid>>

\* The caller has its answer, or the control plane stops.
Leave(w) ==
    /\ writer[w].at # "idle"
    /\ Moves(w, IdleWriter)
    /\ UNCHANGED <<card, draft, paid>>

\* 180 seconds pass.
Expire(d) ==
    /\ draft[d].status = "running" /\ ~draft[d].expired
    /\ draft' = [draft EXCEPT ![d].expired = TRUE]
    /\ UNCHANGED <<card, writer, paid>>

CardStep ==
    \/ \E v \in Versions, expected \in 0..MaxRevision, d \in Drafts \cup {NoDraft} : Save(v, expected, d)
    \/ \E w \in Writers :
          \/ \E v \in Versions, d \in Drafts : Read(w, v, d)
          \/ BeginConflict(w) \/ BeginKnown(w) \/ Begin(w)
          \/ \E result \in {"succeeded", "failed"} : ModelAnswers(w, result)
          \/ FinishDraft(w) \/ Leave(w)
    \/ \E d \in Drafts : Expire(d)

-----------------------------------------------------------------------------
\* A draft becomes at most one revision, the one after the card it was written about.
DraftsFit ==
    \A v \in Versions, i \in 1..MaxRevision :
        i <= Revision(v) /\ card[v][i] # NoDraft =>
            LET row == draft[card[v][i]] IN row.version = v /\ row.base = i - 1 /\ row.applied = i

\* The model is called once for a request, however often it is sent and whatever fails.
DraftsPaidOnce == \A d \in Drafts : paid[d] <= 1

\* A caller is told of a draft only as it is kept.
CallersToldTruth ==
    \A w \in Writers : writer[w].at = "told" /\ writer[w].result # "none" =>
        draft[writer[w].draft].status = writer[w].result

\* An answer that comes after its draft was given up changes nothing.
GivenUpDraftsStay ==
    [][\A d \in Drafts :
        draft[d].status = "failed" \/ draft[d].expired => draft'[d].status # "succeeded"]_cardVars

\* Drafts are paid for once, fit the card they are put on and stay what they were reported to be.
CardsSound == [](DraftsFit /\ DraftsPaidOnce /\ CallersToldTruth) /\ GivenUpDraftsStay
=============================================================================
