----------------------------- MODULE ModelRelease -----------------------------
(***************************************************************************)
(* The model versions of one dataset: promotion, publication in a          *)
(* precision, archiving and the aliases champion and challenger            *)
(* (modelregistry/registry.go, publication.go, releases.go and their       *)
(* repository in postgres).                                                *)
(*                                                                         *)
(* Every call reads the version first and works with what it read; a       *)
(* publication exports the model in between, which takes minutes.  The     *)
(* transactions that follow lock the dataset's row, the version's row or   *)
(* both.  A publication's transaction is two steps, because it computes    *)
(* the release number from a row it does not update.                       *)
(***************************************************************************)
EXTENDS Integers, FiniteSets

CONSTANTS
    Models,        \* model versions trained on versions of one dataset
    ModelPlan,     \* [Models -> their signature: architecture, weights, training mode]
    TrainedOn,     \* [Models -> version of the dataset]
    Precisions,    \* deployment precisions
    Formats,       \* [Models -> the precisions it is published in]
    Publishers,    \* calls of the registry that may be under way at once
    Named,         \* the versions that are staged and given aliases
    Inferences     \* calls of the inference service (they share-lock a version)

VARIABLES
    model,         \* model_versions
    alias,         \* model_version_aliases
    publisher,     \* the registry calls
    datasetLock,   \* the call whose transaction holds the dataset's row
    shareLock      \* the inference calls whose transaction holds a version's row, by version

modelVars == <<model, alias, publisher, datasetLock, shareLock>>

-----------------------------------------------------------------------------
NoModel == "no model"
NoCall == "no call"

ASSUME CallsAssumption == NoCall \notin Publishers /\ Formats \in [Models -> SUBSET Precisions]

Unreleased == [number |-> <<0, 0, 0>>, sequence |-> 0, plan |-> "none"]

Statuses == {"candidate", "staging", "production", "archived"}
ReleaseRow == [number : Nat \X Nat \X Nat, sequence : Nat, plan : {"none"} \cup {ModelPlan[m] : m \in Models}]

\* revision stands for updated_at; exports holds, for every registered pair of artifacts,
\* its precision and the revision it was added to.
ModelRow == [status : Statuses, revision : Nat, release : ReleaseRow,
             exports : SUBSET [precision : Precisions, of : Nat]]

\* What a call remembers of the row it read.
Seen == [status : Statuses, revision : Nat, release : ReleaseRow]

Call == [step : {"idle", "read", "locked"}, op : {"none", "publish", "stage", "archive", "alias"},
         model : Models \cup {NoModel}, precision : Precisions \cup {"none"},
         alias : {"none", "champion", "challenger"}, seen : Seen, next : ReleaseRow]

NewModel == [status |-> "candidate", revision |-> 0, release |-> Unreleased, exports |-> {}]
IdleCall == [step |-> "idle", op |-> "none", model |-> NoModel, precision |-> "none",
             alias |-> "none", seen |-> [status |-> "candidate", revision |-> 0, release |-> Unreleased],
             next |-> Unreleased]

ModelsTypeOK ==
    /\ model \in [Models -> ModelRow]
    /\ alias \in [{"champion", "challenger"} -> Models \cup {NoModel}]
    /\ publisher \in [Publishers -> Call]
    /\ datasetLock \in Publishers \cup {NoCall}
    /\ shareLock \in [Models -> SUBSET Inferences]

ModelsInit ==
    /\ model = [m \in Models |-> NewModel]
    /\ alias = [a \in {"champion", "challenger"} |-> NoModel]
    /\ publisher = [c \in Publishers |-> IdleCall]
    /\ datasetLock = NoCall
    /\ shareLock = [m \in Models |-> {}]

Finished(c) == publisher' = [publisher EXCEPT ![c] = IdleCall]

-----------------------------------------------------------------------------
(* The calls, up to their transaction. *)

Publishable(row, precision) ==
    /\ row.status # "archived"
    /\ ~ (row.status = "production" /\ \E e \in row.exports : e.precision = precision)

\* Publish, Promote to production, Promote to staging, Archive and SetAlias look at the
\* version outside any transaction; a call they refuse or answer at once changes nothing.
Begin(c, op, m, precision, a) ==
    /\ publisher[c].step = "idle"
    /\ publisher' = [publisher EXCEPT ![c] =
          [IdleCall EXCEPT !.step = "read", !.op = op, !.model = m, !.precision = precision,
                           !.alias = a, !.seen = [status |-> model[m].status, revision |-> model[m].revision,
                                                   release |-> model[m].release]]]
    /\ UNCHANGED <<model, alias, datasetLock, shareLock>>

PublishPrecision(c, m, precision) ==
    Publishable(model[m], precision) /\ Begin(c, "publish", m, precision, "none")

Promote(c, m) == m \in Named /\ model[m].status = "candidate" /\ Begin(c, "stage", m, "none", "none")

Archive(c, m) == model[m].status # "archived" /\ Begin(c, "archive", m, "none", "none")

AliasAllowed(a, row) ==
    IF a = "champion" THEN row.status = "production" ELSE row.status \in {"candidate", "staging"}

SetAlias(c, a, m) == m \in Named /\ AliasAllowed(a, model[m]) /\ Begin(c, "alias", m, "none", a)

\* The exporter may fail, or answer with files that are not the pair in the precision
\* asked for, verified: then the model stays as it is.
ExportFails(c) ==
    /\ publisher[c].step = "read" /\ publisher[c].op = "publish"
    /\ Finished(c)
    /\ UNCHANGED <<model, alias, datasetLock, shareLock>>

-----------------------------------------------------------------------------
(* Release numbers. *)

Released == {m \in Models : model[m].release.sequence > 0}
LatestRelease == CHOOSE m \in Released : \A n \in Released : model[n].release.sequence <= model[m].release.sequence

\* The number after that of previous: a new plan is a major release, new data a minor one.
Raised(number, newPlan, newData) ==
    CASE newPlan -> <<number[1] + 1, 0, 0>>
      [] ~ newPlan /\ newData -> <<number[1], number[2] + 1, 0>>
      [] OTHER -> <<number[1], number[2], number[3] + 1>>

\* Mutant of NextRelease: only what is in production counts as released.
NextRelease_production(m, seen) ==
    LET live == {n \in Released : model[n].status = "production"}
        last == CHOOSE n \in live : \A o \in live : model[o].release.sequence <= model[n].release.sequence
    IN IF seen.release.sequence > 0 THEN seen.release
       ELSE IF live = {} THEN [number |-> <<1, 0, 0>>, sequence |-> 1, plan |-> ModelPlan[m]]
       ELSE [number |-> Raised(model[last].release.number, ModelPlan[m] # model[last].release.plan,
                               TrainedOn[m] # TrainedOn[last]),
             sequence |-> model[last].release.sequence + 1, plan |-> ModelPlan[m]]

\* An additional precision of a numbered model keeps the number that was read.
NextRelease(m, seen) ==
    IF seen.release.sequence > 0 THEN seen.release
    ELSE IF Released = {} THEN [number |-> <<1, 0, 0>>, sequence |-> 1, plan |-> ModelPlan[m]]
    ELSE LET last == model[LatestRelease].release
         IN [number |-> Raised(last.number, ModelPlan[m] # last.plan, TrainedOn[m] # TrainedOn[LatestRelease]),
             sequence |-> last.sequence + 1, plan |-> ModelPlan[m]]

-----------------------------------------------------------------------------
(* The transactions. *)

\* Mutant of Writable: a prediction does not keep the version while it commits.
Writable_ignored(m) == TRUE

\* An update of a version waits for the inferences that hold its row.
Writable(m) == shareLock[m] = {}

\* After the export, CompletePublication locks the dataset, reads its last release and computes the next.
LockForRelease(c) ==
    /\ publisher[c].step = "read" /\ publisher[c].op = "publish" /\ datasetLock = NoCall
    /\ datasetLock' = c
    /\ publisher' = [publisher EXCEPT ![c].step = "locked",
                                      ![c].next = NextRelease(publisher[c].model, publisher[c].seen)]
    /\ UNCHANGED <<model, alias, shareLock>>

\* What the UPDATE matches: the status and updated_at that were read before the export.
Unchanged(m, seen) == model[m].status = seen.status /\ model[m].revision = seen.revision

CompletePublication(c) ==
    LET call == publisher[c]
        m == call.model
    IN /\ call.step = "locked" /\ Writable(m)
       /\ model' = IF Unchanged(m, call.seen)
                       THEN [model EXCEPT ![m] =
                               [status |-> "production", revision |-> @.revision + 1, release |-> call.next,
                                exports |-> @.exports \cup {[precision |-> call.precision, of |-> @.revision]}]]
                       ELSE model
       /\ datasetLock' = NoCall
       /\ Finished(c)
       /\ UNCHANGED <<alias, shareLock>>

\* Transition refuses when the status is no longer the one that was read.
Transition(c) ==
    LET call == publisher[c]
        m == call.model
        target == IF call.op = "stage" THEN "staging" ELSE "archived"
    IN /\ call.step = "read" /\ call.op \in {"stage", "archive"} /\ Writable(m)
       /\ model' = IF model[m].status = call.seen.status
                       THEN [model EXCEPT ![m].status = target, ![m].revision = @ + 1] ELSE model
       /\ Finished(c)
       /\ UNCHANGED <<alias, datasetLock, shareLock>>

\* Mutant of StillAllowed: the check made before the transaction is relied on.
StillAllowed_earlier(a, m) == TRUE

\* The repository's SetAlias checks again under the locks of the dataset and the version.
StillAllowed(a, m) == AliasAllowed(a, model[m])

WriteAlias(c) ==
    LET call == publisher[c]
    IN /\ call.step = "read" /\ call.op = "alias"
       /\ datasetLock = NoCall /\ Writable(call.model)
       /\ alias' = IF StillAllowed(call.alias, call.model)
                       THEN [alias EXCEPT ![call.alias] = call.model] ELSE alias
       /\ Finished(c)
       /\ UNCHANGED <<model, datasetLock, shareLock>>

-----------------------------------------------------------------------------
RegistryRequest(c) ==
    \E m \in Models :
        \/ \E p \in Formats[m] : PublishPrecision(c, m, p)
        \/ Promote(c, m)
        \/ Archive(c, m)
        \/ \E a \in {"champion", "challenger"} : SetAlias(c, a, m)

RegistryWork(c) ==
    \/ ExportFails(c)
    \/ LockForRelease(c)
    \/ CompletePublication(c)
    \/ Transition(c)
    \/ WriteAlias(c)

RegistryStep == \E c \in Publishers : RegistryRequest(c) \/ RegistryWork(c)

-----------------------------------------------------------------------------
\* m was released right after l.
Follows(m, l) == model[m].release.sequence = model[l].release.sequence + 1

\* The releases of a dataset are numbered without a gap and without a repetition, and each
\* number says what changed since the release before it: plan, data or only the result.
\* Concurrent publications and archived releases make this hard (CompletePublication).
ReleasesOrdered ==
    /\ {model[m].release.sequence : m \in Released} = 1..Cardinality(Released)
    /\ \A m, l \in Released : Follows(m, l) =>
          model[m].release.number = Raised(model[l].release.number, ModelPlan[m] # ModelPlan[l],
                                           TrainedOn[m] # TrainedOn[l])

\* A publication counts only if nothing happened to the model since it was read: a model
\* is never brought back from the archive, and no precision is registered twice by
\* exports that ran at the same time.
PublishedOnce ==
    \A m \in Models : \A e, f \in model[m].exports : e.precision = f.precision => e = f

\* An archived model keeps its status, release and files, whatever call is still under way.
ArchivedForGood ==
    [][\A m \in Models : model[m].status = "archived" => model'[m] = model[m]]_modelVars

\* An alias is given to a model that has the status for it at that moment, whatever
\* was read before: a champion is or was in production, never a candidate.
AliasesDeserved ==
    [][\A a \in {"champion", "challenger"} :
          alias'[a] # alias[a] => alias'[a] \in Models /\ AliasAllowed(a, model[alias'[a]])]_modelVars

\* Whatever runs at the same time, the releases of a dataset tell one story.
ReleasesSound == ReleasesOrdered /\ PublishedOnce

\* What a call read before its transaction decides nothing that has changed since.
StaleCallsRefused == ArchivedForGood /\ AliasesDeserved
=============================================================================
