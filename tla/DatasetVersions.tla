--------------------------- MODULE DatasetVersions ---------------------------
(***************************************************************************)
(* How the versions of a dataset are published (dataset/service.go,        *)
(* dataset/merge.go, postgres/dataset_repository.go).                      *)
(*                                                                         *)
(* A call of publishPlanned looks its request up, reads the version it     *)
(* builds on and the feedback it takes, builds and scans an archive for    *)
(* minutes without a lock, and saves the version in one transaction.       *)
(* Several calls run at once, also for the same request; a save may commit *)
(* although its caller is told that it failed.                             *)
(***************************************************************************)
EXTENDS Integers, FiniteSets, FiniteSetsExt

CONSTANTS
    Callers,        \* whoever calls: HTTP requests, import consumers, coordinators
    Clients,        \* the callers that are HTTP requests to expand a dataset
    Requests,       \* request identities that any caller may use
    ClientRequests, \* those of them that clients choose
    Photos,         \* images, by their digest
    UploadPhotos,   \* images that clients upload
    Labels,
    FeedbackPhotos, \* images whose review made them training candidates
    ReviewLabel,    \* the label that their reviews settled on
    TestPhoto       \* the one image in the test split of the first version

ASSUME VersionsAssumption ==
    /\ Clients \subseteq Callers /\ ClientRequests \subseteq Requests
    /\ FeedbackPhotos \cup UploadPhotos \subseteq Photos
    /\ TestPhoto \in Photos
    /\ ReviewLabel \in Labels

VARIABLES
    version,  \* dataset_versions, with the rows of dataset_version_feedback
    call      \* the calls of publishPlanned under way

versionVars == <<version, call>>

-----------------------------------------------------------------------------
FirstRequest == 0
FirstDataset == FirstRequest  \* datasets bear the name of the request that made them
Splits == {"train", "val", "test"}

Sample(photo, label, split) == [photo |-> photo, label |-> label, split |-> split]

\* The first version: one image is tested with.
FirstContent == {Sample(TestPhoto, ReviewLabel, "test")}

\* What a caller asks for.  frozen: samples is the whole archive, checked before;
\* otherwise samples are additions to the base.  base is a version's number in the first
\* dataset, or 0 for a new dataset.
Order(request, base, frozen, samples, feedback) ==
    [request |-> request, base |-> base, frozen |-> frozen, samples |-> samples, feedback |-> feedback]

\* Everything the fingerprint is made of.
Fingerprint(order) == <<order.base, order.samples, order.feedback>>

VersionsOf(dataset) == {v \in version : v.dataset = dataset}
Numbered(dataset, n) == {v \in version : v.dataset = dataset /\ v.number = n}
Latest(dataset) == Max({v.number : v \in VersionsOf(dataset)})
Published(request) == {v \in version : v.request = request}
Consumed(dataset) == UNION {v.feedback : v \in VersionsOf(dataset)}

NoOrder == Order(FirstRequest, 0, FALSE, {}, {})
NoCall == [pc |-> "idle", order |-> NoOrder, content |-> {}]

AllRequests == Requests \cup {FirstRequest}
AllSamples == [photo : Photos, label : Labels, split : Splits]
AllOrders == [request : AllRequests, base : Nat, frozen : BOOLEAN, samples : SUBSET AllSamples,
              feedback : SUBSET FeedbackPhotos]

VersionsTypeOK ==
    /\ call \in [Callers -> [pc : {"idle", "begun", "gathered", "ok", "conflict", "refused", "failed"},
                            order : AllOrders, content : SUBSET AllSamples]]
    /\ \A v \in version :
        v \in [request : AllRequests, dataset : AllRequests, number : Nat \ {0},
               parent : Nat, linear : BOOLEAN, order : AllOrders, content : SUBSET AllSamples, feedback : SUBSET FeedbackPhotos]

VersionsInit ==
    /\ version = {[request |-> FirstRequest, order |-> NoOrder, dataset |-> FirstDataset,
                   number |-> 1, parent |-> 0, linear |-> TRUE, content |-> FirstContent, feedback |-> {}]}
    /\ call = [c \in Callers |-> NoCall]

-----------------------------------------------------------------------------
(* merge: additions go to the training split. *)

Evaluation(content) == {s.photo : s \in {x \in content : x.split # "train"}}
Photographed(content) == {s.photo : s \in content}

\* An image that is evaluated with, or that bears another label, refuses the whole batch.
Clashes(content, additions) ==
    \/ \E a \in additions : a.photo \in Evaluation(content)
    \/ \E a \in additions : \E s \in content \cup additions : s.photo = a.photo /\ s.label # a.label

\* The images that are new.
Fresh(content, additions) == {a \in additions : a.photo \notin Photographed(content)}

Merged(content, additions) == content \cup Fresh(content, additions)

Mergeable(content, additions) == ~Clashes(content, additions) /\ Fresh(content, additions) # {}

-----------------------------------------------------------------------------
(* publishPlanned *)

\* The answer of a call, told by its pc.
Answer(c, result) == call' = [call EXCEPT ![c].pc = result, ![c].content = {}]

\* Mutant of Found: whatever version the request has is the answer.
Found_anyPrint(order) == IF Published(order.request) = {} THEN "absent" ELSE "ok"

\* FindPublication: a request that was used for something else is a conflict.
Found(order) ==
    IF Published(order.request) = {} THEN "absent"
    ELSE IF \E v \in Published(order.request) : Fingerprint(v.order) = Fingerprint(order) THEN "ok" ELSE "conflict"

\* The request is looked up before anything is read.
Begin(c, order) ==
    /\ call[c].pc = "idle"
    /\ call' = [call EXCEPT ![c] = [pc |-> IF Found(order) = "absent" THEN "begun" ELSE Found(order),
                                    order |-> order, content |-> {}]]
    /\ UNCHANGED version

FeedbackSamples(photos) == {Sample(p, ReviewLabel, "train") : p \in photos}

\* Uploaded images first, then those of the feedback, all for the training split.
Additions(order) == order.samples \cup FeedbackSamples(order.feedback)

\* Candidates leaves out the feedback that a version of the dataset has taken.
Eligible(order) == order.feedback \cap Consumed(FirstDataset) = {}

\* The base and the candidates are read, the archive is built from them and scanned.
Gather(c) ==
    LET order == call[c].order
        base == Numbered(FirstDataset, order.base)
    IN /\ call[c].pc = "begun"
       /\ IF order.base # 0 /\ (base = {} \/ ~Eligible(order))
            THEN Answer(c, "refused")
          ELSE IF order.frozen \/ order.base = 0
            THEN call' = [call EXCEPT ![c].pc = "gathered", ![c].content = order.samples]
          ELSE LET content == (CHOOSE v \in base : TRUE).content
               IN IF Mergeable(content, Additions(order))
                    THEN call' = [call EXCEPT ![c].pc = "gathered",
                                              ![c].content = Merged(content, Additions(order))]
                    ELSE Answer(c, "refused")
       /\ UNCHANGED version

\* Mutant of MaySave: an expansion does not look at what was published since it read its base.
MaySave_anyBase(order) ==
    /\ Published(order.request) = {}
    /\ order.base # 0 => order.feedback \cap Consumed(FirstDataset) = {}

\* What Save's transaction and the constraints of its tables ask for: the request is new,
\* a merged archive is built on the latest version, no feedback was taken meanwhile.
MaySave(order) ==
    /\ Published(order.request) = {}
    /\ order.base # 0 =>
        /\ order.frozen \/ order.base = Latest(FirstDataset)
        /\ order.feedback \cap Consumed(FirstDataset) = {}

\* A frozen archive takes the next number whatever it was built on.
NewVersion(order, content) ==
    [request |-> order.request, order |-> order,
     dataset |-> IF order.base = 0 THEN order.request ELSE FirstDataset,
     number |-> IF order.base = 0 THEN 1 ELSE IF order.frozen THEN Latest(FirstDataset) + 1 ELSE order.base + 1,
     parent |-> order.base, linear |-> ~order.frozen, content |-> content, feedback |-> order.feedback]

\* After a conflict the request is looked up once more: another call may have saved it.
Save(c) ==
    LET order == call[c].order
    IN /\ call[c].pc = "gathered"
       /\ IF MaySave(order)
            THEN /\ version' = version \cup {NewVersion(order, call[c].content)}
                 /\ Answer(c, "ok")
            ELSE /\ Answer(c, IF Found(order) = "ok" THEN "ok" ELSE "conflict")
                 /\ UNCHANGED version

\* The transaction commits, its answer does not arrive, and the second look fails too:
\* the context has run out, or the database cannot be reached.
SaveUnanswered(c) ==
    /\ call[c].pc = "gathered" /\ MaySave(call[c].order)
    /\ version' = version \cup {NewVersion(call[c].order, call[c].content)}
    /\ Answer(c, "failed")

\* The store, the scanner or the database fails.
CallFails(c) ==
    /\ call[c].pc \in {"begun", "gathered"}
    /\ Answer(c, "failed")
    /\ UNCHANGED version

Answers == {"ok", "conflict", "refused", "failed"}
Answered(c) == call[c].pc \in Answers

Forget(c) == call' = [call EXCEPT ![c] = NoCall]

-----------------------------------------------------------------------------
(* The HTTP request that expands a dataset (Expand): images uploaded for the training *)
(* split, feedback, or both.  A client may repeat a request, changed or not.          *)

Uploads == {{}} \cup {{Sample(p, l, "train")} : p \in UploadPhotos, l \in Labels}

Expand(c) ==
    \E request \in ClientRequests, base \in {v.number : v \in VersionsOf(FirstDataset)},
       samples \in Uploads, feedback \in SUBSET FeedbackPhotos :
        Begin(c, Order(request, base, FALSE, samples, feedback))

ClientTold(c) == Answered(c) /\ Forget(c) /\ UNCHANGED version

CallStep(c) == Gather(c) \/ Save(c) \/ SaveUnanswered(c) \/ CallFails(c)
ClientStep(c) == Expand(c) \/ ClientTold(c)

-----------------------------------------------------------------------------
NumbersDense ==
    \A d \in {v.dataset : v \in version} :
        {v.number : v \in VersionsOf(d)} = 1..Cardinality(VersionsOf(d))

OneVersionPerRequest == \A v, w \in version : v.request = w.request => v = w

FeedbackTakenOnce ==
    \A v, w \in version : v # w /\ v.dataset = w.dataset => v.feedback \cap w.feedback = {}

MergedOnLatest == \A v \in version : v.linear /\ v.parent # 0 => v.parent = v.number - 1

\* However calls overlap, are repeated or fail after they committed: a dataset's versions
\* are numbered without gap or double, a request publishes one version, feedback enters
\* a dataset once, and a merged version replaces the version it was merged from.
VersionsSound == NumbersDense /\ OneVersionPerRequest /\ FeedbackTakenOnce /\ MergedOnLatest

\* What a model is evaluated with stays what it was: a version keeps every sample of the
\* version it was built on, and no image is in two splits or bears two labels.
EvaluationPreserved ==
    \A v \in version :
        /\ \A p \in Numbered(v.dataset, v.parent) : p.content \subseteq v.content
        /\ \A s, t \in v.content : s.photo = t.photo => s = t

\* A caller who is told that its request was published finds a version with exactly
\* what it asked for, although another call may have published it.
AnswersHonest ==
    \A c \in Callers : call[c].pc = "ok" =>
        \E v \in version : v.request = call[c].order.request
                          /\ Fingerprint(v.order) = Fingerprint(call[c].order)
=============================================================================
