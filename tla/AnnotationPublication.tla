------------------------ MODULE AnnotationPublication ------------------------
(***************************************************************************)
(* Batches of confirmed annotations or of review feedback that become a    *)
(* dataset version (annotation/publication.go,                             *)
(* dataset/annotation_build.go).                                           *)
(*                                                                         *)
(* A preview freezes labels and archive; publishing reserves the sources   *)
(* and queues the batch; coordinators on several replicas, serialized by   *)
(* an advisory lock of their database session, build and register it.  A   *)
(* coordinator may crash, or lose the session and with it the lock while   *)
(* it works on.                                                            *)
(***************************************************************************)
EXTENDS DatasetVersions

CONSTANTS
    Batches,          \* batches, numbered by their age; the number is its request identity too
    Coordinators,     \* replicas of the control plane
    AnnotationPhotos, \* images whose annotation task is confirmed
    ConfirmedLabel,   \* their labels
    SplitPlans,       \* split plans that may be asked for: <<train, val, test>> in percent
    CoordinatorFaults \* bound: crashes and lost sessions

NoCoordinator == "no coordinator"

ASSUME PublicationAssumption ==
    /\ Batches \subseteq Requests /\ Batches \subseteq Nat \ {0}
    /\ Coordinators \subseteq Callers /\ NoCoordinator \notin Coordinators
    /\ AnnotationPhotos \subseteq Photos /\ IsFiniteSet(AnnotationPhotos)
    /\ ConfirmedLabel \in [AnnotationPhotos -> Labels]
    /\ SplitPlans \subseteq {p \in (1..100) \X (0..100) \X (0..100) : p[1] + p[2] + p[3] = 100}
    /\ CoordinatorFaults \in Nat

VARIABLES
    batch,       \* annotation_publications
    member,      \* annotation_publication_members: who has reserved a source
    coordinator, \* what each coordinator works on
    lockHolder,  \* the session that holds the advisory lock
    lockLosses,  \* sessions lost so far
    batchFaults  \* crashes and lost sessions so far

publicationVars == <<batch, member, coordinator, lockHolder, lockLosses, batchFaults>>

-----------------------------------------------------------------------------
NoBatch == 0

\* A source is an annotation task or a feedback item, told apart by its kind.
Source(kind, photo) == <<kind, photo>>
Sources == {Source("annotation", p) : p \in AnnotationPhotos} \cup {Source("feedback", p) : p \in FeedbackPhotos}

ActiveStatus == {"queued", "building", "registering"}
ReservedStatus == ActiveStatus \cup {"published"}

Batch == [status : {"absent", "preview", "failed", "cancelled"} \cup ReservedStatus,
          order : AllOrders, sources : SUBSET Sources]

PublicationTypeOK ==
    /\ batch \in [Batches -> Batch]
    /\ member \in [Sources -> Batches \cup {NoBatch}]
    /\ coordinator \in [Coordinators -> Batches \cup {NoBatch}]
    /\ lockHolder \in Coordinators \cup {NoCoordinator}
    /\ {lockLosses, batchFaults} \subseteq 0..CoordinatorFaults

PublicationInit ==
    /\ batch = [b \in Batches |-> [status |-> "absent", order |-> NoOrder, sources |-> {}]]
    /\ member = [s \in Sources |-> NoBatch]
    /\ coordinator = [c \in Coordinators |-> NoBatch]
    /\ lockHolder = NoCoordinator
    /\ lockLosses = 0
    /\ batchFaults = 0

-----------------------------------------------------------------------------
(* SplitLabels: largest remainders, and at least one image to train with. *)

\* Mutant of SplitLabels: the training split may stay empty.
SplitLabels_emptyTrain(n, plan) ==
    LET whole(i) == (n * plan[i]) \div 100
        rest(i) == (n * plan[i]) % 100
        left == n - whole(1) - whole(2) - whole(3)
        before(i) == Cardinality({j \in 1..3 : rest(j) > rest(i) \/ (rest(j) = rest(i) /\ j < i)})
    IN [i \in 1..3 |-> whole(i) + (IF before(i) < left THEN 1 ELSE 0)]

SplitLabels(n, plan) ==
    LET whole(i) == (n * plan[i]) \div 100
        rest(i) == (n * plan[i]) % 100
        left == n - whole(1) - whole(2) - whole(3)
        before(i) == Cardinality({j \in 1..3 : rest(j) > rest(i) \/ (rest(j) = rest(i) /\ j < i)})
        share == [i \in 1..3 |-> whole(i) + (IF before(i) < left THEN 1 ELSE 0)]
        lender == IF share[2] > 0 THEN 2 ELSE 3
    IN IF n > 0 /\ share[1] = 0 THEN [share EXCEPT ![1] = 1, ![lender] = @ - 1] ELSE share

SplitName == <<"train", "val", "test">>

\* The ways to split new images of one label; the code picks one by seed and digest.
Partitions(photos, plan) ==
    {split \in [photos -> Splits] :
        \A i \in 1..3 : Cardinality({p \in photos : split[p] = SplitName[i]})
                          = SplitLabels(Cardinality(photos), plan)[i]}

LabelledPhotos(photos) == {Sample(p, ConfirmedLabel[p], "train") : p \in photos}

\* The archives that BuildLabeledArchive may make of a base and confirmed images: a clash
\* with a label or with an evaluation image refuses the batch, as does having nothing new.
LabeledArchives(content, photos, plan) ==
    LET fresh == {s.photo : s \in Fresh(content, LabelledPhotos(photos))}
        labelled(l) == {p \in fresh : ConfirmedLabel[p] = l}
    IN IF ~Mergeable(content, LabelledPhotos(photos)) THEN {}
       ELSE {content \cup {Sample(p, ConfirmedLabel[p], split[p]) : p \in fresh} :
                split \in {f \in [fresh -> Splits] :
                    \A l \in Labels : [p \in labelled(l) |-> f[p]] \in Partitions(labelled(l), plan)}}

-----------------------------------------------------------------------------
(* The user. *)

BaseContent(base) == UNION {v.content : v \in Numbered(FirstDataset, base)}

\* A request names sources, and feedback goes to a dataset that exists.
ValidRelease(kind, base, photos) == photos # {} /\ (kind = "feedback" => base # 0)

Previewable(b) == batch[b].status = "absent" /\ \A d \in Batches : d < b => batch[d].status # "absent"

Frozen(b, order, sources) ==
    batch' = [batch EXCEPT ![b] = [status |-> "preview", order |-> order, sources |-> sources]]

\* Preview of annotations, for a new dataset (base 0) or on any version of one that exists.
PreviewAnnotations(b) ==
    /\ Previewable(b)
    /\ \E base \in {0} \cup {v.number : v \in VersionsOf(FirstDataset)},
          photos \in SUBSET AnnotationPhotos, plan \in SplitPlans :
        /\ ValidRelease("annotation", base, photos)
        /\ \E archive \in LabeledArchives(IF base = 0 THEN {} ELSE BaseContent(base), photos, plan) :
              Frozen(b, Order(b, base, TRUE, archive, {}), {Source("annotation", p) : p \in photos})
    /\ UNCHANGED <<member, coordinator, lockHolder, lockLosses, batchFaults>>

\* Preview of feedback, on a version of its dataset and for the training split only.
PreviewFeedback(b) ==
    /\ Previewable(b)
    /\ \E base \in {v.number : v \in VersionsOf(FirstDataset)}, photos \in SUBSET FeedbackPhotos :
        /\ ValidRelease("feedback", base, photos)
        /\ photos \cap Consumed(FirstDataset) = {}
        /\ Mergeable(BaseContent(base), FeedbackSamples(photos))
        /\ Frozen(b, Order(b, base, TRUE, Merged(BaseContent(base), FeedbackSamples(photos)), photos),
                  {Source("feedback", p) : p \in photos})
    /\ UNCHANGED <<member, coordinator, lockHolder, lockLosses, batchFaults>>

\* Mutant of Reservable: a source another batch has reserved is passed over.
Reservable_skip(b) == TRUE

Reservable(b) == \A s \in batch[b].sources : member[s] \in {NoBatch, b}

\* Transition "publish" or "retry": all sources are reserved or none.
Publish(b) ==
    /\ batch[b].status \in {"preview", "failed"}
    /\ Reservable(b)
    /\ member' = [s \in Sources |-> IF s \in batch[b].sources /\ member[s] = NoBatch THEN b ELSE member[s]]
    /\ batch' = [batch EXCEPT ![b].status = "queued"]
    /\ UNCHANGED <<coordinator, lockHolder, lockLosses, batchFaults>>

Cancellable(b) == batch[b].status \in {"preview", "failed"}

\* Transition "cancel" gives the sources back.
Cancel(b) ==
    /\ Cancellable(b)
    /\ batch' = [batch EXCEPT ![b].status = "cancelled"]
    /\ member' = [s \in Sources |-> IF member[s] = b THEN NoBatch ELSE member[s]]
    /\ UNCHANGED <<coordinator, lockHolder, lockLosses, batchFaults>>

-----------------------------------------------------------------------------
(* The coordinator: ProcessNext and execute. *)

\* Mutant of Waiting: a batch that was being worked on when its coordinator died is left.
Waiting_queuedOnly == {b \in Batches : batch[b].status = "queued"}

\* Batches to work on, those of a coordinator that died among them.
Waiting == {b \in Batches : batch[b].status \in ActiveStatus}

\* The lock is taken and the oldest batch chosen.
TakeBatch(c) ==
    /\ coordinator[c] = NoBatch /\ lockHolder = NoCoordinator /\ Waiting # {}
    /\ batch' = [batch EXCEPT ![Min(Waiting)].status = "building"]
    /\ coordinator' = [coordinator EXCEPT ![c] = Min(Waiting)]
    /\ lockHolder' = c
    /\ UNCHANGED <<version, call, member, lockLosses, batchFaults>>

\* The archive was fetched.  This update is not guarded and does not use the session of the lock.
Register(c) ==
    /\ coordinator[c] # NoBatch
    /\ batch' = [batch EXCEPT ![coordinator[c]].status = "registering"]
    /\ Begin(c, batch[coordinator[c]].order)
    /\ UNCHANGED <<member, coordinator, lockHolder, lockLosses, batchFaults>>

Released(c) ==
    /\ coordinator' = [coordinator EXCEPT ![c] = NoBatch]
    /\ lockHolder' = IF lockHolder = c THEN NoCoordinator ELSE lockHolder

\* The outcome is written over the session of the lock; without it the batch stays as it is.
Conclude(c, result) ==
    /\ batch' = IF lockHolder = c
                    THEN [batch EXCEPT ![coordinator[c]].status = IF result = "ok" THEN "published" ELSE "failed"]
                    ELSE batch
    /\ Released(c)

Concluded(c) ==
    /\ coordinator[c] # NoBatch /\ Answered(c)
    /\ Conclude(c, call[c].pc)
    /\ Forget(c)
    /\ UNCHANGED <<version, member, lockLosses, batchFaults>>

\* The archive cannot be fetched or verified.
FetchFails(c) ==
    /\ coordinator[c] # NoBatch /\ call[c].pc = "idle"
    /\ Conclude(c, "failed")
    /\ UNCHANGED <<version, call, member, lockLosses, batchFaults>>

CoordinatorCrash(c) ==
    /\ coordinator[c] # NoBatch
    /\ batchFaults < CoordinatorFaults /\ batchFaults' = batchFaults + 1
    /\ Released(c)
    /\ Forget(c)
    /\ UNCHANGED <<version, batch, member, lockLosses>>

LoseLock(c) ==
    /\ lockHolder = c
    /\ batchFaults < CoordinatorFaults /\ batchFaults' = batchFaults + 1
    /\ lockLosses' = lockLosses + 1
    /\ lockHolder' = NoCoordinator
    /\ UNCHANGED <<version, call, batch, member, coordinator>>

UserStep(b) ==
    /\ PreviewAnnotations(b) \/ PreviewFeedback(b) \/ Publish(b) \/ Cancel(b)
    /\ UNCHANGED versionVars

CoordinatorWork(c) ==
    \/ TakeBatch(c) \/ Register(c) \/ Concluded(c) \/ FetchFails(c)
    \/ CallStep(c) /\ UNCHANGED publicationVars

CoordinatorFault(c) == CoordinatorCrash(c) \/ LoseLock(c)

-----------------------------------------------------------------------------
\* As long as no coordinator lost its session: two batches that are queued, worked on or
\* published have no source in common, and their sources are reserved for them.
ReservationsHold ==
    lockLosses = 0 =>
        \A b \in Batches : batch[b].status \in ReservedStatus =>
            \A s \in batch[b].sources : member[s] = b

\* A published batch has its version, with the frozen archive and nothing else, even when
\* coordinators crashed or lost the lock on the way.
PublishedAsPreviewed ==
    \A b \in Batches : batch[b].status = "published" =>
        \E v \in version : /\ v.request = b /\ Fingerprint(v.order) = Fingerprint(batch[b].order)
                           /\ v.content = batch[b].order.samples

\* A class that a batch adds images to gets at least one image to train with.
AddedClassesTrained ==
    \A b \in Batches :
        LET added == batch[b].order.samples \ BaseContent(batch[b].order.base)
        IN \A s \in added : \E t \in added : t.label = s.label /\ t.split = "train"

\* What docs/annotation-dataset-publication.md promises: a confirmed annotation is published once.
SourcesPublishedOnce ==
    \A b, d \in Batches : b # d /\ Published(b) # {} /\ Published(d) # {} =>
        batch[b].sources \cap batch[d].sources = {}

BatchesSettled == \A b \in Batches : batch[b].status \notin ActiveStatus
=============================================================================
