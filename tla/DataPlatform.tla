---------------------------- MODULE DataPlatform ----------------------------
(***************************************************************************)
(* The data side of the platform: annotation tasks, the batches made of    *)
(* them and of review feedback, dataset imports and expansions, all of     *)
(* which end in versions of a dataset.                                     *)
(*                                                                         *)
(* The scene says which of the parts act in a behaviour: "annotating" is   *)
(* the tasks and their workers, "publishing" the batches and coordinators, *)
(* "expanding" a batch and the clients that expand the same dataset, and   *)
(* "importing" the import queue.                                           *)
(***************************************************************************)
EXTENDS AnnotationTasks, AnnotationPublication, DatasetImport

CONSTANTS
    Scenes,               \* the scenes that are played
    RivalBatches,         \* the batches that clients compete with
    RivalCoordinators     \* and the coordinators that work on them

ASSUME ScenesAssumption ==
    /\ Scenes \subseteq {"annotating", "publishing", "expanding", "importing"}
    /\ RivalBatches \subseteq Batches /\ RivalCoordinators \subseteq Coordinators
    /\ Clients \cap Coordinators = {}

VARIABLE scene

dataVars == <<scene, taskVars, versionVars, publicationVars, importVars>>

DataTypeOK == TasksTypeOK /\ VersionsTypeOK /\ PublicationTypeOK /\ ImportTypeOK

DataInit == scene \in Scenes /\ TasksInit /\ VersionsInit /\ PublicationInit /\ ImportInit

\* In a scene one part acts and the rows of the others stay as they are.
Annotates(A) == scene = "annotating" /\ A /\ UNCHANGED <<scene, versionVars, publicationVars, importVars>>
Publishes(in, A) == scene = in /\ A /\ UNCHANGED <<scene, taskVars, importVars>>
Imports(A) == scene = "importing" /\ A /\ UNCHANGED <<scene, taskVars, publicationVars>>

\* What the platform does by itself, and the passing of time.
SystemStep ==
    \/ Annotates(\E w \in TaskWorkers : WorkerStep(w))
    \/ Annotates(\E t \in Tasks : Lapse(t) \/ MinutePasses(t))
    \/ Publishes("publishing", \E c \in Coordinators : CoordinatorWork(c))
    \/ Publishes("expanding", \E c \in RivalCoordinators : CoordinatorWork(c))
    \/ Imports(\E c \in Consumers : ConsumerStep(c))
    \/ Imports(\E j \in ImportJobs : LeaseLapses(j))

\* What people and accidents do.
OutsideStep ==
    \/ Annotates(UserTaskStep \/ \E w \in TaskWorkers : WorkerCrash(w))
    \/ Publishes("publishing", \E b \in Batches : UserStep(b))
    \/ Publishes("publishing", \E c \in Coordinators : CoordinatorFault(c))
    \/ Publishes("expanding", \E b \in RivalBatches : UserStep(b))
    \/ Publishes("expanding", \E c \in Clients : (ClientStep(c) \/ CallStep(c)) /\ UNCHANGED publicationVars)
    \/ Imports(\E j \in ImportJobs : Enqueue(j))
    \/ Imports(\E c \in Consumers : ConsumerCrash(c))

DataNext == SystemStep \/ OutsideStep

\* As long as the platform can do something by itself it does something: no fairness
\* between its processes is needed, and no user has to do anything.
DataFairness == WF_dataVars(SystemStep)

DataSpec == DataInit /\ [][DataNext]_dataVars /\ DataFairness

-----------------------------------------------------------------------------
\* Models are evaluated and trained with what they should: versions are numbered, merged
\* and published once, they keep their evaluation samples, and a class that a batch adds to
\* has images to train with.
DatasetsSound == VersionsSound /\ EvaluationPreserved /\ AddedClassesTrained

\* Whoever is told that something was published, finds it, callers and users of batches and
\* of imports; and what a batch holds is its own.
OutcomesHonest == AnswersHonest /\ PublishedAsPreviewed /\ ImportsHonest /\ ReservationsHold

\* Imports run one at a time, and only the latest attempt reports.
ImportsFenced == []OneImportRuns /\ StaleConsumersFenced

\* Whatever was queued ends, whoever dies, stalls or is not answered: the platform comes
\* to rest again and again, unless users retry a failed batch for ever.
QueuedWorkEnds ==
    \/ []<>(TasksSettled /\ BatchesSettled /\ ImportsSettled)
    \/ []<><<\E b \in Batches : batch[b].status = "failed" /\ batch'[b].status = "queued">>_batch
=============================================================================
