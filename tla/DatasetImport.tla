---------------------------- MODULE DatasetImport ----------------------------
(***************************************************************************)
(* The queue of dataset imports (dataset/queue.go,                         *)
(* postgres/dataset_import_queue.go).                                      *)
(*                                                                         *)
(* An upload is stored and queued; one consumer at a time, over all        *)
(* replicas, imports a job under a lease of two minutes that a heartbeat   *)
(* renews.  Consumers crash, stall beyond their lease and lose answers;    *)
(* the job is then claimed again, while the old consumer may still save.   *)
(***************************************************************************)
EXTENDS DatasetVersions

CONSTANTS
    ImportJobs,     \* jobs, numbered in the order they are queued
    Consumers,      \* consumers, one per replica
    ImportRequests, \* request identities of uploads
    ImportLimit,    \* jobs that may be queued or running (20)
    ConsumerFaults  \* bound: crashes, stalls and lost answers

ASSUME ImportAssumption ==
    /\ ImportJobs \subseteq Nat \ {0}
    /\ Consumers \subseteq Callers
    /\ ImportRequests \subseteq Requests
    /\ ImportLimit \in Nat \ {0} /\ ConsumerFaults \in Nat

VARIABLES
    job,         \* dataset_import_jobs
    consumer,    \* which attempt of which job a consumer works on
    importFaults \* faults so far

importVars == <<job, consumer, importFaults>>

-----------------------------------------------------------------------------
NoJob == 0

Job == [status : {"absent", "queued", "running", "succeeded", "failed"}, order : AllOrders,
        attempt : Nat, lease : {"none", "live", "lapsed"}]

ImportTypeOK ==
    /\ job \in [ImportJobs -> Job]
    /\ consumer \in [Consumers -> [job : ImportJobs \cup {NoJob}, attempt : Nat]]
    /\ importFaults \in 0..ConsumerFaults

NoWork == [job |-> NoJob, attempt |-> 0]

ImportInit ==
    /\ job = [j \in ImportJobs |-> [status |-> "absent", order |-> NoOrder, attempt |-> 0, lease |-> "none"]]
    /\ consumer = [c \in Consumers |-> NoWork]
    /\ importFaults = 0

ImportFault == importFaults < ConsumerFaults /\ importFaults' = importFaults + 1
NoImportFault == UNCHANGED importFaults

Active == {j \in ImportJobs : job[j].status \in {"queued", "running"}}

-----------------------------------------------------------------------------
\* Checked under a lock that all replicas share.
MayEnqueue(request) ==
    /\ Published(request) = {}
    /\ Cardinality(Active) < ImportLimit
    /\ \A i \in Active : job[i].order.request # request

\* The upload may be anything that the scanner accepts: here one image.
Enqueue(j) ==
    /\ job[j].status = "absent"
    /\ \A i \in ImportJobs : i < j => job[i].status # "absent"
    /\ \E request \in ImportRequests, photo \in UploadPhotos, label \in Labels :
        /\ MayEnqueue(request)
        /\ job' = [job EXCEPT ![j].status = "queued",
                              ![j].order = Order(request, 0, FALSE, {Sample(photo, label, "train")}, {})]
    /\ UNCHANGED <<consumer, importFaults, version, call>>

ImportRunning == \E j \in ImportJobs : job[j].status = "running" /\ job[j].lease = "live"

Claimable == {j \in ImportJobs : job[j].status = "queued" \/ (job[j].status = "running" /\ job[j].lease = "lapsed")}

\* The oldest job that waits or whose lease has lapsed; the answer may be lost.
ClaimJob(c) ==
    /\ consumer[c] = NoWork
    /\ ~ImportRunning /\ Claimable # {}
    /\ LET j == Min(Claimable)
       IN /\ job' = [job EXCEPT ![j].status = "running", ![j].attempt = @ + 1, ![j].lease = "live"]
          /\ \/ /\ consumer' = [consumer EXCEPT ![c] = [job |-> j, attempt |-> job[j].attempt + 1]]
                /\ NoImportFault
             \/ ImportFault /\ UNCHANGED consumer
    /\ UNCHANGED versionVars

\* Mutant of HoldsLease: the attempt is not compared.
HoldsLease_anyAttempt(c) == job[consumer[c].job].status = "running" /\ job[consumer[c].job].lease = "live"

\* The guard of Renew and Finish.
HoldsLease(c) ==
    /\ job[consumer[c].job].attempt = consumer[c].attempt
    /\ job[consumer[c].job].status = "running" /\ job[consumer[c].job].lease = "live"

Import(c) ==
    /\ consumer[c] # NoWork
    /\ Begin(c, job[consumer[c].job].order)
    /\ UNCHANGED importVars

Stopped(c) == consumer' = [consumer EXCEPT ![c] = NoWork] /\ Forget(c)

\* The heartbeat finds that the lease is gone and cancels the work.
HeartbeatFails(c) ==
    /\ consumer[c] # NoWork /\ ~HoldsLease(c)
    /\ Stopped(c)
    /\ UNCHANGED <<job, importFaults, version>>

\* Finish: refused without the lease; the update may fail, then the job's lease lapses.
FinishImport(c) ==
    /\ consumer[c] # NoWork /\ Answered(c)
    /\ \/ /\ job' = IF HoldsLease(c)
                        THEN [job EXCEPT ![consumer[c].job].status =
                                  IF call[c].pc = "ok" THEN "succeeded" ELSE "failed",
                              ![consumer[c].job].lease = "none"]
                        ELSE job
          /\ NoImportFault
       \/ ImportFault /\ UNCHANGED job
    /\ Stopped(c)
    /\ UNCHANGED version

ConsumerCrash(c) ==
    /\ consumer[c] # NoWork
    /\ ImportFault
    /\ Stopped(c)
    /\ UNCHANGED <<job, version>>

\* Nobody renews the lease of an attempt that nobody works on; other leases lapse when
\* the consumer stalls or cannot reach the database for two minutes.
LeaseLapses(j) ==
    /\ job[j].status = "running" /\ job[j].lease = "live"
    /\ job' = [job EXCEPT ![j].lease = "lapsed"]
    /\ IF \E c \in Consumers : consumer[c] = [job |-> j, attempt |-> job[j].attempt]
         THEN ImportFault ELSE NoImportFault
    /\ UNCHANGED <<consumer, version, call>>

ConsumerStep(c) ==
    \/ ClaimJob(c) \/ Import(c) \/ HeartbeatFails(c) \/ FinishImport(c)
    \/ consumer[c] # NoWork /\ CallStep(c) /\ UNCHANGED importVars

-----------------------------------------------------------------------------
\* One import is scanned at a time, so that inference keeps its share of the compute pool.
OneImportRuns == Cardinality({j \in ImportJobs : job[j].status = "running" /\ job[j].lease = "live"}) <= 1

\* A job that succeeded has its version with the images of its upload, also when another
\* attempt than the one that reported it has saved it.
ImportsHonest ==
    \A j \in ImportJobs : job[j].status = "succeeded" =>
        \E v \in version : /\ v.request = job[j].order.request /\ Fingerprint(v.order) = Fingerprint(job[j].order)
                           /\ v.content = job[j].order.samples

\* The result of a job is written by the consumer of its latest attempt, never by one whose
\* lease lapsed and whose job was claimed again.
StaleConsumersFenced ==
    [][\A j \in ImportJobs : job[j].status = "running" /\ job'[j].status \in {"succeeded", "failed"} =>
          \E c \in Consumers : /\ consumer[c] = [job |-> j, attempt |-> job[j].attempt]
                               /\ consumer'[c] = NoWork]_<<job, consumer>>

ImportsSettled == Active = {}
=============================================================================
