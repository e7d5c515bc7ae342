--------------------------- MODULE AnnotationTasks ---------------------------
(***************************************************************************)
(* Annotation tasks: images that a paid model labels tentatively and a     *)
(* person labels for good (annotation/annotation.go, annotation/http.go,   *)
(* the annotation worker of annotation/worker.py).                         *)
(*                                                                         *)
(* A worker takes one job at a time: a confirmed image to index, else the  *)
(* oldest queued task.  A claim holds a lease of 20 minutes; the worker    *)
(* calls the model, writes its result to a file and delivers the file.     *)
(* Workers crash and keep their files, answers are lost, leases lapse and  *)
(* people confirm at any time the server lets them.                        *)
(***************************************************************************)
EXTENDS Integers, FiniteSets

CONSTANTS
    Tasks,         \* tasks, by the sequence number of their row
    TaskLabels,    \* the classes of their project
    TaskWorkers,   \* worker processes, each with its own directory
    WorkerFaults   \* bound: crashes, lost answers and failed indexings

ASSUME TasksAssumption ==
    /\ Tasks \subseteq Nat \ {0}
    /\ WorkerFaults \in Nat

VARIABLES
    task,        \* annotation_tasks
    memory,      \* annotation_memory_outbox
    taskWorker,  \* the worker processes
    resultFile,  \* result-*.json files, by worker
    calls,       \* per task: how often the paid model was asked about it
    taskFaults   \* faults so far

taskVars == <<task, memory, taskWorker, resultFile, calls, taskFaults>>

-----------------------------------------------------------------------------
NoTask == 0
NoLabel == "no label"

\* claims numbers the claim whose token the row holds; answeredBy the claim whose result it holds.
Task == [status : {"absent", "pending", "queued", "running", "suggested", "failed", "unknown", "confirmed"},
         label : TaskLabels \cup {NoLabel}, claims : Nat, lease : {"none", "live", "lapsed"},
         answeredBy : Nat]

Outcomes == {"suggested", "failed", "unknown"}

TaskWorker == [doing : Tasks \cup {NoTask}, kind : {"idle", "index", "predict", "called"}, token : Nat]

ResultFile == [task : Tasks, token : Nat, status : Outcomes]

TasksTypeOK ==
    /\ task \in [Tasks -> Task]
    /\ memory \in [Tasks -> {"none", "due", "waiting", "delivered"}]
    /\ taskWorker \in [TaskWorkers -> TaskWorker]
    /\ resultFile \in [TaskWorkers -> SUBSET ResultFile]
    /\ calls \in [Tasks -> Nat]
    /\ taskFaults \in 0..WorkerFaults

NewTask == [status |-> "absent", label |-> NoLabel, claims |-> 0, lease |-> "none", answeredBy |-> 0]
IdleTaskWorker == [doing |-> NoTask, kind |-> "idle", token |-> 0]

TasksInit ==
    /\ task = [t \in Tasks |-> NewTask]
    /\ memory = [t \in Tasks |-> "none"]
    /\ taskWorker = [w \in TaskWorkers |-> IdleTaskWorker]
    /\ resultFile = [w \in TaskWorkers |-> {}]
    /\ calls = [t \in Tasks |-> 0]
    /\ taskFaults = 0

TaskFault == taskFaults < WorkerFaults /\ taskFaults' = taskFaults + 1
NoTaskFault == UNCHANGED taskFaults

-----------------------------------------------------------------------------
(* The annotator. *)

\* Uploading an image again finds the row that is there and leaves its status.
Add(t) ==
    /\ task[t].status = "absent"
    /\ task' = [task EXCEPT ![t].status = "pending"]
    /\ UNCHANGED <<memory, taskWorker, resultFile, calls, taskFaults>>

\* The handler checks and stores the image before it adds the row.
Upload(t) == Add(t)

Queued(ts) ==
    task' = [t \in Tasks |-> IF t \in ts /\ task[t].status = "pending"
                                 THEN [task[t] EXCEPT !.status = "queued"] ELSE task[t]]

Queue(ts) ==
    /\ \E t \in ts : task[t].status = "pending"
    /\ Queued(ts)
    /\ UNCHANGED <<memory, taskWorker, resultFile, calls, taskFaults>>

\* QueueAll takes what was there when the annotator looked: images uploaded later stay.
QueueAll(through) == Queue({t \in Tasks : t <= through})

\* Confirming the same label again changes nothing; another label is refused.
Confirmable(t) == task[t].status \notin {"absent", "queued", "running", "confirmed"}

Confirm(t, label) ==
    /\ Confirmable(t)
    /\ task' = [task EXCEPT ![t].status = "confirmed", ![t].label = label]
    /\ memory' = [memory EXCEPT ![t] = IF @ = "none" THEN "due" ELSE @]
    /\ UNCHANGED <<taskWorker, resultFile, calls, taskFaults>>

-----------------------------------------------------------------------------
(* The server's side of the worker's calls. *)

\* Mutant of Expired: a lapsed claim goes back into the queue.
Expired_requeued(row) ==
    IF row.status = "running" /\ row.lease = "lapsed" THEN [row EXCEPT !.status = "queued"] ELSE row

\* What Claim makes of a row whose lease has lapsed: the call may have been billed.
Expired(row) ==
    IF row.status = "running" /\ row.lease = "lapsed" THEN [row EXCEPT !.status = "unknown"] ELSE row

\* The oldest queued task after the expiry, or none.
NextQueued(rows) ==
    LET queued == {t \in Tasks : rows[t].status = "queued"}
    IN IF queued = {} THEN NoTask ELSE CHOOSE t \in queued : \A u \in queued : t <= u

Claim ==
    LET rows == [t \in Tasks |-> Expired(task[t])]
        next == NextQueued(rows)
    IN task' = [t \in Tasks |->
                   IF t = next THEN [rows[t] EXCEPT !.status = "running", !.claims = @ + 1, !.lease = "live"]
                               ELSE rows[t]]

\* Mutant of Accepts: only the token is compared.
Accepts_tokenOnly(f) == task[f.task].claims = f.token

\* The guard of Finish's UPDATE.
Accepts(f) ==
    /\ task[f.task].claims = f.token
    /\ task[f.task].status = "running"
    /\ task[f.task].lease = "live"

\* A refused result changes nothing; whether it was recorded before only decides
\* between 204 and 409, and the worker puts the file aside in both cases.
Finish(f) ==
    task' = IF Accepts(f)
                THEN [task EXCEPT ![f.task].status = f.status, ![f.task].lease = "none",
                                  ![f.task].answeredBy = f.token]
                ELSE task

\* The oldest confirmed task whose indexing is due.
MemoryNext ==
    LET due == {t \in Tasks : task[t].status = "confirmed" /\ memory[t] = "due"}
    IN IF due = {} THEN NoTask ELSE CHOOSE t \in due : \A u \in due : t <= u

\* MemoryAck: a delivery is final, a failure is tried again after a minute.
Acknowledged(t, ok) == IF ok \/ memory[t] = "delivered" THEN "delivered" ELSE "waiting"

-----------------------------------------------------------------------------
(* The worker: it delivers its files first, then indexes, then claims. *)

IsIdle(w) == taskWorker[w].kind = "idle"

\* The answer is lost after the transaction committed: the file is delivered again.
Deliver(w) ==
    \E f \in resultFile[w] :
        /\ IsIdle(w)
        /\ Finish(f)
        /\ \/ resultFile' = [resultFile EXCEPT ![w] = @ \ {f}] /\ NoTaskFault
           \/ TaskFault /\ UNCHANGED resultFile
        /\ UNCHANGED <<memory, taskWorker, calls>>

AskMemory(w) ==
    /\ IsIdle(w) /\ resultFile[w] = {} /\ MemoryNext # NoTask
    /\ taskWorker' = [taskWorker EXCEPT ![w] = [doing |-> MemoryNext, kind |-> "index", token |-> 0]]
    /\ UNCHANGED <<task, memory, resultFile, calls, taskFaults>>

\* When the answer is lost nobody works on the claimed task until its lease lapses.
AskClaim(w) ==
    /\ IsIdle(w) /\ resultFile[w] = {} /\ MemoryNext = NoTask
    /\ Claim /\ task' # task
    /\ LET taken == {t \in Tasks : task'[t].claims > task[t].claims}
       IN \/ /\ taskWorker' = [taskWorker EXCEPT ![w] =
                    IF taken = {} THEN IdleTaskWorker
                    ELSE LET t == CHOOSE t \in taken : TRUE
                         IN [doing |-> t, kind |-> "predict", token |-> task'[t].claims]]
             /\ NoTaskFault
          \/ /\ taken # {} /\ TaskFault
             /\ UNCHANGED taskWorker
    /\ UNCHANGED <<memory, resultFile, calls>>

\* The vector is stored; the acknowledgement may be lost, and it is stored again.
Index(w) ==
    /\ taskWorker[w].kind = "index"
    /\ \/ /\ memory' = [memory EXCEPT ![taskWorker[w].doing] = Acknowledged(taskWorker[w].doing, TRUE)]
          /\ NoTaskFault
       \/ /\ memory' = [memory EXCEPT ![taskWorker[w].doing] = Acknowledged(taskWorker[w].doing, FALSE)]
          /\ TaskFault
       \/ TaskFault /\ UNCHANGED memory
    /\ taskWorker' = [taskWorker EXCEPT ![w] = IdleTaskWorker]
    /\ UNCHANGED <<task, resultFile, calls>>

\* The model is asked: from here on the call may be billed.
Call(w) ==
    /\ taskWorker[w].kind = "predict"
    /\ taskWorker' = [taskWorker EXCEPT ![w].kind = "called"]
    /\ calls' = [calls EXCEPT ![taskWorker[w].doing] = @ + 1]
    /\ UNCHANGED <<task, memory, resultFile, taskFaults>>

\* The workflow may end without asking: a provider that cools down for too long or a
\* blocked configuration is recorded as failed, anything unexpected as unknown.
Record(w) ==
    /\ taskWorker[w].kind \in {"predict", "called"}
    /\ \E status \in Outcomes :
        /\ taskWorker[w].kind = "predict" => status # "suggested"
        /\ resultFile' = [resultFile EXCEPT ![w] = @ \cup
               {[task |-> taskWorker[w].doing, token |-> taskWorker[w].token, status |-> status]}]
    /\ taskWorker' = [taskWorker EXCEPT ![w] = IdleTaskWorker]
    /\ UNCHANGED <<task, memory, calls, taskFaults>>

WorkerCrash(w) ==
    /\ ~IsIdle(w)
    /\ TaskFault
    /\ taskWorker' = [taskWorker EXCEPT ![w] = IdleTaskWorker]
    /\ UNCHANGED <<task, memory, resultFile, calls>>

-----------------------------------------------------------------------------
(* Time: 20 minutes for a lease, a minute for a failed indexing. *)

Lapse(t) ==
    /\ task[t].status = "running" /\ task[t].lease = "live"
    /\ task' = [task EXCEPT ![t].lease = "lapsed"]
    /\ UNCHANGED <<memory, taskWorker, resultFile, calls, taskFaults>>

MinutePasses(t) ==
    /\ memory[t] = "waiting"
    /\ memory' = [memory EXCEPT ![t] = "due"]
    /\ UNCHANGED <<task, taskWorker, resultFile, calls, taskFaults>>

WorkerStep(w) == Deliver(w) \/ AskMemory(w) \/ AskClaim(w) \/ Index(w) \/ Call(w) \/ Record(w)

UserTaskStep ==
    \/ \E t \in Tasks : Upload(t) \/ Queue({t}) \/ QueueAll(t)
    \/ \E t \in Tasks, label \in TaskLabels : Confirm(t, label)

-----------------------------------------------------------------------------
\* A task is handed out once, so the model is asked about it once, whatever crashes,
\* lapses or gets lost; a suggestion that is shown came from that one call.
PaidOnce ==
    \A t \in Tasks :
        /\ calls[t] <= task[t].claims /\ task[t].claims <= 1
        /\ task[t].status = "suggested" => calls[t] = 1 /\ task[t].answeredBy = task[t].claims

\* A label that a person confirmed is never changed again, by nobody: not by the
\* late result of a worker whose lease lapsed before the confirmation.
ConfirmationKept == [][\A t \in Tasks : task[t].status = "confirmed" => task'[t] = task[t]]_taskVars

\* The model is paid once for a task, and people have the last word.
TasksSound == []PaidOnce /\ ConfirmationKept

\* Nothing is queued or being worked on, and every confirmed task is indexed.
TasksSettled ==
    \A t \in Tasks : task[t].status \notin {"queued", "running"} /\ memory[t] \in {"none", "delivered"}
=============================================================================
