------------------------ MODULE AgentToolOperations ------------------------
(***************************************************************************)
(* Writes the platform executes for the agent or the command line, each    *)
(* under an operation id (agenttools/operations.go,                        *)
(* postgres/agent_tool_operations.go, httpapi/agent_tools.go).             *)
(*                                                                         *)
(* A request registers its operation, executes it and stores the response, *)
(* in three transactions; the business transaction leaves the operation id *)
(* in its own rows, as a trace.  Whoever asks again, or only for the       *)
(* outcome, looks for the trace when no definite response is stored.       *)
(* Requests overlap, are repeated, and die between two transactions.       *)
(***************************************************************************)
EXTENDS Integers, FiniteSets

CONSTANTS
    Operations,  \* operation ids
    Requests     \* HTTP requests that may be under way at one time

VARIABLES
    record,    \* agent_tool_operations: the status stored for each operation
    effects,   \* how often the business transaction of each operation committed
    trace,     \* operations found in the rows of their business transaction
    request,   \* the requests
    answers    \* definite answers given to any caller, as <<operation, answer>>

vars == <<record, effects, trace, request, answers>>

-----------------------------------------------------------------------------
NoOperation == "no operation"

\* agent_tool_operations.status together with the class of http_status.
Record == {"none", "running", "succeeded", "rejected", "failed"}
Definite == {"succeeded", "rejected"}

Idle == [at |-> "idle", op |-> NoOperation, status |-> "none"]
Request(at, o, status) == [at |-> at, op |-> o, status |-> status]

RequestStates ==
    {Idle}
    \cup [at : {"execute", "recover"}, op : Operations, status : {"none"}]
    \cup [at : {"finish"}, op : Operations, status : {"succeeded", "rejected", "failed"}]
    \cup [at : {"recovered"}, op : Operations, status : {"succeeded"}]

\* A request that is under way is for an operation, and knows the status it is
\* about to store.
TypeOK ==
    /\ record \in [Operations -> Record]
    /\ effects \in [Operations -> Nat]
    /\ trace \subseteq Operations
    /\ request \in [Requests -> RequestStates]
    /\ answers \subseteq Operations \X Definite

Init ==
    /\ record = [o \in Operations |-> "none"]
    /\ effects = [o \in Operations |-> 0]
    /\ trace = {}
    /\ request = [q \in Requests |-> Idle]
    /\ answers = {}

-----------------------------------------------------------------------------
Become(q, state) == request' = [request EXCEPT ![q] = state]

\* The request ends; its caller learns the outcome if the answer is definite.
Answer(q, o, answer) ==
    /\ Become(q, Idle)
    /\ answers' = answers \cup ({<<o, answer>>} \cap (Operations \X Definite))

\* Mutant of Fresh: an operation that ended in a server error is executed again.
Fresh_afterError(o) == record[o] \in {"none", "failed"}

\* Begin inserts a row unless there is one.
Fresh(o) == record[o] = "none"

\* An invocation whose approval and arguments were accepted: it executes the
\* operation if it is the first, and otherwise answers with the stored response
\* or, without a definite one, looks for the trace.
Invoke(q, o) ==
    /\ request[q] = Idle
    /\ IF Fresh(o)
       THEN /\ record' = [record EXCEPT ![o] = "running"]
            /\ Become(q, Request("execute", o, "none"))
            /\ UNCHANGED answers
       ELSE /\ UNCHANGED record
            /\ IF record[o] \in Definite
               THEN Answer(q, o, record[o])
               ELSE Become(q, Request("recover", o, "none")) /\ UNCHANGED answers
    /\ UNCHANGED <<effects, trace>>

\* GET operations/{id}, by the agent or by a user who wants to know.
Inquire(q, o) ==
    /\ request[q] = Idle
    /\ record[o] # "none"
    /\ IF record[o] \in Definite
       THEN Answer(q, o, record[o])
       ELSE Become(q, Request("recover", o, "none")) /\ UNCHANGED answers
    /\ UNCHANGED <<record, effects, trace>>

\* The business transaction: it commits or is refused, and either way the
\* response may be an error of the server.  Committing leaves the trace.
Execute(q) ==
    LET o == request[q].op IN
    /\ request[q].at = "execute"
    /\ \/ /\ effects' = [effects EXCEPT ![o] = @ + 1]
          /\ trace' = trace \cup {o}
          /\ \E status \in {"succeeded", "failed"} : Become(q, Request("finish", o, status))
       \/ /\ \E status \in {"rejected", "failed"} : Become(q, Request("finish", o, status))
          /\ UNCHANGED <<effects, trace>>
    /\ UNCHANGED <<record, answers>>

\* Mutant of Storable: a response that is stored already may be replaced.
Storable_always(o) == record[o] # "none"

\* Finish replaces nothing but an open or failed outcome.
Storable(o) == record[o] \in {"running", "failed"}

\* Finish, and the answer; a response that cannot be stored is not given either.
Stored(q, o, status) ==
    IF Storable(o)
    THEN record' = [record EXCEPT ![o] = status] /\ Answer(q, o, status)
    ELSE UNCHANGED record /\ Answer(q, o, "unknown")

Finish(q) ==
    /\ request[q].at \in {"finish", "recovered"}
    /\ Stored(q, request[q].op, request[q].status)
    /\ UNCHANGED <<effects, trace>>

\* Mutant of RecoveredStatus: that there is no trace is taken for a refusal.
RecoveredStatus_noTrace(o) == IF o \in trace THEN "succeeded" ELSE "rejected"

\* What the trace says of an operation; without one nothing is known.
RecoveredStatus(o) == IF o \in trace THEN "succeeded" ELSE "none"

\* Recover looks for the trace; it never executes anything.
Recover(q) ==
    LET o == request[q].op IN
    /\ request[q].at = "recover"
    /\ IF RecoveredStatus(o) = "none"
       THEN Answer(q, o, "unknown")
       ELSE Become(q, Request("recovered", o, RecoveredStatus(o))) /\ UNCHANGED answers
    /\ UNCHANGED <<record, effects, trace>>

\* The process dies, or the database does not take the response.
Lost(q) ==
    /\ request[q] # Idle
    /\ Become(q, Idle)
    /\ UNCHANGED <<record, effects, trace, answers>>

\* The job of a training operation is deleted, and the trace with it.
Forget(o) ==
    /\ o \in trace
    /\ trace' = trace \ {o}
    /\ UNCHANGED <<record, effects, request, answers>>

Next ==
    \/ \E q \in Requests, o \in Operations : Invoke(q, o) \/ Inquire(q, o)
    \/ \E q \in Requests : Execute(q) \/ Finish(q) \/ Recover(q) \/ Lost(q)
    \/ \E o \in Operations : Forget(o)

Spec == Init /\ [][Next]_vars

-----------------------------------------------------------------------------
\* No caller is ever told something else than another caller, or than what
\* happened: an operation reported as done was executed exactly once, and one
\* reported as rejected was not executed and is not under way any more, although
\* responses are stored by several requests and get lost (invoke, operation).
AnswersTrue ==
    \A o \in Operations :
        /\ <<o, "succeeded">> \in answers => effects[o] = 1 /\ <<o, "rejected">> \notin answers
        /\ <<o, "rejected">> \in answers =>
             effects[o] = 0 /\ \A q \in Requests : ~(request[q].op = o /\ request[q].at = "execute")

Outcome == INSTANCE OperationOutcome WITH
    happened <- {o \in Operations : effects[o] > 0},
    outcome <- [o \in Operations |-> IF record[o] \in Definite THEN record[o] ELSE "unknown"]

\* An operation takes effect at most once, and the stored outcome is true and
\* final, whatever is repeated, overlaps or dies (Begin, Finish, Recover).
OutcomeSpec == Outcome!Spec

\* Each operation is executed at most once, also when it is repeated while its
\* first request runs or after it ended in a server error (Begin).
ExecutedOnce == \A o \in Operations : effects[o] <= 1

\* However requests overlap, repeat and die, an operation is executed at most once and
\* nobody is told otherwise than it went.
OperationsSound == AnswersTrue /\ ExecutedOnce
=============================================================================
