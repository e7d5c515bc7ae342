---------------------------- MODULE WorkerRegistry ----------------------------
(***************************************************************************)
(* What the platform knows of its worker processes                         *)
(* (compute/worker_reporter.py, workers/workers.go, workers/http.go).      *)
(* A process registers under the stable name of its worker with a session  *)
(* of its own and then sends numbered heartbeats; a newer process takes    *)
(* the name over.  Requests are delayed, overtake each other or get lost,  *)
(* their answers too, and the process gives up a request after a while.    *)
(***************************************************************************)
EXTENDS Integers, FiniteSets

CONSTANTS
    Workers,      \* worker names
    WorkSessions, \* session ids, one for every process
    MaxSequence,  \* bound: heartbeats of a session
    MaxTries      \* bound: registrations a process sends

NoSession == "no session"

ASSUME RegistryAssumption ==
    /\ MaxSequence \in Nat /\ MaxTries \in Nat \ {0}
    /\ NoSession \notin Workers \cup WorkSessions

VARIABLES
    process,   \* the processes, by session
    reports,   \* requests under way
    sessions,  \* worker_sessions: the worker of every registered session
    instance   \* worker_instances

registryVars == <<process, reports, sessions, instance>>

-----------------------------------------------------------------------------
\* waiting: for the answer to its last request.
Process == [worker : Workers, at : {"running", "closing", "ended"}, registered : BOOLEAN,
            sequence : 0..MaxSequence, tries : 0..MaxTries, waiting : BOOLEAN]
NoProcess == [worker |-> NoSession, at |-> "unused"]

\* A request; try tells repeated registrations apart.
Report == [session : WorkSessions, worker : Workers, register : BOOLEAN, sequence : 0..MaxSequence,
           try : 0..MaxTries, stopped : BOOLEAN]

\* heard: how long ago the last report was received (Derive).
Instance == [session : WorkSessions, sequence : 0..MaxSequence, stopped : BOOLEAN,
             heard : {"online", "delayed", "offline"}]
NoInstance == [session |-> NoSession, sequence |-> 0, stopped |-> FALSE, heard |-> "offline"]

RegistryTypeOK ==
    /\ process \in [WorkSessions -> Process \cup {NoProcess}]
    /\ reports \subseteq Report
    /\ sessions \in [WorkSessions -> Workers \cup {NoSession}]
    /\ instance \in [Workers -> Instance \cup {NoInstance}]

RegistryInit ==
    /\ process = [s \in WorkSessions |-> NoProcess]
    /\ reports = {}
    /\ sessions = [s \in WorkSessions |-> NoSession]
    /\ instance = [w \in Workers |-> NoInstance]

-----------------------------------------------------------------------------
Starts(s, w) ==
    /\ process[s] = NoProcess
    /\ process' = [process EXCEPT ![s] = [worker |-> w, at |-> "running", registered |-> FALSE,
                                          sequence |-> 0, tries |-> 0, waiting |-> FALSE]]
    /\ UNCHANGED <<reports, sessions, instance>>

\* send_once: a registration until one was answered, then heartbeats.
SendOnce(s) ==
    LET p == process[s]
        sequence == IF p.registered THEN p.sequence + 1 ELSE 0
        tries == IF p.registered THEN p.tries ELSE p.tries + 1
    IN
    /\ p.at \in {"running", "closing"} /\ ~p.waiting
    /\ sequence <= MaxSequence /\ tries <= MaxTries
    /\ process' = [process EXCEPT ![s].sequence = sequence, ![s].tries = tries, ![s].waiting = TRUE,
                                  ![s].at = IF @ = "closing" THEN "ended" ELSE @]
    /\ reports' = reports \cup {[session |-> s, worker |-> p.worker, register |-> ~p.registered,
                                 sequence |-> sequence, try |-> tries, stopped |-> p.at = "closing"]}
    /\ UNCHANGED <<sessions, instance>>

\* close: a registered process says good-bye once, others just end.
Closes(s) ==
    /\ process[s].at = "running" /\ ~process[s].waiting
    /\ process' = [process EXCEPT ![s].at = IF process[s].registered THEN "closing" ELSE "ended"]
    /\ UNCHANGED <<reports, sessions, instance>>

\* The request is given up after four seconds, or the process is killed.
GivesUp(s) ==
    /\ process[s].at # "unused" /\ process[s].waiting
    /\ \E at \in {process[s].at, "ended"} :
         process' = [process EXCEPT ![s].waiting = FALSE, ![s].at = at]
    /\ UNCHANGED <<reports, sessions, instance>>

\* Mutant of KnownSession: only the active session counts as known.
KnownSession_active(s, w) == instance[w].session = s

\* A session that registered before, and perhaps was replaced since.
KnownSession(s, w) == sessions[s] # NoSession

\* Mutant of Newer: a heartbeat that was overtaken still counts.
Newer_anySequence(m) == instance[m.worker].session = m.session

Newer(m) == instance[m.worker].session = m.session /\ instance[m.worker].sequence < m.sequence

Heard(m) == [session |-> m.session, sequence |-> m.sequence, stopped |-> m.stopped, heard |-> "online"]

\* Report: what is accepted, and what the tables are then.  A repeated registration is
\* accepted and changes nothing.
Acceptable(m) ==
    IF m.register
    THEN KnownSession(m.session, m.worker) => instance[m.worker].session = m.session
    ELSE Newer(m)

Receive(m) ==
    /\ m \in reports
    /\ reports' = reports \ {m}
    /\ IF Acceptable(m) /\ ~(m.register /\ KnownSession(m.session, m.worker))
       THEN /\ instance' = [instance EXCEPT ![m.worker] = Heard(m)]
            /\ sessions' = IF m.register THEN [sessions EXCEPT ![m.session] = m.worker] ELSE sessions
       ELSE UNCHANGED <<instance, sessions>>
    /\ LET p == process[m.session]
           mine == p.waiting /\ p.sequence = m.sequence /\ p.tries = m.try
       IN \/ mine /\ process' = [process EXCEPT ![m.session] =
                        [p EXCEPT !.waiting = FALSE, !.registered = p.registered \/ Acceptable(m),
                                  !.at = IF Acceptable(m) THEN p.at ELSE "ended"]]
          \/ UNCHANGED process

ReportLost(m) ==
    /\ m \in reports
    /\ reports' = reports \ {m}
    /\ UNCHANGED <<process, sessions, instance>>

\* Thirty seconds without a report, and ninety.
Silence(w) ==
    /\ instance[w].session # NoSession
    /\ \/ instance[w].heard = "online" /\ instance' = [instance EXCEPT ![w].heard = "delayed"]
       \/ instance[w].heard = "delayed" /\ instance' = [instance EXCEPT ![w].heard = "offline"]
    /\ UNCHANGED <<process, reports, sessions>>

RegistryStep ==
    \/ \E s \in WorkSessions : SendOnce(s) \/ Closes(s) \/ GivesUp(s)
    \/ \E s \in WorkSessions, w \in Workers : Starts(s, w)
    \/ \E m \in reports : Receive(m) \/ ReportLost(m)
    \/ \E w \in Workers : Silence(w)

-----------------------------------------------------------------------------
\* What a report, late or repeated, may do to what is known of a worker: a session that
\* was replaced does not come back; within a session reports only get newer, one that said
\* good-bye is not revived, and only a newer report counts as a sign of life.
ReportHonest(old, new) ==
    IF old.session = new.session
    THEN /\ new.sequence >= old.sequence
         /\ old.stopped => new.stopped
         /\ new.heard = "online" /\ old.heard # "online" => new.sequence > old.sequence
    ELSE sessions[new.session] = NoSession

\* The registry is not misled by requests that are repeated, delayed or overtaken
\* ("旧会话记录保留，避免迟到的重复登记夺回实例": session rows are kept so that a late repeated
\* registration does not take the worker back; Report, docs/worker-status.md).
WorkerReportsFenced == [][\A w \in Workers : ReportHonest(instance[w], instance'[w])]_registryVars
=============================================================================
