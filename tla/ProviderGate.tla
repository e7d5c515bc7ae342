----------------------------- MODULE ProviderGate -----------------------------
(***************************************************************************)
(* The process that calls the model for annotation                         *)
(* (cmd/annotation-agent/main.go, transport.go).  Requests arrive on its   *)
(* standard input and are called side by side, as far as an adaptive gate  *)
(* admits them: failures halve the limit, a row of them opens a circuit    *)
(* that cools down and is then probed.  A call connects, is sent and reads *)
(* a stream or a body; what is reported decides whether the coordinator    *)
(* may pay for another call.                                               *)
(*                                                                         *)
(* Contents, endpoints and prompts are left out, and which of its three    *)
(* deadlines interrupted a call.                                           *)
(***************************************************************************)
EXTENDS Integers, FiniteSets

CONSTANTS
    Calls,             \* requests that may be under way at one time
    InitialLimit,      \* calls admitted at first (2)
    MaximumLimit,      \* calls admitted at most (4)
    FailuresToOpen,    \* failures in a row that open the circuit (3)
    SuccessesToGrow    \* successes in a row that raise the limit (8)

ASSUME GateAssumption ==
    /\ InitialLimit \in Nat \ {0} /\ MaximumLimit \in Nat /\ InitialLimit <= MaximumLimit
    /\ FailuresToOpen \in Nat \ {0} /\ SuccessesToGrow \in Nat \ {0}

VARIABLES
    gate,   \* the adaptive gate
    call    \* the requests

gateVars == <<gate, call>>

-----------------------------------------------------------------------------
\* cooling: until lies in the future.  failures counts no further than it matters.
Gate == [active : 0..Cardinality(Calls), limit : 1..MaximumLimit, failures : 0..FailuresToOpen,
         successes : 0..SuccessesToGrow - 1, cooling : BOOLEAN, fatal : BOOLEAN, halfOpen : BOOLEAN]

\* Where a call is; probe: it was admitted by a half-open circuit; handled: the provider
\* took the request; status: the status that came back; finish: the last finish reason; kind:
\* what is reported, and wait: that the provider asked for a pause.
IdleCall == [at |-> "idle", probe |-> FALSE, handled |-> FALSE, status |-> "none", finish |-> "none",
             kind |-> "none", wait |-> FALSE]
CallStates ==
    [at : {"idle", "connecting", "sent", "streaming", "body", "returned"}, probe : BOOLEAN,
     handled : BOOLEAN, status : {"none", "200", "busy", "other"}, finish : {"none", "stop", "other"},
     kind : {"none", "ok", "failed", "retryable", "unknown", "fatal"}, wait : BOOLEAN]

GateTypeOK == gate \in Gate /\ call \in [Calls -> CallStates]

GateInit ==
    /\ gate = [active |-> 0, limit |-> InitialLimit, failures |-> 0, successes |-> 0,
               cooling |-> FALSE, fatal |-> FALSE, halfOpen |-> FALSE]
    /\ call = [c \in Calls |-> IdleCall]

-----------------------------------------------------------------------------
InFlight == {c \in Calls : call[c].at # "idle"}

\* Mutant of Admissible: a half-open circuit admits as many as a closed one.
Admissible_anyProbe == ~gate.fatal /\ ~gate.cooling /\ gate.active < gate.limit

\* admit: a half-open circuit lets one call through, when all others are done.
Admissible ==
    /\ ~gate.fatal /\ ~gate.cooling
    /\ gate.active < gate.limit
    /\ gate.halfOpen => gate.active = 0

\* A request that is not admitted is answered at once and leaves nothing behind.
Admit(c) ==
    /\ call[c].at = "idle"
    /\ Admissible
    /\ gate' = [gate EXCEPT !.active = @ + 1]
    /\ call' = [call EXCEPT ![c] = [IdleCall EXCEPT !.at = "connecting", !.probe = gate.halfOpen]]

Becomes(c, state) == call' = [call EXCEPT ![c] = state] /\ UNCHANGED gate

\* The outcome goes to the gate.
Returned(c, kind, wait) ==
    Becomes(c, [call[c] EXCEPT !.at = "returned", !.kind = kind, !.wait = wait])

\* The step is unknown or no request can be made of it: that blocks the gate, too.
CannotBeSent(c) ==
    /\ call[c].at = "connecting"
    /\ Returned(c, "fatal", FALSE)

ConnectFails(c) ==
    /\ call[c].at = "connecting"
    /\ Returned(c, "retryable", FALSE)

Connected(c) ==
    /\ call[c].at = "connecting"
    /\ Becomes(c, [call[c] EXCEPT !.at = "sent"])

\* The provider takes the request and begins to work on it, and to be paid.
ProviderHandles(c) ==
    /\ call[c].at = "sent" /\ ~call[c].handled
    /\ Becomes(c, [call[c] EXCEPT !.handled = TRUE])

\* Mutant of Interrupted: whatever brought no answer may be tried again.
Interrupted_retried(c) == Returned(c, "retryable", FALSE)

\* Once a connection was had nobody knows what the provider did.
Interrupted(c) == Returned(c, "unknown", FALSE)

\* The answer is lost, a deadline passes, or the stream ends without its last mark.
CallInterrupted(c) ==
    /\ call[c].at \in {"sent", "streaming", "body"}
    /\ Interrupted(c)

\* Another status than 200, from the provider or a gateway before it, whatever had begun:
\* 408, 429, 500, 502, 503 and 504 count as busy, with or without a time to wait.
Declined(c) ==
    /\ call[c].at = "sent"
    /\ \E status \in {"busy", "other"}, wait \in BOOLEAN :
          /\ wait => status = "busy"
          /\ Becomes(c, [call[c] EXCEPT !.at = "returned", !.status = status, !.wait = wait,
                                        !.kind = IF status = "busy" THEN "retryable" ELSE "fatal"])

\* Status 200: an event stream or one body follows.
Accepted(c) ==
    /\ call[c].at = "sent" /\ call[c].handled
    /\ \E at \in {"streaming", "body"} : Becomes(c, [call[c] EXCEPT !.at = at, !.status = "200"])

\* readSSE: content after a finish reason, or an envelope that cannot be read.
StreamFails(c) ==
    /\ call[c].at = "streaming"
    /\ Returned(c, "failed", FALSE)

StreamFinish(c) ==
    /\ call[c].at = "streaming"
    /\ \E reason \in {"stop", "other"} : Becomes(c, [call[c] EXCEPT !.finish = reason])

\* Mutant of ReportedAs: a stream that ended is taken for complete.
ReportedAs_anyReason(c) == "ok"

ReportedAs(c) == IF call[c].finish = "stop" THEN "ok" ELSE "failed"

\* The last mark.
StreamEnds(c) ==
    /\ call[c].at = "streaming"
    /\ Returned(c, ReportedAs(c), FALSE)

\* A body that was read to its end is complete, unfinished or not understood.
BodyEnds(c) ==
    /\ call[c].at = "body"
    /\ \E reason \in {"stop", "other"} :
         Becomes(c, [call[c] EXCEPT !.at = "returned", !.finish = reason,
                                    !.kind = IF reason = "stop" THEN "ok" ELSE "failed"])

-----------------------------------------------------------------------------
LesserOf(m, n) == IF m < n THEN m ELSE n
GreaterOf(m, n) == IF m > n THEN m ELSE n

\* done, for a failure that may be the provider's.
AfterFailure(g, wait) ==
    LET failures == LesserOf(g.failures + 1, FailuresToOpen)
        opens == failures = FailuresToOpen \/ g.halfOpen \/ wait
    IN [g EXCEPT !.limit = GreaterOf(1, @ \div 2), !.failures = failures, !.successes = 0,
                 !.cooling = @ \/ opens, !.halfOpen = @ \/ opens]

\* Mutant of AfterSuccess: an old success clears a newer cooldown.
AfterSuccess_anyTime(g) ==
    [g EXCEPT !.failures = 0, !.halfOpen = FALSE, !.cooling = FALSE,
              !.successes = (@ + 1) % SuccessesToGrow]

\* done, for a success: it counts only when no cooldown is on.
AfterSuccess(g) ==
    IF g.cooling THEN g
    ELSE [g EXCEPT !.failures = 0, !.halfOpen = FALSE, !.successes = (@ + 1) % SuccessesToGrow,
                   !.limit = IF g.successes + 1 >= SuccessesToGrow THEN LesserOf(MaximumLimit, @ + 1) ELSE @]

Done(c) ==
    LET g == [gate EXCEPT !.active = @ - 1] IN
    /\ call[c].at = "returned"
    /\ call' = [call EXCEPT ![c] = IdleCall]
    /\ gate' = CASE call[c].kind = "fatal" -> [g EXCEPT !.fatal = TRUE]
                 [] call[c].kind \in {"retryable", "unknown"} -> AfterFailure(g, call[c].wait)
                 [] call[c].kind = "ok" -> AfterSuccess(g)
                 [] OTHER -> g

CooledDown ==
    /\ gate.cooling
    /\ gate' = [gate EXCEPT !.cooling = FALSE]
    /\ UNCHANGED call

GateStep ==
    \/ \E c \in Calls :
         \/ Admit(c) \/ CannotBeSent(c) \/ ConnectFails(c) \/ Connected(c) \/ ProviderHandles(c)
         \/ CallInterrupted(c)
         \/ Declined(c) \/ Accepted(c) \/ StreamFails(c) \/ StreamFinish(c) \/ StreamEnds(c)
         \/ BodyEnds(c) \/ Done(c)
    \/ CooledDown

-----------------------------------------------------------------------------
\* Places are neither lost nor given twice, and never more than the maximum.
PlacesCounted ==
    /\ gate.active = Cardinality(InFlight) /\ gate.active <= MaximumLimit
    /\ gate.limit \in 1..MaximumLimit

\* A probe is on its own until it returns, and a row of failures opens the circuit.
ProbesAlone ==
    /\ \A c \in InFlight : call[c].probe => InFlight = {c}
    /\ gate.failures >= FailuresToOpen => gate.halfOpen

\* Without an answer a call may be paid for again only if the provider did not take it, and
\* never once it answered 200; otherwise it is a status of its own that says so.  What is
\* accepted was finished by the provider.  (A status that says busy after the work began is
\* believed, too: the comment "safely retryable only when no connection was obtained" holds
\* of failed requests only.)
OutcomesTold ==
    \A c \in Calls : call[c].at = "returned" =>
        /\ call[c].kind = "retryable" => call[c].status = "busy" \/ (call[c].status = "none" /\ ~call[c].handled)
        /\ call[c].kind = "ok" => call[c].status = "200" /\ call[c].handled /\ call[c].finish = "stop"

\* The circuit closes only after its cooldown, whatever calls of before it return.
CooldownKept == [][gate.cooling /\ gate.halfOpen /\ call' # call => gate'.cooling /\ gate'.halfOpen]_gateVars

\* However calls overlap, fail and come back late, the gate keeps its count, its cooldown
\* and its single probe, and no call without an answer is reported as safe to repeat that may
\* have been paid (admit, done, stepWithOptions, readSSE).
GateSound == [](PlacesCounted /\ ProbesAlone /\ OutcomesTold) /\ CooldownKept
=============================================================================
