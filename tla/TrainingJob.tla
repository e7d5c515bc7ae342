---------------------------- MODULE TrainingJob ----------------------------
(***************************************************************************)
(* What a training job promises to the rest of the platform, without       *)
(* leases, epochs, generations, messages or audit rows: it is started at   *)
(* most `budget' times, one start at a time; it ends at most once; a model *)
(* comes out of it if and only if it succeeds, and it is the model of the  *)
(* start that was running at that moment.                                  *)
(*                                                                         *)
(* TrainingLifecycle implements this specification.                        *)
(***************************************************************************)
EXTENDS Integers

CONSTANTS Jobs, AttemptLimit

VARIABLES
    phase,   \* where the job stands
    budget,  \* how often it may be started
    starts,  \* how often it has been started
    result   \* the start that produced the model, 0 when there is none

vars == <<phase, budget, starts, result>>

NoResult == 0

Init ==
    /\ phase = [j \in Jobs |-> "absent"]
    /\ budget = [j \in Jobs |-> 0]
    /\ starts = [j \in Jobs |-> 0]
    /\ result = [j \in Jobs |-> NoResult]

Move(j, from, to) ==
    /\ phase[j] \in from
    /\ phase' = [phase EXCEPT ![j] = to]

Submit(j) ==
    /\ Move(j, {"absent"}, "queued")
    /\ \E max \in 1..AttemptLimit : budget' = [budget EXCEPT ![j] = max]
    /\ UNCHANGED <<starts, result>>

Start(j) ==
    /\ starts[j] < budget[j]
    /\ Move(j, {"queued"}, "running")
    /\ starts' = [starts EXCEPT ![j] = @ + 1]
    /\ UNCHANGED <<budget, result>>

\* The start is over without a model and another one is left.
Retry(j) ==
    /\ starts[j] < budget[j]
    /\ Move(j, {"running"}, "queued")
    /\ UNCHANGED <<budget, starts, result>>

GiveUp(j) ==
    /\ Move(j, {"running"}, "failed")
    /\ UNCHANGED <<budget, starts, result>>

Suspend(j) ==
    /\ Move(j, {"queued", "running"}, "paused")
    /\ UNCHANGED <<budget, starts, result>>

Continue(j) ==
    /\ Move(j, {"paused"}, "queued")
    /\ UNCHANGED <<budget, starts, result>>

Withdraw(j) ==
    /\ Move(j, {"queued", "running", "paused"}, "cancelled")
    /\ UNCHANGED <<budget, starts, result>>

Deliver(j) ==
    /\ Move(j, {"running"}, "succeeded")
    /\ result' = [result EXCEPT ![j] = starts[j]]
    /\ UNCHANGED <<budget, starts>>

\* Only a job without a result may be erased, with everything known about it.
Erase(j) ==
    /\ Move(j, {"failed", "cancelled"}, "deleted")
    /\ result[j] = NoResult
    /\ budget' = [budget EXCEPT ![j] = 0]
    /\ starts' = [starts EXCEPT ![j] = 0]
    /\ UNCHANGED result

Next ==
    \E j \in Jobs :
        \/ Submit(j) \/ Start(j) \/ Retry(j) \/ GiveUp(j) \/ Suspend(j)
        \/ Continue(j) \/ Withdraw(j) \/ Deliver(j) \/ Erase(j)

Spec == Init /\ [][Next]_vars
=============================================================================
