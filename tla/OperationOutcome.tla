-------------------------- MODULE OperationOutcome --------------------------
(***************************************************************************)
(* What the platform promises about a write it was asked for under an      *)
(* operation id: it happens at most once, however often it is asked for;   *)
(* its outcome may stay unknown for ever, but once an outcome is reported  *)
(* it is true and final.                                                   *)
(*                                                                         *)
(* AgentToolOperations implements this specification, and AgentRun relies  *)
(* on it.                                                                  *)
(***************************************************************************)
CONSTANT Operations

VARIABLES
    happened,  \* operations whose effect on the platform exists, or existed
    outcome    \* what the platform reports of each operation

vars == <<happened, outcome>>

Outcomes == {"unknown", "succeeded", "rejected"}

Init ==
    /\ happened = {}
    /\ outcome = [o \in Operations |-> "unknown"]

Happen(o) ==
    /\ o \notin happened
    /\ outcome[o] = "unknown"
    /\ happened' = happened \cup {o}
    /\ outcome' \in {outcome, [outcome EXCEPT ![o] = "succeeded"]}

Report(o, answer) ==
    /\ outcome[o] = "unknown"
    /\ answer = IF o \in happened THEN "succeeded" ELSE "rejected"
    /\ outcome' = [outcome EXCEPT ![o] = answer]
    /\ UNCHANGED happened

Next == \E o \in Operations : Happen(o) \/ \E answer \in Outcomes : Report(o, answer)

Spec == Init /\ [][Next]_vars
=============================================================================
