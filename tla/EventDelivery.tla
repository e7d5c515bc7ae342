---------------------------- MODULE EventDelivery ----------------------------
(***************************************************************************)
(* What a transactional outbox promises to the component that writes to    *)
(* it: an event that was recorded is delivered at least once before it is  *)
(* settled, unless the broker answered that no queue takes it; its owner   *)
(* may withdraw it at any time, but what was delivered cannot be called    *)
(* back.                                                                   *)
(*                                                                         *)
(* OutboxRelay implements this specification.                              *)
(***************************************************************************)
CONSTANT Events

VARIABLES
    entry,      \* where each event stands
    delivered,  \* the events of which the broker got at least one copy
    returned    \* the events that the broker gave back at least once

vars == <<entry, delivered, returned>>

Init ==
    /\ entry = [e \in Events |-> "absent"]
    /\ delivered = {}
    /\ returned = {}

Record(e) ==
    /\ entry[e] = "absent"
    /\ entry' = [entry EXCEPT ![e] = "pending"]
    /\ UNCHANGED <<delivered, returned>>

\* Recorded events only; and perhaps one that was settled or withdrawn while
\* its delivery was under way.
Deliver(e) ==
    /\ entry[e] # "absent"
    /\ delivered' = delivered \cup {e}
    /\ UNCHANGED <<entry, returned>>

Return(e) ==
    /\ entry[e] # "absent"
    /\ returned' = returned \cup {e}
    /\ UNCHANGED <<entry, delivered>>

Settle(e) ==
    /\ entry[e] = "pending"
    /\ e \in delivered \cup returned
    /\ entry' = [entry EXCEPT ![e] = "published"]
    /\ UNCHANGED <<delivered, returned>>

Withdraw(e) ==
    /\ entry[e] \in {"pending", "published"}
    /\ entry' = [entry EXCEPT ![e] = "deleted"]
    /\ UNCHANGED <<delivered, returned>>

Next == \E e \in Events : Record(e) \/ Deliver(e) \/ Return(e) \/ Settle(e) \/ Withdraw(e)

Spec == Init /\ [][Next]_vars
=============================================================================
