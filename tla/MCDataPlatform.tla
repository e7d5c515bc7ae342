--------------------------- MODULE MCDataPlatform ---------------------------
(***************************************************************************)
(* Two tasks and a worker; two batches, a client and two coordinators on a *)
(* dataset with one version; two imports and two consumers.                *)
(***************************************************************************)
EXTENDS DataPlatform

CONSTANTS q, u, c1, c2, e1, p1, p2, p3, p4, l1, l2

MCCallers == {e1, c1, c2}
MCConfirmedLabel == [p \in {p2, p4} |-> l2]
MCSplitPlans == {<<1, 49, 50>>}
=============================================================================
