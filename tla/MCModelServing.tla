---------------------------- MODULE MCModelServing ----------------------------
(***************************************************************************)
(* Three models of two plans, trained on two versions; two registry calls; *)
(* three predictions (two of them earlier) and two policies; scores are    *)
(* halves, thresholds are rounded to thirds, and a third of what is        *)
(* accepted may be wrong.  One content and two clients of the store; tests *)
(* of up to four images of three classes.                                  *)
(***************************************************************************)
EXTENDS ModelServing, TLC

CONSTANTS m1, m2, m3, a1, a2, e1, e2, e3, p1, p2

MCModelPlan == m1 :> "resnet" @@ m2 :> "resnet" @@ m3 :> "vit"
MCFormats == m1 :> {"FP32", "FP16"} @@ m2 :> {"FP32"} @@ m3 :> {"FP32"}
MCTrainedOn == m1 :> 1 @@ m2 :> 2 @@ m3 :> 2
Symmetric == Permutations({a1, a2}) \cup Permutations({e1, e2}) \cup Permutations({p1, p2})

MCTested ==
    {m \in [1..3 -> [1..3 -> 0..2]] :
        m[1][1] + m[1][2] + m[1][3] + m[2][1] + m[2][2] + m[2][3] + m[3][1] + m[3][2] + m[3][3] <= 4}

MCTargetRisk == <<1, 3>>
=============================================================================
