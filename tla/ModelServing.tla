----------------------------- MODULE ModelServing -----------------------------
(***************************************************************************)
(* The models of the platform: releases, the predictions made with them,   *)
(* review and policies.  In the scene "releasing" the registry's calls     *)
(* act; in "inferring" a model is in production, predictions, reviewers    *)
(* and policies act, and one call may archive the model meanwhile.  In     *)
(* "storing" clients of the artifact store act, of which models know only  *)
(* whether an artifact could be verified; in "reporting" a model's test    *)
(* errors are asked for.                                                   *)
(***************************************************************************)
EXTENDS PolicyReview, ArtifactStore, TestErrors

CONSTANTS
    ModelScenes,   \* the scenes that are played
    Served,        \* the model that is in production when predictions are made
    Earlier        \* predictions that were made and reviewed before the scene begins

ASSUME ModelScenesAssumption ==
    /\ ModelScenes \subseteq {"releasing", "inferring", "storing", "reporting"}
    /\ Precisions # {} /\ Served \in Models
    /\ Earlier \subseteq Inferences /\ IsFiniteSet(Earlier)

VARIABLE modelScene

servingVars == <<modelScene, modelVars, policyVars, storeVars, testVars>>

ServingTypeOK == ModelsTypeOK /\ PoliciesTypeOK /\ StoreTypeOK /\ TestErrorsTypeOK

\* What a first publication leaves.
Published ==
    [status |-> "production", revision |-> 1,
     release |-> [number |-> <<1, 0, 0>>, sequence |-> 1, plan |-> ModelPlan[Served]],
     exports |-> {[precision |-> CHOOSE p \in Precisions : TRUE, of |-> 0]}]

\* No test of a model: one that nobody asks for.
NoTest ==
    /\ tested = CHOOSE m \in Tested : TRUE
    /\ format = "evidence" /\ training = NoReport /\ bundle = NoOrder
    /\ answer = [availability |-> "none"]

ServingInit ==
    /\ modelScene \in ModelScenes
    /\ model = [m \in Models |-> IF modelScene = "inferring" /\ m = Served THEN Published ELSE NewModel]
    /\ alias = [a \in {"champion", "challenger"} |-> NoModel]
    /\ publisher = [c \in Publishers |-> IdleCall]
    /\ datasetLock = NoCall
    /\ shareLock = [m \in Models |-> {}]
    /\ StoreInit /\ (modelScene # "storing" => adapter = CHOOSE k \in StoreKinds : TRUE)
    /\ IF modelScene = "reporting" THEN TestErrorsInit ELSE NoTest
    /\ PoliciesInit(IF modelScene = "inferring" THEN Earlier ELSE {}, Served)

ServingNext ==
    /\ UNCHANGED modelScene
    /\ \/ modelScene = "reporting" /\ TestErrorsStep /\ UNCHANGED <<modelVars, policyVars, storeVars>>
       \/ modelScene = "storing" /\ StoreStep /\ UNCHANGED <<modelVars, policyVars, testVars>>
       \/ modelScene = "releasing" /\ RegistryStep /\ UNCHANGED <<policyVars, storeVars, testVars>>
       \/ /\ modelScene = "inferring" /\ UNCHANGED <<storeVars, testVars>>
          /\ \/ PolicyStep
             \/ /\ \E c \in Publishers :
                      \/ (\A d \in Publishers : publisher[d] = IdleCall) /\ Archive(c, Served)
                      \/ Transition(c)
                /\ UNCHANGED policyVars

ServingSpec == ServingInit /\ [][ServingNext]_servingVars
=============================================================================
