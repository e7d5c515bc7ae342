------------------------ MODULE MCTrainingLifecycle ------------------------
(***************************************************************************)
(* TLC instance of TrainingLifecycle.                                      *)
(***************************************************************************)
EXTENDS TrainingLifecycle, TLC
=============================================================================
