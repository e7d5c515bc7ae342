------------------------- MODULE MCTrainingDispatch -------------------------
(***************************************************************************)
(* TLC instance of TrainingDispatch.                                       *)
(***************************************************************************)
EXTENDS TrainingDispatch, TLC
=============================================================================
