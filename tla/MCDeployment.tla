----------------------------- MODULE MCDeployment -----------------------------
(***************************************************************************)
(* TLC instance of Deployment.                                             *)
(***************************************************************************)
EXTENDS Deployment, TLC
=============================================================================
