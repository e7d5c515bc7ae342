----------------------------- MODULE MCAgentRun -----------------------------
(***************************************************************************)
(* One run with room for a training plan or two writes, two rounds and two *)
(* runners.  Runs that compete for limits are played in PlatformServices.  *)
(***************************************************************************)
EXTENDS AgentRun, TLC

CONSTANTS r1, w1, w2, u1, c1
=============================================================================
