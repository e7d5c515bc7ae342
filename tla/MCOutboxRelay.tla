---------------------------- MODULE MCOutboxRelay ----------------------------
(***************************************************************************)
(* TLC instance of OutboxRelay.                                            *)
(***************************************************************************)
EXTENDS OutboxRelay, TLC
=============================================================================
