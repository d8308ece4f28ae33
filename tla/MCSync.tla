------------------------------- MODULE MCSync -------------------------------
(* A small instance of Sync.                                               *)
EXTENDS Sync, TLC

CONSTANTS dm, group
=============================================================================
