----------------------------- MODULE MCRecovery -----------------------------
(***************************************************************************)
(* One node with a genesis of one entry.                                   *)
(***************************************************************************)
EXTENDS Recovery, TLC
=============================================================================
