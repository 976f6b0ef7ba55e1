-------------------------- MODULE MCCatchupHandoff --------------------------
(***************************************************************************)
(* Small instances of CatchupHandoff; the bounds are in the cfg files.     *)
(***************************************************************************)
EXTENDS CatchupHandoff, TLC
=============================================================================
