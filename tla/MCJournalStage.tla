---------------------------- MODULE MCJournalStage ----------------------------
(***************************************************************************)
(* Instances of JournalStage for TLC.                                      *)
(***************************************************************************)
EXTENDS JournalStage

MCRoles == {"primary", "replica"}
=============================================================================
