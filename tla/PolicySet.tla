------------------------------ MODULE PolicySet ------------------------------
(***************************************************************************)
(* The ack policies an operator can ask for, as the halt gate              *)
(* (ReplicaPresence) and the policy's way to the journal (PolicyControl)   *)
(* tell them apart: whether a policy needs a replica.  What a policy says  *)
(* of positions is AckPolicy's.                                            *)
(***************************************************************************)
CONSTANTS
  Policies,  \* the ack policies
  Disk       \* the one that needs no replica

ASSUME PolicyAssumption == Disk \in Policies
=============================================================================
