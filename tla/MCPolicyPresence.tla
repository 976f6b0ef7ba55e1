-------------------------- MODULE MCPolicyPresence --------------------------
(***************************************************************************)
(* Four small state spaces side by side, one chosen in the initial state:  *)
(*                                                                         *)
(*   policy    the evaluation of every policy over every view (PolicyViews)*)
(*   mailbox   a policy change on its way to the journal (PolicyControl)   *)
(*   override  the senders and the producer of ReplicaPresence             *)
(*   loss      the senders and the response stage of ReplicaPresence       *)
(*                                                                         *)
(* The producer and the response stage share no variable of                *)
(* ReplicaPresence, so each is checked with the senders alone: the         *)
(* override half without the clock, the loss half without the producer.    *)
(***************************************************************************)
EXTENDS ReplicaPresence, PolicyControl, PolicyViews

VARIABLE half

MCSlots == {1, 2}
MCPolicies == {"disk", "disk+ram"}
MCDisk == "disk"

\* The parts not chosen stay in one initial state.
MCInit ==
  /\ half \in {"policy", "mailbox", "override", "loss"}
  /\ IF half = "policy" THEN ViewsInit ELSE asked = NoPolicy /\ shown = <<>> /\ grown = <<>>
  /\ ControlInit /\ Init
  /\ half # "mailbox" => replicates /\ main = "primary" /\ requested = Disk
  /\ half \in {"policy", "mailbox"} => journaled = Disk

MCNext ==
  /\ UNCHANGED half
  /\ \/ half = "policy" /\ Grow /\ UNCHANGED <<controlVars, vars>>
     \/ half = "mailbox" /\ ControlNext /\ UNCHANGED <<viewsVars, vars>>
     \/ half = "override" /\ (Sender \/ Producer \/ Fence)
        /\ UNCHANGED <<viewsVars, controlVars>>
     \/ half = "loss" /\ (Sender \/ Response \/ Tick)
        /\ UNCHANGED <<viewsVars, controlVars>>

MCSpec == MCInit /\ [][MCNext]_<<half, viewsVars, controlVars, vars>>
=============================================================================
