----------------------------- MODULE MCFailover -----------------------------
(***************************************************************************)
(* Three voters, the largest cluster the server accepts; the two replicas  *)
(* are interchangeable.                                                    *)
(***************************************************************************)
EXTENDS Failover, TLC

CONSTANTS a, b, c
MCNodes == {a, b, c}
Replicas == Permutations({b, c})
=============================================================================
