----------------------------- MODULE PolicyViews -----------------------------
(***************************************************************************)
(* The policy evaluation against reference definitions: every policy over  *)
(* every view of a primary and some of its replicas (Peers), and what one  *)
(* ack, fsync or joining replica makes of it.                              *)
(***************************************************************************)
EXTENDS AckPolicy

CONSTANTS
  Peers,    \* the slots replicas may occupy
  MaxSeq    \* bound on the cursors before they advance

ASSUME ViewsAssumption ==
  /\ IsFiniteSet(Peers) /\ Peers \subseteq Nat \ {Primary}
  /\ MaxSeq \in Nat /\ MaxSeq + 1 < U64MAX

VARIABLES
  asked,    \* the policy, NoPolicy: none is evaluated
  shown,    \* a view
  grown     \* the same, or what it has grown into

NoPolicy == "none"

Cursors == 0..MaxSeq

\* The primary holds everything in memory; replicas may briefly report a
\* persisted cursor above their in-memory one.
PrimaryNodes == {[mem |-> U64MAX, disk |-> d] : d \in Cursors}
ReplicaNodes == [mem : Cursors, disk : Cursors]

ViewsOf(slots) ==
  {v \in [slots \cup {Primary} -> PrimaryNodes \cup ReplicaNodes] :
     v[Primary] \in PrimaryNodes /\ \A i \in slots : v[i] \in ReplicaNodes}

ViewsInit ==
  /\ asked \in AckPolicies
  /\ \E slots \in SUBSET Peers : shown \in ViewsOf(slots)
  /\ grown = shown

\* Node i's cursors moved on, both, one or neither; the primary's disk only.
Advanced(i) ==
  {[mem |-> m, disk |-> d] :
     m \in IF i = Primary THEN {shown[i].mem} ELSE {shown[i].mem, shown[i].mem + 1},
     d \in {shown[i].disk, shown[i].disk + 1}}

\* Some node's cursors advance, or a replica joins the view.
Grow ==
  /\ grown = shown
  /\ \/ \E i \in DOMAIN shown : \E n \in Advanced(i) : grown' = [shown EXCEPT ![i] = n]
     \/ \E i \in Peers \ DOMAIN shown : \E r \in ReplicaNodes :
          grown' = [j \in DOMAIN shown \cup {i} |-> IF j = i THEN r ELSE shown[j]]
  /\ UNCHANGED <<asked, shown>>

viewsVars == <<asked, shown, grown>>

ViewsSpec == ViewsInit /\ [][Grow]_viewsVars

-----------------------------------------------------------------------------
(* Reference: the selection loop of the code, a running maximum taken count *)
(* times, skipping the nodes already taken.                                *)

\* The node one scan keeps: the greatest cursor not yet taken, the lowest index
\* among equals.
Best(view, level, taken) ==
  CHOOSE i \in DOMAIN view \ taken :
    \A j \in DOMAIN view \ taken :
      \/ effective_cursor(view[j], level) < effective_cursor(view[i], level)
      \/ effective_cursor(view[j], level) = effective_cursor(view[i], level) /\ i <= j

LoopTaken(view, level, count) ==
  LET taken[r \in 0..count] ==
        IF r = 0 THEN {} ELSE taken[r - 1] \cup {Best(view, level, taken[r - 1])}
  IN  IF count > Cardinality(DOMAIN view) THEN NoNode
      ELSE CHOOSE i \in taken[count] : i \notin taken[count - 1]

\* The rank definition picks the node the code's selection loop picks, ties
\* included, and none for a count above the view (nth_largest_with_node).
SelectionMatchesLoop ==
  \A level \in {InMemory, Persisted}, count \in 1..(Cardinality(DOMAIN grown) + 1) :
    nth_largest_with_node(grown, level, count) = LoopTaken(grown, level, count)

\* The durable position is the highest sequence at which every clause has its
\* count of nodes, and 0 when there is none (Policy::evaluate's contract).
EvaluateIsHighestSatisfied ==
  LET pos == durable_pos(asked, grown)
  IN  /\ pos > 0 => Satisfied(asked, grown, pos)
      /\ \A s \in 1..(MaxSeq + 2) : Satisfied(asked, grown, s) => s <= pos

\* An ack, an fsync or a replica joining never moves the durable position
\* back, and never degrades the policy: the gate's cached position stays a
\* lower bound of what a fresh look would find while the shape only grows.
EvaluateMonotone ==
  /\ durable_pos(asked, shown) <= durable_pos(asked, grown)
  /\ degraded(asked, grown) => degraded(asked, shown)

\* Attribution has a verdict exactly when the policy is satisfiable, and names
\* the subsystem whose node sits at the durable position the gate opened on
\* (Policy::attribute_blocker, evaluate_gate).
AttributionNamesTheBinding ==
  LET blocker == attribute_blocker(asked, grown)
      supplies(i) == \E k \in DOMAIN to_policy(asked) :
        effective_cursor(grown[i], to_policy(asked)[k].level) = durable_pos(asked, grown)
  IN  /\ (blocker = "None") <=> degraded(asked, grown)
      /\ blocker = "Journal" => supplies(Primary)
      /\ blocker = "Replication" => \E i \in DOMAIN grown \ {Primary} : supplies(i)

\* The evaluation of a policy over every view: the rank definition picks the
\* node the code's selection loop picks, ties included; the durable position is
\* the highest sequence at which every clause has its count of nodes; an ack, an
\* fsync or a joining replica never moves it back; and attribution has a verdict
\* exactly when the policy is satisfiable and names the subsystem whose node sits
\* at the position (nth_largest_with_node, Policy::evaluate, attribute_blocker).
EvaluationSound ==
  asked # NoPolicy =>
    /\ SelectionMatchesLoop
    /\ EvaluateIsHighestSatisfied
    /\ EvaluateMonotone
    /\ AttributionNamesTheBinding
=============================================================================
