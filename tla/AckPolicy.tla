------------------------------ MODULE AckPolicy ------------------------------
(***************************************************************************)
(* The ack policies and their evaluation over a view of the cluster's      *)
(* cursors (transport-core/src/ack_policy.rs, server-runtime/src/          *)
(* ack_policy.rs).                                                         *)
(*                                                                         *)
(* A view maps node numbers, 0 the primary and the others replica slots in *)
(* slot order, to the highest sequence each holds in memory and on disk.   *)
(* The code packs the active slots into an array; only their order matters *)
(* to it.  U64MAX stands for the u64::MAX the code uses as the primary's   *)
(* in-memory cursor.                                                       *)
(***************************************************************************)
EXTENDS Integers, FiniteSets

CONSTANT U64MAX

ASSUME U64MAXAssumption == U64MAX \in Nat \ {0}

Primary == 0
NoNode == -1

InMemory == "InMemory"
Persisted == "Persisted"

AckPolicies == {"disk", "ram", "disk+ram", "two-disks"}

\* AckPolicy::to_policy: the clauses of each policy, in the code's order.
to_policy(p) ==
  CASE p = "disk" -> <<[level |-> Persisted, count |-> 1]>>
    [] p = "ram" -> <<[level |-> InMemory, count |-> 2]>>
    [] p = "disk+ram" -> <<[level |-> Persisted, count |-> 1],
                           [level |-> InMemory, count |-> 2]>>
    [] p = "two-disks" -> <<[level |-> Persisted, count |-> 2]>>

\* AckPolicy::needs_replica: some clause counts a node beside the primary.
needs_replica(p) ==
  \E k \in DOMAIN to_policy(p) : to_policy(p)[k].count > 1

\* effective_cursor: what a node has persisted it also holds in memory.
effective_cursor(node, level) ==
  IF level = Persisted \/ node.disk >= node.mem THEN node.disk ELSE node.mem

\* Node j ranks before node i: a greater cursor, or an equal one and a lower
\* index (the strict > of the running maximum keeps the lowest index).
Before(view, level, j, i) ==
  LET cj == effective_cursor(view[j], level)
      ci == effective_cursor(view[i], level)
  IN  cj > ci \/ (cj = ci /\ j < i)

Ahead(view, level, i) == {j \in DOMAIN view : Before(view, level, j, i)}

\* nth_largest_with_node: the node at rank count - 1 supplies the threshold;
\* NoNode when the count exceeds the view.
nth_largest_with_node(view, level, count) ==
  IF \E i \in DOMAIN view : Cardinality(Ahead(view, level, i)) = count - 1
  THEN CHOOSE i \in DOMAIN view : Cardinality(Ahead(view, level, i)) = count - 1
  ELSE NoNode

\* Faulty variant: a count above the view is clamped to it.
nth_largest_clamped(view, level, count) ==
  LET n == IF count > Cardinality(DOMAIN view) THEN Cardinality(DOMAIN view) ELSE count
  IN  effective_cursor(view[nth_largest_with_node(view, level, n)], level)

\* nth_largest_cursor: its cursor, or 0.
nth_largest_cursor(view, level, count) ==
  LET i == nth_largest_with_node(view, level, count)
  IN  IF i = NoNode THEN 0 ELSE effective_cursor(view[i], level)

ClauseCursor(clause, view) == nth_largest_cursor(view, clause.level, clause.count)

\* evaluate_with_status: the least clause cursor (the u64::MAX sentinel reads 0).
durable_pos(policy, view) ==
  LET clauses == to_policy(policy)
      values == {ClauseCursor(clauses[k], view) : k \in DOMAIN clauses}
      result == CHOOSE v \in values : \A w \in values : v <= w
  IN  IF result = U64MAX THEN 0 ELSE result

\* evaluate_with_status: a clause asks for more nodes than the view has.
degraded(policy, view) ==
  \E k \in DOMAIN to_policy(policy) : to_policy(policy)[k].count > Cardinality(DOMAIN view)

\* attribute_blocker: the first clause with the least cursor names the node
\* the gate waited on; "None" while a clause is unsatisfiable.
attribute_blocker(policy, view) ==
  LET clauses == to_policy(policy)
      node(k) == nth_largest_with_node(view, clauses[k].level, clauses[k].count)
      value(k) == ClauseCursor(clauses[k], view)
      binding == CHOOSE k \in DOMAIN clauses :
                   \A m \in DOMAIN clauses :
                     value(k) < value(m) \/ (value(k) = value(m) /\ k <= m)
  IN  IF \E k \in DOMAIN clauses : node(k) = NoNode THEN "None"
      ELSE IF node(binding) = Primary THEN "Journal" ELSE "Replication"

\* What a policy promises of sequence s: over the nodes of a view, each
\* clause's count of nodes hold s at the clause's level.
Satisfied(policy, view, s) ==
  \A k \in DOMAIN to_policy(policy) :
    LET clause == to_policy(policy)[k]
    IN  Cardinality({i \in DOMAIN view : effective_cursor(view[i], clause.level) >= s})
          >= clause.count
=============================================================================
