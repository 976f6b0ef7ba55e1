------------------------ MODULE DurabilityGate_proofs ------------------------
(***************************************************************************)
(* The durability gate's safety, for any number of slots and replicas, any *)
(* log, any set of changes and wherever a replica reconnects: what rests   *)
(* on the replicas' cursors (CursorInv), on the order of the log alone     *)
(* (GovernInv), and on both (the changes that take effect).  Before        *)
(* that, what the evaluation of an ack policy guarantees for every view of *)
(* any size: the position it returns is held as the policy demands, what   *)
(* is held stays held when cursors and nodes are added, and the position   *)
(* is the highest one held, the one the code's selection loop finds.       *)
(***************************************************************************)
EXTENDS DurabilityGate, PolicyViews, FiniteSetTheorems, WellFoundedInduction,
        NaturalsInduction, TLAPS

-----------------------------------------------------------------------------
(* The evaluation of an ack policy *)

\* A view the code can build: finitely many nodes, cursors that are numbers.
IsView(nodes) ==
  /\ IsFiniteSet(DOMAIN nodes) /\ DOMAIN nodes \subseteq Nat
  /\ nodes \in [DOMAIN nodes -> [mem : Nat, disk : Nat]]

\* The nodes of a view that hold s at a level.
Holders(nodes, level, s) == {i \in DOMAIN nodes : effective_cursor(nodes[i], level) >= s}

\* A node's effective cursor is a number (effective_cursor).
LEMMA EffectiveIsNat ==
  ASSUME NEW nodes, IsView(nodes), NEW i \in DOMAIN nodes, NEW level
  PROVE  effective_cursor(nodes[i], level) \in Nat
BY DEF IsView, effective_cursor

\* The node at rank count - 1 and those ahead of it are count nodes that hold
\* its cursor (nth_largest_cursor): what the loop of maxima returns is held by
\* as many nodes as the clause asks for.
LEMMA NthLargestIsHeld ==
  ASSUME NEW nodes, IsView(nodes), NEW level, NEW count \in Nat \ {0},
         NEW s \in Nat \ {0}, nth_largest_cursor(nodes, level, count) >= s
  PROVE  Cardinality(Holders(nodes, level, s)) >= count
<1> DEFINE i == nth_largest_with_node(nodes, level, count)
           A == Ahead(nodes, level, i)
           H == Holders(nodes, level, s)
<1>1. i # NoNode /\ effective_cursor(nodes[i], level) >= s
  BY DEF nth_largest_cursor
<1>2. \E j \in DOMAIN nodes : Cardinality(Ahead(nodes, level, j)) = count - 1
  BY <1>1 DEF nth_largest_with_node
<1>3. i \in DOMAIN nodes /\ Cardinality(A) = count - 1
  BY <1>2 DEF nth_largest_with_node
<1>4. A \subseteq DOMAIN nodes /\ i \notin A
  <2>1. ~Before(nodes, level, i, i)
    BY <1>3, EffectiveIsNat DEF Before, IsView
  <2>2. QED
    BY <2>1 DEF Ahead
<1>5. IsFiniteSet(A) /\ IsFiniteSet(H)
  BY <1>4, FS_Subset DEF IsView, Holders
<1>6. IsFiniteSet(A \cup {i}) /\ Cardinality(A \cup {i}) = count
  <2>1. Cardinality(A \cup {i}) = Cardinality(A) + 1 /\ IsFiniteSet(A \cup {i})
    BY <1>4, <1>5, FS_AddElement
  <2>2. QED
    BY <2>1, <1>3
<1>7. A \cup {i} \subseteq H
  <2>1. ASSUME NEW j \in A PROVE j \in H
    <3>1. j \in DOMAIN nodes /\ Before(nodes, level, j, i)
      BY <2>1 DEF Ahead
    <3>2. effective_cursor(nodes[j], level) >= effective_cursor(nodes[i], level)
      BY <3>1, <1>3, EffectiveIsNat DEF Before
    <3>3. effective_cursor(nodes[j], level) \in Nat /\ effective_cursor(nodes[i], level) \in Nat
      BY <3>1, <1>3, EffectiveIsNat
    <3>4. QED
      BY <3>1, <3>2, <3>3, <1>1 DEF Holders
  <2>2. i \in H
    BY <1>1, <1>3 DEF Holders
  <2>3. QED
    BY <2>1, <2>2
<1>8. Cardinality(A \cup {i}) <= Cardinality(H)
  BY <1>5, <1>7, FS_Subset
<1>9. Cardinality(H) \in Nat
  BY <1>5, FS_CardinalityType
<1>10. QED
  BY <1>6, <1>8, <1>9

\* The clauses of a policy: at most two, each asking for one or two nodes
\* (to_policy).
LEMMA PolicyClauses ==
  ASSUME NEW p \in AckPolicies
  PROVE  /\ DOMAIN to_policy(p) = {1} \/ DOMAIN to_policy(p) = {1, 2}
         /\ \A k \in DOMAIN to_policy(p) : to_policy(p)[k].count \in Nat \ {0}
BY DEF AckPolicies, to_policy

\* A clause's cursor is a number.
LEMMA ClauseCursorIsNat ==
  ASSUME NEW nodes, IsView(nodes), NEW clause
  PROVE  ClauseCursor(clause, nodes) \in Nat
<1> DEFINE i == nth_largest_with_node(nodes, clause.level, clause.count)
<1>1. CASE i = NoNode
  BY <1>1 DEF ClauseCursor, nth_largest_cursor
<1>2. CASE i # NoNode
  <2>1. i \in DOMAIN nodes
    BY <1>2 DEF nth_largest_with_node
  <2>2. QED
    BY <1>2, <2>1, EffectiveIsNat DEF ClauseCursor, nth_largest_cursor
<1>3. QED
  BY <1>1, <1>2

\* evaluate_with_status returns the least clause cursor, or 0.
LEMMA DurablePosIsLeast ==
  ASSUME NEW p \in AckPolicies, NEW nodes, IsView(nodes)
  PROVE  /\ durable_pos(p, nodes) \in Nat
         /\ \A k \in DOMAIN to_policy(p) :
              durable_pos(p, nodes) <= ClauseCursor(to_policy(p)[k], nodes)
<1> DEFINE clauses == to_policy(p)
           values == {ClauseCursor(clauses[k], nodes) : k \in DOMAIN clauses}
           result == CHOOSE v \in values : \A w \in values : v <= w
<1>1. \A k \in DOMAIN clauses : ClauseCursor(clauses[k], nodes) \in Nat
  BY ClauseCursorIsNat
<1>2. \E v \in values : \A w \in values : v <= w
  <2>1. CASE DOMAIN clauses = {1}
    BY <2>1, <1>1
  <2>2. CASE DOMAIN clauses = {1, 2}
    <3>1. values = {ClauseCursor(clauses[1], nodes), ClauseCursor(clauses[2], nodes)}
      BY <2>2
    <3> QED
      BY <3>1, <2>2, <1>1
  <2>3. QED
    BY <2>1, <2>2, PolicyClauses
<1>3. result \in values /\ \A w \in values : result <= w
  BY <1>2
<1>4. durable_pos(p, nodes) = IF result = U64MAX THEN 0 ELSE result
  BY DEF durable_pos
<1> HIDE DEF result
<1>5. result \in Nat
  BY <1>1, <1>3
<1>6. QED
  BY <1>1, <1>3, <1>4, <1>5

\* The position evaluate_with_status returns is held as the policy demands:
\* each clause's count of nodes hold it at the clause's level.
THEOREM DurablePosIsHeld ==
  ASSUME NEW p \in AckPolicies, NEW nodes, IsView(nodes), durable_pos(p, nodes) > 0
  PROVE  Satisfied(p, nodes, durable_pos(p, nodes))
<1> DEFINE s == durable_pos(p, nodes)
<1>1. s \in Nat \ {0}
  BY DurablePosIsLeast
<1> HIDE DEF s
<1>2. ASSUME NEW k \in DOMAIN to_policy(p)
      PROVE  Cardinality(Holders(nodes, to_policy(p)[k].level, s)) >= to_policy(p)[k].count
  <2>1. nth_largest_cursor(nodes, to_policy(p)[k].level, to_policy(p)[k].count) >= s
    BY DurablePosIsLeast, ClauseCursorIsNat, <1>1 DEF ClauseCursor, s
  <2>2. to_policy(p)[k].count \in Nat \ {0}
    BY PolicyClauses
  <2>3. QED
    BY <2>1, <2>2, <1>1, NthLargestIsHeld
<1>3. QED
  BY <1>2 DEF Satisfied, Holders, s

\* A view has grown into another: no node left, no cursor moved back.
Grown(v, w) ==
  /\ DOMAIN v \subseteq DOMAIN w
  /\ \A i \in DOMAIN v : v[i].mem <= w[i].mem /\ v[i].disk <= w[i].disk

\* What a policy demands of an entry stays met as the cluster's cursors
\* advance, and is met for every earlier entry.
THEOREM SatisfiedIsStable ==
  ASSUME NEW p \in AckPolicies, NEW v, NEW w, IsView(v), IsView(w), Grown(v, w),
         NEW s \in Nat, NEW t \in Nat, t <= s, Satisfied(p, v, s)
  PROVE  Satisfied(p, w, t)
<1>1. ASSUME NEW k \in DOMAIN to_policy(p)
      PROVE  Cardinality(Holders(w, to_policy(p)[k].level, t)) >= to_policy(p)[k].count
  <2> DEFINE level == to_policy(p)[k].level
             H == Holders(v, level, s)
             G == Holders(w, level, t)
  <2>1. H \subseteq G
    <3>1. ASSUME NEW i \in H PROVE i \in G
      <4>1. i \in DOMAIN v /\ effective_cursor(v[i], level) >= s /\ i \in DOMAIN w
        BY DEF Holders, Grown
      <4>2. v[i] \in [mem : Nat, disk : Nat] /\ w[i] \in [mem : Nat, disk : Nat]
        BY <4>1 DEF IsView
      <4>3. v[i].mem <= w[i].mem /\ v[i].disk <= w[i].disk
        BY <4>1 DEF Grown
      <4>4. effective_cursor(w[i], level) >= effective_cursor(v[i], level)
        BY <4>2, <4>3 DEF effective_cursor
      <4>5. effective_cursor(w[i], level) >= t
        BY <4>1, <4>4, EffectiveIsNat
      <4>6. QED
        BY <4>1, <4>5 DEF Holders
    <3>2. QED
      BY <3>1
  <2>2. IsFiniteSet(G)
    BY FS_Subset DEF Holders, IsView
  <2>3. Cardinality(H) <= Cardinality(G) /\ Cardinality(H) \in Nat /\ Cardinality(G) \in Nat
    BY <2>1, <2>2, FS_Subset, FS_CardinalityType
  <2>4. Cardinality(H) >= to_policy(p)[k].count
    BY DEF Satisfied, Holders
  <2>5. to_policy(p)[k].count \in Nat
    BY PolicyClauses
  <2>6. QED
    BY <2>3, <2>4, <2>5
<1>2. QED
  BY <1>1 DEF Satisfied, Holders

-----------------------------------------------------------------------------
(* The position is the highest one held, and the loop finds it *)

\* A nonempty set of numbers has a least one.
LEMMA LeastOf ==
  ASSUME NEW S, S \subseteq Nat, S # {}
  PROVE  \E x \in S : \A y \in S : x <= y
<1>1. \E x \in S : \A y \in S : ~(<<y, x>> \in OpToRel(<, Nat))
  BY WFMin, NatLessThanWellFounded
<1>2. PICK x \in S : \A y \in S : ~(y < x)
  BY <1>1 DEF OpToRel
<1>3. \A y \in S : x \in Nat /\ y \in Nat /\ ~(y < x)
  BY <1>2
<1>4. QED
  BY <1>3

\* What 0 has, and every number up to n that its predecessor hands it, n has.
LEMMA Climb ==
  ASSUME NEW n \in Nat, NEW T, 0 \in T, \A k \in 1..n : k - 1 \in T => k \in T
  PROVE  \A k \in 0..n : k \in T
<1> SUFFICES ASSUME NEW j \in 0..n, j \notin T PROVE FALSE
  OBVIOUS
<1> DEFINE S == {k \in 0..n : k \notin T}
<1>1. S \subseteq Nat /\ S # {}
  OBVIOUS
<1>2. PICK x \in S : \A y \in S : x <= y
  BY <1>1, LeastOf
<1>3. x \in 1..n /\ x - 1 \in 0..n /\ ~(x <= x - 1)
  BY <1>2
<1>4. x - 1 \in T
  BY <1>2, <1>3
<1>5. QED
  BY <1>2, <1>3, <1>4

Rank(nodes, level, i) == Cardinality(Ahead(nodes, level, i))

\* Ranks number the nodes of a view, the order being total (nth_largest_with_node:
\* the lowest index among equals).
LEMMA RankFacts ==
  ASSUME NEW nodes, IsView(nodes), NEW level
  PROVE  /\ \A i \in DOMAIN nodes : /\ IsFiniteSet(Ahead(nodes, level, i)) /\ i \notin Ahead(nodes, level, i)
                                    /\ Rank(nodes, level, i) \in Nat
         /\ \A i, j \in DOMAIN nodes :
              Before(nodes, level, j, i) => Rank(nodes, level, j) < Rank(nodes, level, i)
         /\ \A i, j \in DOMAIN nodes : i = j \/ Before(nodes, level, j, i) \/ Before(nodes, level, i, j)
         /\ \A i, j \in DOMAIN nodes : Rank(nodes, level, i) = Rank(nodes, level, j) => i = j
<1> DEFINE D == DOMAIN nodes
           A(i) == Ahead(nodes, level, i)
           B(j, i) == Before(nodes, level, j, i)
<1>1. IsFiniteSet(D) /\ D \subseteq Nat /\ \A i \in D : effective_cursor(nodes[i], level) \in Nat
  BY EffectiveIsNat DEF IsView
<1>2. /\ \A i \in D : ~B(i, i)
      /\ \A i, j \in D : i = j \/ B(i, j) \/ B(j, i)
      /\ \A i, j, k \in D : B(k, j) /\ B(j, i) => B(k, i)
  BY <1>1 DEF Before
<1> HIDE DEF B
<1>3. \A i \in D : A(i) = {j \in D : B(j, i)}
  BY DEF Ahead, B
<1> HIDE DEF A, D
<1>4. \A i \in D : A(i) \subseteq D /\ IsFiniteSet(A(i)) /\ i \notin A(i) /\ Cardinality(A(i)) \in Nat
  <2>1. \A i \in D : A(i) \subseteq D /\ i \notin A(i)
    BY <1>2, <1>3
  <2>2. \A i \in D : IsFiniteSet(A(i))
    BY <1>1, <2>1, FS_Subset
  <2>3. QED
    BY <2>1, <2>2, FS_CardinalityType
<1>5. ASSUME NEW i \in D, NEW j \in D, B(j, i) PROVE Cardinality(A(j)) < Cardinality(A(i))
  <2>1. A(j) \subseteq A(i) /\ j \in A(i) /\ j \notin A(j)
    BY <1>2, <1>3, <1>5
  <2>2. Cardinality(A(j)) <= Cardinality(A(i)) /\ (Cardinality(A(i)) = Cardinality(A(j)) => A(i) = A(j))
    BY <1>4, <2>1, FS_Subset
  <2>3. QED
    BY <1>4, <2>1, <2>2
<1>6. \A i, j \in D : Cardinality(A(i)) = Cardinality(A(j)) => i = j
  BY <1>2, <1>4, <1>5
<1>7. QED
  BY <1>2, <1>4, <1>5, <1>6 DEF Rank, A, B, D

\* Nodes of different ranks below n are at most n.
LEMMA FewBelow ==
  ASSUME NEW nodes, IsView(nodes), NEW level, NEW n \in Nat, NEW T, T \subseteq DOMAIN nodes,
         \A i \in T : Rank(nodes, level, i) < n
  PROVE  Cardinality(T) <= n
<1> SUFFICES ASSUME ~(Cardinality(T) <= n) PROVE FALSE
  OBVIOUS
<1> DEFINE f == [i \in T |-> Rank(nodes, level, i)]
<1>1. IsFiniteSet(T) /\ Cardinality(T) \in Nat
  BY FS_Subset, FS_CardinalityType DEF IsView
<1>2. IsFiniteSet(0..(n - 1)) /\ Cardinality(0..(n - 1)) = n
  <2>1. 0 \in Int /\ n - 1 \in Int
    OBVIOUS
  <2>2. /\ IsFiniteSet(0..(n - 1))
        /\ Cardinality(0..(n - 1)) = IF 0 > n - 1 THEN 0 ELSE (n - 1) - 0 + 1
    BY <2>1, FS_Interval
  <2>3. (IF 0 > n - 1 THEN 0 ELSE (n - 1) - 0 + 1) = n
    OBVIOUS
  <2>4. QED
    BY <2>2, <2>3
<1>3. \A i \in T : Rank(nodes, level, i) \in 0..(n - 1)
  <2>1. \A i \in T : Rank(nodes, level, i) \in Nat
    BY RankFacts
  <2>2. QED
    BY <2>1
<1>4. f \in [T -> 0..(n - 1)]
  BY <1>3
<1>5. Cardinality(0..(n - 1)) < Cardinality(T)
  BY <1>1, <1>2
<1>6. \E x, y \in T : x # y /\ f[x] = f[y]
  <2> DEFINE N == 0..(n - 1)
  <2>1. IsFiniteSet(N) /\ Cardinality(N) < Cardinality(T) /\ f \in [T -> N]
    BY <1>2, <1>4, <1>5
  <2> HIDE DEF N, f
  <2>2. QED
    BY <1>1, <2>1, FS_PigeonHole
<1>7. PICK x \in T, y \in T : x # y /\ f[x] = f[y]
  BY <1>6
<1>8. QED
  BY <1>7, RankFacts

\* Every rank below the size of the view is some node's.
LEMMA RankExists ==
  ASSUME NEW nodes, IsView(nodes), NEW level, NEW r \in Nat, r < Cardinality(DOMAIN nodes)
  PROVE  \E i \in DOMAIN nodes : Rank(nodes, level, i) = r
<1> DEFINE S == {Rank(nodes, level, i) : i \in {j \in DOMAIN nodes : Rank(nodes, level, j) >= r}}
<1>1. Cardinality(DOMAIN nodes) \in Nat /\ \A i \in DOMAIN nodes : Rank(nodes, level, i) \in Nat
  BY FS_CardinalityType, RankFacts DEF IsView
<1>2. S # {}
  <2> SUFFICES ASSUME \A i \in DOMAIN nodes : ~(Rank(nodes, level, i) >= r) PROVE FALSE
    OBVIOUS
  <2>1. \A i \in DOMAIN nodes : Rank(nodes, level, i) < r
    BY <1>1
  <2>2. Cardinality(DOMAIN nodes) <= r
    BY <2>1, FewBelow
  <2>3. QED
    BY <1>1, <2>2
<1>3. S \subseteq Nat
  BY <1>1
<1>4. PICK m \in S : \A y \in S : m <= y
  BY <1>2, <1>3, LeastOf
<1>5. PICK i \in DOMAIN nodes : Rank(nodes, level, i) = m /\ m >= r
  BY <1>4
<1>6. ASSUME NEW j \in Ahead(nodes, level, i) PROVE j \in DOMAIN nodes /\ Rank(nodes, level, j) < r
  <2>1. j \in DOMAIN nodes /\ Before(nodes, level, j, i)
    BY <1>6 DEF Ahead
  <2>2. Rank(nodes, level, j) < m
    BY <1>5, <2>1, RankFacts
  <2>3. Rank(nodes, level, j) \notin S
    BY <1>1, <1>3, <1>4, <2>1, <2>2
  <2>4. QED
    BY <1>1, <2>1, <2>3
<1>7. Rank(nodes, level, i) <= r
  BY <1>6, FewBelow DEF Rank
<1>8. QED
  BY <1>1, <1>5, <1>7

\* nth_largest_with_node finds the node of rank count - 1 whenever there are count.
LEMMA NthLargestIs ==
  ASSUME NEW nodes, IsView(nodes), NEW level, NEW count \in Nat \ {0},
         NEW n, n = nth_largest_with_node(nodes, level, count)
  PROVE  /\ Cardinality(DOMAIN nodes) \in Nat
         /\ count <= Cardinality(DOMAIN nodes) => n \in DOMAIN nodes /\ Rank(nodes, level, n) = count - 1
         /\ count > Cardinality(DOMAIN nodes) => n = NoNode
         /\ n = NoNode <=> count > Cardinality(DOMAIN nodes)
<1>1. Cardinality(DOMAIN nodes) \in Nat /\ \A i \in DOMAIN nodes : Rank(nodes, level, i) \in Nat
  BY FS_CardinalityType, RankFacts DEF IsView
<1>2. ASSUME count <= Cardinality(DOMAIN nodes)
      PROVE  n \in DOMAIN nodes /\ Rank(nodes, level, n) = count - 1
  <2>1. count - 1 \in Nat /\ count - 1 < Cardinality(DOMAIN nodes)
    BY <1>1, <1>2
  <2>2. \E i \in DOMAIN nodes : Rank(nodes, level, i) = count - 1
    BY <2>1, RankExists
  <2>3. QED
    BY <2>2 DEF nth_largest_with_node, Rank
<1>3. ASSUME count > Cardinality(DOMAIN nodes) PROVE n = NoNode
  <2>1. ASSUME NEW i \in DOMAIN nodes PROVE Rank(nodes, level, i) # count - 1
    <3>1. Ahead(nodes, level, i) \subseteq DOMAIN nodes /\ i \notin Ahead(nodes, level, i)
      BY RankFacts DEF Ahead
    <3>2. /\ Rank(nodes, level, i) <= Cardinality(DOMAIN nodes)
          /\ Rank(nodes, level, i) = Cardinality(DOMAIN nodes) => Ahead(nodes, level, i) = DOMAIN nodes
      BY <3>1, FS_Subset DEF Rank, IsView
    <3>3. QED
      BY <1>1, <1>3, <3>1, <3>2
  <2>2. QED
    BY <2>1 DEF nth_largest_with_node, Rank
<1>4. NoNode \notin DOMAIN nodes
  BY DEF NoNode, IsView
<1>5. QED
  BY <1>1, <1>2, <1>3, <1>4

\* What count nodes hold, the cursor of rank count - 1 has reached.
LEMMA HeldIsReached ==
  ASSUME NEW nodes, IsView(nodes), NEW level, NEW count \in Nat \ {0}, NEW s \in Nat,
         Cardinality(Holders(nodes, level, s)) >= count
  PROVE  nth_largest_cursor(nodes, level, count) >= s
<1> DEFINE H == Holders(nodes, level, s)
<1>1. PICK n : n = nth_largest_with_node(nodes, level, count)
  OBVIOUS
<1>2. H \subseteq DOMAIN nodes /\ IsFiniteSet(H) /\ Cardinality(H) \in Nat
      /\ Cardinality(H) <= Cardinality(DOMAIN nodes)
  <2>1. H \subseteq DOMAIN nodes
    BY DEF Holders
  <2>2. QED
    BY <2>1, FS_Subset, FS_CardinalityType DEF IsView
<1>3. n \in DOMAIN nodes /\ Rank(nodes, level, n) = count - 1 /\ n # NoNode
  <2>1. count <= Cardinality(DOMAIN nodes) /\ ~(count > Cardinality(DOMAIN nodes))
    <3>1. Cardinality(DOMAIN nodes) \in Nat
      BY FS_CardinalityType DEF IsView
    <3>2. QED
      BY <1>2, <3>1
  <2>2. QED
    BY <1>1, <2>1, NthLargestIs
<1>4. effective_cursor(nodes[n], level) >= s
  <2> SUFFICES ASSUME ~(effective_cursor(nodes[n], level) >= s) PROVE FALSE
    OBVIOUS
  <2>1. H \subseteq Ahead(nodes, level, n)
    <3>1. ASSUME NEW j \in H PROVE j \in Ahead(nodes, level, n)
      <4>1. j \in DOMAIN nodes /\ effective_cursor(nodes[j], level) >= s
        BY DEF Holders
      <4>2. effective_cursor(nodes[j], level) \in Nat /\ effective_cursor(nodes[n], level) \in Nat
        BY <1>3, <4>1, EffectiveIsNat
      <4>3. effective_cursor(nodes[j], level) > effective_cursor(nodes[n], level)
        BY <4>1, <4>2
      <4>4. QED
        BY <4>1, <4>3 DEF Ahead, Before
    <3>2. QED
      BY <3>1
  <2>2. IsFiniteSet(Ahead(nodes, level, n))
    BY <1>3, RankFacts
  <2>3. Cardinality(H) <= Rank(nodes, level, n)
    BY <2>1, <2>2, FS_Subset DEF Rank
  <2>4. QED
    BY <1>2, <1>3, <2>3
<1>5. QED
  BY <1>1, <1>3, <1>4 DEF nth_largest_cursor

\* u64::MAX is the primary's in-memory cursor and no other.
Bounded(nodes) ==
  \A i \in DOMAIN nodes : nodes[i].disk < U64MAX /\ (i # Primary => nodes[i].mem < U64MAX)

\* So no clause of a policy evaluates to the sentinel: in memory each asks for a
\* second node (to_policy).
LEMMA NoSentinel ==
  ASSUME NEW p \in AckPolicies, NEW nodes, IsView(nodes), Bounded(nodes), NEW k \in DOMAIN to_policy(p)
  PROVE  ClauseCursor(to_policy(p)[k], nodes) < U64MAX
<1>0. U64MAX \in Nat \ {0}
  BY U64MAXAssumption
<1>1. PICK level, count : level = to_policy(p)[k].level /\ count = to_policy(p)[k].count
  OBVIOUS
<1>2. /\ count \in {1, 2} /\ (level = Persisted \/ (level = InMemory /\ count = 2))
      /\ Persisted # InMemory
  BY <1>1 DEF AckPolicies, to_policy, InMemory, Persisted
<1>3. PICK n : n = nth_largest_with_node(nodes, level, count)
  OBVIOUS
<1>4. ClauseCursor(to_policy(p)[k], nodes) = IF n = NoNode THEN 0 ELSE effective_cursor(nodes[n], level)
  BY <1>1, <1>3 DEF ClauseCursor, nth_largest_cursor
<1>5. CASE n = NoNode
  BY <1>0, <1>4, <1>5
<1>6. CASE n # NoNode
  <2>1. /\ Cardinality(DOMAIN nodes) \in Nat
        /\ n \in DOMAIN nodes /\ Rank(nodes, level, n) = count - 1
    BY <1>2, <1>3, <1>6, NthLargestIs
  <2>2. \A i \in DOMAIN nodes : /\ nodes[i] \in [mem : Nat, disk : Nat]
                                /\ nodes[i].disk < U64MAX /\ (i # Primary => nodes[i].mem < U64MAX)
    BY DEF Bounded, IsView
  <2>3. CASE level = Persisted
    BY <1>4, <1>6, <2>1, <2>2, <2>3 DEF effective_cursor
  <2>4. CASE level = InMemory /\ count = 2
    <3>1. \A i \in DOMAIN nodes : i # Primary => effective_cursor(nodes[i], level) < U64MAX
      BY <2>2 DEF effective_cursor
    <3>2. Ahead(nodes, level, n) # {}
      BY <2>1, <2>4, FS_EmptySet DEF Rank
    <3>3. PICK j \in DOMAIN nodes : Before(nodes, level, j, n)
      BY <3>2 DEF Ahead
    <3>4. j # n
      BY <2>1, <3>3, RankFacts DEF Ahead
    <3>5. effective_cursor(nodes[j], level) >= effective_cursor(nodes[n], level)
          /\ effective_cursor(nodes[j], level) \in Nat /\ effective_cursor(nodes[n], level) \in Nat
      BY <2>1, <3>3, EffectiveIsNat DEF Before
    <3>6. effective_cursor(nodes[n], level) < U64MAX
      BY <1>0, <2>1, <3>1, <3>4, <3>5
    <3>7. QED
      BY <1>4, <1>6, <3>6
  <2>5. QED
    BY <1>2, <2>3, <2>4
<1>7. QED
  BY <1>5, <1>6

\* evaluate_with_status returns one of the clauses' cursors.
LEMMA DurablePosIsClause ==
  ASSUME NEW p \in AckPolicies, NEW nodes, IsView(nodes), Bounded(nodes)
  PROVE  \E k \in DOMAIN to_policy(p) : durable_pos(p, nodes) = ClauseCursor(to_policy(p)[k], nodes)
<1> DEFINE clauses == to_policy(p)
           values == {ClauseCursor(clauses[k], nodes) : k \in DOMAIN clauses}
           result == CHOOSE v \in values : \A w \in values : v <= w
<1>1. values \subseteq Nat
  BY ClauseCursorIsNat
<1>2. values # {}
  BY PolicyClauses
<1>3. \E v \in values : \A w \in values : v <= w
  BY <1>1, <1>2, LeastOf
<1>4. result \in values
  BY <1>3
<1>5. durable_pos(p, nodes) = IF result = U64MAX THEN 0 ELSE result
  BY DEF durable_pos
<1> HIDE DEF result
<1>6. PICK k \in DOMAIN clauses : result = ClauseCursor(clauses[k], nodes)
  BY <1>4
<1>7. result < U64MAX
  BY <1>6, NoSentinel
<1>8. result # U64MAX
  BY <1>1, <1>4, <1>7, U64MAXAssumption
<1>9. QED
  BY <1>5, <1>6, <1>8

\* Nothing above the position is held as the policy demands.
LEMMA SatisfiedIsBelow ==
  ASSUME NEW p \in AckPolicies, NEW nodes, IsView(nodes), Bounded(nodes),
         NEW s \in Nat, Satisfied(p, nodes, s)
  PROVE  s <= durable_pos(p, nodes)
<1>1. PICK k \in DOMAIN to_policy(p) : durable_pos(p, nodes) = ClauseCursor(to_policy(p)[k], nodes)
  BY DurablePosIsClause
<1>2. PICK level, count : level = to_policy(p)[k].level /\ count = to_policy(p)[k].count
  OBVIOUS
<1>3. count \in Nat \ {0} /\ Cardinality(Holders(nodes, level, s)) >= count
  BY <1>2, PolicyClauses DEF Satisfied, Holders
<1>4. nth_largest_cursor(nodes, level, count) >= s
  BY <1>3, HeldIsReached
<1>5. ClauseCursor(to_policy(p)[k], nodes) = nth_largest_cursor(nodes, level, count)
  BY <1>2 DEF ClauseCursor
<1>6. nth_largest_cursor(nodes, level, count) \in Nat
  BY <1>5, ClauseCursorIsNat
<1>7. QED
  BY <1>1, <1>4, <1>5, <1>6

\* The nodes of a rank below r: what the loop has taken after r turns.
Taken(nodes, level, r) == {i \in DOMAIN nodes : Rank(nodes, level, i) < r}

\* The scan over the rest keeps the node of rank r.
LEMMA BestIs ==
  ASSUME NEW nodes, IsView(nodes), NEW level, NEW r \in Nat, NEW n \in DOMAIN nodes,
         Rank(nodes, level, n) = r
  PROVE  /\ Best(nodes, level, Taken(nodes, level, r)) = n
         /\ Taken(nodes, level, r + 1) = Taken(nodes, level, r) \cup {n}
<1> DEFINE R == DOMAIN nodes \ Taken(nodes, level, r)
           Good(i) == \A j \in R : \/ effective_cursor(nodes[j], level) < effective_cursor(nodes[i], level)
                                   \/ /\ effective_cursor(nodes[j], level) = effective_cursor(nodes[i], level)
                                      /\ i <= j
<1>1. \A i \in DOMAIN nodes : Rank(nodes, level, i) \in Nat /\ effective_cursor(nodes[i], level) \in Nat
  BY RankFacts, EffectiveIsNat
<1>2. DOMAIN nodes \subseteq Nat
  BY DEF IsView
<1>3. n \in R /\ \A i \in R : i \in DOMAIN nodes /\ Rank(nodes, level, i) >= r
  BY <1>1 DEF Taken
<1>4. \A i \in R : Good(i) <=> \A j \in R : ~Before(nodes, level, j, i)
  <2>1. ASSUME NEW i \in R, NEW j \in R
        PROVE  ~Before(nodes, level, j, i)
               <=> \/ effective_cursor(nodes[j], level) < effective_cursor(nodes[i], level)
                   \/ /\ effective_cursor(nodes[j], level) = effective_cursor(nodes[i], level)
                      /\ i <= j
    BY <1>1, <1>2, <1>3 DEF Before
  <2>2. QED
    BY <2>1
<1>5. \A j \in R : ~Before(nodes, level, j, n)
  BY <1>1, <1>3, RankFacts
<1>6. ASSUME NEW i \in R, \A j \in R : ~Before(nodes, level, j, i) PROVE i = n
  <2>1. Before(nodes, level, i, n) => Rank(nodes, level, i) < r
    BY <1>3, RankFacts
  <2>2. ~Before(nodes, level, n, i) /\ ~Before(nodes, level, i, n)
    BY <1>1, <1>3, <1>6, <2>1
  <2>3. QED
    BY <1>3, <2>2, RankFacts
<1>7. Best(nodes, level, Taken(nodes, level, r)) = CHOOSE i \in R : Good(i)
  BY DEF Best
<1> HIDE DEF Good, R
<1>8. Best(nodes, level, Taken(nodes, level, r)) = n
  <2>1. Good(n) /\ \A i \in R : Good(i) => i = n
    BY <1>3, <1>4, <1>5, <1>6
  <2>2. QED
    BY <1>3, <1>7, <2>1
<1>9. ASSUME NEW i \in DOMAIN nodes
      PROVE  Rank(nodes, level, i) < r + 1 <=> Rank(nodes, level, i) < r \/ i = n
  <2>1. Rank(nodes, level, i) = r <=> i = n
    BY RankFacts
  <2>2. QED
    BY <1>1, <2>1
<1>10. Taken(nodes, level, r + 1) = Taken(nodes, level, r) \cup {n}
  BY <1>9 DEF Taken
<1>11. QED
  BY <1>8, <1>10

\* t is the loop's run.
LoopRun(t, nodes, level, count) ==
  t = [r \in 0..count |-> IF r = 0 THEN {} ELSE t[r - 1] \cup {Best(nodes, level, t[r - 1])}]

\* The loop takes the nodes in the order of their ranks.
LEMMA LoopTakes ==
  ASSUME NEW nodes, IsView(nodes), NEW level, NEW count \in Nat \ {0}, count <= Cardinality(DOMAIN nodes)
  PROVE  LoopTaken(nodes, level, count) = nth_largest_with_node(nodes, level, count)
<1> DEFINE L(r) == Taken(nodes, level, r)
           F == [r \in 0..count |-> L(r)]
           Step(r) == L(r - 1) \cup {Best(nodes, level, L(r - 1))}
           taken == CHOOSE t : LoopRun(t, nodes, level, count)
<1>0. Cardinality(DOMAIN nodes) \in Nat /\ \A i \in DOMAIN nodes : Rank(nodes, level, i) \in Nat
  BY FS_CardinalityType, RankFacts DEF IsView
<1>1. L(0) = {}
  BY <1>0 DEF Taken
<1>2. ASSUME NEW r \in 1..count PROVE L(r) = Step(r)
  <2>1. r - 1 \in Nat /\ r - 1 < Cardinality(DOMAIN nodes) /\ (r - 1) + 1 = r
    BY <1>0
  <2>2. PICK n \in DOMAIN nodes : Rank(nodes, level, n) = r - 1
    BY <2>1, RankExists
  <2> DEFINE q == r - 1
  <2>3. q \in Nat /\ q + 1 = r /\ Rank(nodes, level, n) = q
    BY <2>1, <2>2
  <2> HIDE DEF q
  <2>4. Best(nodes, level, L(q)) = n /\ Taken(nodes, level, q + 1) = L(q) \cup {n}
    BY <2>3, BestIs
  <2>5. QED
    BY <2>3, <2>4 DEF q
<1> HIDE DEF L
<1>3. LoopRun(F, nodes, level, count)
  <2>1. ASSUME NEW r \in 0..count
        PROVE  F[r] = IF r = 0 THEN {} ELSE F[r - 1] \cup {Best(nodes, level, F[r - 1])}
    <3>1. CASE r = 0
      BY <1>1, <3>1
    <3>2. CASE r # 0
      <4>1. r \in 1..count /\ r - 1 \in 0..count
        BY <3>2
      <4>2. F[r - 1] = L(r - 1) /\ F[r] = L(r)
        BY <4>1
      <4>3. QED
        BY <1>2, <3>2, <4>1, <4>2
    <3>3. QED
      BY <3>1, <3>2
  <2> DEFINE W(r) == IF r = 0 THEN {} ELSE F[r - 1] \cup {Best(nodes, level, F[r - 1])}
  <2>2. \A r \in 0..count : F[r] = W(r)
    BY <2>1
  <2>3. F = [r \in 0..count |-> F[r]]
    OBVIOUS
  <2>4. [r \in 0..count |-> F[r]] = [r \in 0..count |-> W(r)]
    <3> HIDE DEF W, F
    <3> QED
      BY <2>2, Zenon
  <2>5. F = [r \in 0..count |-> W(r)]
    BY <2>3, <2>4, Zenon
  <2>6. QED
    BY <2>5 DEF LoopRun
<1>4. LoopRun(taken, nodes, level, count)
  BY <1>3, Zenon
<1>5. LoopTaken(nodes, level, count) = CHOOSE i \in taken[count] : i \notin taken[count - 1]
  <2>1. ~(count > Cardinality(DOMAIN nodes))
    BY <1>0
  <2>2. QED
    BY <2>1 DEF LoopTaken, LoopRun
<1> HIDE DEF taken
<1>6. \A r \in 0..count : taken[r] = IF r = 0 THEN {} ELSE taken[r - 1] \cup {Best(nodes, level, taken[r - 1])}
  BY <1>4 DEF LoopRun
<1>7. \A r \in 0..count : taken[r] = L(r)
  <2> DEFINE T == {r \in 0..count : taken[r] = L(r)}
  <2>1. 0 \in T
    <3>1. 0 \in 0..count
      OBVIOUS
    <3>2. taken[0] = {}
      BY <1>6, <3>1
    <3>3. QED
      BY <1>1, <3>1, <3>2
  <2>2. ASSUME NEW r \in 1..count, r - 1 \in T PROVE r \in T
    <3>1. r \in 0..count /\ r # 0 /\ taken[r - 1] = L(r - 1)
      BY <2>2
    <3>2. taken[r] = taken[r - 1] \cup {Best(nodes, level, taken[r - 1])}
      BY <1>6, <3>1
    <3>3. QED
      BY <1>2, <3>1, <3>2
  <2> HIDE DEF T
  <2>3. \A r \in 0..count : r \in T
    BY <2>1, <2>2, Climb
  <2>4. QED
    BY <2>3 DEF T
<1>8. PICK n : n = nth_largest_with_node(nodes, level, count)
  OBVIOUS
<1>9. n \in DOMAIN nodes /\ Rank(nodes, level, n) = count - 1
  BY <1>8, NthLargestIs
<1>10. n \in L(count) /\ n \notin L(count - 1) /\ \A i \in L(count) : i \notin L(count - 1) => i = n
  <2>1. \A i \in DOMAIN nodes : (i \in L(count) <=> Rank(nodes, level, i) < count)
                                /\ (i \in L(count - 1) <=> Rank(nodes, level, i) < count - 1)
    BY DEF L, Taken
  <2>2. \A i \in L(count) : i \in DOMAIN nodes
    BY DEF L, Taken
  <2>3. ASSUME NEW i \in L(count), i \notin L(count - 1) PROVE i = n
    <3>1. i \in DOMAIN nodes /\ Rank(nodes, level, i) = count - 1
      BY <1>0, <2>1, <2>2, <2>3
    <3>2. QED
      BY <1>9, <3>1, RankFacts
  <2>4. QED
    BY <1>0, <1>9, <2>1, <2>3
<1>11. taken[count] = L(count) /\ taken[count - 1] = L(count - 1)
  BY <1>7
<1>12. QED
  BY <1>5, <1>8, <1>10, <1>11

\* The clause attribute_blocker settles on has the least cursor.
Binding(p, nodes) ==
  CHOOSE k \in DOMAIN to_policy(p) :
    \A m \in DOMAIN to_policy(p) :
      \/ ClauseCursor(to_policy(p)[k], nodes) < ClauseCursor(to_policy(p)[m], nodes)
      \/ ClauseCursor(to_policy(p)[k], nodes) = ClauseCursor(to_policy(p)[m], nodes) /\ k <= m

LEMMA BindingIsLeast ==
  ASSUME NEW p \in AckPolicies, NEW nodes, IsView(nodes), Bounded(nodes)
  PROVE  /\ Binding(p, nodes) \in DOMAIN to_policy(p)
         /\ ClauseCursor(to_policy(p)[Binding(p, nodes)], nodes) = durable_pos(p, nodes)
<1> DEFINE D == DOMAIN to_policy(p)
           V(k) == ClauseCursor(to_policy(p)[k], nodes)
           Least(k) == \A m \in D : V(k) < V(m) \/ (V(k) = V(m) /\ k <= m)
           b == Binding(p, nodes)
<1>1. \A k \in D : V(k) \in Nat
  BY ClauseCursorIsNat
<1>2. D = {1} \/ D = {1, 2}
  BY PolicyClauses
<1>3. b = CHOOSE k \in D : Least(k)
  BY DEF Binding
<1>4. PICK k \in D : durable_pos(p, nodes) = V(k)
  BY DurablePosIsClause
<1>5. \A m \in D : durable_pos(p, nodes) <= V(m)
  BY DurablePosIsLeast
<1> HIDE DEF D, V, b
<1>6. \E m \in D : Least(m)
  <2>1. CASE D = {1}
    BY <2>1
  <2>2. CASE D = {1, 2}
    <3>1. V(1) \in Nat /\ V(2) \in Nat
      BY <1>1, <2>2
    <3>2. Least(1) \/ Least(2)
      BY <2>2, <3>1
    <3>3. QED
      BY <2>2, <3>2
  <2>3. QED
    BY <1>2, <2>1, <2>2
<1>7. b \in D /\ Least(b)
  <2> HIDE DEF Least
  <2> QED
    BY <1>3, <1>6
<1>8. V(b) <= V(k) /\ V(k) <= V(b)
  BY <1>1, <1>4, <1>5, <1>7
<1>9. V(b) = V(k)
  BY <1>1, <1>4, <1>7, <1>8
<1>10. QED
  BY <1>4, <1>7, <1>9 DEF D, V, b

LEMMA AttributionNames ==
  ASSUME NEW p \in AckPolicies, NEW nodes, IsView(nodes), Bounded(nodes)
  PROVE  /\ (attribute_blocker(p, nodes) = "None") <=> degraded(p, nodes)
         /\ attribute_blocker(p, nodes) # "None" =>
              \E i \in DOMAIN nodes :
                /\ attribute_blocker(p, nodes) = IF i = Primary THEN "Journal" ELSE "Replication"
                /\ \E k \in DOMAIN to_policy(p) :
                     effective_cursor(nodes[i], to_policy(p)[k].level) = durable_pos(p, nodes)
<1> DEFINE D == DOMAIN to_policy(p)
           node(k) == nth_largest_with_node(nodes, to_policy(p)[k].level, to_policy(p)[k].count)
           blocker == attribute_blocker(p, nodes)
           b == Binding(p, nodes)
<1>1. b \in D /\ ClauseCursor(to_policy(p)[b], nodes) = durable_pos(p, nodes)
  BY BindingIsLeast
<1>2. blocker = IF \E k \in D : node(k) = NoNode THEN "None"
                ELSE IF node(b) = Primary THEN "Journal" ELSE "Replication"
  BY DEF attribute_blocker, Binding
<1> HIDE DEF b
<1>3. \A k \in D : to_policy(p)[k].count \in Nat \ {0}
  BY PolicyClauses
<1>4. \A k \in D : node(k) = NoNode <=> to_policy(p)[k].count > Cardinality(DOMAIN nodes)
  BY <1>3, NthLargestIs
<1>5. ASSUME node(b) # NoNode
      PROVE  node(b) \in DOMAIN nodes /\ effective_cursor(nodes[node(b)], to_policy(p)[b].level) = durable_pos(p, nodes)
  <2>1. node(b) \in DOMAIN nodes
    BY <1>5 DEF nth_largest_with_node
  <2>2. ClauseCursor(to_policy(p)[b], nodes) = effective_cursor(nodes[node(b)], to_policy(p)[b].level)
    BY <1>5 DEF ClauseCursor, nth_largest_cursor
  <2>3. QED
    BY <1>1, <2>1, <2>2
<1> HIDE DEF node, blocker
<1>6. (blocker = "None") <=> \E k \in D : node(k) = NoNode
  BY <1>2
<1>7. (blocker = "None") <=> degraded(p, nodes)
  BY <1>4, <1>6 DEF degraded
<1>8. blocker # "None" => node(b) # NoNode /\ blocker = IF node(b) = Primary THEN "Journal" ELSE "Replication"
  BY <1>1, <1>2, <1>6
<1>9. QED
  BY <1>1, <1>5, <1>7, <1>8 DEF blocker

\* Cursors before they advance.
Within(nodes) ==
  \A i \in DOMAIN nodes : nodes[i].disk <= MaxSeq /\ (i # Primary => nodes[i].mem <= MaxSeq)

\* The views enumerated are views the code can build, and grow.
ViewsInv ==
  /\ asked \in AckPolicies
  /\ IsView(shown) /\ Within(shown) /\ IsView(grown) /\ Bounded(grown) /\ Grown(shown, grown)

LEMMA WithinBounds ==
  ASSUME NEW nodes, IsView(nodes), Within(nodes)
  PROVE  Bounded(nodes)
<1>1. U64MAX \in Nat /\ MaxSeq \in Nat /\ MaxSeq + 1 < U64MAX
  BY U64MAXAssumption, ViewsAssumption
<1>2. \A i \in DOMAIN nodes : nodes[i] \in [mem : Nat, disk : Nat]
  BY DEF IsView
<1>3. QED
  BY <1>1, <1>2 DEF Within, Bounded

LEMMA ViewsStart == ViewsInit => ViewsInv
<1> SUFFICES ASSUME ViewsInit PROVE ViewsInv
  OBVIOUS
<1>1. PICK slots \in SUBSET Peers : shown \in ViewsOf(slots)
  BY DEF ViewsInit
<1>2. /\ DOMAIN shown = slots \cup {Primary} /\ shown[Primary] \in PrimaryNodes
      /\ \A i \in slots : shown[i] \in ReplicaNodes
  BY <1>1 DEF ViewsOf
<1>3. U64MAX \in Nat /\ MaxSeq \in Nat /\ MaxSeq + 1 < U64MAX /\ Peers \subseteq Nat \ {0}
      /\ IsFiniteSet(Peers) /\ Primary = 0
  BY U64MAXAssumption, ViewsAssumption DEF Primary
<1>4. IsFiniteSet(DOMAIN shown) /\ DOMAIN shown \subseteq Nat
  <2>1. IsFiniteSet(slots)
    BY <1>3, FS_Subset
  <2>2. IsFiniteSet(slots \cup {Primary})
    BY <2>1, FS_AddElement
  <2>3. QED
    BY <1>2, <1>3, <2>2
<1>5. \A i \in DOMAIN shown : shown[i] \in [mem : Nat, disk : Nat] /\ shown[i].disk <= MaxSeq
                               /\ (i # Primary => shown[i].mem <= MaxSeq)
  <2>1. \A d \in Cursors : d \in Nat /\ d <= MaxSeq
    BY <1>3 DEF Cursors
  <2>2. shown[Primary] \in [mem : Nat, disk : Nat] /\ shown[Primary].disk <= MaxSeq
    BY <1>2, <1>3, <2>1 DEF PrimaryNodes
  <2>3. \A i \in slots : shown[i] \in [mem : Nat, disk : Nat] /\ shown[i].disk <= MaxSeq /\ shown[i].mem <= MaxSeq
    BY <1>2, <2>1 DEF ReplicaNodes
  <2>4. QED
    BY <1>2, <2>2, <2>3
<1>6. shown = [i \in DOMAIN shown |-> shown[i]]
  BY <1>1 DEF ViewsOf
<1>7. IsView(shown) /\ Within(shown)
  BY <1>4, <1>5, <1>6 DEF IsView, Within
<1>8. Grown(shown, shown)
  BY <1>5 DEF Grown
<1>9. QED
  BY <1>7, <1>8, WithinBounds DEF ViewsInit, ViewsInv

\* A view that one step of another has grown.
LEMMA GrownView ==
  ASSUME NEW v, IsView(v), Within(v), NEW w, NEW i \in Nat,
         NEW n \in [mem : Nat, disk : Nat], n.disk < U64MAX, i # Primary => n.mem < U64MAX,
         i \in DOMAIN v => v[i].mem <= n.mem /\ v[i].disk <= n.disk,
         w = [j \in DOMAIN v \cup {i} |-> IF j = i THEN n ELSE v[j]]
  PROVE  IsView(w) /\ Bounded(w) /\ Grown(v, w)
<1>1. IsFiniteSet(DOMAIN v \cup {i}) /\ DOMAIN v \cup {i} \subseteq Nat
  BY FS_AddElement DEF IsView
<1>2. DOMAIN w = DOMAIN v \cup {i} /\ w[i] = n /\ \A j \in DOMAIN v : j # i => w[j] = v[j]
  OBVIOUS
<1>3. \A j \in DOMAIN v : v[j] \in [mem : Nat, disk : Nat]
  BY DEF IsView
<1>4. Bounded(v)
  BY WithinBounds
<1>5. IsView(w)
  <2>1. \A j \in DOMAIN w : w[j] \in [mem : Nat, disk : Nat]
    BY <1>2, <1>3
  <2>2. w = [j \in DOMAIN w |-> w[j]]
    BY <1>2
  <2>3. QED
    BY <1>1, <1>2, <2>1, <2>2 DEF IsView
<1>6. Bounded(w)
  BY <1>2, <1>4 DEF Bounded
<1>7. Grown(v, w)
  <2>1. ASSUME NEW j \in DOMAIN v PROVE v[j].mem <= w[j].mem /\ v[j].disk <= w[j].disk
    <3>1. CASE j = i
      BY <1>2, <3>1
    <3>2. CASE j # i
      BY <1>2, <1>3, <3>2
    <3>3. QED
      BY <3>1, <3>2
  <2>2. QED
    BY <1>2, <2>1 DEF Grown
<1>8. QED
  BY <1>5, <1>6, <1>7

LEMMA ViewsStep == ViewsInv /\ [Grow]_viewsVars => ViewsInv'
<1> SUFFICES ASSUME ViewsInv, [Grow]_viewsVars PROVE ViewsInv'
  OBVIOUS
<1>1. CASE UNCHANGED viewsVars
  BY <1>1 DEF ViewsInv, viewsVars, IsView, Within, Bounded, Grown
<1>2. CASE Grow
  <2>1. U64MAX \in Nat /\ MaxSeq \in Nat /\ MaxSeq + 1 < U64MAX /\ Peers \subseteq Nat \ {0} /\ Primary = 0
    BY U64MAXAssumption, ViewsAssumption DEF Primary
  <2>2. PICK v : v = shown
    OBVIOUS
  <2>3. IsView(v) /\ Within(v) /\ UNCHANGED <<asked, shown>>
    BY <1>2, <2>2 DEF ViewsInv, Grow
  <2>4. PICK w : w = grown'
    OBVIOUS
  <2>5. IsView(w) /\ Bounded(w) /\ Grown(v, w)
    <3>1. ASSUME NEW i \in DOMAIN v, NEW n \in Advanced(i), w = [v EXCEPT ![i] = n]
          PROVE  IsView(w) /\ Bounded(w) /\ Grown(v, w)
      <4>1. /\ v[i] \in [mem : Nat, disk : Nat] /\ v[i].disk <= MaxSeq /\ (i # Primary => v[i].mem <= MaxSeq)
            /\ i \in Nat
        BY <2>3 DEF IsView, Within
      <4>2. PICK m, d : /\ n = [mem |-> m, disk |-> d] /\ d \in {v[i].disk, v[i].disk + 1}
                        /\ m \in IF i = Primary THEN {v[i].mem} ELSE {v[i].mem, v[i].mem + 1}
        BY <2>2 DEF Advanced
      <4>3. /\ n \in [mem : Nat, disk : Nat] /\ n.disk < U64MAX /\ (i # Primary => n.mem < U64MAX)
            /\ v[i].mem <= n.mem /\ v[i].disk <= n.disk
        BY <2>1, <4>1, <4>2
      <4>4. w = [j \in DOMAIN v \cup {i} |-> IF j = i THEN n ELSE v[j]]
        <5>1. DOMAIN v \cup {i} = DOMAIN v
          OBVIOUS
        <5>2. QED
          BY <3>1, <5>1
      <4>5. QED
        BY <2>3, <4>1, <4>3, <4>4, GrownView
    <3>2. ASSUME NEW i \in Peers \ DOMAIN v, NEW r \in ReplicaNodes,
                 w = [j \in DOMAIN v \cup {i} |-> IF j = i THEN r ELSE v[j]]
          PROVE  IsView(w) /\ Bounded(w) /\ Grown(v, w)
      <4>1. r \in [mem : Nat, disk : Nat] /\ r.disk < U64MAX /\ r.mem < U64MAX /\ i \in Nat
        BY <2>1 DEF ReplicaNodes, Cursors
      <4>2. QED
        BY <2>3, <3>2, <4>1, GrownView
    <3>3. \/ \E i \in DOMAIN v : \E n \in Advanced(i) : w = [v EXCEPT ![i] = n]
          \/ \E i \in Peers \ DOMAIN v : \E r \in ReplicaNodes :
               w = [j \in DOMAIN v \cup {i} |-> IF j = i THEN r ELSE v[j]]
      <4>1. \/ \E i \in DOMAIN shown : \E n \in Advanced(i) : grown' = [shown EXCEPT ![i] = n]
            \/ \E i \in Peers \ DOMAIN shown : \E r \in ReplicaNodes :
                 grown' = [j \in DOMAIN shown \cup {i} |-> IF j = i THEN r ELSE shown[j]]
        BY <1>2, Zenon DEF Grow
      <4>2. CASE \E i \in DOMAIN shown : \E n \in Advanced(i) : grown' = [shown EXCEPT ![i] = n]
        BY <2>2, <2>4, <4>2
      <4>3. CASE \E i \in Peers \ DOMAIN shown : \E r \in ReplicaNodes :
                   grown' = [j \in DOMAIN shown \cup {i} |-> IF j = i THEN r ELSE shown[j]]
        <5>1. PICK i \in Peers \ DOMAIN shown, r \in ReplicaNodes :
                grown' = [j \in DOMAIN shown \cup {i} |-> IF j = i THEN r ELSE shown[j]]
          BY <4>3
        <5>2. w = [j \in DOMAIN v \cup {i} |-> IF j = i THEN r ELSE v[j]]
          BY <2>2, <2>4, <5>1
        <5>3. QED
          BY <2>2, <5>1, <5>2
      <4>4. QED
        BY <4>1, <4>2, <4>3
    <3>4. QED
      BY <3>1, <3>2, <3>3
  <2>6. IsView(grown') /\ Bounded(grown') /\ Grown(shown', grown')
    BY <2>2, <2>3, <2>4, <2>5
  <2>7. IsView(shown') /\ Within(shown') /\ asked' \in AckPolicies
    BY <2>2, <2>3 DEF ViewsInv
  <2>8. QED
    BY <2>6, <2>7 DEF ViewsInv, IsView, Within, Bounded, Grown
<1>3. QED
  BY <1>1, <1>2

\* What evaluation and attribution say of a view, and of what it grows into.
LEMMA ViewsSound == ViewsInv => EvaluationSound
<1> SUFFICES ASSUME ViewsInv PROVE EvaluationSound
  OBVIOUS
<1>0. PICK p, v, w : p = asked /\ v = shown /\ w = grown
  OBVIOUS
<1>1. p \in AckPolicies /\ IsView(v) /\ IsView(w) /\ Bounded(v) /\ Bounded(w) /\ Grown(v, w)
  BY <1>0, WithinBounds DEF ViewsInv
<1>2. SelectionMatchesLoop
  <2> SUFFICES ASSUME NEW level \in {InMemory, Persisted}, NEW count \in 1..(Cardinality(DOMAIN w) + 1)
               PROVE  nth_largest_with_node(w, level, count) = LoopTaken(w, level, count)
    BY <1>0 DEF SelectionMatchesLoop
  <2>1. Cardinality(DOMAIN w) \in Nat
    BY <1>1, FS_CardinalityType DEF IsView
  <2>2. count \in Nat \ {0}
    BY <2>1
  <2>3. CASE count <= Cardinality(DOMAIN w)
    BY <1>1, <2>2, <2>3, LoopTakes
  <2>4. CASE count > Cardinality(DOMAIN w)
    <3>1. nth_largest_with_node(w, level, count) = NoNode
      BY <1>1, <2>2, <2>4, NthLargestIs
    <3>2. LoopTaken(w, level, count) = NoNode
      BY <2>4 DEF LoopTaken
    <3>3. QED
      BY <3>1, <3>2
  <2>5. QED
    BY <2>1, <2>2, <2>3, <2>4
<1>3. durable_pos(p, v) \in Nat /\ durable_pos(p, w) \in Nat
  BY <1>1, DurablePosIsLeast
<1>4. EvaluateIsHighestSatisfied
  <2>1. ASSUME NEW s \in 1..(MaxSeq + 2), Satisfied(p, w, s) PROVE s <= durable_pos(p, w)
    <3>1. s \in Nat
      BY ViewsAssumption
    <3>2. QED
      BY <1>1, <2>1, <3>1, SatisfiedIsBelow
  <2>2. durable_pos(p, w) > 0 => Satisfied(p, w, durable_pos(p, w))
    BY <1>1, DurablePosIsHeld
  <2>3. QED
    BY <1>0, <2>1, <2>2 DEF EvaluateIsHighestSatisfied
<1>5. EvaluateMonotone
  <2>1. durable_pos(p, v) <= durable_pos(p, w)
    <3>1. CASE durable_pos(p, v) = 0
      BY <1>3, <3>1
    <3>2. CASE durable_pos(p, v) > 0
      <4>1. Satisfied(p, v, durable_pos(p, v))
        BY <1>1, <3>2, DurablePosIsHeld
      <4>2. Satisfied(p, w, durable_pos(p, v))
        BY <1>1, <1>3, <4>1, SatisfiedIsStable
      <4>3. QED
        BY <1>1, <1>3, <4>2, SatisfiedIsBelow
    <3>3. QED
      BY <1>3, <3>1, <3>2
  <2>2. ASSUME degraded(p, w) PROVE degraded(p, v)
    <3>1. PICK k \in DOMAIN to_policy(p) : to_policy(p)[k].count > Cardinality(DOMAIN w)
      BY <2>2 DEF degraded
    <3>2. /\ Cardinality(DOMAIN v) <= Cardinality(DOMAIN w)
          /\ Cardinality(DOMAIN v) \in Nat /\ Cardinality(DOMAIN w) \in Nat
      BY <1>1, FS_Subset, FS_CardinalityType DEF Grown, IsView
    <3>3. to_policy(p)[k].count > Cardinality(DOMAIN v)
      BY <1>1, <3>1, <3>2, PolicyClauses
    <3>4. QED
      BY <3>3 DEF degraded
  <2>3. QED
    BY <1>0, <2>1, <2>2 DEF EvaluateMonotone
<1>6. AttributionNamesTheBinding
  <2> DEFINE blocker == attribute_blocker(p, w)
             supplies(i) == \E k \in DOMAIN to_policy(p) :
                              effective_cursor(w[i], to_policy(p)[k].level) = durable_pos(p, w)
  <2>1. /\ (blocker = "None") <=> degraded(p, w)
        /\ blocker # "None" => \E i \in DOMAIN w :
             blocker = (IF i = Primary THEN "Journal" ELSE "Replication") /\ supplies(i)
    BY <1>1, AttributionNames
  <2> HIDE DEF blocker, supplies
  <2>2. blocker = "Journal" => supplies(Primary)
    BY <2>1
  <2>3. blocker = "Replication" => \E i \in DOMAIN w \ {Primary} : supplies(i)
    BY <2>1
  <2>4. QED
    BY <1>0, <2>1, <2>2, <2>3 DEF AttributionNamesTheBinding, blocker, supplies
<1>7. QED
  BY <1>2, <1>4, <1>5, <1>6 DEF EvaluationSound

\* The evaluation of a policy over views of any number of nodes and any cursors: the
\* loop of maxima finds the node of the clause's rank, ties included; the durable
\* position is held and none above it is; an ack, an fsync or a joining replica never
\* moves it back or degrades the policy; and a wait is blamed on the subsystem whose
\* node sits at the position (nth_largest_with_node, evaluate_with_status,
\* attribute_blocker).
THEOREM EvaluationAlwaysSound == ViewsSpec => []EvaluationSound
<1> QED
  BY ViewsStart, ViewsStep, ViewsSound, PTL DEF ViewsSpec

-----------------------------------------------------------------------------
(* The gate *)

\* An unwitnessed entry is a change, and so is what the forced cell holds.
LogInv ==
  /\ \A c \in 1..Len(log) : log[c].unwitnessed => IsChange(c)
  /\ forced # None => log[forced].unwitnessed

\* A slot's cursors are behind what its occupant holds, and a free slot has
\* none left (record_ack, seed_on_handshake, clear_on_disconnect).
SlotBehind(r) ==
  /\ r.mem > 0 => r.occ \in Replicas /\ r.mem <= held[r.occ]
  /\ r.acked > 0 => r.occ \in Replicas /\ r.acked <= disk[r.occ]
  /\ r.phase = "free" => r.mem = 0 /\ r.acked = 0

SlotsBehind ==
  /\ \A n \in Replicas : disk[n] <= held[n]
  /\ \A i \in Slots : SlotBehind(slot[i])

\* A view's cursors are behind what the nodes they were loaded from hold.  The
\* two cursors of a slot may be two replicas'.
LoadedFrom(v, by, h) ==
  \A i \in DOMAIN v :
    /\ v[i].mem > 0 => \E n \in by[i] : v[i].mem <= h[n].mem
    /\ v[i].disk > 0 => \E n \in by[i] : v[i].disk <= h[n].disk

\* What the evaluation in progress has loaded is behind what the nodes hold.
ReadsBehind ==
  /\ look <= jpos
  /\ LoadedFrom(view, from, Holdings)
  /\ pc = "acked" /\ mem > 0 => \E n \in from[at] : mem <= Holdings[n].mem

\* The gate is between taking a slot off the ring and releasing it.
Turn == pc \in {"pending", "slot"} \/ why \in {"pending", "slot"}

\* The last entry whose own slot the gate has dealt with.
Done == IF Turn /\ ~extra THEN seq - 1 ELSE seq

\* A wait for the slot is a wait for its entry, and a slot that goes on under
\* the policy has no change pending before it (admit_pending).
TurnInv ==
  /\ why = "slot" => need = seq
  /\ pc = "idle" => why = "idle"
  /\ (pc = "slot" \/ why = "slot") /\ backing = "Policy" => pending = <<>>

\* The pending changes are the ones dealt with and not yet applied, in order.
PendingInv ==
  /\ \A j \in 1..Len(pending) : pending[j] <= Done /\ IsChange(pending[j])
  /\ \A j, k \in 1..Len(pending) : j < k => pending[j] < pending[k]
  /\ \A c \in appliedThrough + 1 .. Done :
       IsChange(c) => \E k \in 1..Len(pending) : pending[k] = c

\* The policy in force is the one the newest applied change names, and only an
\* unwitnessed change on the primary's disk is applied ahead of its slot.
PolicyInv ==
  /\ policy = PolicyAfter(appliedThrough)
  /\ appliedThrough # None => IsChange(appliedThrough)
  /\ appliedThrough > Done => log[appliedThrough].unwitnessed /\ appliedThrough <= jpos

-----------------------------------------------------------------------------
(* Types *)

\* TypeOK with what it needs to be inductive: a counted connection has an
\* occupant, a slot being read is a slot, what may be applied is a change, and
\* a slot being admitted for its own entry has one.
Occupied ==
  \A i \in Slots : slot[i].phase \in {"lifted", "seeded", "live"} => slot[i].occ \in Replicas

ReadsASlot == pc \in {"mem", "acked"} => at \in Slots

PendingAreChanges == \A j \in 1..Len(pending) : IsChange(pending[j])

HasEntry == Turn /\ ~extra => seq > 0

Shape == TypeOK /\ Occupied /\ ReadsASlot /\ LogInv /\ PendingAreChanges /\ HasEntry

LEMMA ViewOfPrimary ==
  ASSUME NEW j \in Nat
  PROVE  /\ DOMAIN PrimaryView(j) = {Primary}
         /\ PrimaryView(j) \in [DOMAIN PrimaryView(j) -> [mem : Nat, disk : Nat]]
         /\ IsView(PrimaryView(j))
<1>1. IsFiniteSet({Primary})
  BY FS_Singleton
<1>2. QED
  BY <1>1, U64MAXAssumption DEF PrimaryView, IsView, Primary

\* The next slot to read is a slot, or none is left.
LEMMA NextSlotIsSlot ==
  ASSUME NEW i \in Nat
  PROVE  NextSlot(i) \in Slots \cup {None}
<1> DEFINE after == {j \in Slots : j > i}
<1>1. CASE after = {}
  BY <1>1 DEF NextSlot
<1>2. CASE after # {}
  <2>1. after \subseteq Nat
    BY GateAssumption
  <2>2. \E j \in after : \A k \in after : j <= k
    BY <1>2, <2>1, LeastOf
  <2>3. NextSlot(i) = CHOOSE j \in after : \A k \in after : j <= k
    BY <1>2 DEF NextSlot
  <2>4. NextSlot(i) \in after
    BY <2>2, <2>3
  <2>5. QED
    BY <2>4
<1>3. QED
  BY <1>1, <1>2

\* The places of a view and the nodes are finitely many.
LEMMA SeatsAreFinite ==
  IsFiniteSet(Seats) /\ Seats \subseteq Nat /\ IsFiniteSet(Nodes)
<1>1. IsFiniteSet(Slots \cup {Primary}) /\ IsFiniteSet(Replicas \cup {Primary})
  BY GateAssumption, FS_AddElement
<1>2. Seats = Slots \cup {Primary} /\ Nodes = Replicas \cup {Primary}
  BY DEF Seats, Nodes
<1>3. QED
  BY <1>1, <1>2, GateAssumption DEF Primary

\* What a view was read from: for each place a set of nodes.
Readings == [Seats -> SUBSET Nodes]

LEMMA PrimaryAloneIsReading == PrimaryAlone \in Readings
BY DEF PrimaryAlone, Readings, Seats, Nodes

\* What the nodes hold: two positions each.
HoldingsType == [Nodes -> [mem : Nat, disk : Nat]]

\* The evaluation's view is one AckPolicy's lemmas speak of.
LEMMA ShapeView == Shape => IsView(view) /\ DOMAIN view \subseteq Seats /\ Holdings \in HoldingsType
<1> SUFFICES ASSUME Shape
             PROVE  IsView(view) /\ DOMAIN view \subseteq Seats /\ Holdings \in HoldingsType
  OBVIOUS
<1>1. DOMAIN view \subseteq Seats /\ view \in [DOMAIN view -> [mem : Nat, disk : Nat]]
  BY DEF Shape, TypeOK, ReadTypeOK
<1>2. IsFiniteSet(DOMAIN view) /\ DOMAIN view \subseteq Nat
  BY <1>1, SeatsAreFinite, FS_Subset
<1>3. IsView(view)
  BY <1>1, <1>2 DEF IsView
<1>4. /\ jpos \in Nat /\ held \in [Replicas -> 0..Len(log)] /\ disk \in [Replicas -> 0..Len(log)]
      /\ Len(log) \in Nat
  BY DEF Shape, TypeOK, PipeTypeOK, ReplicaTypeOK
<1>5. Holdings \in HoldingsType
  BY <1>4, U64MAXAssumption DEF Holdings, Nodes, HoldingsType
<1>6. QED
  BY <1>1, <1>3, <1>5

\* The occupant of a slot is a node.
LEMMA OccupantIsNode ==
  ASSUME Shape, NEW i \in Slots
  PROVE  Occupant(i) \in SUBSET Nodes
<1>1. slot[i].occ \in Replicas \cup {None}
  BY DEF Shape, TypeOK, ReplicaTypeOK
<1>2. QED
  BY <1>1 DEF Occupant, Nodes

\* A reply and an applied change, in a log of n entries.
ReplyType(n) == [seq : 0..n, backing : Backings, policy : AckPolicies, by : Readings]
AppliedType(n) == [seq : 0..n, before : AckPolicies, by : Readings]

LEMMA NothingYetTypes ==
  ASSUME base \in AckPolicies, NEW n \in Nat
  PROVE  NoReply \in ReplyType(n) /\ NoneApplied \in AppliedType(n)
BY PrimaryAloneIsReading DEF NoReply, NoneApplied, None, Backings, ReplyType, AppliedType

LEMMA ShapeInit == Init => Shape
<1> SUFFICES ASSUME Init PROVE Shape
  OBVIOUS
<1>1. PICK s \in Start :
        /\ base = s.inForce /\ policy = s.inForce
        /\ log = IF s.newest = Write THEN <<>>
                 ELSE <<[byte |-> s.newest, unwitnessed |-> s.unwitnessed]>>
  BY DEF Init
<1>2. s \in [inForce : AckPolicies, newest : AckPolicies \cup {Write}, unwitnessed : BOOLEAN]
  BY GateAssumption
<1> DEFINE Entry == [byte : AckPolicies \cup {Write}, unwitnessed : BOOLEAN]
<1>3. log \in Seq(Entry) /\ Len(log) \in {0, 1} /\ (log # <<>> => Len(log) = 1)
  <2>1. CASE s.newest = Write
    BY <2>1, <1>1
  <2>2. CASE s.newest # Write
    <3> DEFINE e == [byte |-> s.newest, unwitnessed |-> s.unwitnessed]
    <3>1. e \in Entry
      BY <1>2
    <3>2. log = <<e>>
      BY <2>2, <1>1
    <3> HIDE DEF e, Entry
    <3>3. QED
      BY <3>1, <3>2
  <2>3. QED
    BY <2>1, <2>2
<1>4. base \in AckPolicies /\ policy \in AckPolicies
  BY <1>1, <1>2
<1>5. /\ matched = Len(log) /\ jpos = Len(log) /\ forced = None /\ shutdown = FALSE
      /\ disk \in [Replicas -> 0..Len(log)] /\ held = disk
      /\ slot = [i \in Slots |-> FreeSlot] /\ joins = 0
      /\ cached = durable_pos(policy, PrimaryView(jpos))
      /\ pending = IF log = <<>> THEN <<>> ELSE <<1>>
      /\ appliedThrough = None /\ pc = "settle" /\ why = "idle"
      /\ seq = Len(log) /\ extra = FALSE /\ backing = "Policy" /\ need = 0
      /\ look = jpos /\ view = PrimaryView(0) /\ at = None /\ mem = 0
      /\ from = PrimaryAlone /\ backers = PrimaryAlone
      /\ reply = NoReply /\ applied = NoneApplied
  BY DEF Init
<1>6. cached \in Nat
  <2>1. jpos \in Nat
    BY <1>3, <1>5
  <2>2. IsView(PrimaryView(jpos))
    BY <2>1, ViewOfPrimary
  <2>3. QED
    BY <2>2, <1>4, <1>5, DurablePosIsLeast
<1>7. pending \in Seq(1..Len(log))
  <2>1. CASE log = <<>>
    BY <2>1, <1>5
  <2>2. CASE log # <<>>
    <3>1. 1 \in 1..Len(log) /\ pending = <<1>>
      BY <2>2, <1>3, <1>5
    <3>2. QED
      BY <3>1
  <2>3. QED
    BY <2>1, <2>2
<1>8. /\ DOMAIN view \in SUBSET Seats /\ view \in [DOMAIN view -> [mem : Nat, disk : Nat]]
      /\ from \in Readings /\ backers \in Readings
  BY <1>5, ViewOfPrimary, PrimaryAloneIsReading DEF Seats
<1>9. slot \in [Slots -> [phase : Phases, occ : Replicas \cup {None}, active : BOOLEAN,
                          mem : Nat, acked : Nat]]
      /\ \A i \in Slots : slot[i].phase = "free"
  BY <1>5 DEF FreeSlot, Phases
<1>10. Len(log) <= MaxLog
  <2>1. MaxLog \in Nat /\ MaxLog >= 1
    BY GateAssumption
  <2>2. Len(log) = 0 \/ Len(log) = 1
    BY <1>3
  <2>3. QED
    BY <2>1, <2>2
<1>11. /\ matched \in 0..Len(log) /\ jpos \in 0..Len(log) /\ forced \in 0..matched
       /\ held \in [Replicas -> 0..Len(log)] /\ disk \in [Replicas -> 0..Len(log)]
       /\ joins \in Nat /\ appliedThrough \in 0..Len(log) /\ seq \in 0..matched
       /\ need \in Nat /\ look \in Nat /\ at \in Slots \cup {None} /\ mem \in Nat
  BY <1>3, <1>5 DEF None
<1>12. /\ shutdown \in BOOLEAN /\ extra \in BOOLEAN
       /\ pc \in PCs /\ why \in {"idle", "pending", "slot"} /\ backing \in Backings
  BY <1>5 DEF PCs, Backings
<1>13. reply \in ReplyType(Len(log)) /\ applied \in AppliedType(Len(log))
  BY <1>3, <1>4, <1>5, NothingYetTypes
<1>14. TypeOK
  BY <1>3, <1>4, <1>6, <1>7, <1>8, <1>9, <1>10, <1>11, <1>12, <1>13
  DEF TypeOK, PipeTypeOK, ReplicaTypeOK, PolicyTypeOK, TurnTypeOK, ReadTypeOK, Readings,
      ReplyType, AppliedType
<1>15. LogInv /\ PendingAreChanges
  <2>1. CASE log = <<>>
    BY <2>1, <1>5 DEF LogInv, PendingAreChanges
  <2>2. CASE log # <<>>
    <3>1. log[1].byte # Write /\ Len(log) = 1 /\ pending = <<1>>
      BY <2>2, <1>1, <1>3, <1>5
    <3>2. QED
      BY <3>1, <1>5 DEF LogInv, PendingAreChanges, IsChange
  <2>3. QED
    BY <2>1, <2>2
<1>16. Occupied /\ ReadsASlot /\ HasEntry
  BY <1>5, <1>9 DEF Occupied, ReadsASlot, HasEntry, Turn
<1>17. QED
  BY <1>14, <1>15, <1>16 DEF Shape

\* A sequence over a set is one over a larger set.
LEMMA SeqWidens ==
  ASSUME NEW S, NEW T, S \subseteq T, NEW q \in Seq(S)
  PROVE  q \in Seq(T)
OBVIOUS

\* What is left of the parts of Shape after a step that leaves their variables
\* alone.
LEMMA ShapeFrames ==
  ASSUME Shape
  PROVE  /\ UNCHANGED pipeVars => PipeTypeOK'
         /\ UNCHANGED <<pipeVars, replicaVars>> => ReplicaTypeOK'
         /\ UNCHANGED <<pipeVars, policyVars>> => PolicyTypeOK'
         /\ UNCHANGED <<pipeVars, turnVars, waitVars, pc>> => TurnTypeOK'
         /\ UNCHANGED readVars => ReadTypeOK'
         /\ UNCHANGED <<log, pending>> => (pending \in Seq(1..Len(log)))'
<1>1. TypeOK
  BY DEF Shape
<1>2. UNCHANGED pipeVars => PipeTypeOK'
  BY <1>1 DEF TypeOK, PipeTypeOK, pipeVars
<1>3. UNCHANGED <<pipeVars, replicaVars>> => ReplicaTypeOK'
  BY <1>1 DEF TypeOK, ReplicaTypeOK, pipeVars, replicaVars
<1>4. UNCHANGED <<pipeVars, policyVars>> => PolicyTypeOK'
  BY <1>1 DEF TypeOK, PolicyTypeOK, pipeVars, policyVars
<1>5. UNCHANGED <<pipeVars, turnVars, waitVars, pc>> => TurnTypeOK'
  BY <1>1 DEF TypeOK, TurnTypeOK, pipeVars, turnVars, waitVars
<1>6. UNCHANGED readVars => ReadTypeOK'
  BY <1>1 DEF TypeOK, ReadTypeOK, readVars
<1>7. UNCHANGED <<log, pending>> => (pending \in Seq(1..Len(log)))'
  BY <1>1 DEF TypeOK
<1>8. QED
  BY <1>2, <1>3, <1>4, <1>5, <1>6, <1>7

\* The pipeline's steps (Publish, Match, Persist, Shutdown) keep the types.
LEMMA ShapePipeline ==
  ASSUME Shape, Pipeline
  PROVE  Shape'
<1>0. TypeOK /\ Occupied /\ ReadsASlot /\ LogInv /\ PendingAreChanges /\ HasEntry
  BY DEF Shape
<1>1. CASE Publish
  <2> DEFINE Entry == [byte : AckPolicies \cup {Write}, unwitnessed : BOOLEAN]
  <2>1. PICK e \in Entry : log' = Append(log, e) /\ (e.unwitnessed => e.byte # Write)
    <3>1. CASE log' = Append(log, [byte |-> Write, unwitnessed |-> FALSE])
      <4> DEFINE w == [byte |-> Write, unwitnessed |-> FALSE]
      <4>1. w \in Entry /\ ~w.unwitnessed
        OBVIOUS
      <4>2. log' = Append(log, w)
        BY <3>1
      <4> HIDE DEF w, Entry
      <4>3. QED
        BY <4>1, <4>2
    <3>2. CASE \E byte \in ChangeBytes, u \in BOOLEAN :
                 log' = Append(log, [byte |-> byte, unwitnessed |-> u])
      <4>1. Write \notin AckPolicies
        BY DEF Write, AckPolicies
      <4>2. QED
        <5>1. PICK byte \in ChangeBytes, u \in BOOLEAN :
                log' = Append(log, [byte |-> byte, unwitnessed |-> u])
          BY <3>2
        <5>2. [byte |-> byte, unwitnessed |-> u] \in Entry /\ byte # Write
          BY <4>1, GateAssumption
        <5>3. QED
          BY <5>1, <5>2
    <3>3. QED
      BY <1>1, <3>1, <3>2 DEF Publish
  <2>2. log \in Seq(Entry) /\ Len(log) \in Nat
    BY <1>0 DEF TypeOK, PipeTypeOK
  <2> HIDE DEF Entry
  <2>3. log' \in Seq(Entry) /\ Len(log') = Len(log) + 1
    BY <2>1, <2>2
  <2>4. UNCHANGED <<base, matched, jpos, forced, shutdown, replicaVars, gateVars>> /\ Len(log) < MaxLog
    BY <1>1 DEF Publish
  <2>5. PipeTypeOK'
    BY <1>0, <2>2, <2>3, <2>4, GateAssumption DEF TypeOK, PipeTypeOK, Entry
  <2>6. ReplicaTypeOK'
    BY <1>0, <2>2, <2>3, <2>4 DEF TypeOK, ReplicaTypeOK, replicaVars
  <2>7. PolicyTypeOK'
    BY <1>0, <2>2, <2>3, <2>4 DEF TypeOK, PolicyTypeOK, gateVars, policyVars
  <2>8. TurnTypeOK'
    BY <1>0, <2>2, <2>3, <2>4 DEF TypeOK, TurnTypeOK, gateVars, turnVars, waitVars
  <2>9. ReadTypeOK'
    BY <1>0, <2>4, ShapeFrames DEF gateVars
  <2>10. (pending \in Seq(1..Len(log)))'
    <3>1. 1..Len(log) \subseteq 1..Len(log')
      BY <2>2, <2>3
    <3>2. pending \in Seq(1..Len(log)) /\ pending' = pending
      BY <1>0, <2>4 DEF TypeOK, gateVars
    <3>3. QED
      BY <3>1, <3>2, SeqWidens
  <2>11. Occupied' /\ ReadsASlot'
    BY <1>0, <2>4 DEF Occupied, ReadsASlot, replicaVars, gateVars, readVars
  <2>12. \A c \in 1..Len(log) : log'[c] = log[c]
    BY <2>1, <2>2
  <2>13. log'[Len(log) + 1] = e
    BY <2>1, <2>2
  <2>14. LogInv'
    <3>1. ASSUME NEW c \in 1..Len(log'), log'[c].unwitnessed PROVE log'[c].byte # Write
      BY <3>1, <1>0, <2>1, <2>2, <2>3, <2>12, <2>13 DEF LogInv, IsChange
    <3>2. forced \in 0..Len(log) /\ forced' = forced
      BY <1>0, <2>2, <2>4 DEF TypeOK, PipeTypeOK
    <3>3. forced' # None => log'[forced'].unwitnessed
      BY <1>0, <3>2, <2>2, <2>12 DEF LogInv, None
    <3>4. QED
      BY <3>1, <3>3 DEF LogInv, IsChange
  <2>15. PendingAreChanges'
    <3>1. pending \in Seq(1..Len(log)) /\ pending' = pending
      BY <1>0, <2>4 DEF TypeOK, gateVars
    <3>2. \A j \in 1..Len(pending) : pending[j] \in 1..Len(log)
      BY <3>1
    <3>3. QED
      BY <1>0, <3>1, <3>2, <2>12 DEF PendingAreChanges, IsChange
  <2>16. HasEntry'
    BY <1>0, <2>4 DEF HasEntry, Turn, gateVars, turnVars, waitVars
  <2>17. QED
    BY <2>5, <2>6, <2>7, <2>8, <2>9, <2>10, <2>11, <2>14, <2>15, <2>16 DEF Shape, TypeOK
<1>2. CASE Match \/ Persist \/ Shutdown
  <2>1. PipeTypeOK' /\ log' = log /\ base' = base /\ matched' >= matched /\ matched' \in Int
    <3>1. CASE Match
      BY <3>1, <1>0 DEF TypeOK, PipeTypeOK, Match
    <3>2. CASE Persist
      BY <3>2, <1>0 DEF TypeOK, PipeTypeOK, Persist
    <3>3. CASE Shutdown
      BY <3>3, <1>0 DEF TypeOK, PipeTypeOK, Shutdown
    <3>4. QED
      BY <1>2, <3>1, <3>2, <3>3
  <2>2. UNCHANGED <<replicaVars, gateVars>>
    BY <1>2 DEF Match, Persist, Shutdown
  <2>3. ReplicaTypeOK'
    BY <1>0, <2>1, <2>2 DEF TypeOK, ReplicaTypeOK, replicaVars
  <2>4. PolicyTypeOK'
    BY <1>0, <2>1, <2>2 DEF TypeOK, PolicyTypeOK, gateVars, policyVars
  <2>5. TurnTypeOK'
    BY <1>0, <2>1, <2>2 DEF TypeOK, PipeTypeOK, TurnTypeOK, gateVars, turnVars, waitVars
  <2>6. ReadTypeOK' /\ (pending \in Seq(1..Len(log)))'
    BY <2>1, <2>2, ShapeFrames DEF gateVars
  <2>7. Occupied' /\ ReadsASlot'
    BY <1>0, <2>2 DEF Occupied, ReadsASlot, replicaVars, gateVars, readVars
  <2>8. PendingAreChanges' /\ HasEntry'
    BY <1>0, <2>1, <2>2
    DEF PendingAreChanges, IsChange, HasEntry, Turn, gateVars, turnVars, waitVars
  <2>9. LogInv'
    <3>1. forced' = forced \/ (log[forced'].unwitnessed)
      BY <1>2 DEF Match, Persist, Shutdown
    <3>2. QED
      BY <1>0, <2>1, <3>1 DEF LogInv, IsChange
  <2>10. QED
    BY <2>1, <2>3, <2>4, <2>5, <2>6, <2>7, <2>8, <2>9 DEF Shape, TypeOK
<1>3. QED
  BY <1>1, <1>2 DEF Pipeline

SlotType ==
  [phase : Phases, occ : Replicas \cup {None}, active : BOOLEAN, mem : Nat, acked : Nat]

\* The replicas' and their handlers' steps keep the types.
LEMMA ShapeReplicas ==
  ASSUME Shape, ReplicaStep
  PROVE  Shape'
<1>0. TypeOK /\ Occupied /\ ReadsASlot /\ LogInv /\ PendingAreChanges /\ HasEntry
  BY DEF Shape
<1>1. UNCHANGED <<pipeVars, gateVars>>
  BY DEF ReplicaStep, Receive, ReplicaPersist, Lift, Seed, Activate, RecordAck, Lower,
         ClearCursors, Deactivate
<1>2. PipeTypeOK' /\ PolicyTypeOK' /\ TurnTypeOK' /\ ReadTypeOK' /\ (pending \in Seq(1..Len(log)))'
  BY <1>1, ShapeFrames DEF gateVars, pipeVars
<1>3. ReadsASlot' /\ LogInv' /\ PendingAreChanges' /\ HasEntry'
  BY <1>0, <1>1
  DEF ReadsASlot, LogInv, PendingAreChanges, IsChange, HasEntry, Turn, pipeVars, gateVars,
      readVars, turnVars, waitVars
<1> USE DEF TypeOK, PipeTypeOK, ReplicaTypeOK, Occupied, pipeVars
<1>4. ASSUME NEW n \in Replicas, Receive(n) PROVE ReplicaTypeOK' /\ Occupied'
  BY <1>0, <1>1, <1>4 DEF Receive
<1>5. ASSUME NEW n \in Replicas, ReplicaPersist(n) PROVE ReplicaTypeOK' /\ Occupied'
  BY <1>0, <1>1, <1>5 DEF ReplicaPersist
<1>6. ASSUME NEW i \in Slots, NEW n \in Replicas, Lift(i, n) PROVE ReplicaTypeOK' /\ Occupied'
  <2> DEFINE r == [slot[i] EXCEPT !.phase = "lifted", !.occ = n]
  <2>1. slot' = [slot EXCEPT ![i] = r] /\ held' = held /\ disk' = disk /\ joins' = joins + 1
    BY <1>6 DEF Lift
  <2>2. slot[i] \in SlotType
    BY <1>0 DEF SlotType
  <2>3. r \in SlotType /\ r.occ \in Replicas
    BY <2>2 DEF SlotType, Phases
  <2> HIDE DEF r
  <2>4. QED
    BY <1>0, <1>1, <2>1, <2>3 DEF SlotType
<1>7. ASSUME NEW i \in Slots, Seed(i) PROVE ReplicaTypeOK' /\ Occupied'
  <2>1. slot[i].occ \in Replicas /\ slot[i] \in SlotType
    BY <1>0, <1>7 DEF Seed, SlotType
  <2>2. PICK s \in {0, disk[slot[i].occ]} :
          slot' = [slot EXCEPT ![i].phase = "seeded", ![i].mem = s, ![i].acked = s]
    BY <1>7 DEF Seed
  <2>3. s \in Nat
    BY <1>0, <2>1, <2>2
  <2> DEFINE r == [slot[i] EXCEPT !.phase = "seeded", !.mem = s, !.acked = s]
  <2>4. slot' = [slot EXCEPT ![i] = r] /\ held' = held /\ disk' = disk /\ joins' = joins
    BY <1>7, <2>2 DEF Seed
  <2>5. r \in SlotType /\ r.occ \in Replicas
    BY <2>1, <2>3 DEF SlotType, Phases
  <2> HIDE DEF r
  <2>6. QED
    BY <1>0, <1>1, <2>4, <2>5 DEF SlotType
<1>8. ASSUME NEW i \in Slots, Activate(i) PROVE ReplicaTypeOK' /\ Occupied'
  BY <1>0, <1>1, <1>8 DEF Activate, Phases
<1>9. ASSUME NEW i \in Slots, RecordAck(i) PROVE ReplicaTypeOK' /\ Occupied'
  <2>1. slot[i].occ \in Replicas /\ slot[i] \in SlotType
    BY <1>0, <1>9 DEF RecordAck, SlotType
  <2>2. PICK m \in slot[i].mem..held[slot[i].occ], a \in slot[i].acked..disk[slot[i].occ] :
          slot' = [slot EXCEPT ![i].mem = m, ![i].acked = a]
    BY <1>9 DEF RecordAck
  <2>3. m \in Nat /\ a \in Nat
    BY <1>0, <2>1, <2>2 DEF SlotType
  <2> DEFINE r == [slot[i] EXCEPT !.mem = m, !.acked = a]
  <2>4. slot' = [slot EXCEPT ![i] = r] /\ held' = held /\ disk' = disk /\ joins' = joins
    BY <1>9, <2>2 DEF RecordAck
  <2>5. r \in SlotType /\ r.occ \in Replicas
    BY <2>1, <2>3 DEF SlotType
  <2> HIDE DEF r
  <2>6. QED
    BY <1>0, <1>1, <2>4, <2>5 DEF SlotType
<1>10. ASSUME NEW i \in Slots, Lower(i) PROVE ReplicaTypeOK' /\ Occupied'
  BY <1>0, <1>1, <1>10 DEF Lower, Phases
<1>11. ASSUME NEW i \in Slots, ClearCursors(i) PROVE ReplicaTypeOK' /\ Occupied'
  <2> DEFINE r == [slot[i] EXCEPT !.phase = "cleared", !.mem = 0, !.acked = 0]
  <2>1. slot' = [slot EXCEPT ![i] = r] /\ held' = held /\ disk' = disk /\ joins' = joins
    BY <1>11 DEF ClearCursors
  <2>2. slot[i] \in SlotType
    BY <1>0 DEF SlotType
  <2>3. r \in SlotType /\ r.phase = "cleared"
    BY <2>2 DEF SlotType, Phases
  <2> HIDE DEF r
  <2>4. QED
    BY <1>0, <1>1, <2>1, <2>3 DEF SlotType
<1>12. ASSUME NEW i \in Slots, Deactivate(i) PROVE ReplicaTypeOK' /\ Occupied'
  BY <1>0, <1>1, <1>12 DEF Deactivate, Phases, FreeSlot
<1>13. ReplicaTypeOK' /\ Occupied'
  BY <1>4, <1>5, <1>6, <1>7, <1>8, <1>9, <1>10, <1>11, <1>12 DEF ReplicaStep
<1>14. QED
  BY <1>2, <1>3, <1>13 DEF Shape

\* Applying a change of the log keeps the policy's types (apply_change).
LEMMA ApplyTypes ==
  ASSUME Shape, NEW c \in 1..Len(log), IsChange(c), ApplyChange(c), UNCHANGED pipeVars
  PROVE  PolicyTypeOK'
<1>0. TypeOK
  BY DEF Shape
<1>1. log[c].byte \in AckPolicies /\ Len(log) \in Nat
  <2> DEFINE Entry == [byte : AckPolicies \cup {Write}, unwitnessed : BOOLEAN]
  <2>1. log \in Seq(Entry)
    BY <1>0 DEF TypeOK, PipeTypeOK
  <2> HIDE DEF Entry
  <2>2. log[c] \in Entry /\ Len(log) \in Nat
    BY <2>1
  <2>3. QED
    BY <2>2 DEF Entry, IsChange
<1>2. CASE c <= appliedThrough
  BY <1>2, ShapeFrames DEF ApplyChange
<1>3. CASE ~(c <= appliedThrough)
  <2>1. /\ appliedThrough' = c /\ policy' = log[c].byte /\ (cached' = cached \/ cached' = 0)
        /\ backers' = backers \/ backers' = PrimaryAlone
        /\ applied' = [seq |-> c, before |-> policy, by |-> backers] /\ log' = log
    BY <1>3 DEF ApplyChange, pipeVars
  <2>2. policy \in AckPolicies /\ cached \in Nat /\ c \in 0..Len(log) /\ backers \in Readings
    BY <1>0, <1>1 DEF TypeOK, PolicyTypeOK, Readings
  <2>3. applied' \in AppliedType(Len(log)) /\ backers' \in Readings
    BY <2>1, <2>2, PrimaryAloneIsReading DEF AppliedType
  <2>4. QED
    BY <1>1, <2>1, <2>2, <2>3 DEF PolicyTypeOK, AppliedType, Readings
<1>4. QED
  BY <1>2, <1>3

\* The front pending change is a change of the log, and so is what is behind it.
LEMMA FrontTypes ==
  ASSUME Shape, pending # <<>>
  PROVE  /\ Head(pending) \in 1..Len(log) /\ IsChange(Head(pending))
         /\ Tail(pending) \in Seq(1..Len(log))
         /\ \A k \in 1..Len(Tail(pending)) : IsChange(Tail(pending)[k])
<1> DEFINE T == 1..Len(log)
<1>1. pending \in Seq(T) /\ PendingAreChanges
  BY DEF Shape, TypeOK
<1> HIDE DEF T
<1>2. Len(pending) \in Nat /\ Len(pending) > 0 /\ Head(pending) = pending[1]
  BY <1>1
<1>3. Tail(pending) \in Seq(T) /\ Len(Tail(pending)) = Len(pending) - 1
      /\ \A k \in 1..Len(Tail(pending)) : Tail(pending)[k] = pending[k + 1]
  BY <1>1, <1>2
<1>4. \A k \in 1..Len(Tail(pending)) : IsChange(Tail(pending)[k])
  BY <1>1, <1>2, <1>3 DEF PendingAreChanges
<1>5. Head(pending) \in T /\ IsChange(Head(pending))
  BY <1>1, <1>2 DEF PendingAreChanges
<1>6. QED
  BY <1>3, <1>4, <1>5 DEF T

\* Applying the front pending change keeps the types (apply_front_pending).
LEMMA ApplyFrontTypes ==
  ASSUME Shape, pending # <<>>, ApplyFrontPending, UNCHANGED pipeVars
  PROVE  PolicyTypeOK' /\ (pending \in Seq(1..Len(log)))' /\ PendingAreChanges'
<1>1. PolicyTypeOK'
  BY FrontTypes, ApplyTypes DEF ApplyFrontPending
<1>2. QED
  BY <1>1, FrontTypes DEF ApplyFrontPending, PendingAreChanges, IsChange, pipeVars

\* A turn ends with the locals of its waits reset.
LEMMA EndTurnTypes ==
  ASSUME EndTurn
  PROVE  /\ ReadTypeOK' /\ ReadsASlot' /\ HasEntry'
         /\ pc' \in PCs /\ why' = "idle" /\ need' \in Nat /\ backing' \in Backings
<1>1. view' = PrimaryView(0) /\ DOMAIN view' \in SUBSET Seats
      /\ view' \in [DOMAIN view' -> [mem : Nat, disk : Nat]]
  BY ViewOfPrimary DEF EndTurn, Seats
<1>2. from' \in [Seats -> SUBSET Nodes]
  BY PrimaryAloneIsReading DEF EndTurn, Readings
<1>3. QED
  BY <1>1, <1>2 DEF EndTurn, ReadTypeOK, ReadsASlot, HasEntry, Turn, PCs, Backings

\* A released slot keeps the types: the reply is recorded, or the change is
\* applied or deferred (admit_slot).
LEMMA ReleaseTypes ==
  ASSUME Shape, Turn, NEW b \in Backings, SlotReleased(b)
  PROVE  Shape'
<1>0. TypeOK /\ Occupied /\ ReadsASlot /\ LogInv /\ PendingAreChanges /\ HasEntry
  BY DEF Shape
<1>1. EndTurn /\ UNCHANGED <<pipeVars, replicaVars, seq, extra>>
  BY DEF SlotReleased
<1>2. PipeTypeOK' /\ ReplicaTypeOK' /\ ReadTypeOK' /\ ReadsASlot' /\ HasEntry'
  BY <1>1, ShapeFrames, EndTurnTypes
<1>3. Occupied' /\ LogInv'
  BY <1>0, <1>1 DEF Occupied, LogInv, IsChange, pipeVars, replicaVars
<1>4. seq \in 0..Len(log) /\ Len(log) \in Nat /\ seq \in 0..matched
  BY <1>0 DEF TypeOK, PipeTypeOK, TurnTypeOK
<1>5. CASE extra \/ ~IsChange(seq)
  <2>1. /\ reply' = [seq |-> seq, backing |-> b, policy |-> policy, by |-> backers]
        /\ UNCHANGED <<policyVars, pending>>
    BY <1>5 DEF SlotReleased
  <2>a. policy \in AckPolicies /\ backers \in Readings /\ log' = log
    BY <1>0, <1>1 DEF TypeOK, PolicyTypeOK, Readings, pipeVars
  <2>2. reply' \in ReplyType(Len(log'))
    BY <1>4, <2>1, <2>a DEF ReplyType
  <2>3. TurnTypeOK'
    BY <1>0, <1>1, <1>4, <2>2, EndTurnTypes DEF TypeOK, TurnTypeOK, pipeVars, ReplyType, Readings
  <2>4. PolicyTypeOK' /\ (pending \in Seq(1..Len(log)))' /\ PendingAreChanges'
    BY <1>0, <1>1, <2>1, ShapeFrames DEF pipeVars, PendingAreChanges, IsChange
  <2>5. QED
    BY <1>2, <1>3, <2>3, <2>4 DEF Shape, TypeOK
<1>6. CASE ~(extra \/ ~IsChange(seq))
  <2>1. reply' = reply /\ seq \in 1..Len(log) /\ IsChange(seq)
    BY <1>0, <1>4, <1>6 DEF SlotReleased, HasEntry
  <2>2. TurnTypeOK'
    BY <1>0, <1>1, <1>4, <2>1, EndTurnTypes DEF TypeOK, TurnTypeOK, pipeVars
  <2>3. CASE b = "Policy"
    <3>1. ApplyChange(seq) /\ pending' = pending
      BY <1>6, <2>3 DEF SlotReleased
    <3>2. PolicyTypeOK'
      BY <3>1, <2>1, <1>1, ApplyTypes
    <3>3. (pending \in Seq(1..Len(log)))' /\ PendingAreChanges'
      BY <1>0, <1>1, <3>1, ShapeFrames DEF pipeVars, PendingAreChanges, IsChange
    <3>4. QED
      BY <1>2, <1>3, <2>2, <3>2, <3>3 DEF Shape, TypeOK
  <2>4. CASE b # "Policy"
    <3>1. DeferChange(seq) /\ UNCHANGED policyVars
      BY <1>6, <2>4 DEF SlotReleased
    <3>2. PolicyTypeOK'
      BY <3>1, <1>1, ShapeFrames
    <3>3. pending' = pending \/ pending' = Append(pending, seq)
      BY <3>1 DEF DeferChange
    <3> DEFINE T == 1..Len(log)
    <3>4. pending \in Seq(T) /\ seq \in T /\ log' = log
      BY <1>0, <1>1, <2>1 DEF TypeOK, pipeVars
    <3> HIDE DEF T
    <3>5. pending' \in Seq(T)
      BY <3>3, <3>4
    <3>6. PendingAreChanges'
      BY <1>0, <2>1, <3>3, <3>4 DEF PendingAreChanges, IsChange
    <3>7. QED
      BY <1>2, <1>3, <2>2, <3>2, <3>4, <3>5, <3>6 DEF Shape, TypeOK, T
  <2>5. QED
    BY <2>3, <2>4
<1>7. QED
  BY <1>5, <1>6

\* A load of a slot adds its occupant to what the view was read from.
LEMMA LoadKeepsReading ==
  ASSUME Shape, at \in Slots, from' = [from EXCEPT ![at] = @ \cup Occupant(at)]
  PROVE  from' \in Readings
<1>1. from \in Readings /\ Occupant(at) \in SUBSET Nodes /\ at \in Seats
  BY OccupantIsNode DEF Shape, TypeOK, ReadTypeOK, Readings, Seats
<1>2. QED
  BY <1>1 DEF Readings

\* The gate's steps keep the types.
LEMMA ShapeGate ==
  ASSUME Shape, GateStep
  PROVE  Shape'
<1>0. TypeOK /\ Occupied /\ ReadsASlot /\ LogInv /\ PendingAreChanges /\ HasEntry
  BY DEF Shape
<1>1. UNCHANGED <<pipeVars, replicaVars>>
  BY DEF GateStep, WaitStep, Admit, IdleRecheck, SettledIdle, NothingPending, PendingCovered,
         WaitPending, SlotCovered, WaitSlot, WaitChecksShutdown, WaitLoadsJournal, SettleFront,
         ObserveForced, ReadActive, ReadMem, ReadAcked, Evaluate, OpenDegradedPending,
         OpenDegradedSlot, WaitAgain, SlotReleased
<1>2. PipeTypeOK' /\ ReplicaTypeOK' /\ Occupied' /\ LogInv'
  BY <1>0, <1>1, ShapeFrames DEF Occupied, LogInv, IsChange, pipeVars, replicaVars
<1>3. log \in Seq([byte : AckPolicies \cup {Write}, unwitnessed : BOOLEAN])
      /\ Len(log) \in Nat /\ log' = log /\ base' = base /\ matched' = matched
      /\ jpos' = jpos /\ base \in AckPolicies
      /\ jpos \in Nat /\ matched \in 0..Len(log) /\ forced \in 0..Len(log)
  BY <1>0, <1>1 DEF TypeOK, PipeTypeOK, pipeVars
\* the parts that stay when their variables do
<1>4. pending' = pending => (pending \in Seq(1..Len(log)))' /\ PendingAreChanges'
  BY <1>0, <1>3, ShapeFrames DEF PendingAreChanges, IsChange
<1>5. UNCHANGED policyVars => PolicyTypeOK'
  BY <1>1, ShapeFrames
<1>6. UNCHANGED turnVars /\ pc' \in PCs /\ why' \in {"idle", "pending", "slot"} /\ need' \in Nat
      => TurnTypeOK'
  BY <1>0, <1>3 DEF TypeOK, TurnTypeOK, turnVars
<1>7. (Turn' => Turn) /\ UNCHANGED <<seq, extra>> => HasEntry'
  BY <1>0 DEF HasEntry
<1>8. SUFFICES /\ PolicyTypeOK' /\ TurnTypeOK' /\ ReadTypeOK' /\ (pending \in Seq(1..Len(log)))'
               /\ ReadsASlot' /\ PendingAreChanges' /\ HasEntry'
  BY <1>2 DEF Shape, TypeOK
<1>9. CASE Admit
  <2>1. /\ seq' \in 0..matched /\ extra' \in BOOLEAN /\ pc' = "pending" /\ backing' = backing
        /\ (~extra' => seq' > 0)
        /\ UNCHANGED <<policy, cached, backers, appliedThrough, pending, waitVars, readVars>>
    <3>1. seq \in 0..matched /\ matched \in Nat
      BY <1>0, <1>3 DEF TypeOK, TurnTypeOK
    <3>2. CASE seq < matched /\ seq' = seq + 1 /\ extra' = FALSE
      <4>1. seq' \in 0..matched /\ seq' > 0
        BY <3>1, <3>2
      <4>2. /\ extra' \in BOOLEAN /\ pc' = "pending" /\ backing' = backing
            /\ UNCHANGED <<policy, cached, backers, appliedThrough, pending, waitVars, readVars>>
        BY <3>2, <1>9 DEF Admit
      <4>3. QED
        BY <4>1, <4>2
    <3>3. CASE seq' = seq /\ extra' = TRUE
      BY <3>1, <3>3, <1>9 DEF Admit
    <3>4. QED
      BY <1>9, <3>2, <3>3 DEF Admit
  <2>2. reply' \in ReplyType(Len(log)) /\ applied' \in AppliedType(Len(log))
    BY <1>3, <1>9, NothingYetTypes DEF Admit, NewTurn
  <2>3. TurnTypeOK' /\ PolicyTypeOK'
    BY <1>0, <1>3, <2>1, <2>2
    DEF TypeOK, TurnTypeOK, PolicyTypeOK, PCs, waitVars, ReplyType, AppliedType, Readings
  <2>4. ReadTypeOK' /\ ReadsASlot' /\ HasEntry'
    BY <2>1, ShapeFrames DEF ReadsASlot, HasEntry
  <2>5. QED
    BY <1>4, <2>1, <2>3, <2>4
<1>10. CASE IdleRecheck
  <2>1. /\ pc' = "active" /\ look' = jpos /\ at' = NextSlot(Primary) /\ mem' = 0
        /\ UNCHANGED <<policy, cached, backers, appliedThrough, pending, seq, extra, backing, waitVars>>
    BY <1>10 DEF IdleRecheck, StartView
  <2>2. reply' \in ReplyType(Len(log)) /\ applied' \in AppliedType(Len(log))
    BY <1>3, <1>10, NothingYetTypes DEF IdleRecheck, NewTurn
  <2>3. TurnTypeOK' /\ PolicyTypeOK'
    BY <1>0, <1>3, <2>1, <2>2
    DEF TypeOK, TurnTypeOK, PolicyTypeOK, PCs, waitVars, ReplyType, AppliedType, Readings
  <2>4. /\ DOMAIN view' \in SUBSET Seats /\ view' \in [DOMAIN view' -> [mem : Nat, disk : Nat]]
        /\ from' \in [Seats -> SUBSET Nodes]
    BY <1>3, <1>10, ViewOfPrimary, PrimaryAloneIsReading DEF IdleRecheck, StartView, Seats, Readings
  <2>5. at' \in Slots \cup {None}
    BY <2>1, NextSlotIsSlot DEF Primary
  <2>6. ReadTypeOK' /\ ReadsASlot' /\ HasEntry'
    BY <1>0, <1>3, <2>1, <2>4, <2>5 DEF ReadTypeOK, ReadsASlot, HasEntry, Turn, waitVars
  <2>7. QED
    BY <1>4, <2>1, <2>3, <2>6
<1>11. CASE SettledIdle
  <2>1. EndTurn /\ UNCHANGED <<policyVars, pending, seq, extra, reply>>
    BY <1>11 DEF SettledIdle
  <2>2. TurnTypeOK'
    BY <1>0, <1>3, <2>1, EndTurnTypes DEF TypeOK, TurnTypeOK
  <2>3. QED
    BY <1>4, <1>5, <2>1, <2>2, EndTurnTypes
<1>12. CASE NothingPending \/ WaitPending \/ WaitSlot \/ WaitChecksShutdown
  <2>1. /\ UNCHANGED <<policyVars, pending, turnVars, readVars>>
        /\ pc' \in {"slot", "check", "journal", "stopped"}
    BY <1>12 DEF NothingPending, WaitPending, WaitSlot, WaitChecksShutdown, StartWait
  <2>2. Turn' => Turn
    BY <1>12 DEF NothingPending, WaitPending, WaitSlot, WaitChecksShutdown, Turn, waitVars
  <2>3. why' \in {"idle", "pending", "slot"} /\ need' \in Nat
    BY <1>0, <1>12, FrontTypes
    DEF NothingPending, WaitPending, WaitSlot, WaitChecksShutdown, StartWait, TypeOK, TurnTypeOK,
        waitVars
  <2>4. QED
    BY <1>4, <1>5, <1>6, <1>7, <2>1, <2>2, <2>3, ShapeFrames DEF PCs, ReadsASlot, turnVars
<1>13. CASE PendingCovered \/ SettleFront
  <2>1. pending # <<>> /\ ApplyFrontPending /\ UNCHANGED <<pc, turnVars, waitVars, readVars>>
    BY <1>13 DEF PendingCovered, SettleFront, FrontDurable
  <2>2. TurnTypeOK' /\ ReadTypeOK' /\ ReadsASlot' /\ HasEntry'
    BY <1>0, <1>1, <2>1, ShapeFrames DEF ReadsASlot, HasEntry, Turn, turnVars, waitVars, readVars
  <2>3. QED
    BY <1>1, <2>1, <2>2, ApplyFrontTypes
<1>14. CASE SlotCovered \/ OpenDegradedSlot
  <2>1. Turn
    BY <1>14 DEF SlotCovered, OpenDegradedSlot, Turn
  <2>2. \E b \in Backings : SlotReleased(b)
    BY <1>0, <1>14 DEF SlotCovered, OpenDegradedSlot, TypeOK, TurnTypeOK, Backings
  <2>3. QED
    BY <2>1, <2>2, ReleaseTypes DEF Shape, TypeOK
<1>15. CASE WaitLoadsJournal \/ WaitAgain
  <2>1. /\ UNCHANGED <<policyVars, pending, turnVars, waitVars, view, from, at, mem>>
        /\ pc' \in {"settle", "check"} /\ look' \in Nat
    BY <1>3, <1>15 DEF WaitLoadsJournal, WaitAgain
  <2>2. TurnTypeOK'
    BY <1>0, <1>6, <2>1 DEF TypeOK, TurnTypeOK, PCs, waitVars
  <2>3. ReadTypeOK' /\ ReadsASlot'
    BY <1>0, <2>1 DEF TypeOK, ReadTypeOK, ReadsASlot
  <2>4. HasEntry'
    BY <1>7, <2>1 DEF Turn, turnVars, waitVars
  <2>5. QED
    BY <1>4, <1>5, <2>1, <2>2, <2>3, <2>4
<1>16. CASE ObserveForced
  <2>1. /\ pc' = "active" /\ at' = NextSlot(Primary) /\ mem' = 0
        /\ UNCHANGED <<pending, turnVars, waitVars, look>>
    BY <1>16 DEF ObserveForced, StartView
  <2>2. PolicyTypeOK'
    <3>1. CASE forced # None /\ look >= forced
      <4>1. forced \in 1..Len(log) /\ IsChange(forced)
        BY <1>0, <1>3, <3>1 DEF LogInv, None
      <4>2. ApplyChange(forced)
        BY <1>16, <3>1 DEF ObserveForced
      <4>3. QED
        BY <1>1, <4>1, <4>2, ApplyTypes
    <3>2. CASE ~(forced # None /\ look >= forced)
      BY <1>5, <1>16, <3>2 DEF ObserveForced
    <3>3. QED
      BY <3>1, <3>2
  <2>3. TurnTypeOK'
    BY <1>0, <1>6, <2>1 DEF TypeOK, TurnTypeOK, PCs, waitVars
  <2>4. /\ DOMAIN view' \in SUBSET Seats /\ view' \in [DOMAIN view' -> [mem : Nat, disk : Nat]]
        /\ from' \in [Seats -> SUBSET Nodes]
    BY <1>0, <1>16, ViewOfPrimary, PrimaryAloneIsReading
    DEF ObserveForced, StartView, Seats, Readings, TypeOK, ReadTypeOK
  <2>5. at' \in Slots \cup {None}
    BY <2>1, NextSlotIsSlot DEF Primary
  <2>6. ReadTypeOK' /\ ReadsASlot'
    BY <1>0, <2>1, <2>4, <2>5 DEF TypeOK, ReadTypeOK, ReadsASlot
  <2>7. HasEntry'
    BY <1>7, <2>1 DEF Turn, turnVars, waitVars
  <2>8. QED
    BY <1>4, <2>1, <2>2, <2>3, <2>6, <2>7
<1>17. CASE ReadActive \/ ReadMem \/ ReadAcked
  <2>1. UNCHANGED <<policyVars, pending, turnVars, waitVars, look>> /\ pc' \in {"active", "mem", "acked"}
    BY <1>17 DEF ReadActive, ReadMem, ReadAcked
  <2>2. TurnTypeOK'
    BY <1>0, <1>6, <2>1 DEF TypeOK, TurnTypeOK, PCs, waitVars
  <2>3. HasEntry'
    BY <1>7, <2>1 DEF Turn, turnVars, waitVars
  <2>4. CASE ReadActive
    <3>1. at \in Slots /\ at \in Nat
      BY <1>0, <2>4, GateAssumption DEF ReadActive, TypeOK, ReadTypeOK
    <3>2. NextSlot(at) \in Slots \cup {None}
      BY <3>1, NextSlotIsSlot
    <3>3. ReadTypeOK' /\ ReadsASlot'
      BY <1>0, <2>1, <2>4, <3>1, <3>2 DEF ReadActive, TypeOK, ReadTypeOK, ReadsASlot
    <3>4. QED
      BY <1>4, <1>5, <2>1, <2>2, <2>3, <3>3
  <2>5. CASE ReadMem
    <3>1. at \in Slots /\ slot[at].mem \in Nat
      BY <1>0, <2>5 DEF ReadMem, ReadsASlot, TypeOK, ReplicaTypeOK
    <3>a. from' \in Readings
      BY <2>5, <3>1, LoadKeepsReading DEF ReadMem
    <3>2. ReadTypeOK' /\ ReadsASlot'
      BY <1>0, <2>5, <3>1, <3>a DEF ReadMem, TypeOK, ReadTypeOK, ReadsASlot, Readings
    <3>3. QED
      BY <1>4, <1>5, <2>1, <2>2, <2>3, <3>2
  <2>6. CASE ReadAcked
    <3>1. at \in Slots /\ slot[at].acked \in Nat /\ mem \in Nat /\ at \in Nat
      BY <1>0, <2>6, GateAssumption DEF ReadAcked, ReadsASlot, TypeOK, ReplicaTypeOK, ReadTypeOK
    <3>2. NextSlot(at) \in Slots \cup {None}
      BY <3>1, NextSlotIsSlot
    <3>a. from' \in Readings
      BY <2>6, <3>1, LoadKeepsReading DEF ReadAcked
    <3>3. DOMAIN view' \in SUBSET Seats /\ view' \in [DOMAIN view' -> [mem : Nat, disk : Nat]]
      <4> DEFINE r == [mem |-> mem, disk |-> slot[at].acked]
      <4>1. r \in [mem : Nat, disk : Nat]
        BY <3>1
      <4>2. view' = [n \in DOMAIN view \cup {at} |-> IF n = at THEN r ELSE view[n]]
        BY <2>6 DEF ReadAcked
      <4>3. DOMAIN view \subseteq Seats /\ view \in [DOMAIN view -> [mem : Nat, disk : Nat]]
        BY <1>0 DEF TypeOK, ReadTypeOK
      <4> HIDE DEF r
      <4>4. QED
        BY <3>1, <4>1, <4>2, <4>3 DEF Seats
    <3>4. ReadTypeOK' /\ ReadsASlot'
      BY <1>0, <2>1, <2>6, <3>2, <3>3, <3>a DEF ReadAcked, TypeOK, ReadTypeOK, ReadsASlot, Readings
    <3>5. QED
      BY <1>4, <1>5, <2>1, <2>2, <2>3, <3>4
  <2>7. QED
    BY <1>17, <2>4, <2>5, <2>6
<1>18. CASE Evaluate
  <2>1. /\ UNCHANGED <<policy, appliedThrough, applied, pending, turnVars, waitVars, look, at, mem>>
        /\ cached' = durable_pos(policy, view) /\ view' = PrimaryView(0)
        /\ backers' = from /\ from' = PrimaryAlone
        /\ pc' \in {"settle", "verdict", why}
    BY <1>18 DEF Evaluate
  <2>2. cached' \in Nat
    BY <1>0, <2>1, ShapeView, DurablePosIsLeast DEF TypeOK, PolicyTypeOK
  <2>3. PolicyTypeOK'
    BY <1>0, <1>3, <2>1, <2>2 DEF TypeOK, PolicyTypeOK, ReadTypeOK
  <2>4. ReadTypeOK'
    BY <1>0, <2>1, ViewOfPrimary, PrimaryAloneIsReading DEF TypeOK, ReadTypeOK, Seats, Readings
  <2>5. why' = why /\ need' = need /\ seq' = seq /\ extra' = extra
    BY <2>1 DEF waitVars, turnVars
  <2>6. pc' \in {"settle", "verdict", "pending", "slot"} /\ (pc' \in {"pending", "slot"} => Turn)
    <3>1. why \in {"idle", "pending", "slot"} /\ pc = "active"
      BY <1>0, <1>18 DEF TypeOK, TurnTypeOK, Evaluate
    <3>2. QED
      BY <2>1, <3>1, <1>18 DEF Turn, Evaluate
  <2>7. TurnTypeOK' /\ ReadsASlot'
    BY <1>0, <1>6, <2>1, <2>5, <2>6 DEF TypeOK, TurnTypeOK, PCs, ReadsASlot
  <2>8. HasEntry'
    BY <1>7, <2>5, <2>6 DEF Turn
  <2>9. QED
    BY <1>4, <2>1, <2>3, <2>4, <2>7, <2>8
<1>19. CASE OpenDegradedPending
  <2>1. /\ UNCHANGED <<policyVars, pending, seq, extra, reply, waitVars, readVars>>
        /\ pc' = "slot" /\ backing' = "PrimaryOnly" /\ why = "pending"
    BY <1>19 DEF OpenDegradedPending
  <2>2. TurnTypeOK'
    BY <1>0, <1>3, <2>1 DEF TypeOK, TurnTypeOK, PCs, Backings, waitVars
  <2>3. HasEntry' /\ ReadTypeOK' /\ ReadsASlot'
    BY <1>7, <2>1, ShapeFrames DEF Turn, ReadsASlot
  <2>4. QED
    BY <1>4, <1>5, <2>1, <2>2, <2>3
<1>20. QED
  BY <1>9, <1>10, <1>11, <1>12, <1>13, <1>14, <1>15, <1>16, <1>17, <1>18, <1>19
  DEF GateStep, WaitStep

LEMMA ShapeStep == Shape /\ [Next]_vars => Shape'
<1> SUFFICES ASSUME Shape, [Next]_vars PROVE Shape'
  OBVIOUS
<1>1. CASE Next
  BY <1>1, ShapePipeline, ShapeReplicas, ShapeGate DEF Next
<1>2. CASE UNCHANGED vars
  <2>1. UNCHANGED <<pipeVars, replicaVars, gateVars>>
    BY <1>2 DEF vars
  <2>2. TypeOK'
    BY <2>1, ShapeFrames DEF TypeOK, gateVars, pipeVars
  <2>3. QED
    BY <2>1, <2>2
    DEF Shape, Occupied, ReadsASlot, LogInv, PendingAreChanges, IsChange, HasEntry, Turn,
        pipeVars, replicaVars, gateVars, turnVars, waitVars, readVars
<1>3. QED
  BY <1>1, <1>2

LEMMA ShapeAlways == Spec => []Shape
BY ShapeInit, ShapeStep, PTL DEF Spec

\* Every variable of the gate, the pipeline and the slots keeps its type, and
\* every cursor is a position of the log.
THEOREM TypeCorrect == Spec => []TypeOK
<1>1. Shape => TypeOK
  BY DEF Shape
<1>2. QED
  BY <1>1, ShapeAlways, PTL

-----------------------------------------------------------------------------
(* Places, nodes and what they hold *)

\* The places of a reading that a node holding s was read from.
HoldingPlaces(h, by, level, s) ==
  {i \in DOMAIN by : \E n \in by[i] : effective_cursor(h[n], level) >= s}

\* BackedBySlots, over any holdings.
BackedOn(h, p, by, s) ==
  \A k \in DOMAIN to_policy(p) :
    Cardinality(HoldingPlaces(h, by, to_policy(p)[k].level, s)) >= to_policy(p)[k].count

LEMMA HeldIsNat ==
  ASSUME NEW h \in HoldingsType, NEW n \in Nodes, NEW level
  PROVE  effective_cursor(h[n], level) \in Nat
BY DEF HoldingsType, effective_cursor

\* What enough places back stays backed as the nodes' cursors advance, and is
\* for every earlier entry.
LEMMA BackedGrows ==
  ASSUME NEW p \in AckPolicies, NEW by \in Readings, NEW h \in HoldingsType,
         NEW g \in HoldingsType, Grown(h, g), NEW s \in Nat, NEW t \in Nat, t <= s,
         BackedOn(h, p, by, s)
  PROVE  BackedOn(g, p, by, t)
<1>1. ASSUME NEW k \in DOMAIN to_policy(p)
      PROVE  Cardinality(HoldingPlaces(g, by, to_policy(p)[k].level, t)) >= to_policy(p)[k].count
  <2> DEFINE level == to_policy(p)[k].level
             H == HoldingPlaces(h, by, level, s)
             G == HoldingPlaces(g, by, level, t)
  <2>1. H \subseteq G
    <3>1. ASSUME NEW i \in H PROVE i \in G
      <4>1. PICK n \in by[i] : effective_cursor(h[n], level) >= s
        BY DEF HoldingPlaces
      <4>2. i \in DOMAIN by /\ n \in Nodes
        BY <4>1 DEF HoldingPlaces, Readings
      <4>3. /\ h[n] \in [mem : Nat, disk : Nat] /\ g[n] \in [mem : Nat, disk : Nat]
            /\ h[n].mem <= g[n].mem /\ h[n].disk <= g[n].disk
        BY <4>2 DEF HoldingsType, Grown
      <4>4. effective_cursor(g[n], level) >= effective_cursor(h[n], level)
        BY <4>3 DEF effective_cursor
      <4>5. effective_cursor(g[n], level) >= t
        BY <4>1, <4>2, <4>4, HeldIsNat
      <4>6. QED
        BY <4>1, <4>2, <4>5 DEF HoldingPlaces
    <3>2. QED
      BY <3>1
  <2>2. IsFiniteSet(G)
    <3>1. G \subseteq Seats
      BY DEF HoldingPlaces, Readings
    <3>2. QED
      BY <3>1, SeatsAreFinite, FS_Subset
  <2>3. Cardinality(H) <= Cardinality(G) /\ Cardinality(H) \in Nat /\ Cardinality(G) \in Nat
    BY <2>1, <2>2, FS_Subset, FS_CardinalityType
  <2>4. Cardinality(H) >= to_policy(p)[k].count
    BY DEF BackedOn
  <2>5. to_policy(p)[k].count \in Nat
    BY PolicyClauses
  <2>6. QED
    BY <2>3, <2>4, <2>5
<1>2. QED
  BY <1>1 DEF BackedOn

\* As many places are as many nodes, unless one node was read in two places.
LEMMA BackedByNodes ==
  ASSUME NEW p \in AckPolicies, NEW by \in Readings, NEW h \in HoldingsType, NEW s \in Nat,
         BackedOn(h, p, by, s), ~Twice(by)
  PROVE  Satisfied(p, h, s)
<1>1. ASSUME NEW k \in DOMAIN to_policy(p)
      PROVE  Cardinality(Holders(h, to_policy(p)[k].level, s)) >= to_policy(p)[k].count
  <2> DEFINE level == to_policy(p)[k].level
             K == HoldingPlaces(h, by, level, s)
             H == Holders(h, level, s)
             One(i) == CHOOSE n \in by[i] : effective_cursor(h[n], level) >= s
             f == [i \in K |-> One(i)]
  <2>1. ASSUME NEW i \in K PROVE One(i) \in by[i] /\ One(i) \in H /\ i \in DOMAIN by
    <3>1. i \in DOMAIN by /\ \E n \in by[i] : effective_cursor(h[n], level) >= s
      BY DEF HoldingPlaces
    <3>2. One(i) \in by[i] /\ effective_cursor(h[One(i)], level) >= s
      BY <3>1
    <3>3. One(i) \in Nodes /\ DOMAIN h = Nodes
      BY <3>1, <3>2 DEF Readings, HoldingsType
    <3> HIDE DEF One
    <3>4. QED
      BY <3>1, <3>2, <3>3 DEF Holders
  <2> HIDE DEF One
  <2>2. f \in [K -> H]
    BY <2>1
  <2>3. ASSUME NEW i \in K, NEW j \in K, f[i] = f[j] PROVE i = j
    <3>1. One(i) \in by[i] /\ One(i) \in by[j] /\ i \in DOMAIN by /\ j \in DOMAIN by
      BY <2>1, <2>3
    <3>2. QED
      BY <3>1 DEF Twice
  <2> HIDE DEF K, H
  <2>4. f \in Injection(K, H)
    BY <2>2, <2>3 DEF Injection, IsInjective
  <2>5. IsFiniteSet(H)
    <3>1. H \subseteq Nodes
      BY DEF H, Holders, HoldingsType
    <3>2. QED
      BY <3>1, SeatsAreFinite, FS_Subset
  <2>6. Cardinality(K) <= Cardinality(H) /\ Cardinality(K) \in Nat /\ Cardinality(H) \in Nat
    <3> HIDE DEF f
    <3>1. IsFiniteSet(K) /\ Cardinality(K) <= Cardinality(H)
      BY <2>4, <2>5, FS_Injection
    <3>2. QED
      BY <3>1, <2>5, FS_CardinalityType
  <2>7. Cardinality(K) >= to_policy(p)[k].count /\ to_policy(p)[k].count \in Nat
    BY PolicyClauses DEF BackedOn, K
  <2>8. QED
    BY <2>6, <2>7 DEF H
<1>2. QED
  BY <1>1 DEF Satisfied, Holders

\* An evaluation's view satisfies a policy only at positions that as many
\* places back (with_cursor_view, evaluate_with_status).
LEMMA ReadsAreBacked ==
  ASSUME NEW p \in AckPolicies, NEW v, IsView(v), DOMAIN v \subseteq Seats, NEW by \in Readings,
         NEW h \in HoldingsType, LoadedFrom(v, by, h), NEW s \in Nat \ {0}, Satisfied(p, v, s)
  PROVE  BackedOn(h, p, by, s)
<1>1. ASSUME NEW k \in DOMAIN to_policy(p)
      PROVE  Cardinality(HoldingPlaces(h, by, to_policy(p)[k].level, s)) >= to_policy(p)[k].count
  <2> DEFINE level == to_policy(p)[k].level
             V == Holders(v, level, s)
             K == HoldingPlaces(h, by, level, s)
  <2>1. V \subseteq K
    <3>1. ASSUME NEW i \in V PROVE i \in K
      <4>1. /\ i \in DOMAIN v /\ effective_cursor(v[i], level) >= s
            /\ v[i] \in [mem : Nat, disk : Nat] /\ i \in DOMAIN by
        BY DEF Holders, IsView, Readings
      <4>3. CASE level = Persisted \/ v[i].disk >= v[i].mem
        <5>1. v[i].disk >= s /\ v[i].disk > 0
          BY <4>1, <4>3 DEF effective_cursor
        <5>2. PICK n \in by[i] : v[i].disk <= h[n].disk
          BY <4>1, <5>1 DEF LoadedFrom
        <5>3. h[n] \in [mem : Nat, disk : Nat]
          BY <4>1 DEF Readings, HoldingsType
        <5>4. effective_cursor(h[n], level) >= s
          BY <4>1, <5>1, <5>2, <5>3 DEF effective_cursor
        <5>5. QED
          BY <4>1, <5>4 DEF HoldingPlaces
      <4>4. CASE ~(level = Persisted \/ v[i].disk >= v[i].mem)
        <5>1. v[i].mem >= s /\ v[i].mem > 0
          BY <4>1, <4>4 DEF effective_cursor
        <5>2. PICK n \in by[i] : v[i].mem <= h[n].mem
          BY <4>1, <5>1 DEF LoadedFrom
        <5>3. h[n] \in [mem : Nat, disk : Nat]
          BY <4>1 DEF Readings, HoldingsType
        <5>4. effective_cursor(h[n], level) >= s
          BY <4>1, <4>4, <5>1, <5>2, <5>3 DEF effective_cursor
        <5>5. QED
          BY <4>1, <5>4 DEF HoldingPlaces
      <4>5. QED
        BY <4>3, <4>4
    <3>2. QED
      BY <3>1
  <2>2. IsFiniteSet(K)
    <3>1. K \subseteq Seats
      BY DEF HoldingPlaces, Readings
    <3>2. QED
      BY <3>1, SeatsAreFinite, FS_Subset
  <2>3. Cardinality(V) <= Cardinality(K) /\ Cardinality(V) \in Nat /\ Cardinality(K) \in Nat
    BY <2>1, <2>2, FS_Subset, FS_CardinalityType
  <2>4. Cardinality(V) >= to_policy(p)[k].count
    BY DEF Satisfied, Holders
  <2>5. to_policy(p)[k].count \in Nat
    BY PolicyClauses
  <2>6. QED
    BY <2>3, <2>4, <2>5
<1>2. QED
  BY <1>1 DEF BackedOn

\* What enough places back is vouched for.
LEMMA BackedIsVouched ==
  ASSUME Shape, NEW p \in AckPolicies, NEW by \in Readings, NEW s \in Nat
  PROVE  VouchedFor(p, by, s) <=> BackedOn(Holdings, p, by, s)
<1>1. BackedBySlots(p, by, s) <=> BackedOn(Holdings, p, by, s)
  BY DEF BackedBySlots, BackedOn, HoldingPlaces
<1>2. BackedOn(Holdings, p, by, s) => Twice(by) \/ Satisfied(p, Holdings, s)
  BY ShapeView, BackedByNodes
<1>3. QED
  BY <1>1, <1>2 DEF VouchedFor

\* What an evaluation vouched for it still does after a step, and for every
\* earlier entry.
LEMMA VouchedStays ==
  ASSUME Shape, Shape', Grown(Holdings, Holdings'), NEW p \in AckPolicies, NEW by \in Readings,
         NEW s \in Nat, NEW t \in Nat, t <= s, VouchedFor(p, by, s)
  PROVE  VouchedFor(p, by, t)'
<1>1. BackedOn(Holdings, p, by, s) /\ Holdings \in HoldingsType
  BY ShapeView, BackedIsVouched
<1>2. Holdings' \in HoldingsType
  <2>1. (Holdings \in HoldingsType)'
    BY ShapeView, PTL
  <2>2. QED
    BY <2>1
<1>3. BackedOn(Holdings', p, by, t)
  BY <1>1, <1>2, BackedGrows
<1>4. (BackedBySlots(p, by, t))'
  BY <1>3 DEF BackedBySlots, BackedOn, HoldingPlaces
<1>5. (Twice(by) \/ Satisfied(p, Holdings, t))'
  <2>1. Twice(by) \/ Satisfied(p, Holdings', t)
    BY <1>2, <1>3, BackedByNodes
  <2>2. QED
    BY <2>1 DEF Twice, Satisfied
<1>6. QED
  BY <1>4, <1>5 DEF VouchedFor

-----------------------------------------------------------------------------
(* What the gate caches is durable *)

\* What the nodes hold only grows, whatever the step.
LEMMA HoldingsGrow ==
  ASSUME Shape, Shape', [Next]_vars
  PROVE  /\ jpos <= jpos' /\ \A n \in Replicas : held[n] <= held'[n] /\ disk[n] <= disk'[n]
         /\ Grown(Holdings, Holdings')
<1>0. /\ jpos \in Nat /\ jpos' \in Nat
      /\ held \in [Replicas -> 0..Len(log)] /\ disk \in [Replicas -> 0..Len(log)] /\ Len(log) \in Nat
      /\ held' \in [Replicas -> 0..Len(log')] /\ disk' \in [Replicas -> 0..Len(log')] /\ Len(log') \in Nat
  BY DEF Shape, TypeOK, PipeTypeOK, ReplicaTypeOK
<1>1. jpos <= jpos'
  <2>1. CASE Persist
    BY <1>0, <2>1 DEF Persist
  <2>2. CASE ~Persist
    <3>1. jpos' = jpos
      BY <2>2 DEF Next, Pipeline, ReplicaStep, GateStep, WaitStep, Publish, Match, Shutdown,
                  Receive, ReplicaPersist, Lift, Seed, Activate, RecordAck, Lower, ClearCursors,
                  Deactivate, Admit, IdleRecheck, SettledIdle, NothingPending, PendingCovered,
                  WaitPending, SlotCovered, WaitSlot, WaitChecksShutdown, WaitLoadsJournal,
                  SettleFront, ObserveForced, ReadActive, ReadMem, ReadAcked, Evaluate,
                  OpenDegradedPending, OpenDegradedSlot, WaitAgain, SlotReleased, pipeVars, vars
    <3>2. QED
      BY <1>0, <3>1
  <2>3. QED
    BY <2>1, <2>2
<1>2. \A n \in Replicas : held[n] <= held'[n] /\ disk[n] <= disk'[n]
  <2>1. ASSUME NEW n \in Replicas, Receive(n) \/ ReplicaPersist(n)
        PROVE  \A m \in Replicas : held[m] <= held'[m] /\ disk[m] <= disk'[m]
    BY <1>0, <2>1 DEF Receive, ReplicaPersist
  <2>2. CASE ~\E n \in Replicas : Receive(n) \/ ReplicaPersist(n)
    <3>1. held' = held /\ disk' = disk
      BY <2>2 DEF Next, Pipeline, ReplicaStep, GateStep, WaitStep, Publish, Match, Persist, Shutdown,
                  Lift, Seed, Activate, RecordAck, Lower, ClearCursors,
                  Deactivate, Admit, IdleRecheck, SettledIdle, NothingPending, PendingCovered,
                  WaitPending, SlotCovered, WaitSlot, WaitChecksShutdown, WaitLoadsJournal,
                  SettleFront, ObserveForced, ReadActive, ReadMem, ReadAcked, Evaluate,
                  OpenDegradedPending, OpenDegradedSlot, WaitAgain, SlotReleased, replicaVars, vars
    <3>2. QED
      BY <1>0, <3>1
  <2>3. QED
    BY <2>1, <2>2
<1>3. QED
  BY <1>0, <1>1, <1>2, U64MAXAssumption DEF Grown, Holdings, Nodes

\* A change that is applied leaves the cached position only to its own policy
\* (switch_to resets it).
LEMMA ApplyForgets ==
  ASSUME NEW c, ApplyChange(c)
  PROVE  cached' = 0 \/ UNCHANGED <<cached, policy, backers>>
BY DEF ApplyChange, policyVars

\* Only an evaluation moves the cached position; the rest keep it or reset it.
LEMMA OnlyEvaluateCaches ==
  ASSUME [Next]_vars, ~Evaluate
  PROVE  cached' = 0 \/ UNCHANGED <<cached, policy, backers>>
<1>1. CASE Pipeline \/ ReplicaStep \/ UNCHANGED vars
  BY <1>1 DEF Pipeline, ReplicaStep, Publish, Match, Persist, Shutdown, Receive, ReplicaPersist,
              Lift, Seed, Activate, RecordAck, Lower, ClearCursors, Deactivate, vars, gateVars,
              policyVars
<1>2. CASE PendingCovered \/ SettleFront
  BY <1>2, ApplyForgets DEF PendingCovered, SettleFront, ApplyFrontPending
<1>3. CASE ObserveForced
  BY <1>3, ApplyForgets DEF ObserveForced, policyVars
<1>4. ASSUME NEW b, SlotReleased(b)
      PROVE  cached' = 0 \/ UNCHANGED <<cached, policy, backers>>
  BY <1>4, ApplyForgets DEF SlotReleased, policyVars
<1>5. CASE SlotCovered \/ OpenDegradedSlot
  BY <1>4, <1>5 DEF SlotCovered, OpenDegradedSlot
<1>6. CASE \/ Admit \/ IdleRecheck \/ SettledIdle \/ NothingPending \/ WaitPending \/ WaitSlot
           \/ WaitChecksShutdown \/ WaitLoadsJournal \/ ReadActive \/ ReadMem \/ ReadAcked
           \/ OpenDegradedPending \/ WaitAgain
  BY <1>6 DEF Admit, IdleRecheck, SettledIdle, NothingPending, WaitPending, WaitSlot,
              WaitChecksShutdown, WaitLoadsJournal, ReadActive, ReadMem, ReadAcked,
              OpenDegradedPending, WaitAgain, policyVars
<1>7. QED
  BY <1>1, <1>2, <1>3, <1>5, <1>6 DEF Next, GateStep, WaitStep

\* A slot's cursors stay behind its occupant, whichever replica takes the slot.
LEMMA SlotsBehindStep ==
  ASSUME Shape, Shape', SlotsBehind, [Next]_vars
  PROVE  SlotsBehind'
<1>0. /\ held \in [Replicas -> 0..Len(log)] /\ disk \in [Replicas -> 0..Len(log)] /\ Len(log) \in Nat
      /\ held' \in [Replicas -> 0..Len(log')] /\ disk' \in [Replicas -> 0..Len(log')]
      /\ Len(log') \in Nat /\ slot \in [Slots -> SlotType] /\ Occupied
  <2>1. /\ held \in [Replicas -> 0..Len(log)] /\ disk \in [Replicas -> 0..Len(log)]
        /\ slot \in [Slots -> SlotType] /\ Occupied
    BY DEF Shape, TypeOK, ReplicaTypeOK, SlotType
  <2>2. held' \in [Replicas -> 0..Len(log')] /\ disk' \in [Replicas -> 0..Len(log')]
    BY DEF Shape, TypeOK, ReplicaTypeOK
  <2>3. Len(log) \in Nat /\ Len(log') \in Nat
    BY DEF Shape, TypeOK, PipeTypeOK
  <2>4. QED
    BY <2>1, <2>2, <2>3
<1>1. \A n \in Replicas : held[n] <= held'[n] /\ disk[n] <= disk'[n]
  BY HoldingsGrow
<1>2. (\A n \in Replicas : disk[n] <= held[n]) /\ \A i \in Slots : SlotBehind(slot[i])
  BY DEF SlotsBehind
<1>3. CASE \E i \in Slots : \/ \E n \in Replicas : Lift(i, n)
                            \/ Seed(i) \/ Activate(i) \/ RecordAck(i)
                            \/ Lower(i) \/ ClearCursors(i) \/ Deactivate(i)
  <2>1. PICK i \in Slots : \/ \E n \in Replicas : Lift(i, n)
                           \/ Seed(i) \/ Activate(i) \/ RecordAck(i)
                           \/ Lower(i) \/ ClearCursors(i) \/ Deactivate(i)
    BY <1>3
  <2>2. slot[i] \in SlotType /\ SlotBehind(slot[i])
    BY <1>0, <1>2
  <2>3. held' = held /\ disk' = disk
    BY <2>1 DEF Lift, Seed, Activate, RecordAck, Lower, ClearCursors, Deactivate
  <2>4. \E r : slot' = [slot EXCEPT ![i] = r] /\ SlotBehind(r)
    <3>1. ASSUME NEW n \in Replicas, Lift(i, n)
          PROVE  \E r : slot' = [slot EXCEPT ![i] = r] /\ SlotBehind(r)
      <4> DEFINE r == [slot[i] EXCEPT !.phase = "lifted", !.occ = n]
      <4>1. slot' = [slot EXCEPT ![i] = r] /\ slot[i].phase = "free"
        BY <3>1 DEF Lift
      <4>2. SlotBehind(r)
        BY <2>2, <4>1 DEF SlotType, SlotBehind
      <4>3. QED
        BY <4>1, <4>2
    <3>2. CASE Seed(i)
      <4>1. PICK s \in {0, disk[slot[i].occ]} :
              slot' = [slot EXCEPT ![i].phase = "seeded", ![i].mem = s, ![i].acked = s]
        BY <3>2 DEF Seed
      <4>2. slot[i].occ \in Replicas
        BY <1>0, <3>2 DEF Seed, Occupied
      <4>3. s \in Nat /\ s <= disk[slot[i].occ] /\ s <= held[slot[i].occ]
        BY <1>0, <1>2, <4>1, <4>2
      <4> DEFINE r == [slot[i] EXCEPT !.phase = "seeded", !.mem = s, !.acked = s]
      <4>4. slot' = [slot EXCEPT ![i] = r]
        BY <4>1
      <4>5. r.mem = s /\ r.acked = s /\ r.occ = slot[i].occ /\ r.phase = "seeded"
        BY <2>2 DEF SlotType
      <4>6. SlotBehind(r)
        BY <4>2, <4>3, <4>5 DEF SlotBehind
      <4>7. QED
        BY <4>4, <4>6
    <3>3. CASE Activate(i)
      <4> DEFINE r == [slot[i] EXCEPT !.phase = "live", !.active = TRUE]
      <4>1. slot' = [slot EXCEPT ![i] = r]
        BY <3>3 DEF Activate
      <4>2. SlotBehind(r)
        BY <2>2 DEF SlotType, SlotBehind
      <4>3. QED
        BY <4>1, <4>2
    <3>4. CASE RecordAck(i)
      <4>1. PICK m \in slot[i].mem..held[slot[i].occ], a \in slot[i].acked..disk[slot[i].occ] :
              slot' = [slot EXCEPT ![i].mem = m, ![i].acked = a]
        BY <3>4 DEF RecordAck
      <4>2. slot[i].occ \in Replicas /\ slot[i].phase = "live"
        BY <1>0, <3>4 DEF RecordAck, Occupied
      <4>3. m <= held[slot[i].occ] /\ a <= disk[slot[i].occ]
        BY <1>0, <2>2, <4>1, <4>2 DEF SlotType
      <4> DEFINE r == [slot[i] EXCEPT !.mem = m, !.acked = a]
      <4>4. slot' = [slot EXCEPT ![i] = r]
        BY <4>1
      <4>5. r.mem = m /\ r.acked = a /\ r.occ = slot[i].occ /\ r.phase = "live"
        BY <2>2, <4>2 DEF SlotType
      <4>6. SlotBehind(r)
        BY <4>2, <4>3, <4>5 DEF SlotBehind
      <4>7. QED
        BY <4>4, <4>6
    <3>5. CASE Lower(i)
      <4> DEFINE r == [slot[i] EXCEPT !.phase = "lowered"]
      <4>1. slot' = [slot EXCEPT ![i] = r]
        BY <3>5 DEF Lower
      <4>2. SlotBehind(r)
        BY <2>2 DEF SlotType, SlotBehind
      <4>3. QED
        BY <4>1, <4>2
    <3>6. CASE ClearCursors(i)
      <4> DEFINE r == [slot[i] EXCEPT !.phase = "cleared", !.mem = 0, !.acked = 0]
      <4>1. slot' = [slot EXCEPT ![i] = r]
        BY <3>6 DEF ClearCursors
      <4>2. SlotBehind(r)
        BY <2>2 DEF SlotType, SlotBehind
      <4>3. QED
        BY <4>1, <4>2
    <3>7. CASE Deactivate(i)
      <4>1. slot' = [slot EXCEPT ![i] = FreeSlot]
        BY <3>7 DEF Deactivate
      <4>2. SlotBehind(FreeSlot)
        BY DEF FreeSlot, SlotBehind
      <4>3. QED
        BY <4>1, <4>2
    <3>8. QED
      BY <2>1, <3>1, <3>2, <3>3, <3>4, <3>5, <3>6, <3>7
  <2>5. PICK r : slot' = [slot EXCEPT ![i] = r] /\ SlotBehind(r)
    BY <2>4
  <2>6. ASSUME NEW k \in Slots PROVE slot'[k] = (IF k = i THEN r ELSE slot[k])
    BY <1>0, <2>5
  <2>7. ASSUME NEW k \in Slots PROVE SlotBehind(slot[k])'
    <3>1. SlotBehind(slot'[k])
      BY <1>2, <2>5, <2>6
    <3>2. QED
      BY <2>3, <3>1 DEF SlotBehind
  <2>8. QED
    BY <1>2, <2>3, <2>7 DEF SlotsBehind
<1>4. CASE ~\E i \in Slots : \/ \E n \in Replicas : Lift(i, n)
                             \/ Seed(i) \/ Activate(i) \/ RecordAck(i)
                             \/ Lower(i) \/ ClearCursors(i) \/ Deactivate(i)
  <2>1. slot' = slot
    BY <1>4 DEF Next, Pipeline, ReplicaStep, GateStep, WaitStep, Publish, Match, Persist, Shutdown,
                Receive, ReplicaPersist, Admit, IdleRecheck, SettledIdle, NothingPending,
                PendingCovered, WaitPending, SlotCovered, WaitSlot, WaitChecksShutdown,
                WaitLoadsJournal, SettleFront, ObserveForced, ReadActive, ReadMem, ReadAcked,
                Evaluate, OpenDegradedPending, OpenDegradedSlot, WaitAgain, SlotReleased,
                replicaVars, vars
  <2>2. \A n \in Replicas : disk'[n] <= held'[n]
    <3>1. CASE \E n \in Replicas : ReplicaPersist(n)
      BY <1>0, <1>2, <3>1 DEF ReplicaPersist
    <3>2. CASE ~\E n \in Replicas : ReplicaPersist(n)
      <4>1. disk' = disk
        BY <1>4, <3>2
        DEF Next, Pipeline, ReplicaStep, GateStep, WaitStep, Publish, Match, Persist, Shutdown,
                Receive, Admit, IdleRecheck, SettledIdle, NothingPending,
                PendingCovered, WaitPending, SlotCovered, WaitSlot, WaitChecksShutdown,
                WaitLoadsJournal, SettleFront, ObserveForced, ReadActive, ReadMem, ReadAcked,
                Evaluate, OpenDegradedPending, OpenDegradedSlot, WaitAgain, SlotReleased,
                replicaVars, vars
      <4>2. QED
        BY <1>0, <1>1, <1>2, <4>1
    <3>3. QED
      BY <3>1, <3>2
  <2>3. ASSUME NEW i \in Slots PROVE SlotBehind(slot[i])'
    <3>1. slot[i] \in SlotType /\ slot'[i] = slot[i] /\ SlotBehind(slot[i])
      BY <1>0, <1>2, <2>1
    <3>2. slot[i].mem \in Nat /\ slot[i].acked \in Nat
      BY <3>1 DEF SlotType
    <3>3. /\ slot[i].mem > 0 => slot[i].occ \in Replicas /\ slot[i].mem <= held'[slot[i].occ]
          /\ slot[i].acked > 0 => slot[i].occ \in Replicas /\ slot[i].acked <= disk'[slot[i].occ]
      BY <1>0, <1>1, <3>1, <3>2 DEF SlotBehind
    <3>4. QED
      BY <3>1, <3>3 DEF SlotBehind
  <2>4. QED
    BY <2>2, <2>3 DEF SlotsBehind
<1>5. QED
  BY <1>3, <1>4

\* What a view was loaded from still covers it once the nodes hold more and
\* more nodes have been read.
LEMMA LoadedGrows ==
  ASSUME NEW v, IsView(v), DOMAIN v \subseteq Seats, NEW by \in Readings, NEW to \in Readings,
         NEW h \in HoldingsType, NEW g \in HoldingsType, Grown(h, g), LoadedFrom(v, by, h),
         \A i \in DOMAIN v : by[i] \subseteq to[i]
  PROVE  LoadedFrom(v, to, g)
<1>1. ASSUME NEW i \in DOMAIN v
      PROVE  /\ v[i].mem > 0 => \E n \in to[i] : v[i].mem <= g[n].mem
             /\ v[i].disk > 0 => \E n \in to[i] : v[i].disk <= g[n].disk
  <2>1. v[i] \in [mem : Nat, disk : Nat] /\ by[i] \subseteq Nodes /\ by[i] \subseteq to[i]
    BY DEF IsView, Readings
  <2>2. ASSUME NEW n \in by[i]
        PROVE  /\ h[n].mem <= g[n].mem /\ h[n].disk <= g[n].disk
               /\ h[n] \in [mem : Nat, disk : Nat] /\ g[n] \in [mem : Nat, disk : Nat]
    BY <2>1 DEF Grown, HoldingsType
  <2>3. ASSUME v[i].mem > 0 PROVE \E n \in to[i] : v[i].mem <= g[n].mem
    <3>1. PICK n \in by[i] : v[i].mem <= h[n].mem
      BY <2>3 DEF LoadedFrom
    <3>2. v[i].mem <= g[n].mem
      BY <2>1, <2>2, <3>1
    <3>3. QED
      BY <2>1, <3>2
  <2>4. ASSUME v[i].disk > 0 PROVE \E n \in to[i] : v[i].disk <= g[n].disk
    <3>1. PICK n \in by[i] : v[i].disk <= h[n].disk
      BY <2>4 DEF LoadedFrom
    <3>2. v[i].disk <= g[n].disk
      BY <2>1, <2>2, <3>1
    <3>3. QED
      BY <2>1, <3>2
  <2>5. QED
    BY <2>3, <2>4
<1>2. QED
  BY <1>1 DEF LoadedFrom

\* The first entry of a view is the primary's own.
LEMMA PrimaryLoaded ==
  ASSUME NEW j \in Nat, NEW h, h[Primary].mem = U64MAX, j <= h[Primary].disk
  PROVE  LoadedFrom(PrimaryView(j), PrimaryAlone, h)
BY U64MAXAssumption DEF LoadedFrom, PrimaryView, PrimaryAlone, Seats

\* What an evaluation has loaded stays behind what the nodes hold.
LEMMA ReadsBehindStep ==
  ASSUME Shape, Shape', SlotsBehind, ReadsBehind, [Next]_vars
  PROVE  ReadsBehind'
<1>0. /\ look \in Nat /\ jpos \in Nat /\ jpos' \in Nat /\ jpos <= jpos'
      /\ IsView(view) /\ DOMAIN view \subseteq Seats /\ from \in Readings
      /\ Holdings \in HoldingsType /\ Holdings' \in HoldingsType /\ Grown(Holdings, Holdings')
  <2>1. (Holdings \in HoldingsType)'
    BY ShapeView, PTL
  <2>2. jpos' \in Nat
    BY DEF Shape, TypeOK, PipeTypeOK
  <2>3. QED
    BY <2>1, <2>2, ShapeView, HoldingsGrow DEF Shape, TypeOK, PipeTypeOK, ReadTypeOK, Readings
<1>1. ASSUME NEW to \in Readings, \A i \in Seats : from[i] \subseteq to[i]
      PROVE  LoadedFrom(view, to, Holdings')
  <2>1. LoadedFrom(view, from, Holdings)
    BY DEF ReadsBehind
  <2>2. \A i \in DOMAIN view : from[i] \subseteq to[i]
    BY <1>0, <1>1
  <2>3. QED
    BY <1>0, <2>1, <2>2, LoadedGrows
<1>2. LoadedFrom(view, from, Holdings')
  BY <1>0, <1>1
<1>3. ASSUME NEW j \in Nat, j <= jpos' PROVE LoadedFrom(PrimaryView(j), PrimaryAlone, Holdings')
  <2>1. Holdings'[Primary].mem = U64MAX /\ Holdings'[Primary].disk = jpos'
    BY DEF Holdings, Nodes
  <2>2. QED
    BY <1>3, <2>1, PrimaryLoaded
<1>4. ASSUME NEW i \in Slots
      PROVE  /\ slot[i].mem > 0 => \E n \in Occupant(i) : slot[i].mem <= Holdings[n].mem
             /\ slot[i].acked > 0 => \E n \in Occupant(i) : slot[i].acked <= Holdings[n].disk
  <2>1. SlotBehind(slot[i])
    BY DEF SlotsBehind
  <2>2. ASSUME slot[i].occ \in Replicas
        PROVE  /\ Occupant(i) = {slot[i].occ}
               /\ Holdings[slot[i].occ] = [mem |-> held[slot[i].occ], disk |-> disk[slot[i].occ]]
    BY <2>2, GateAssumption DEF Occupant, Holdings, Nodes, None, Primary
  <2>3. QED
    BY <2>1, <2>2 DEF SlotBehind
<1>5. CASE WaitLoadsJournal \/ WaitAgain
  BY <1>0, <1>2, <1>5 DEF WaitLoadsJournal, WaitAgain, ReadsBehind, pipeVars
<1>6. CASE ObserveForced \/ IdleRecheck
  <2>1. /\ look' \in {look, jpos} /\ view' = PrimaryView(look') /\ from' = PrimaryAlone
        /\ pc' = "active" /\ jpos' = jpos
    BY <1>6 DEF ObserveForced, IdleRecheck, StartView, pipeVars
  <2>2. look' \in Nat /\ look' <= jpos'
    BY <1>0, <2>1 DEF ReadsBehind
  <2>3. LoadedFrom(view', from', Holdings')
    BY <1>3, <2>1, <2>2
  <2>4. QED
    BY <2>1, <2>2, <2>3 DEF ReadsBehind
<1>7. ASSUME at \in Slots, from' = [from EXCEPT ![at] = @ \cup Occupant(at)]
      PROVE  /\ from' \in Readings /\ \A i \in Seats : from[i] \subseteq from'[i]
             /\ Occupant(at) \subseteq from'[at]
  <2>1. at \in Seats /\ from' \in Readings
    BY <1>7, LoadKeepsReading DEF Seats
  <2>2. QED
    BY <1>0, <1>7, <2>1 DEF Readings
<1>8. CASE ReadMem
  <2>1. /\ mem' = slot[at].mem /\ at' = at /\ look' = look /\ view' = view
        /\ from' = [from EXCEPT ![at] = @ \cup Occupant(at)]
        /\ Holdings' = Holdings /\ jpos' = jpos /\ at \in Slots
    BY <1>8 DEF ReadMem, Shape, ReadsASlot, replicaVars, pipeVars, Holdings
  <2>2. LoadedFrom(view, from', Holdings') /\ Occupant(at) \subseteq from'[at]
    BY <1>1, <1>7, <2>1
  <2>3. mem' > 0 => \E n \in from'[at] : mem' <= Holdings'[n].mem
    BY <1>4, <2>1, <2>2
  <2>4. QED
    BY <2>1, <2>2, <2>3 DEF ReadsBehind
<1>9. CASE ReadAcked
  <2>1. /\ at \in Slots /\ pc' = "active" /\ look' = look /\ jpos' = jpos
        /\ view' = [n \in DOMAIN view \cup {at} |->
                      IF n = at THEN [mem |-> mem, disk |-> slot[at].acked] ELSE view[n]]
        /\ from' = [from EXCEPT ![at] = @ \cup Occupant(at)] /\ Holdings' = Holdings
        /\ (mem > 0 => \E n \in from[at] : mem <= Holdings[n].mem)
    BY <1>9 DEF ReadAcked, Shape, ReadsASlot, replicaVars, pipeVars, Holdings, ReadsBehind
  <2>2. /\ LoadedFrom(view, from', Holdings) /\ Occupant(at) \subseteq from'[at]
        /\ from[at] \subseteq from'[at]
    BY <1>1, <1>7, <2>1 DEF Seats
  <2>3. slot[at].acked > 0 => \E n \in from'[at] : slot[at].acked <= Holdings[n].disk
    BY <1>4, <2>1, <2>2
  <2>4. mem > 0 => \E n \in from'[at] : mem <= Holdings[n].mem
    BY <2>1, <2>2
  <2>5. ASSUME NEW i \in DOMAIN view'
        PROVE  /\ view'[i].mem > 0 => \E n \in from'[i] : view'[i].mem <= Holdings[n].mem
               /\ view'[i].disk > 0 => \E n \in from'[i] : view'[i].disk <= Holdings[n].disk
    <3>1. CASE i = at
      BY <2>1, <2>3, <2>4, <3>1
    <3>2. CASE i # at
      <4>1. i \in DOMAIN view /\ view'[i] = view[i]
        BY <2>1, <3>2
      <4>2. QED
        BY <2>2, <4>1 DEF LoadedFrom
    <3>3. QED
      BY <3>1, <3>2
  <2>6. LoadedFrom(view', from', Holdings')
    BY <2>1, <2>5 DEF LoadedFrom
  <2>7. QED
    BY <2>1, <2>6 DEF ReadsBehind
<1>10. CASE Evaluate
  <2>1. /\ view' = PrimaryView(0) /\ from' = PrimaryAlone /\ look' = look /\ jpos' = jpos
        /\ pc' \in {"settle", "verdict", why}
    BY <1>10 DEF Evaluate, pipeVars
  <2>2. pc' # "acked"
    BY <2>1 DEF Shape, TypeOK, TurnTypeOK
  <2>3. LoadedFrom(view', from', Holdings')
    BY <1>0, <1>3, <2>1
  <2>4. QED
    BY <1>0, <2>1, <2>2, <2>3 DEF ReadsBehind
<1>11. ASSUME EndTurn PROVE ReadsBehind'
  <2>1. LoadedFrom(view', from', Holdings')
    BY <1>0, <1>3, <1>11 DEF EndTurn
  <2>2. QED
    BY <1>0, <1>11, <2>1 DEF EndTurn, ReadsBehind
<1>12. CASE SettledIdle \/ SlotCovered \/ OpenDegradedSlot
  BY <1>11, <1>12 DEF SettledIdle, SlotCovered, OpenDegradedSlot, SlotReleased
<1>13. CASE ReadActive
  BY <1>0, <1>2, <1>13 DEF ReadActive, ReadsBehind, pipeVars
<1>14. CASE \/ Admit \/ NothingPending \/ PendingCovered \/ WaitPending \/ WaitSlot
            \/ WaitChecksShutdown \/ SettleFront \/ OpenDegradedPending
  <2>1. UNCHANGED <<look, view, from, at, mem, jpos>> /\ pc' # "acked"
    BY <1>14 DEF Admit, NothingPending, PendingCovered, WaitPending, WaitSlot, WaitChecksShutdown,
                 SettleFront, OpenDegradedPending, StartWait, readVars, pipeVars
  <2>2. QED
    BY <1>2, <2>1 DEF ReadsBehind
<1>15. CASE Pipeline \/ ReplicaStep \/ UNCHANGED vars
  <2>1. UNCHANGED <<pc, look, view, from, at, mem>>
    BY <1>15 DEF Pipeline, ReplicaStep, Publish, Match, Persist, Shutdown, Receive, ReplicaPersist,
              Lift, Seed, Activate, RecordAck, Lower, ClearCursors, Deactivate, vars, gateVars,
              readVars
  <2>2. ASSUME pc = "acked", mem > 0 PROVE \E n \in from[at] : mem <= Holdings'[n].mem
    <3>1. at \in Seats /\ mem \in Nat
      BY <2>2 DEF Shape, ReadsASlot, TypeOK, ReadTypeOK, Seats
    <3>2. PICK n \in from[at] : mem <= Holdings[n].mem
      BY <2>2 DEF ReadsBehind
    <3>3. n \in Nodes
      BY <1>0, <3>1 DEF Readings
    <3>4. Holdings[n].mem \in Nat /\ Holdings'[n].mem \in Nat /\ Holdings[n].mem <= Holdings'[n].mem
      BY <1>0, <3>3 DEF HoldingsType, Grown
    <3>5. mem <= Holdings'[n].mem
      BY <3>1, <3>2, <3>4
    <3>6. QED
      BY <3>5
  <2>3. QED
    BY <1>0, <1>2, <2>1, <2>2 DEF ReadsBehind
<1>16. QED
  BY <1>5, <1>6, <1>8, <1>9, <1>10, <1>12, <1>13, <1>14, <1>15 DEF Next, GateStep, WaitStep

\* The types the steps of the cached position need.
LEMMA StepTypes ==
  ASSUME Shape, Shape'
  PROVE  /\ policy \in AckPolicies /\ policy' \in AckPolicies
         /\ cached \in Nat /\ cached' \in Nat
         /\ backers \in Readings /\ backers' \in Readings
BY DEF Shape, TypeOK, PolicyTypeOK, Readings

LEMMA CachedStep ==
  ASSUME Shape, Shape', ReadsBehind, CachedIsDurable, [Next]_vars
  PROVE  CachedIsDurable'
<1> SUFFICES ASSUME cached' > 0 PROVE VouchedFor(policy, backers, cached)'
  BY DEF CachedIsDurable
<1>0. Grown(Holdings, Holdings')
  BY HoldingsGrow
<1>1. PICK p \in AckPolicies, by \in Readings, s \in Nat :
        p = policy' /\ by = backers' /\ s = cached'
  BY StepTypes
<1>2. CASE Evaluate
  <2>1. /\ p = policy /\ s = durable_pos(policy, view) /\ by = from
    BY <1>1, <1>2 DEF Evaluate
  <2>2. /\ IsView(view) /\ DOMAIN view \subseteq Seats /\ Holdings \in HoldingsType
        /\ LoadedFrom(view, by, Holdings) /\ s \in Nat \ {0}
    BY <1>1, <2>1, ShapeView DEF ReadsBehind
  <2>3. Satisfied(p, view, s)
    BY <2>1, <2>2, DurablePosIsHeld
  <2>4. VouchedFor(p, by, s)
    BY <2>2, <2>3, ReadsAreBacked, BackedIsVouched
  <2>5. VouchedFor(p, by, s)'
    BY <1>0, <2>4, VouchedStays
  <2>6. QED
    BY <1>1, <2>5 DEF VouchedFor, BackedBySlots, Twice, Satisfied
<1>3. CASE ~Evaluate
  <2>1. p = policy /\ by = backers /\ s = cached /\ s > 0
    BY <1>1, <1>3, OnlyEvaluateCaches
  <2>2. VouchedFor(p, by, s)
    BY <2>1 DEF CachedIsDurable
  <2>3. VouchedFor(p, by, s)'
    BY <1>0, <2>2, VouchedStays
  <2>4. QED
    BY <1>1, <2>3 DEF VouchedFor, BackedBySlots, Twice, Satisfied
<1>4. QED
  BY <1>2, <1>3

\* The part of the invariant about cursors.
CursorInv == Shape /\ SlotsBehind /\ ReadsBehind /\ CachedIsDurable

LEMMA CursorInit == Init => CursorInv
<1> SUFFICES ASSUME Init PROVE CursorInv
  OBVIOUS
<1>1. Shape
  BY ShapeInit
<1>2. /\ held = disk /\ slot = [i \in Slots |-> FreeSlot]
      /\ cached = durable_pos(policy, PrimaryView(jpos))
      /\ pc = "settle" /\ look = jpos /\ view = PrimaryView(0)
      /\ from = PrimaryAlone /\ backers = PrimaryAlone
  BY DEF Init
<1>3. /\ jpos \in Nat /\ policy \in AckPolicies /\ disk \in [Replicas -> 0..Len(log)]
      /\ Len(log) \in Nat /\ Holdings \in HoldingsType
  BY <1>1, ShapeView DEF Shape, TypeOK, PipeTypeOK, PolicyTypeOK, ReplicaTypeOK
<1>4. SlotsBehind
  BY <1>2, <1>3 DEF SlotsBehind, SlotBehind, FreeSlot
<1>5. ASSUME NEW j \in Nat, j <= jpos PROVE LoadedFrom(PrimaryView(j), PrimaryAlone, Holdings)
  <2>1. Holdings[Primary].mem = U64MAX /\ Holdings[Primary].disk = jpos
    BY DEF Holdings, Nodes
  <2>2. QED
    BY <1>5, <2>1, PrimaryLoaded
<1>6. ReadsBehind
  BY <1>2, <1>3, <1>5 DEF ReadsBehind
<1>7. CachedIsDurable
  <2>1. SUFFICES ASSUME cached > 0 PROVE VouchedFor(policy, backers, cached)
    BY DEF CachedIsDurable
  <2>2. /\ IsView(PrimaryView(jpos)) /\ DOMAIN PrimaryView(jpos) \subseteq Seats
        /\ LoadedFrom(PrimaryView(jpos), backers, Holdings) /\ backers \in Readings
    BY <1>2, <1>3, <1>5, ViewOfPrimary, PrimaryAloneIsReading DEF Seats
  <2>3. cached \in Nat \ {0} /\ Satisfied(policy, PrimaryView(jpos), cached)
    BY <1>2, <1>3, <2>1, <2>2, DurablePosIsHeld, DurablePosIsLeast
  <2>4. BackedOn(Holdings, policy, backers, cached)
    BY <1>3, <2>2, <2>3, ReadsAreBacked
  <2>5. QED
    BY <1>1, <1>3, <2>2, <2>3, <2>4, BackedIsVouched
<1>8. QED
  BY <1>1, <1>4, <1>6, <1>7 DEF CursorInv

LEMMA CursorStep == CursorInv /\ [Next]_vars => CursorInv'
<1> SUFFICES ASSUME CursorInv, [Next]_vars PROVE CursorInv'
  OBVIOUS
<1>1. Shape /\ Shape' /\ SlotsBehind /\ ReadsBehind /\ CachedIsDurable
  BY ShapeStep DEF CursorInv
<1>2. SlotsBehind'
  BY <1>1, SlotsBehindStep
<1>3. ReadsBehind'
  BY <1>1, ReadsBehindStep
<1>4. CachedIsDurable'
  BY <1>1, CachedStep
<1>5. QED
  BY <1>1, <1>2, <1>3, <1>4 DEF CursorInv

\* The position the gate caches is durable under the policy in force, for any
\* number of slots and replicas, whichever replica takes which slot and
\* however the loads interleave with acks, teardowns, handshakes, fsyncs and
\* policy switches: as many connections as the policy demands are of nodes
\* that hold it, and as many nodes unless one was behind two of them.
THEOREM CachedAlwaysDurable == Spec => []CachedIsDurable
<1>1. CursorInv => CachedIsDurable
  BY DEF CursorInv
<1>2. QED
  BY <1>1, CursorStep, CursorInit, PTL DEF Spec

-----------------------------------------------------------------------------
(* Replies are backed *)

LEMMA TurnStep ==
  ASSUME Shape, TurnInv, [Next]_vars
  PROVE  TurnInv'
<1>0. why \in {"idle", "pending", "slot"}
  BY DEF Shape, TypeOK, TurnTypeOK
<1>1. ASSUME EndTurn PROVE TurnInv'
  BY <1>1 DEF EndTurn, TurnInv
<1>2. CASE SettledIdle \/ SlotCovered \/ OpenDegradedSlot
  BY <1>1, <1>2 DEF SettledIdle, SlotCovered, OpenDegradedSlot, SlotReleased
<1>3. CASE Admit
  BY <1>3 DEF Admit, TurnInv, waitVars
<1>4. CASE IdleRecheck
  BY <1>4 DEF IdleRecheck, StartView, TurnInv, waitVars
<1>5. CASE NothingPending
  BY <1>5 DEF NothingPending, TurnInv, waitVars, turnVars
<1>6. CASE PendingCovered \/ SettleFront
  BY <1>6 DEF PendingCovered, SettleFront, FrontDurable, ApplyFrontPending, TurnInv, waitVars,
              turnVars
<1>7. CASE WaitPending \/ WaitSlot
  BY <1>7 DEF WaitPending, WaitSlot, StartWait, TurnInv, turnVars
<1>8. CASE WaitChecksShutdown \/ WaitLoadsJournal \/ WaitAgain
  BY <1>8 DEF WaitChecksShutdown, WaitLoadsJournal, WaitAgain, TurnInv, turnVars, waitVars
<1>9. CASE ObserveForced \/ ReadActive \/ ReadMem \/ ReadAcked
  <2>1. UNCHANGED <<pending, turnVars, waitVars>> /\ pc' \in {"active", "mem", "acked"}
    BY <1>9 DEF ObserveForced, ReadActive, ReadMem, ReadAcked, StartView
  <2>2. QED
    BY <2>1 DEF TurnInv, turnVars, waitVars
<1>10. CASE Evaluate
  <2>1. UNCHANGED <<pending, turnVars, waitVars>> /\ pc' \in {"settle", "verdict", why} /\ pc' # "idle"
    BY <1>0, <1>10 DEF Evaluate
  <2>2. QED
    BY <2>1 DEF TurnInv, turnVars, waitVars
<1>11. CASE OpenDegradedPending
  BY <1>11 DEF OpenDegradedPending, TurnInv, waitVars
<1>12. CASE Pipeline \/ ReplicaStep \/ UNCHANGED vars
  BY <1>12 DEF Pipeline, ReplicaStep, Publish, Match, Persist, Shutdown, Receive, ReplicaPersist,
               Lift, Seed, Activate, RecordAck, Lower, ClearCursors, Deactivate, vars, gateVars,
               turnVars, waitVars, TurnInv
<1>13. QED
  BY <1>2, <1>3, <1>4, <1>5, <1>6, <1>7, <1>8, <1>9, <1>10, <1>11, <1>12 DEF Next, GateStep, WaitStep

\* The reply admit_slot releases with backing b.
ReplyNow(b) == [seq |-> seq, backing |-> b, policy |-> policy, by |-> backers]

\* The steps that leave the reply of the turn alone, drop it or set it.
LEMMA ReplySteps ==
  ASSUME [Next]_vars
  PROVE  \/ reply' = reply
         \/ reply' = NoReply
         \/ SlotCovered /\ reply' = ReplyNow(backing) /\ (extra \/ ~IsChange(seq))
         \/ OpenDegradedSlot /\ reply' = ReplyNow("PrimaryOnly")
<1>1. CASE SlotCovered \/ OpenDegradedSlot
  BY <1>1 DEF SlotCovered, OpenDegradedSlot, SlotReleased, ReplyNow
<1>2. CASE Admit \/ IdleRecheck
  BY <1>2 DEF Admit, IdleRecheck, NewTurn
<1>3. CASE ~(SlotCovered \/ OpenDegradedSlot \/ Admit \/ IdleRecheck)
  BY <1>3 DEF Next, Pipeline, ReplicaStep, GateStep, WaitStep, Publish, Match, Persist, Shutdown,
              Receive, ReplicaPersist, Lift, Seed, Activate, RecordAck, Lower, ClearCursors,
              Deactivate, SettledIdle, NothingPending, PendingCovered, WaitPending, WaitSlot,
              WaitChecksShutdown, WaitLoadsJournal, SettleFront, ObserveForced, ReadActive, ReadMem,
              ReadAcked, Evaluate, OpenDegradedPending, WaitAgain, gateVars, turnVars, vars
<1>4. QED
  BY <1>1, <1>2, <1>3

LEMMA ReplyBackedStep ==
  ASSUME CursorInv, CursorInv', TurnInv, ReplyBacked, [Next]_vars
  PROVE  ReplyBacked'
<1> Shape /\ Shape' /\ ReadsBehind /\ CachedIsDurable
  BY DEF CursorInv
<1>a. Len(log) \in Nat /\ matched \in Nat /\ jpos \in Nat
  BY DEF Shape, TypeOK, PipeTypeOK
<1>b. jpos' \in Nat
  BY DEF Shape, TypeOK, PipeTypeOK
<1>c. seq \in 0..matched /\ look \in Nat /\ reply \in ReplyType(Len(log))
  BY DEF Shape, TypeOK, TurnTypeOK, ReadTypeOK, ReplyType, Readings
<1>0. /\ reply.seq \in Nat /\ reply.policy \in AckPolicies /\ reply.by \in Readings
      /\ seq \in Nat /\ jpos \in Nat /\ jpos' \in Nat /\ look \in Nat
  BY <1>a, <1>b, <1>c DEF ReplyType
<1>1. jpos <= jpos' /\ Grown(Holdings, Holdings')
  BY <1>0, HoldingsGrow
<1>2. CASE reply' = reply
  <2>1. PICK p \in AckPolicies, by \in Readings, s \in Nat :
          p = reply.policy /\ by = reply.by /\ s = reply.seq
    BY <1>0
  <2>2. p = reply'.policy /\ by = reply'.by /\ s = reply'.seq
    BY <1>2, <2>1
  <2>3. CASE s = 0
    BY <2>2, <2>3 DEF ReplyBacked
  <2>4. CASE VouchedFor(p, by, s)
    <3>1. VouchedFor(p, by, s)'
      BY <1>1, <2>4, VouchedStays
    <3>2. QED
      BY <2>2, <3>1 DEF ReplyBacked, VouchedFor, BackedBySlots, Twice, Satisfied
  <2>5. CASE reply.backing = "PrimaryOnly" /\ s <= jpos
    BY <1>0, <1>1, <1>2, <2>1, <2>5 DEF ReplyBacked
  <2>6. QED
    BY <2>1, <2>3, <2>4, <2>5 DEF ReplyBacked
<1>3. CASE reply' = NoReply
  BY <1>3 DEF ReplyBacked, NoReply
<1>4. CASE SlotCovered /\ reply' = ReplyNow(backing)
  <2>1. PICK p \in AckPolicies, by \in Readings, s \in Nat, t \in Nat :
          p = policy /\ by = backers /\ s = cached /\ t = seq
    BY <1>0, StepTypes
  <2>2. p = reply'.policy /\ by = reply'.by /\ t = reply'.seq
    BY <1>4, <2>1 DEF ReplyNow
  <2>3. CASE t = 0
    BY <2>2, <2>3 DEF ReplyBacked
  <2>4. CASE t > 0
    <3>1. t <= s /\ s > 0
      BY <1>4, <2>1, <2>4 DEF SlotCovered
    <3>2. VouchedFor(p, by, s)
      BY <2>1, <3>1 DEF CachedIsDurable
    <3>3. VouchedFor(p, by, t)'
      BY <1>1, <3>1, <3>2, VouchedStays
    <3>4. QED
      BY <2>2, <3>3 DEF ReplyBacked, VouchedFor, BackedBySlots, Twice, Satisfied
  <2>5. QED
    BY <2>3, <2>4
<1>5. CASE OpenDegradedSlot /\ reply' = ReplyNow("PrimaryOnly")
  <2>1. need = seq /\ look >= need
    BY <1>5 DEF OpenDegradedSlot, TurnInv
  <2>2. seq <= jpos'
    BY <1>0, <1>1, <2>1 DEF ReadsBehind
  <2>3. reply'.seq = seq /\ reply'.backing = "PrimaryOnly"
    BY <1>5 DEF ReplyNow
  <2>4. QED
    BY <2>2, <2>3 DEF ReplyBacked
<1>6. QED
  BY <1>2, <1>3, <1>4, <1>5, ReplySteps

\* A reply released under the policy is held as that policy demands, and one
\* released degraded is too or is on the primary's disk, for any number of
\* slots and replicas and wherever a replica reconnects: by that many of the
\* connections counted, and by that many nodes unless one node was behind two
\* of them.
THEOREM RepliesAreBacked == Spec => []ReplyBacked
<1> DEFINE Inv == CursorInv /\ TurnInv /\ ReplyBacked
<1>1. Init => Inv
  <2> SUFFICES ASSUME Init PROVE TurnInv /\ ReplyBacked
    BY CursorInit
  <2>1. why = "idle" /\ pc = "settle" /\ reply.seq = 0
    BY DEF Init, NoReply
  <2>2. QED
    BY <2>1 DEF TurnInv, ReplyBacked
<1>2. Inv /\ [Next]_vars => Inv'
  BY CursorStep, TurnStep, ReplyBackedStep DEF CursorInv
<1>3. QED
  BY <1>1, <1>2, PTL DEF Spec

-----------------------------------------------------------------------------
(* The policy in force *)

\* A set of naturals below a bound has a greatest element.
LEMMA GreatestExists ==
  ASSUME NEW n \in Nat, NEW S \in SUBSET (1..n), S # {}
  PROVE  \E c \in S : \A d \in S : d <= c
<1> DEFINE T == {n - c : c \in S}
<1>1. T \subseteq Nat /\ T # {}
  <2>1. ASSUME NEW c \in S PROVE n - c \in Nat
    <3>1. c \in 1..n
      OBVIOUS
    <3>2. QED
      BY <3>1
  <2>2. T \subseteq Nat
    BY <2>1
  <2>3. PICK c \in S : TRUE
    OBVIOUS
  <2>4. n - c \in T
    BY <2>3
  <2>5. QED
    BY <2>2, <2>4
<1>2. \E x \in T : \A y \in T : ~(<<y, x>> \in OpToRel(<, Nat))
  BY <1>1, WFMin, NatLessThanWellFounded
<1>3. PICK x \in T : \A y \in T : ~(y < x)
  BY <1>1, <1>2 DEF OpToRel
<1>4. PICK c \in S : x = n - c
  OBVIOUS
<1>5. ASSUME NEW d \in S PROVE d <= c
  <2>1. n - d \in T
    OBVIOUS
  <2>2. ~(n - d < n - c)
    BY <1>3, <1>4, <2>1
  <2>3. QED
    BY <2>2
<1>6. QED
  BY <1>5

NewestOf(S) == CHOOSE c \in S : \A d \in S : d <= c
ChangesUpTo(l, n) == {c \in 1..n : l[c].byte # Write}

\* Governing in those terms.
LEMMA GoverningForm ==
  ASSUME NEW l, NEW b, NEW n
  PROVE  Governing(l, b, n) = IF ChangesUpTo(l, n) = {} THEN b
                              ELSE l[NewestOf(ChangesUpTo(l, n))].byte
BY DEF Governing, NewestOf, ChangesUpTo

\* A change governs what follows it.
LEMMA GoverningAtChange ==
  ASSUME NEW l, NEW b, NEW n \in Nat, n > 0, l[n].byte # Write
  PROVE  Governing(l, b, n) = l[n].byte
<1> DEFINE changes == {c \in 1..n : l[c].byte # Write}
           top == CHOOSE c \in changes : \A d \in changes : d <= c
<1>1. n \in changes /\ \A d \in changes : d <= n
  OBVIOUS
<1>2. top \in changes /\ \A d \in changes : d <= top
  BY <1>1
<1>3. top = n
  BY <1>1, <1>2
<1>4. QED
  BY <1>1, <1>3 DEF Governing

\* An entry that is no change leaves the policy as it was.
LEMMA GoverningSkips ==
  ASSUME NEW l, NEW b, NEW m \in Nat, NEW n \in Nat, m <= n,
         \A c \in m + 1 .. n : l[c].byte = Write
  PROVE  Governing(l, b, n) = Governing(l, b, m)
<1>1. ChangesUpTo(l, n) = ChangesUpTo(l, m)
  BY DEF ChangesUpTo
<1>2. QED
  BY <1>1, GoverningForm

\* It depends on the entries up to its own alone.
LEMMA GoverningLocal ==
  ASSUME NEW l, NEW k, NEW b, NEW n \in Nat, \A c \in 1..n : k[c] = l[c]
  PROVE  Governing(k, b, n) = Governing(l, b, n)
<1> DEFINE changes == ChangesUpTo(l, n)
<1>1. ChangesUpTo(k, n) = changes /\ changes \subseteq 1..n
  BY DEF ChangesUpTo
<1> HIDE DEF changes
<1>2. CASE changes = {}
  BY <1>1, <1>2, GoverningForm DEF changes
<1>3. CASE changes # {}
  <2>1. \E c \in changes : \A d \in changes : d <= c
    BY <1>1, <1>3, GreatestExists
  <2>2. NewestOf(changes) \in changes
    BY <2>1 DEF NewestOf
  <2>3. k[NewestOf(changes)] = l[NewestOf(changes)]
    BY <1>1, <2>2
  <2>4. QED
    BY <1>1, <1>3, <2>3, GoverningForm DEF changes
<1>4. QED
  BY <1>2, <1>3

\* The journal position an evaluation loaded is behind the journal's.
LookBehind == look <= jpos

LEMMA LookStep ==
  ASSUME Shape, Shape', LookBehind, [Next]_vars
  PROVE  LookBehind'
<1>0. look \in Nat /\ jpos \in Nat /\ jpos' \in Nat /\ jpos <= jpos'
  BY HoldingsGrow DEF Shape, TypeOK, PipeTypeOK, ReadTypeOK
<1>1. look' = look \/ look' = 0 \/ (look' = jpos /\ jpos' = jpos)
  BY DEF Next, Pipeline, ReplicaStep, GateStep, WaitStep, Publish, Match, Persist, Shutdown,
         Receive, ReplicaPersist, Lift, Seed, Activate, RecordAck, Lower, ClearCursors,
         Deactivate, Admit, IdleRecheck, SettledIdle, NothingPending, PendingCovered, WaitPending,
         SlotCovered, WaitSlot, WaitChecksShutdown, WaitLoadsJournal, SettleFront, ObserveForced,
         ReadActive, ReadMem, ReadAcked, Evaluate, OpenDegradedPending, OpenDegradedSlot,
         WaitAgain, SlotReleased, EndTurn, StartView, gateVars, readVars, pipeVars, vars
<1>2. QED
  BY <1>0, <1>1 DEF LookBehind

\* What the gate's policy rests on.
GovernInv == Shape /\ LookBehind /\ TurnInv /\ PendingInv /\ PolicyInv

\* The numbers the invariant speaks of.
LEMMA GovernTypes ==
  ASSUME Shape
  PROVE  /\ Len(log) \in Nat /\ matched \in Nat /\ jpos \in Nat /\ seq \in Nat /\ cached \in Nat
         /\ look \in Nat /\ appliedThrough \in 0..Len(log) /\ seq <= Len(log)
         /\ Done \in Nat /\ Done <= seq /\ forced \in 0..Len(log)
         /\ pending \in Seq(1..Len(log)) /\ Len(pending) \in Nat
<1>1. /\ Len(log) \in Nat /\ matched \in 0..Len(log) /\ jpos \in 0..Len(log)
      /\ forced \in 0..matched /\ seq \in 0..matched /\ cached \in Nat /\ look \in Nat
      /\ appliedThrough \in 0..Len(log) /\ pending \in Seq(1..Len(log)) /\ HasEntry
      /\ extra \in BOOLEAN
  BY DEF Shape, TypeOK, PipeTypeOK, PolicyTypeOK, TurnTypeOK, ReadTypeOK
<1>2. seq \in Nat /\ (Turn /\ ~extra => seq - 1 \in Nat)
  BY <1>1 DEF HasEntry
<1>3. Done \in Nat /\ Done <= seq
  <2>1. CASE Turn /\ ~extra
    BY <1>2, <2>1 DEF Done
  <2>2. CASE ~(Turn /\ ~extra)
    BY <1>2, <2>2 DEF Done
  <2>3. QED
    BY <2>1, <2>2
<1>4. QED
  BY <1>1, <1>3

\* The policy at a position of the log does not change as the log grows.
LEMMA PolicyAfterStable ==
  ASSUME Shape, [Next]_vars
  PROVE  /\ base' = base /\ Len(log') \in Nat /\ Len(log) <= Len(log')
         /\ \A c \in 1..Len(log) : log'[c] = log[c]
         /\ \A n \in 0..Len(log) : Governing(log', base', n) = Governing(log, base, n)
<1>0. Len(log) \in Nat /\ log \in Seq([byte : AckPolicies \cup {Write}, unwitnessed : BOOLEAN])
  BY DEF Shape, TypeOK, PipeTypeOK
<1>1. /\ base' = base /\ Len(log') \in Nat /\ Len(log) <= Len(log')
      /\ \A c \in 1..Len(log) : log'[c] = log[c]
  <2>1. CASE Publish
    <3>1. base' = base /\ \E e : log' = Append(log, e)
      BY <2>1 DEF Publish
    <3>2. PICK e : log' = Append(log, e)
      BY <3>1
    <3>3. Len(log') = Len(log) + 1 /\ \A c \in 1..Len(log) : log'[c] = log[c]
      BY <1>0, <3>2
    <3>4. QED
      BY <1>0, <3>1, <3>3
  <2>2. CASE ~Publish
    <3>1. log' = log /\ base' = base
      BY <2>2 DEF Next, Pipeline, ReplicaStep, GateStep, WaitStep, Match, Persist, Shutdown,
                  Receive, ReplicaPersist, Lift, Seed, Activate, RecordAck, Lower, ClearCursors,
                  Deactivate, Admit, IdleRecheck, SettledIdle, NothingPending, PendingCovered,
                  WaitPending, SlotCovered, WaitSlot, WaitChecksShutdown, WaitLoadsJournal,
                  SettleFront, ObserveForced, ReadActive, ReadMem, ReadAcked, Evaluate,
                  OpenDegradedPending, OpenDegradedSlot, WaitAgain, SlotReleased, pipeVars, vars
    <3>2. QED
      BY <1>0, <3>1
  <2>3. QED
    BY <2>1, <2>2
<1>2. ASSUME NEW n \in 0..Len(log) PROVE Governing(log', base', n) = Governing(log, base, n)
  <2>1. n \in Nat /\ \A c \in 1..n : log'[c] = log[c]
    BY <1>0, <1>1
  <2>2. QED
    BY <1>1, <2>1, GoverningLocal
<1>3. QED
  BY <1>1, <1>2

\* A step that neither applies a change nor deals with an entry.
LEMMA GovernFrame ==
  ASSUME GovernInv, Shape', [Next]_vars, UNCHANGED <<pending, policy, appliedThrough>>, Done' = Done
  PROVE  PendingInv' /\ PolicyInv'
<1>0. Shape /\ PendingInv /\ PolicyInv
  BY DEF GovernInv
<1>1. /\ base' = base /\ \A c \in 1..Len(log) : log'[c] = log[c]
      /\ \A n \in 0..Len(log) : Governing(log', base', n) = Governing(log, base, n)
  BY <1>0, PolicyAfterStable
<1>2. /\ Len(log) \in Nat /\ appliedThrough \in 0..Len(log) /\ Done \in Nat /\ Done <= Len(log)
      /\ \A j \in 1..Len(pending) : pending[j] \in 1..Len(log)
      /\ jpos \in Nat /\ jpos' \in Nat /\ jpos <= jpos'
  <2>1. jpos' \in Nat
    BY DEF Shape, TypeOK, PipeTypeOK
  <2>2. QED
    BY <1>0, <2>1, GovernTypes, HoldingsGrow
<1>3. PendingInv'
  <2>1. ASSUME NEW j \in 1..Len(pending) PROVE pending[j] <= Done /\ log'[pending[j]].byte # Write
    BY <1>0, <1>1, <1>2 DEF PendingInv, IsChange
  <2>2. ASSUME NEW c \in appliedThrough + 1 .. Done, log'[c].byte # Write
        PROVE  \E k \in 1..Len(pending) : pending[k] = c
    <3>1. c \in 1..Len(log)
      BY <1>2
    <3>2. QED
      BY <1>0, <1>1, <2>2, <3>1 DEF PendingInv, IsChange
  <2>3. QED
    BY <1>0, <2>1, <2>2 DEF PendingInv, IsChange
<1>4. PolicyInv'
  <2>1. policy' = PolicyAfter(appliedThrough)'
    BY <1>0, <1>1, <1>2 DEF PolicyInv, PolicyAfter
  <2>2. appliedThrough # None => appliedThrough \in 1..Len(log) /\ log'[appliedThrough] = log[appliedThrough]
    BY <1>1, <1>2 DEF None
  <2>3. appliedThrough > Done => appliedThrough # None
    BY <1>2 DEF None
  <2>4. QED
    BY <1>0, <1>2, <2>1, <2>2, <2>3 DEF PolicyInv, IsChange
<1>5. QED
  BY <1>3, <1>4

\* The steps that neither apply a change nor deal with an entry.
LEMMA GovernQuiet ==
  ASSUME GovernInv,
         \/ Pipeline \/ ReplicaStep \/ UNCHANGED vars
         \/ Admit \/ IdleRecheck \/ SettledIdle \/ NothingPending \/ WaitPending \/ WaitSlot
         \/ WaitChecksShutdown \/ WaitLoadsJournal \/ ReadActive \/ ReadMem \/ ReadAcked
         \/ Evaluate \/ OpenDegradedPending \/ WaitAgain
  PROVE  UNCHANGED <<pending, policy, appliedThrough>> /\ Done' = Done
<1>0. Shape /\ TurnInv /\ seq \in Nat /\ why \in {"idle", "pending", "slot"}
  BY GovernTypes DEF GovernInv, Shape, TypeOK, TurnTypeOK
<1>1. UNCHANGED <<pending, policy, appliedThrough>>
  BY DEF Pipeline, ReplicaStep, Publish, Match, Persist, Shutdown, Receive, ReplicaPersist,
         Lift, Seed, Activate, RecordAck, Lower, ClearCursors, Deactivate, Admit, IdleRecheck,
         SettledIdle, NothingPending, WaitPending, WaitSlot, WaitChecksShutdown, WaitLoadsJournal,
         ReadActive, ReadMem, ReadAcked, Evaluate, OpenDegradedPending, WaitAgain, gateVars,
         policyVars, vars
<1>2. ASSUME UNCHANGED <<seq, extra>>, Turn' <=> Turn PROVE Done' = Done
  BY <1>2 DEF Done
<1>3. CASE Pipeline \/ ReplicaStep \/ UNCHANGED vars
  <2>1. UNCHANGED <<pc, why, seq, extra>>
    BY <1>3 DEF Pipeline, ReplicaStep, Publish, Match, Persist, Shutdown, Receive, ReplicaPersist,
         Lift, Seed, Activate, RecordAck, Lower, ClearCursors, Deactivate, gateVars, turnVars,
         waitVars, vars
  <2>2. QED
    BY <1>1, <1>2, <2>1 DEF Turn
<1>4. CASE Admit
  <2>1. ~Turn /\ Turn'
    BY <1>0, <1>4 DEF Admit, Turn, TurnInv
  <2>2. (seq' = seq + 1 /\ ~extra') \/ (seq' = seq /\ extra')
    BY <1>4 DEF Admit
  <2>3. Done' = seq
    BY <1>0, <2>1, <2>2 DEF Done
  <2>4. Done = seq
    BY <2>1 DEF Done
  <2>5. QED
    BY <1>1, <2>3, <2>4
<1>5. CASE SettledIdle \/ IdleRecheck
  <2>1. UNCHANGED <<seq, extra>> /\ ~Turn /\ ~Turn'
    BY <1>0, <1>5 DEF SettledIdle, IdleRecheck, EndTurn, StartView, Turn, TurnInv, waitVars
  <2>2. QED
    BY <1>1, <1>2, <2>1
<1>6. CASE NothingPending \/ WaitPending \/ WaitSlot \/ OpenDegradedPending
  <2>1. UNCHANGED <<seq, extra>> /\ Turn /\ Turn'
    BY <1>6 DEF NothingPending, WaitPending, WaitSlot, OpenDegradedPending, StartWait, Turn,
                turnVars, waitVars
  <2>2. QED
    BY <1>1, <1>2, <2>1
<1>7. CASE \/ WaitChecksShutdown \/ WaitLoadsJournal \/ ReadActive \/ ReadMem \/ ReadAcked
           \/ WaitAgain
  <2>1. /\ UNCHANGED <<seq, extra, why>>
        /\ pc \notin {"pending", "slot"} /\ pc' \notin {"pending", "slot"}
    BY <1>7 DEF WaitChecksShutdown, WaitLoadsJournal, ReadActive, ReadMem, ReadAcked, WaitAgain,
                turnVars, waitVars
  <2>2. QED
    BY <1>1, <1>2, <2>1 DEF Turn
<1>8. CASE Evaluate
  <2>1. /\ UNCHANGED <<seq, extra, why>> /\ pc = "active"
        /\ pc' \in {"settle", "verdict", why} /\ (why = "idle" => pc' = "settle")
    BY <1>8 DEF Evaluate, turnVars, waitVars
  <2>2. QED
    BY <1>0, <1>1, <1>2, <2>1 DEF Turn
<1>9. QED
  BY <1>3, <1>4, <1>5, <1>6, <1>7, <1>8

\* No change lies between the newest applied and the front of the pending
\* ones, nor up to the last entry dealt with when none is pending.
LEMMA NothingBetween ==
  ASSUME Shape, PendingInv
  PROVE  /\ pending # <<>> => \A c \in appliedThrough + 1 .. Head(pending) - 1 : ~IsChange(c)
         /\ pending = <<>> => \A c \in appliedThrough + 1 .. Done : ~IsChange(c)
<1>0. /\ Len(log) \in Nat /\ appliedThrough \in 0..Len(log) /\ Done \in Nat
      /\ pending \in Seq(1..Len(log)) /\ Len(pending) \in Nat
  BY GovernTypes
<1>1. ASSUME pending # <<>>, NEW c \in appliedThrough + 1 .. Head(pending) - 1, IsChange(c)
      PROVE  FALSE
  <2>1. 1 \in 1..Len(pending) /\ Head(pending) = pending[1] /\ pending[1] \in 1..Len(log)
    BY <1>0, <1>1
  <2>2. pending[1] <= Done
    BY <2>1 DEF PendingInv
  <2>3. c \in appliedThrough + 1 .. Done
    BY <1>0, <2>1, <2>2
  <2>4. PICK k \in 1..Len(pending) : pending[k] = c
    BY <1>1, <2>3 DEF PendingInv
  <2>5. k = 1 \/ pending[1] < pending[k]
    BY <1>0, <2>1 DEF PendingInv
  <2>6. QED
    BY <1>0, <2>1, <2>4, <2>5
<1>2. ASSUME pending = <<>>, NEW c \in appliedThrough + 1 .. Done, IsChange(c) PROVE FALSE
  BY <1>0, <1>2 DEF PendingInv
<1>3. QED
  BY <1>1, <1>2

\* The policy in force before a change not yet applied, nothing between the two.
LEMMA PolicyBefore ==
  ASSUME Shape, PolicyInv, NEW c \in 1..Len(log), c > appliedThrough,
         \A d \in appliedThrough + 1 .. c - 1 : ~IsChange(d)
  PROVE  policy = PolicyAfter(c - 1)
<1>1. Len(log) \in Nat /\ appliedThrough \in Nat
  BY GovernTypes
<1>2. c - 1 \in Nat /\ appliedThrough <= c - 1
  BY <1>1
<1>3. \A d \in appliedThrough + 1 .. c - 1 : log[d].byte = Write
  BY DEF IsChange
<1> DEFINE n == c - 1
<1> HIDE DEF n
<1>4. Governing(log, base, n) = Governing(log, base, appliedThrough)
  BY <1>1, <1>2, <1>3, GoverningSkips DEF n
<1>5. QED
  BY <1>4 DEF PolicyInv, PolicyAfter, n

\* apply_change leaves the policy the newest applied change names.
LEMMA ApplyGoverns ==
  ASSUME Shape, PolicyInv, NEW c \in 1..Len(log), IsChange(c), ApplyChange(c), UNCHANGED pipeVars
  PROVE  /\ policy' = PolicyAfter(appliedThrough)'
         /\ (appliedThrough # None => IsChange(appliedThrough))'
         /\ appliedThrough' = IF c > appliedThrough THEN c ELSE appliedThrough
<1>0. Len(log) \in Nat /\ appliedThrough \in 0..Len(log) /\ log' = log /\ base' = base
  BY GovernTypes DEF pipeVars
<1>1. CASE c <= appliedThrough
  <2>1. policy' = policy /\ appliedThrough' = appliedThrough
    BY <1>1 DEF ApplyChange, policyVars
  <2>2. QED
    BY <1>0, <1>1, <2>1 DEF PolicyInv, PolicyAfter, IsChange
<1>2. CASE c > appliedThrough
  <2>1. policy' = log[c].byte /\ appliedThrough' = c
    BY <1>0, <1>2 DEF ApplyChange
  <2>2. Governing(log, base, c) = log[c].byte
    BY <1>0, GoverningAtChange DEF IsChange
  <2>3. QED
    BY <1>0, <1>2, <2>1, <2>2 DEF PolicyAfter, IsChange
<1>3. QED
  BY <1>0, <1>1, <1>2

\* apply_front_pending, from wherever it is called.
LEMMA GovernFront ==
  ASSUME GovernInv, Shape', PendingCovered \/ SettleFront
  PROVE  PendingInv' /\ PolicyInv'
<1>0. Shape /\ PendingInv /\ PolicyInv /\ pending # <<>> /\ ApplyFrontPending
  BY DEF GovernInv, PendingCovered, SettleFront, FrontDurable
<1>1. UNCHANGED <<pipeVars, pc, turnVars, waitVars>>
  BY DEF PendingCovered, SettleFront
<1>2. Done' = Done /\ log' = log /\ base' = base /\ jpos' = jpos
  BY <1>1 DEF Done, Turn, turnVars, waitVars, pipeVars
<1>3. /\ Len(log) \in Nat /\ appliedThrough \in 0..Len(log) /\ Done \in Nat
      /\ pending \in Seq(1..Len(log)) /\ Len(pending) \in Nat
  BY <1>0, GovernTypes
<1> DEFINE c == Head(pending)
<1>4. /\ c \in 1..Len(log) /\ IsChange(c) /\ c = pending[1] /\ 1 \in 1..Len(pending)
      /\ pending' = Tail(pending) /\ ApplyChange(c)
  BY <1>0, <1>3, FrontTypes DEF ApplyFrontPending
<1>5. /\ Len(pending') = Len(pending) - 1
      /\ \A j \in 1..Len(pending') : pending'[j] = pending[j + 1] /\ j + 1 \in 1..Len(pending)
  BY <1>0, <1>3, <1>4
<1> HIDE DEF c
<1>6. /\ policy' = PolicyAfter(appliedThrough)'
      /\ (appliedThrough # None => IsChange(appliedThrough))'
      /\ appliedThrough' = IF c > appliedThrough THEN c ELSE appliedThrough
  BY <1>0, <1>1, <1>4, ApplyGoverns
<1>7. c <= Done
  BY <1>0, <1>4 DEF PendingInv
<1>8. PolicyInv'
  <2>1. (appliedThrough > Done)' => appliedThrough' = appliedThrough /\ appliedThrough > Done
    BY <1>2, <1>3, <1>4, <1>6, <1>7
  <2>2. (appliedThrough > Done => log[appliedThrough].unwitnessed /\ appliedThrough <= jpos)'
    BY <1>0, <1>2, <2>1 DEF PolicyInv
  <2>3. QED
    BY <1>6, <2>2 DEF PolicyInv
<1>9. \A j \in 1..Len(pending') : pending'[j] <= Done /\ IsChange(pending'[j])
  BY <1>0, <1>5 DEF PendingInv
<1>10. \A j, k \in 1..Len(pending') : j < k => pending'[j] < pending'[k]
  <2>1. SUFFICES ASSUME NEW j \in 1..Len(pending'), NEW k \in 1..Len(pending'), j < k
                 PROVE  pending[j + 1] < pending[k + 1]
    BY <1>5
  <2>2. j + 1 \in 1..Len(pending) /\ k + 1 \in 1..Len(pending) /\ j + 1 < k + 1
    BY <1>3, <1>5, <2>1
  <2>3. QED
    BY <1>0, <2>2 DEF PendingInv
<1>11. ASSUME NEW d \in appliedThrough' + 1 .. Done, IsChange(d)
       PROVE  \E k \in 1..Len(pending') : pending'[k] = d
  <2>1. d \in appliedThrough + 1 .. Done /\ d # c
    BY <1>3, <1>4, <1>6
  <2>2. PICK k \in 1..Len(pending) : pending[k] = d
    BY <1>0, <1>11, <2>1 DEF PendingInv
  <2>3. k # 1 /\ k - 1 \in 1..Len(pending') /\ (k - 1) + 1 = k
    BY <1>3, <1>4, <1>5, <2>1, <2>2
  <2>4. pending'[k - 1] = pending[k]
    BY <1>5, <2>3
  <2>5. QED
    BY <2>2, <2>3, <2>4
<1>12. PendingInv'
  BY <1>2, <1>9, <1>10, <1>11 DEF PendingInv, IsChange
<1>13. QED
  BY <1>8, <1>12

\* observe_forced applies the forced change ahead of its slot.
LEMMA GovernForced ==
  ASSUME GovernInv, Shape', ObserveForced
  PROVE  PendingInv' /\ PolicyInv'
<1>0. Shape /\ PendingInv /\ PolicyInv /\ LookBehind
  BY DEF GovernInv
<1>1. /\ UNCHANGED <<pipeVars, pending, turnVars, waitVars>> /\ why \in {"pending", "slot"}
      /\ pc' = "active"
  BY DEF ObserveForced, StartView
<1>2. Done' = Done /\ UNCHANGED <<log, base, jpos, pending>>
  BY <1>1 DEF Done, Turn, turnVars, waitVars, pipeVars
<1>3. /\ Len(log) \in Nat /\ appliedThrough \in 0..Len(log) /\ Done \in Nat /\ look \in Nat
      /\ jpos \in Nat /\ forced \in 0..Len(log)
  BY <1>0, GovernTypes
<1>4. CASE forced # None /\ look >= forced
  <2>1. /\ forced \in 1..Len(log) /\ IsChange(forced) /\ log[forced].unwitnessed /\ forced <= jpos
        /\ ApplyChange(forced)
    BY <1>0, <1>3, <1>4 DEF ObserveForced, Shape, LogInv, LookBehind, None
  <2>2. /\ policy' = PolicyAfter(appliedThrough)'
        /\ (appliedThrough # None => IsChange(appliedThrough))'
        /\ appliedThrough' = IF forced > appliedThrough THEN forced ELSE appliedThrough
    BY <1>0, <1>1, <2>1, ApplyGoverns
  <2>3. (appliedThrough > Done => log[appliedThrough].unwitnessed /\ appliedThrough <= jpos)'
    BY <1>0, <1>2, <2>1, <2>2 DEF PolicyInv
  <2>4. PolicyInv'
    BY <2>2, <2>3 DEF PolicyInv
  <2>5. appliedThrough' + 1 .. Done \subseteq appliedThrough + 1 .. Done
    BY <1>3, <2>1, <2>2
  <2>6. PendingInv'
    BY <1>0, <1>2, <2>5 DEF PendingInv, IsChange
  <2>7. QED
    BY <2>4, <2>6
<1>5. CASE ~(forced # None /\ look >= forced)
  <2>1. UNCHANGED <<pending, policy, appliedThrough>>
    BY <1>2, <1>5 DEF ObserveForced, policyVars
  <2>2. [Next]_vars
    BY DEF Next, GateStep, WaitStep
  <2>3. QED
    BY <1>2, <2>1, <2>2, GovernFrame
<1>6. QED
  BY <1>4, <1>5

\* The end of admit_slot: the slot's entry is dealt with.
LEMMA GovernRelease ==
  ASSUME GovernInv, Shape', NEW b \in Backings, SlotReleased(b), Turn,
         b = "Policy" => pending = <<>>
  PROVE  PendingInv' /\ PolicyInv'
<1>0. Shape /\ PendingInv /\ PolicyInv /\ HasEntry /\ extra \in BOOLEAN
  BY DEF GovernInv, Shape, TypeOK, TurnTypeOK
<1>1. EndTurn /\ UNCHANGED <<pipeVars, seq, extra>>
  BY DEF SlotReleased
<1>2. Done' = seq /\ UNCHANGED <<log, base, jpos, seq>>
  BY <1>1 DEF Done, Turn, EndTurn, pipeVars
<1>3. /\ Len(log) \in Nat /\ appliedThrough \in 0..Len(log) /\ seq \in Nat /\ seq <= Len(log)
      /\ Done \in Nat /\ Done <= seq /\ pending \in Seq(1..Len(log)) /\ Len(pending) \in Nat
      /\ \A j \in 1..Len(pending) : pending[j] \in 1..Len(log)
  BY <1>0, GovernTypes
<1>4. (~extra => seq > 0 /\ Done = seq - 1) /\ (extra => Done = seq)
  BY <1>0 DEF HasEntry, Done
<1>5. CASE extra \/ ~IsChange(seq)
  <2>1. UNCHANGED <<policy, appliedThrough, pending>>
    BY <1>5 DEF SlotReleased, policyVars
  <2>2. \A c \in appliedThrough + 1 .. seq : IsChange(c) => c \in appliedThrough + 1 .. Done
    BY <1>3, <1>4, <1>5
  <2>3. PendingInv'
    BY <1>0, <1>2, <1>3, <2>1, <2>2 DEF PendingInv, IsChange
  <2>4. PolicyInv'
    BY <1>0, <1>2, <1>3, <2>1 DEF PolicyInv, PolicyAfter, IsChange
  <2>5. QED
    BY <2>3, <2>4
<1>6. CASE ~extra /\ IsChange(seq) /\ b = "Policy"
  <2>1. ApplyChange(seq) /\ pending' = pending /\ pending = <<>> /\ seq \in 1..Len(log)
    BY <1>3, <1>4, <1>6 DEF SlotReleased
  <2>2. /\ policy' = PolicyAfter(appliedThrough)'
        /\ (appliedThrough # None => IsChange(appliedThrough))'
        /\ appliedThrough' = IF seq > appliedThrough THEN seq ELSE appliedThrough
    BY <1>0, <1>1, <1>6, <2>1, ApplyGoverns
  <2>3. (appliedThrough > Done)' => appliedThrough' = appliedThrough /\ appliedThrough > Done
    BY <1>2, <1>3, <2>2
  <2>4. (appliedThrough > Done => log[appliedThrough].unwitnessed /\ appliedThrough <= jpos)'
    BY <1>0, <1>2, <2>3 DEF PolicyInv
  <2>5. PolicyInv'
    BY <2>2, <2>4 DEF PolicyInv
  <2>6. appliedThrough' + 1 .. seq = {}
    BY <1>3, <2>2
  <2>7. PendingInv'
    BY <1>2, <2>1, <2>6 DEF PendingInv
  <2>8. QED
    BY <2>5, <2>7
<1>7. CASE ~extra /\ IsChange(seq) /\ b # "Policy"
  <2>1. DeferChange(seq) /\ UNCHANGED <<policy, appliedThrough>>
    BY <1>7 DEF SlotReleased, policyVars
  <2>2. PolicyInv'
    BY <1>0, <1>2, <1>3, <2>1 DEF PolicyInv, PolicyAfter, IsChange
  <2>3. CASE seq <= appliedThrough
    <3>1. pending' = pending /\ appliedThrough + 1 .. seq = {}
      BY <1>3, <2>1, <2>3 DEF DeferChange
    <3>2. PendingInv'
      BY <1>0, <1>2, <1>3, <2>1, <3>1 DEF PendingInv, IsChange
    <3>3. QED
      BY <2>2, <3>2
  <2>4. CASE seq > appliedThrough
    <3>1. pending' = Append(pending, seq)
      BY <1>3, <2>1, <2>4 DEF DeferChange
    <3>2. /\ Len(pending') = Len(pending) + 1 /\ pending'[Len(pending) + 1] = seq
          /\ \A j \in 1..Len(pending) : pending'[j] = pending[j]
      BY <1>3, <3>1
    <3>3. \A j \in 1..Len(pending') : j \in 1..Len(pending) \/ j = Len(pending) + 1
      BY <1>3, <3>2
    <3>4. \A j \in 1..Len(pending) : pending[j] < seq /\ IsChange(pending[j])
      BY <1>0, <1>3, <1>4, <1>7 DEF PendingInv
    <3>5. \A j \in 1..Len(pending') : pending'[j] <= seq /\ IsChange(pending'[j])
      BY <1>3, <1>7, <3>2, <3>3, <3>4
    <3>6. ASSUME NEW j \in 1..Len(pending'), NEW k \in 1..Len(pending'), j < k
          PROVE  pending'[j] < pending'[k]
      <4>1. j \in 1..Len(pending)
        BY <1>3, <3>2, <3>6
      <4>2. CASE k \in 1..Len(pending)
        BY <1>0, <3>2, <3>6, <4>1, <4>2 DEF PendingInv
      <4>3. CASE k = Len(pending) + 1
        BY <3>2, <3>4, <4>1, <4>3
      <4>4. QED
        BY <3>3, <4>2, <4>3
    <3>7. ASSUME NEW d \in appliedThrough + 1 .. seq, IsChange(d)
          PROVE  \E k \in 1..Len(pending') : pending'[k] = d
      <4>1. CASE d = seq
        BY <1>3, <3>2, <4>1
      <4>2. CASE d # seq
        <5>1. d \in appliedThrough + 1 .. Done
          BY <1>3, <1>4, <1>7, <4>2
        <5>2. PICK k \in 1..Len(pending) : pending[k] = d
          BY <1>0, <3>7, <5>1 DEF PendingInv
        <5>3. k \in 1..Len(pending') /\ pending'[k] = d
          BY <1>3, <3>2, <5>2
        <5>4. QED
          BY <5>3
      <4>3. QED
        BY <4>1, <4>2
    <3>8. PendingInv'
      BY <1>2, <2>1, <3>5, <3>6, <3>7 DEF PendingInv, IsChange
    <3>9. QED
      BY <2>2, <3>8
  <2>5. QED
    BY <1>3, <2>3, <2>4
<1>8. QED
  BY <1>5, <1>6, <1>7

LEMMA GovernStep == GovernInv /\ [Next]_vars => GovernInv'
<1> SUFFICES ASSUME GovernInv, [Next]_vars PROVE GovernInv'
  OBVIOUS
<1>0. Shape /\ TurnInv /\ LookBehind /\ backing \in Backings
  BY DEF GovernInv, Shape, TypeOK, TurnTypeOK
<1>1. Shape' /\ TurnInv'
  BY <1>0, ShapeStep, TurnStep
<1>2. LookBehind'
  BY <1>0, <1>1, LookStep
<1>3. PendingInv' /\ PolicyInv'
  <2>1. CASE \/ Pipeline \/ ReplicaStep \/ UNCHANGED vars
             \/ Admit \/ IdleRecheck \/ SettledIdle \/ NothingPending \/ WaitPending \/ WaitSlot
             \/ WaitChecksShutdown \/ WaitLoadsJournal \/ ReadActive \/ ReadMem \/ ReadAcked
             \/ Evaluate \/ OpenDegradedPending \/ WaitAgain
    BY <1>1, <2>1, GovernQuiet, GovernFrame
  <2>2. CASE PendingCovered \/ SettleFront
    BY <1>1, <2>2, GovernFront
  <2>3. CASE ObserveForced
    BY <1>1, <2>3, GovernForced
  <2>4. CASE SlotCovered
    <3>1. SlotReleased(backing) /\ Turn /\ (backing = "Policy" => pending = <<>>)
      BY <1>0, <2>4 DEF SlotCovered, Turn, TurnInv
    <3>2. QED
      BY <1>0, <1>1, <3>1, GovernRelease
  <2>5. CASE OpenDegradedSlot
    <3>1. SlotReleased("PrimaryOnly") /\ Turn /\ "PrimaryOnly" \in Backings
      BY <2>5 DEF OpenDegradedSlot, Turn, Backings
    <3>2. QED
      BY <1>1, <3>1, GovernRelease
  <2>6. QED
    BY <2>1, <2>2, <2>3, <2>4, <2>5 DEF Next, GateStep, WaitStep
<1>4. QED
  BY <1>1, <1>2, <1>3 DEF GovernInv

LEMMA GovernInit == Init => GovernInv
<1> SUFFICES ASSUME Init PROVE GovernInv
  OBVIOUS
<1>1. Shape
  BY ShapeInit
<1>2. /\ jpos = Len(log) /\ look = jpos /\ pc = "settle" /\ why = "idle" /\ seq = Len(log)
      /\ extra = FALSE /\ appliedThrough = 0 /\ policy = base
      /\ pending = IF log = <<>> THEN <<>> ELSE <<1>>
      /\ (log # <<>> => Len(log) = 1)
  <2>1. \E s \in Start :
          /\ base = s.inForce /\ policy = s.inForce
          /\ log = IF s.newest = Write THEN <<>>
                   ELSE <<[byte |-> s.newest, unwitnessed |-> s.unwitnessed]>>
    BY DEF Init
  <2>2. policy = base /\ (log # <<>> => \E e : log = <<e>>)
    BY <2>1
  <2>3. log # <<>> => Len(log) = 1
    BY <2>2
  <2>4. QED
    BY <2>2, <2>3 DEF Init, None
<1>3. Len(log) \in Nat /\ Done = Len(log)
  BY <1>1, <1>2, GovernTypes DEF Done, Turn
<1>4. LookBehind /\ TurnInv
  BY <1>2, <1>3 DEF LookBehind, TurnInv
<1>5. PolicyInv
  BY <1>2, <1>3 DEF PolicyInv, PolicyAfter, Governing, None
<1>6. PendingInv
  <2>1. CASE log = <<>>
    BY <1>2, <1>3, <2>1 DEF PendingInv
  <2>2. CASE log # <<>>
    <3>1. Len(log) = 1 /\ pending = <<1>> /\ Done = 1 /\ PendingAreChanges
      BY <1>1, <1>2, <1>3, <2>2 DEF Shape
    <3>2. Len(pending) = 1 /\ pending[1] = 1 /\ IsChange(1)
      BY <3>1 DEF PendingAreChanges
    <3>3. QED
      BY <1>2, <3>1, <3>2 DEF PendingInv
  <2>3. QED
    BY <2>1, <2>2
<1>7. QED
  BY <1>1, <1>4, <1>5, <1>6 DEF GovernInv

LEMMA ReplyGovernedStep ==
  ASSUME GovernInv, GovernInv', ReplyGoverned, [Next]_vars
  PROVE  ReplyGoverned'
<1>0. Shape /\ Shape' /\ PendingInv /\ PolicyInv /\ TurnInv
  BY DEF GovernInv
<1>1. /\ Len(log) \in Nat /\ appliedThrough \in 0..Len(log) /\ seq \in Nat /\ seq <= Len(log)
      /\ Done \in Nat /\ Done <= seq /\ jpos \in Nat
  BY <1>0, GovernTypes
<1>2. /\ base' = base /\ Len(log) <= Len(log') /\ Len(log') \in Nat
      /\ \A c \in 1..Len(log) : log'[c] = log[c]
      /\ \A n \in 0..Len(log) : Governing(log', base', n) = Governing(log, base, n)
  BY <1>0, PolicyAfterStable
<1>3. jpos' \in Nat /\ jpos <= jpos' /\ jpos <= Len(log)
  BY <1>0, <1>1, HoldingsGrow DEF Shape, TypeOK, PipeTypeOK
<1>4. CASE reply' = reply
  <2>1. SUFFICES ASSUME reply.seq > 0, reply.backing = "Policy"
                 PROVE  \/ reply.policy = Governing(log', base', reply.seq)
                        \/ \E f \in reply.seq + 1 .. jpos' :
                             log'[f].unwitnessed /\ log'[f].byte = reply.policy
    BY <1>4 DEF ReplyGoverned, PolicyAfter
  <2>2. reply.seq \in 0..Len(log) /\ reply.seq \in Nat
    <3>1. reply \in ReplyType(Len(log))
      BY <1>0 DEF Shape, TypeOK, TurnTypeOK, ReplyType, Readings
    <3>2. QED
      BY <1>1, <3>1 DEF ReplyType
  <2>3. CASE reply.policy = PolicyAfter(reply.seq)
    BY <1>2, <2>2, <2>3 DEF PolicyAfter
  <2>4. CASE \E f \in reply.seq + 1 .. jpos : log[f].unwitnessed /\ log[f].byte = reply.policy
    <3>1. PICK f \in reply.seq + 1 .. jpos : log[f].unwitnessed /\ log[f].byte = reply.policy
      BY <2>4
    <3>2. f \in 1..Len(log) /\ f \in reply.seq + 1 .. jpos'
      BY <1>1, <1>3, <2>2
    <3>3. QED
      BY <1>2, <3>1, <3>2
  <2>5. QED
    BY <2>1, <2>3, <2>4 DEF ReplyGoverned
<1>5. CASE reply' = NoReply
  BY <1>5 DEF ReplyGoverned, NoReply
<1>6. CASE SlotCovered /\ reply' = ReplyNow(backing) /\ (extra \/ ~IsChange(seq))
  <2>1. SUFFICES ASSUME seq > 0, backing = "Policy"
                 PROVE  \/ policy = Governing(log', base', seq)
                        \/ \E f \in seq + 1 .. jpos' :
                             log'[f].unwitnessed /\ log'[f].byte = policy
    BY <1>6 DEF ReplyGoverned, PolicyAfter, ReplyNow
  <2>2. pending = <<>>
    BY <1>0, <1>6, <2>1 DEF SlotCovered, TurnInv
  <2>3. \A c \in appliedThrough + 1 .. Done : ~IsChange(c)
    BY <1>0, <2>2, NothingBetween
  <2>4. Done = seq \/ (Done = seq - 1 /\ ~IsChange(seq))
    BY <1>6 DEF Done
  <2>5. \A c \in appliedThrough + 1 .. seq : log[c].byte = Write
    BY <1>1, <2>3, <2>4 DEF IsChange
  <2>6. CASE appliedThrough <= seq
    <3>1. Governing(log, base, seq) = Governing(log, base, appliedThrough)
      BY <1>1, <2>5, <2>6, GoverningSkips
    <3>2. seq \in 0..Len(log)
      BY <1>1
    <3>3. QED
      BY <1>0, <1>2, <3>1, <3>2 DEF PolicyInv, PolicyAfter
  <2>7. CASE appliedThrough > seq
    <3>1. /\ appliedThrough \in seq + 1 .. jpos' /\ appliedThrough \in 1..Len(log)
          /\ log[appliedThrough].unwitnessed /\ IsChange(appliedThrough)
      BY <1>0, <1>1, <1>3, <2>7 DEF PolicyInv, None
    <3>2. policy = log[appliedThrough].byte
      BY <1>0, <1>1, <3>1, GoverningAtChange DEF PolicyInv, PolicyAfter, IsChange
    <3>3. QED
      BY <1>2, <3>1, <3>2
  <2>8. QED
    BY <1>1, <2>6, <2>7
<1>7. CASE OpenDegradedSlot /\ reply' = ReplyNow("PrimaryOnly")
  BY <1>7 DEF ReplyGoverned, ReplyNow
<1>8. QED
  BY <1>4, <1>5, <1>6, <1>7, ReplySteps

\* A reply released under the policy was judged by the policy the log puts in
\* force at its entry, or by a later unwitnessed change already on the
\* primary's disk: for any log, any slots and wherever a replica reconnects.
THEOREM RepliesAreGoverned == Spec => []ReplyGoverned
<1> DEFINE Inv == GovernInv /\ ReplyGoverned
<1>1. Init => Inv
  <2> SUFFICES ASSUME Init PROVE ReplyGoverned
    BY GovernInit
  <2>1. reply.seq = 0
    BY DEF Init, NoReply
  <2>2. QED
    BY <2>1 DEF ReplyGoverned
<1>2. Inv /\ [Next]_vars => Inv'
  BY GovernStep, ReplyGovernedStep
<1>3. QED
  BY <1>1, <1>2, PTL DEF Spec

-----------------------------------------------------------------------------
(* Changes are witnessed *)

\* The steps that leave the change applied this turn alone, drop it or set it.
LEMMA AppliedSteps ==
  ASSUME [Next]_vars
  PROVE  \/ applied' = applied
         \/ applied' = NoneApplied
         \/ PendingCovered /\ ApplyChange(Head(pending))
         \/ SettleFront /\ ApplyChange(Head(pending))
         \/ ObserveForced /\ forced # None /\ look >= forced /\ ApplyChange(forced)
         \/ SlotCovered /\ backing = "Policy" /\ ~extra /\ IsChange(seq) /\ ApplyChange(seq)
<1>1. CASE PendingCovered \/ SettleFront
  BY <1>1 DEF PendingCovered, SettleFront, ApplyFrontPending
<1>2. CASE ObserveForced
  BY <1>2 DEF ObserveForced, policyVars
<1>3. CASE SlotCovered
  BY <1>3 DEF SlotCovered, SlotReleased, policyVars
<1>4. CASE OpenDegradedSlot
  BY <1>4 DEF OpenDegradedSlot, SlotReleased, policyVars
<1>5. CASE Admit \/ IdleRecheck
  BY <1>5 DEF Admit, IdleRecheck, NewTurn
<1>6. CASE ~(PendingCovered \/ SettleFront \/ ObserveForced \/ SlotCovered \/ OpenDegradedSlot
             \/ Admit \/ IdleRecheck)
  BY <1>6 DEF Next, Pipeline, ReplicaStep, GateStep, WaitStep, Publish, Match, Persist, Shutdown,
              Receive, ReplicaPersist, Lift, Seed, Activate, RecordAck, Lower, ClearCursors,
              Deactivate, SettledIdle, NothingPending, WaitPending, WaitSlot,
              WaitChecksShutdown, WaitLoadsJournal, ReadActive, ReadMem,
              ReadAcked, Evaluate, OpenDegradedPending, WaitAgain, gateVars, policyVars, vars
<1>7. QED
  BY <1>1, <1>2, <1>3, <1>4, <1>5, <1>6

\* What is true of a change and the policy before it when it is applied stays
\* true: the log, the journal and the replicas' holdings only grow.
Witnessed(c, before, by) ==
  \/ log[c].unwitnessed /\ c <= jpos
  \/ before = PolicyAfter(c - 1) /\ VouchedFor(before, by, c)

LEMMA WitnessedStable ==
  ASSUME Shape, Shape', [Next]_vars, NEW c \in 1..Len(log), NEW before \in AckPolicies,
         NEW by \in Readings, Witnessed(c, before, by)
  PROVE  Witnessed(c, before, by)'
<1>0. Len(log) \in Nat /\ jpos \in Nat /\ c \in Nat /\ c - 1 \in 0..Len(log)
  BY GovernTypes
<1>1. log'[c] = log[c] /\ Governing(log', base', c - 1) = Governing(log, base, c - 1)
  BY <1>0, PolicyAfterStable
<1>2. jpos' \in Nat /\ jpos <= jpos' /\ Grown(Holdings, Holdings')
  BY HoldingsGrow DEF Shape, TypeOK, PipeTypeOK
<1>3. CASE log[c].unwitnessed /\ c <= jpos
  BY <1>0, <1>1, <1>2, <1>3 DEF Witnessed
<1>4. CASE before = PolicyAfter(c - 1) /\ VouchedFor(before, by, c)
  <2>1. VouchedFor(before, by, c)'
    BY <1>0, <1>2, <1>4, VouchedStays
  <2>2. QED
    BY <1>1, <1>4, <2>1 DEF Witnessed, PolicyAfter
<1>5. QED
  BY <1>3, <1>4 DEF Witnessed

\* A step that applies no change.
LEMMA AppliedKept ==
  ASSUME Shape, Shape', [Next]_vars, ChangeWitnessed, applied' = applied
  PROVE  ChangeWitnessed'
<1>1. CASE applied.seq = None
  BY <1>1 DEF ChangeWitnessed
<1>2. CASE applied.seq # None
  <2>1. applied \in AppliedType(Len(log)) /\ Len(log) \in Nat
    BY GovernTypes DEF Shape, TypeOK, PolicyTypeOK, AppliedType, Readings
  <2>2. PICK d \in 1..Len(log), p \in AckPolicies, by \in Readings :
          d = applied.seq /\ p = applied.before /\ by = applied.by
    BY <1>2, <2>1 DEF None, AppliedType
  <2>3. Witnessed(d, p, by)
    BY <1>2, <2>2 DEF ChangeWitnessed, Witnessed
  <2>4. Witnessed(d, p, by)'
    BY <2>3, WitnessedStable
  <2>5. d = applied'.seq /\ p = applied'.before /\ by = applied'.by
    BY <2>2
  <2>6. QED
    BY <2>4, <2>5 DEF ChangeWitnessed, Witnessed, VouchedFor, BackedBySlots, Twice, Satisfied
<1>3. QED
  BY <1>1, <1>2

\* Applying a change that is witnessed under the policy in force.
LEMMA ApplyWitnessed ==
  ASSUME Shape, Shape', [Next]_vars, ChangeWitnessed, NEW c \in 1..Len(log), ApplyChange(c),
         c > appliedThrough => Witnessed(c, policy, backers)
  PROVE  ChangeWitnessed'
<1>0. /\ Len(log) \in Nat /\ appliedThrough \in 0..Len(log) /\ policy \in AckPolicies
      /\ backers \in Readings
  BY GovernTypes, StepTypes
<1>1. CASE c > appliedThrough
  <2>1. applied' = [seq |-> c, before |-> policy, by |-> backers]
    BY <1>0, <1>1 DEF ApplyChange
  <2>2. PICK p \in AckPolicies, by \in Readings : p = policy /\ by = backers
    BY <1>0
  <2>3. Witnessed(c, p, by)'
    BY <1>1, <2>2, WitnessedStable
  <2>4. c = applied'.seq /\ p = applied'.before /\ by = applied'.by
    BY <2>1, <2>2
  <2>5. QED
    BY <2>3, <2>4 DEF ChangeWitnessed, Witnessed, VouchedFor, BackedBySlots, Twice, Satisfied
<1>2. CASE c <= appliedThrough
  <2>1. applied' = applied
    BY <1>2 DEF ApplyChange, policyVars
  <2>2. QED
    BY <2>1, AppliedKept
<1>3. QED
  BY <1>0, <1>1, <1>2

LEMMA ChangeWitnessedStep ==
  ASSUME CursorInv, CursorInv', GovernInv, ChangeWitnessed, [Next]_vars
  PROVE  ChangeWitnessed'
<1>0. Shape /\ Shape' /\ CachedIsDurable /\ LookBehind /\ TurnInv /\ PendingInv /\ PolicyInv
  BY DEF CursorInv, GovernInv
<1>1. /\ Len(log) \in Nat /\ appliedThrough \in 0..Len(log) /\ seq \in Nat /\ seq <= Len(log)
      /\ Done \in Nat /\ look \in Nat /\ jpos \in Nat /\ cached \in Nat
      /\ forced \in 0..Len(log) /\ policy \in AckPolicies
  BY <1>0, GovernTypes, StepTypes
<1>2. \* A change the cached position covers, nothing between it and the newest applied.
      ASSUME NEW c \in 1..Len(log), c <= cached, c > appliedThrough,
             \A d \in appliedThrough + 1 .. c - 1 : ~IsChange(d)
      PROVE  Witnessed(c, policy, backers)
  <2>1. policy = PolicyAfter(c - 1)
    BY <1>0, <1>2, PolicyBefore
  <2>2. VouchedFor(policy, backers, cached)
    BY <1>0, <1>1, <1>2 DEF CachedIsDurable
  <2>3. VouchedFor(policy, backers, c)
    <3>1. Holdings \in HoldingsType /\ backers \in Readings /\ c \in Nat
      BY <1>0, <1>1, ShapeView, StepTypes
    <3>2. Grown(Holdings, Holdings)
      BY <3>1 DEF Grown, HoldingsType
    <3>3. BackedOn(Holdings, policy, backers, cached)
      BY <1>0, <1>1, <2>2, <3>1, BackedIsVouched
    <3>4. BackedOn(Holdings, policy, backers, c)
      BY <1>1, <1>2, <3>1, <3>2, <3>3, BackedGrows
    <3>5. QED
      BY <1>0, <1>1, <3>1, <3>4, BackedIsVouched
  <2>4. QED
    BY <2>1, <2>3 DEF Witnessed
<1>3. ASSUME pending # <<>>, ApplyChange(Head(pending)), FrontDurable \/ Head(pending) <= cached
      PROVE  ChangeWitnessed'
  <2> DEFINE c == Head(pending)
  <2>1. c \in 1..Len(log)
    BY <1>0, <1>3, FrontTypes
  <2>2. \A d \in appliedThrough + 1 .. c - 1 : ~IsChange(d)
    BY <1>0, <1>3, NothingBetween
  <2>3. c <= cached \/ (log[c].unwitnessed /\ c <= jpos)
    BY <1>0, <1>1, <1>3, <2>1 DEF FrontDurable, LookBehind
  <2>4. ApplyChange(c)
    BY <1>3
  <2> HIDE DEF c
  <2>5. c > appliedThrough => Witnessed(c, policy, backers)
    BY <1>2, <2>1, <2>2, <2>3 DEF Witnessed
  <2>6. QED
    BY <1>0, <2>1, <2>4, <2>5, ApplyWitnessed
<1>4. CASE applied' = applied
  BY <1>0, <1>4, AppliedKept
<1>5. CASE applied' = NoneApplied
  BY <1>5 DEF ChangeWitnessed, NoneApplied
<1>6. CASE PendingCovered /\ ApplyChange(Head(pending))
  BY <1>3, <1>6 DEF PendingCovered
<1>7. CASE SettleFront /\ ApplyChange(Head(pending))
  BY <1>3, <1>7 DEF SettleFront, FrontDurable
<1>8. CASE ObserveForced /\ forced # None /\ look >= forced /\ ApplyChange(forced)
  <2>1. forced \in 1..Len(log) /\ log[forced].unwitnessed /\ forced <= jpos
    BY <1>0, <1>1, <1>8 DEF Shape, LogInv, LookBehind, None
  <2>2. Witnessed(forced, policy, backers)
    BY <2>1 DEF Witnessed
  <2>3. QED
    BY <1>0, <1>8, <2>1, <2>2, ApplyWitnessed
<1>9. CASE SlotCovered /\ backing = "Policy" /\ ~extra /\ IsChange(seq) /\ ApplyChange(seq)
  <2>1. pending = <<>> /\ seq <= cached /\ Turn
    BY <1>0, <1>1, <1>9 DEF SlotCovered, TurnInv, Turn
  <2>2. seq \in 1..Len(log) /\ Done = seq - 1
    BY <1>0, <1>1, <1>9, <2>1 DEF Shape, HasEntry, Done
  <2>3. \A d \in appliedThrough + 1 .. seq - 1 : ~IsChange(d)
    BY <1>0, <2>1, <2>2, NothingBetween
  <2>4. seq > appliedThrough => Witnessed(seq, policy, backers)
    BY <1>2, <2>1, <2>2, <2>3
  <2>5. QED
    BY <1>0, <1>9, <2>2, <2>4, ApplyWitnessed
<1>10. QED
  BY <1>4, <1>5, <1>6, <1>7, <1>8, <1>9, AppliedSteps

\* A witnessed change takes effect only once it is held as the policy just
\* before it in the log demands, an unwitnessed one also once it is on the
\* primary's disk: for any log, any number of slots and replicas and wherever
\* a replica reconnects.
THEOREM ChangesAreWitnessed == Spec => []ChangeWitnessed
<1> DEFINE Inv == CursorInv /\ GovernInv /\ ChangeWitnessed
<1>1. Init => Inv
  <2> SUFFICES ASSUME Init PROVE ChangeWitnessed
    BY CursorInit, GovernInit
  <2>1. applied.seq = None
    BY DEF Init, NoneApplied
  <2>2. QED
    BY <2>1 DEF ChangeWitnessed
<1>2. Inv /\ [Next]_vars => Inv'
  BY CursorStep, GovernStep, ChangeWitnessedStep
<1>3. QED
  BY <1>1, <1>2, PTL DEF Spec
=============================================================================
