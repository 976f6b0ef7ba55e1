--------------------------- MODULE Failover_proofs ---------------------------
(***************************************************************************)
(* The fencing epoch and the replication sessions across failovers, for    *)
(* any number of voters, terms, restarts and entries.                      *)
(***************************************************************************)
EXTENDS Failover, FiniteSetTheorems, SequenceTheorems, TLAPS

-----------------------------------------------------------------------------
(* Majorities and maxima *)

LEMMA MajorGrows ==
  ASSUME NEW S \in SUBSET Nodes, NEW T \in SUBSET Nodes, S \subseteq T, Major(S)
  PROVE  Major(T)
<1>1. IsFiniteSet(S) /\ IsFiniteSet(T) /\ Cardinality(S) <= Cardinality(T)
  BY FailoverBounds, FS_Subset
<1>2. Cardinality(S) \in Nat /\ Cardinality(T) \in Nat /\ Cardinality(Nodes) \in Nat
  BY <1>1, FailoverBounds, FS_CardinalityType
<1>3. QED
  BY <1>1, <1>2 DEF Major

LEMMA MajorsMeet ==
  ASSUME NEW S \in SUBSET Nodes, NEW T \in SUBSET Nodes, Major(S), Major(T)
  PROVE  S \cap T # {}
<1>1. IsFiniteSet(S) /\ IsFiniteSet(T)
  BY FailoverBounds, FS_Subset
<1>2. Cardinality(S) \in Nat /\ Cardinality(T) \in Nat /\ Cardinality(Nodes) \in Nat
  BY <1>1, FailoverBounds, FS_CardinalityType
<1>3. Cardinality(S) + Cardinality(T) > Cardinality(Nodes)
  BY <1>2 DEF Major
<1>4. QED
  BY <1>3, FailoverBounds, FS_MajoritiesIntersect

LEMMA MaxOfTwo ==
  ASSUME NEW a \in Int, NEW b \in Int
  PROVE  /\ Max({a, b}) \in {a, b} /\ Max({a, b}) >= a /\ Max({a, b}) >= b
         /\ Max({a, b}) = IF a >= b THEN a ELSE b
<1>1. \E x \in {a, b} : \A y \in {a, b} : x >= y
  OBVIOUS
<1>2. Max({a, b}) \in {a, b} /\ \A y \in {a, b} : Max({a, b}) >= y
  BY <1>1 DEF Max
<1>3. QED
  BY <1>2

LEMMA MaxOfNats ==
  ASSUME NEW a \in Nat, NEW b \in Nat
  PROVE  Max({a, b}) \in Nat
<1>1. Max({a, b}) \in {a, b}
  BY MaxOfTwo
<1>2. QED
  BY <1>1

LEMMA MaxOfTerms ==
  ASSUME term \in [Nodes -> 0..MaxTerm]
  PROVE  /\ Max({term[v] : v \in Nodes}) \in 0..MaxTerm
         /\ \A v \in Nodes : term[v] <= Max({term[v2] : v2 \in Nodes})
         /\ \E v \in Nodes : term[v] = Max({term[v2] : v2 \in Nodes})
<1> DEFINE S == {term[v] : v \in Nodes}
           T == {MaxTerm - x : x \in S}
<1>0. MaxTerm \in Nat /\ S \subseteq 0..MaxTerm /\ S # {}
  BY FailoverBounds
<1>1. T \subseteq Nat /\ T # {}
  BY <1>0
<1>2. \E x \in T : \A y \in T : ~(<<y, x>> \in OpToRel(<, Nat))
  BY <1>1, WFMin, NatLessThanWellFounded
<1>3. PICK x \in T : \A y \in T : ~(y < x)
  BY <1>1, <1>2 DEF OpToRel
<1>4. PICK c \in S : x = MaxTerm - c
  OBVIOUS
<1>5. ASSUME NEW d \in S PROVE c >= d
  <2>1. MaxTerm - d \in T
    OBVIOUS
  <2>2. ~(MaxTerm - d < MaxTerm - c) /\ c \in Int /\ d \in Int
    BY <1>0, <1>3, <1>4, <2>1
  <2>3. QED
    BY <1>0, <2>2
<1>6. \E m \in S : \A d \in S : m >= d
  BY <1>5
<1> HIDE DEF S
<1>7. Max(S) \in S /\ \A d \in S : Max(S) >= d
  BY <1>6 DEF Max
<1>8. QED
  BY <1>0, <1>7 DEF S

-----------------------------------------------------------------------------
(* Types *)

Entry == Nat \X Nodes

ProcessType ==
  /\ role \in [Nodes -> Roles] /\ target \in [Nodes -> Nodes]
  /\ link \in [Nodes -> {"down", "transfer", "up", "lost"}] /\ seen \in [Nodes -> BOOLEAN]
  /\ req \in [Nodes -> {Manual} \union (0..MaxTerm)]

DataType == log \in [Nodes -> Seq(Entry)] /\ epoch \in [Nodes -> Nat]

RaftType ==
  /\ term \in [Nodes -> 0..MaxTerm] /\ lead \in [Nodes -> BOOLEAN]
  /\ drops \in [Nodes -> 0..EscapeDrops]

MeshType == heard \in [Nodes -> [Nodes -> {"none", "level", "ahead"}]]

HistoryType ==
  /\ minted \in SUBSET Nat /\ bare \in SUBSET Nodes /\ manual \in BOOLEAN
  /\ acts \in 0..MaxActs

Types == ProcessType /\ DataType /\ RaftType /\ MeshType /\ HistoryType

LEMMA TypesInit == Init => Types
<1> SUFFICES ASSUME Init PROVE Types
  OBVIOUS
<1>0. Genesis \in Nodes /\ MaxTerm \in Nat /\ EscapeDrops \in Nat /\ MaxActs \in Nat
  BY FailoverBounds
<1>1. ProcessType
  BY <1>0 DEF Init, ProcessType, Roles
<1>2. DataType
  <2>1. <<0, Genesis>> \in Entry
    BY <1>0 DEF Entry
  <2>2. <<<<0, Genesis>>>> \in Seq(Entry)
    BY <2>1
  <2>3. QED
    BY <2>2 DEF Init, DataType
<1>3. RaftType
  BY <1>0 DEF Init, RaftType
<1>4. MeshType
  BY DEF Init, MeshType
<1>5. minted = {0} /\ bare = {} /\ manual = FALSE /\ acts = 0
  BY DEF Init
<1>6. HistoryType
  <2>1. 0 \in Nat /\ 0 \in 0..MaxActs
    BY <1>0
  <2>2. acts \in 0..MaxActs /\ minted \in SUBSET Nat
    BY <1>5, <2>1
  <2>3. bare \in SUBSET Nodes /\ manual \in BOOLEAN
    BY <1>5
  <2>4. QED
    BY <2>2, <2>3 DEF HistoryType
<1>7. QED
  BY <1>1, <1>2, <1>3, <1>4, <1>6 DEF Types

LEMMA ForgetTypes ==
  ASSUME MeshType, NEW S, Forget(S)
  PROVE  MeshType'
BY DEF MeshType, Forget

LEMMA HaltTypes ==
  ASSUME Types, NEW n \in Nodes, Halt(n), UNCHANGED acts
  PROVE  Types'
<1>0. ProcessType /\ DataType /\ RaftType /\ MeshType /\ HistoryType
  BY DEF Types
<1>1. ProcessType'
  BY <1>0, FailoverBounds DEF ProcessType, Halt, Roles
<1>2. DataType' /\ MeshType' /\ HistoryType'
  BY <1>0, ForgetTypes DEF DataType, HistoryType, Halt, history
<1>3. RaftType'
  BY <1>0, FailoverBounds DEF RaftType, Halt
<1>4. QED
  BY <1>1, <1>2, <1>3 DEF Types

LEMMA HearingTypes ==
  ASSUME ProcessType, NEW from
  PROVE  /\ AfterHearing(from) \in [Nodes -> Roles]
         /\ \A n \in Nodes : AfterHearing(from)[n] \in {"fenced", role[n]}
BY DEF ProcessType, AfterHearing, Roles

LEMMA TypesDataPlane ==
  ASSUME Types, DataPlane
  PROVE  Types'
<1>0. ProcessType /\ DataType /\ RaftType /\ MeshType /\ HistoryType
  BY DEF Types
<1>1. ASSUME NEW n \in Nodes, Write(n) PROVE Types'
  <2>1. <<epoch[n], n>> \in Entry /\ log[n] \in Seq(Entry)
    BY <1>0 DEF DataType, Entry
  <2>2. Append(log[n], <<epoch[n], n>>) \in Seq(Entry)
    BY <2>1
  <2>3. DataType'
    BY <1>0, <1>1, <2>2 DEF Write, DataType
  <2>4. ProcessType' /\ RaftType' /\ MeshType' /\ HistoryType'
    BY <1>0, <1>1 DEF Write, process, raft, mesh, history, ProcessType, RaftType, MeshType, HistoryType
  <2>5. QED
    BY <2>3, <2>4 DEF Types
<1>2. ASSUME NEW n \in Nodes, Replicate(n) PROVE Types'
  <2> DEFINE p == target[n]
             k == Len(log[n]) + 1
  <2>1. p \in Nodes /\ log[p] \in Seq(Entry) /\ log[n] \in Seq(Entry) /\ k \in 1..Len(log[p])
    BY <1>0, <1>2 DEF ProcessType, DataType, Replicate
  <2>2. log[p][k] \in Entry /\ log[p][k][1] \in Nat /\ epoch[n] \in Nat
    BY <1>0, <2>1 DEF Entry, DataType
  <2>3. log' = [log EXCEPT ![n] = Append(@, log[p][k])]
        /\ epoch' = [epoch EXCEPT ![n] = Max({@, log[p][k][1]})]
    BY <1>2 DEF Replicate
  <2> HIDE DEF p, k
  <2>4. DataType'
    <3>1. Append(log[n], log[p][k]) \in Seq(Entry)
      BY <2>1, <2>2
    <3>2. Max({epoch[n], log[p][k][1]}) \in Nat
      BY <2>2, MaxOfNats
    <3>3. QED
      BY <1>0, <2>3, <3>1, <3>2 DEF DataType
  <2>5. ProcessType' /\ RaftType' /\ MeshType' /\ HistoryType'
    BY <1>0, <1>2 DEF Replicate, process, raft, mesh, ProcessType, RaftType, MeshType, HistoryType
  <2>6. QED
    BY <2>4, <2>5 DEF Types
<1>3. ASSUME NEW n \in Nodes, Transfer(n) PROVE Types'
  <2>1. target[n] \in Nodes /\ epoch[n] \in Nat /\ epoch[target[n]] \in Nat
    BY <1>0 DEF ProcessType, DataType
  <2>2. Max({epoch[n], epoch[target[n]]}) \in Nat
    BY <2>1, MaxOfNats
  <2>3. DataType'
    BY <1>0, <1>3, <2>1, <2>2 DEF Transfer, DataType
  <2>4. ProcessType' /\ RaftType' /\ MeshType' /\ HistoryType'
    BY <1>0, <1>3 DEF Transfer, raft, mesh, ProcessType, RaftType, MeshType, HistoryType
  <2>5. QED
    BY <2>3, <2>4 DEF Types
<1>4. ASSUME NEW n \in Nodes, LinkDrop(n) PROVE Types'
  <2>1. ProcessType' /\ DataType' /\ RaftType' /\ HistoryType'
    BY <1>0, <1>4 DEF LinkDrop, data, raft, history, ProcessType, DataType, RaftType, HistoryType
  <2>2. QED
    BY <1>0, <1>4, <2>1, ForgetTypes DEF LinkDrop, Types
<1>5. ASSUME NEW n \in Nodes, ConnectFences(n) PROVE Types'
  <2>1. ProcessType' /\ DataType' /\ RaftType' /\ HistoryType'
    BY <1>0, <1>5 DEF ConnectFences, data, raft, history, ProcessType, DataType, RaftType, HistoryType, Roles
  <2>2. QED
    BY <1>0, <1>5, <2>1, ForgetTypes DEF ConnectFences, Types
<1>6. ASSUME NEW n \in Nodes, ConnectFollows(n) PROVE Types'
  <2>1. target[n] \in Nodes /\ epoch[n] \in Nat /\ epoch[target[n]] \in Nat
    BY <1>0 DEF ProcessType, DataType
  <2>2. Max({epoch[n], epoch[target[n]]}) \in Nat
    BY <2>1, MaxOfNats
  <2>3. DataType'
    BY <1>0, <1>6, <2>1, <2>2 DEF ConnectFollows, DataType
  <2>4. ProcessType' /\ RaftType' /\ HistoryType'
    BY <1>0, <1>6 DEF ConnectFollows, raft, ProcessType, RaftType, HistoryType
  <2>5. QED
    BY <1>0, <1>6, <2>3, <2>4, ForgetTypes DEF ConnectFollows, Types
<1>7. ASSUME NEW n \in Nodes, ConnectDiverges(n) PROVE Types'
  <2>1. ProcessType' /\ DataType' /\ RaftType' /\ HistoryType'
    BY <1>0, <1>7 DEF ConnectDiverges, raft, ProcessType, DataType, RaftType, HistoryType
  <2>2. QED
    BY <1>0, <1>7, <2>1, ForgetTypes DEF ConnectDiverges, Types
<1>8. QED
  BY <1>1, <1>2, <1>3, <1>4, <1>5, <1>6, <1>7 DEF DataPlane

LEMMA TypesProcesses ==
  ASSUME Types, Processes
  PROVE  Types'
<1>0. ProcessType /\ DataType /\ RaftType /\ MeshType /\ HistoryType
  BY DEF Types
<1>a. ASSUME NEW n \in Nodes PROVE EpochOf(log[n]) \in Nat
  <2>1. log[n] \in Seq(Entry)
    BY <1>0 DEF DataType
  <2>2. CASE log[n] = <<>>
    BY <2>2 DEF EpochOf
  <2>3. CASE log[n] # <<>>
    <3>1. Len(log[n]) \in 1..Len(log[n])
      BY <2>1, <2>3
    <3>2. Last(log[n]) \in Entry
      BY <2>1, <3>1 DEF Last
    <3>3. QED
      BY <2>3, <3>2 DEF EpochOf, Entry
  <2>4. QED
    BY <2>2, <2>3
<1>b. \A k \in 0..MaxActs : k < MaxActs => k + 1 \in 0..MaxActs
  BY FailoverBounds
<1>1. ASSUME NEW n \in Nodes, Stop(n) PROVE Types'
  BY <1>1, HaltTypes DEF Stop
<1>2. ASSUME NEW n \in Nodes, RestartPrimary(n) PROVE Types'
  <2>1. ProcessType' /\ DataType' /\ RaftType' /\ MeshType'
    BY <1>0, <1>2, <1>a DEF RestartPrimary, raft, mesh, ProcessType, DataType, RaftType, MeshType, Roles
  <2>2. HistoryType'
    BY <1>0, <1>2, <1>b DEF RestartPrimary, history, HistoryType
  <2>3. QED
    BY <2>1, <2>2 DEF Types
<1>3. ASSUME NEW n \in Nodes, Recover(n) PROVE Types'
  <2>1. ProcessType' /\ DataType' /\ RaftType' /\ MeshType' /\ HistoryType'
    BY <1>0, <1>3, <1>a DEF Recover, raft, mesh, history, ProcessType, DataType, RaftType, MeshType,
                            HistoryType, Roles
  <2>2. QED
    BY <2>1 DEF Types
<1>4. ASSUME NEW n \in Nodes, NEW t \in Nodes, RestartReplica(n, t) PROVE Types'
  <2>1. ProcessType' /\ DataType' /\ RaftType' /\ MeshType'
    BY <1>0, <1>4 DEF RestartReplica, data, raft, mesh, ProcessType, DataType, RaftType, MeshType, Roles
  <2>2. HistoryType'
    BY <1>0, <1>4, <1>b DEF RestartReplica, history, HistoryType
  <2>3. QED
    BY <2>1, <2>2 DEF Types
<1>5. QED
  BY <1>1, <1>2, <1>3, <1>4 DEF Processes

\* A new election: its term is one past every term.
LEMMA ElectTerm ==
  ASSUME RaftType, NEW n \in Nodes, NEW Q \in SUBSET Nodes, Elect(n, Q)
  PROVE  \E t \in 1..MaxTerm :
           /\ \A v \in Nodes : term[v] < t
           /\ \E v \in Nodes : term[v] = t - 1
           /\ term' = [v \in Nodes |-> IF v \in Q \union {n} THEN t ELSE term[v]]
<1> DEFINE t == Max({term[v] : v \in Nodes}) + 1
<1>1. /\ t \in 1..MaxTerm /\ (\A v \in Nodes : term[v] < t) /\ \E v \in Nodes : term[v] = t - 1
  <2>1. t <= MaxTerm /\ MaxTerm \in Nat
    BY FailoverBounds DEF Elect
  <2> DEFINE m == Max({term[v] : v \in Nodes})
  <2>2. m \in 0..MaxTerm /\ (\A v \in Nodes : term[v] <= m) /\ \E v \in Nodes : term[v] = m
    BY MaxOfTerms DEF RaftType
  <2>3. t = m + 1
    OBVIOUS
  <2> HIDE DEF m, t
  <2>4. \A v \in Nodes : term[v] \in 0..MaxTerm
    BY DEF RaftType
  <2>5. QED
    BY <2>1, <2>2, <2>3, <2>4
<1>2. term' = [v \in Nodes |-> IF v \in Q \union {n} THEN t ELSE term[v]]
  BY DEF Elect
<1> HIDE DEF t
<1>3. QED
  BY <1>1, <1>2

LEMMA TypesControlPlane ==
  ASSUME Types, ControlPlane
  PROVE  Types'
<1>0. ProcessType /\ DataType /\ RaftType /\ MeshType /\ HistoryType
  BY DEF Types
<1>1. ASSUME NEW n \in Nodes, NEW Q \in SUBSET Nodes, Elect(n, Q) PROVE Types'
  <2>1. PICK t \in 1..MaxTerm : term' = [v \in Nodes |-> IF v \in Q \union {n} THEN t ELSE term[v]]
    BY <1>0, <1>1, ElectTerm
  <2>2. RaftType'
    <3>1. t \in 0..MaxTerm
      BY FailoverBounds
    <3>2. term' \in [Nodes -> 0..MaxTerm]
      BY <1>0, <2>1, <3>1 DEF RaftType
    <3>3. lead' \in [Nodes -> BOOLEAN]
      BY <1>0, <1>1, Zenon DEF Elect, RaftType
    <3>4. drops' = drops
      BY <1>1 DEF Elect
    <3>5. QED
      BY <1>0, <3>2, <3>3, <3>4 DEF RaftType
  <2>3. role' \in [Nodes -> Roles]
    BY <1>0, <1>1, HearingTypes DEF Elect
  <2>4. ProcessType' /\ DataType' /\ HistoryType'
    BY <1>0, <1>1, <2>3 DEF Elect, data, history, ProcessType, DataType, HistoryType
  <2>5. QED
    BY <1>0, <1>1, <2>2, <2>4, ForgetTypes DEF Elect, Types
<1>2. ASSUME NEW n \in Nodes, NEW v \in Nodes, DropVote(n, v) PROVE Types'
  <2>1. drops[v] < EscapeDrops /\ drops[v] \in 0..EscapeDrops /\ EscapeDrops \in Nat
    BY <1>0, <1>2, FailoverBounds DEF DropVote, Delivers, RaftType
  <2>2. RaftType'
    BY <1>0, <1>2, <2>1 DEF DropVote, RaftType
  <2>3. role' \in [Nodes -> Roles]
    BY <1>0, <1>2, HearingTypes DEF DropVote
  <2>4. ProcessType' /\ DataType' /\ MeshType' /\ HistoryType'
    BY <1>0, <1>2, <2>3 DEF DropVote, data, mesh, history, ProcessType, DataType, MeshType, HistoryType
  <2>5. QED
    BY <2>2, <2>4 DEF Types
<1>3. ASSUME NEW n \in Nodes, NEW v \in Nodes, Heartbeat(n, v) PROVE Types'
  <2>1. Max({term[v], term[n]}) \in 0..MaxTerm /\ Max({term[n], term[v]}) \in 0..MaxTerm
    <3>1. term[v] \in 0..MaxTerm /\ term[n] \in 0..MaxTerm /\ MaxTerm \in Nat
      BY <1>0, FailoverBounds DEF RaftType
    <3>2. term[v] \in Int /\ term[n] \in Int
      BY <3>1
    <3>3. Max({term[v], term[n]}) \in {term[v], term[n]} /\ Max({term[n], term[v]}) \in {term[v], term[n]}
      BY <3>2, MaxOfTwo
    <3>4. QED
      BY <3>1, <3>3
  <2>2. RaftType'
    <3>1. term' = [term EXCEPT ![v] = Max({@, term[n]}), ![n] = Max({@, term[v]})]
      BY <1>3 DEF Heartbeat
    <3>2. term' \in [Nodes -> 0..MaxTerm]
      <4>1. n # v
        BY <1>3 DEF Heartbeat
      <4>2. term \in [Nodes -> 0..MaxTerm]
        BY <1>0 DEF RaftType
      <4> DEFINE a == Max({term[v], term[n]})
                 b == Max({term[n], term[v]})
      <4>3. term' = [term EXCEPT ![v] = a, ![n] = b]
        BY <3>1, <4>1, <4>2
      <4> HIDE DEF a, b
      <4>4. a \in 0..MaxTerm /\ b \in 0..MaxTerm
        BY <2>1 DEF a, b
      <4>5. QED
        BY <4>2, <4>3, <4>4
    <3>3. lead' \in [Nodes -> BOOLEAN]
      <4>1. lead \in [Nodes -> BOOLEAN]
        BY <1>0 DEF RaftType
      <4>2. lead' = [lead EXCEPT ![v] = @ /\ ~(term[v] <= term[n]), ![n] = (term[v] <= term[n])]
        BY <1>3 DEF Heartbeat
      <4> DEFINE c == term[v] <= term[n]
                 d == lead[v] /\ ~c
      <4>3. c \in BOOLEAN /\ d \in BOOLEAN
        OBVIOUS
      <4>4. lead' = [lead EXCEPT ![v] = d, ![n] = c]
        BY <4>1, <4>2
      <4> HIDE DEF c, d
      <4>5. QED
        BY <4>1, <4>3, <4>4
    <3>4. drops' \in [Nodes -> 0..EscapeDrops]
      <4>1. 0 \in 0..EscapeDrops
        BY FailoverBounds
      <4>2. drops' = [drops EXCEPT ![v] = 0, ![n] = 0] /\ drops \in [Nodes -> 0..EscapeDrops]
        BY <1>0, <1>3 DEF Heartbeat, RaftType
      <4>3. QED
        BY <4>1, <4>2
    <3>5. QED
      BY <3>2, <3>3, <3>4 DEF RaftType
  <2>3. role' \in [Nodes -> Roles]
    BY <1>0, <1>3, HearingTypes DEF Heartbeat
  <2>4. ProcessType' /\ DataType' /\ HistoryType'
    BY <1>0, <1>3, <2>3 DEF Heartbeat, data, history, ProcessType, DataType, HistoryType
  <2>5. MeshType'
    <3>1. ASSUME Answered(n, v) PROVE MeshType'
      BY <1>0, <3>1 DEF Answered, MeshType
    <3>2. QED
      BY <1>0, <1>3, <3>1, ForgetTypes DEF Heartbeat
  <2>6. QED
    BY <2>2, <2>4, <2>5 DEF Types
<1>4. ASSUME NEW n \in Nodes, NEW v \in Nodes, Age(n, v) PROVE Types'
  <2>1. ProcessType' /\ DataType' /\ RaftType' /\ HistoryType'
    BY <1>0, <1>4 DEF Age, process, data, raft, history, ProcessType, DataType, RaftType, HistoryType
  <2>2. MeshType'
    <3>1. ASSUME heard' = [heard EXCEPT ![n][v] = "none"] PROVE MeshType'
      BY <1>0, <3>1 DEF MeshType
    <3>2. QED
      BY <1>0, <1>4, <3>1, ForgetTypes DEF Age
  <2>3. QED
    BY <2>1, <2>2 DEF Types
<1>5. QED
  BY <1>1, <1>2, <1>3, <1>4 DEF ControlPlane

\* A mint: the bump's epoch is above the node's own and at least the term.
LEMMA MintEpoch ==
  ASSUME Types, NEW n \in Nodes
  PROVE  /\ NewEpoch(n) \in Nat /\ NewEpoch(n) >= epoch[n] + 1 /\ NewEpoch(n) >= req[n]
         /\ NewEpoch(n) \in {epoch[n] + 1, req[n]}
         /\ req[n] \in Int /\ epoch[n] \in Nat
<1>1. epoch[n] \in Nat /\ req[n] \in Int
  BY FailoverBounds DEF Types, DataType, ProcessType, Manual
<1>2. epoch[n] + 1 \in Int
  BY <1>1
<1>3. /\ NewEpoch(n) >= epoch[n] + 1 /\ NewEpoch(n) >= req[n]
      /\ NewEpoch(n) \in {epoch[n] + 1, req[n]}
  BY <1>1, <1>2, MaxOfTwo DEF NewEpoch
<1>4. QED
  BY <1>1, <1>3

LEMMA TypesPromotion ==
  ASSUME Types, Promotion
  PROVE  Types'
<1>0. ProcessType /\ DataType /\ RaftType /\ MeshType /\ HistoryType
  BY DEF Types
<1>1. ASSUME NEW n \in Nodes, Decide(n) PROVE Types'
  <2>1. ProcessType' /\ DataType' /\ RaftType' /\ MeshType' /\ HistoryType'
    BY <1>0, <1>1 DEF Decide, data, raft, mesh, history, ProcessType, DataType, RaftType, MeshType,
                      HistoryType
  <2>2. QED
    BY <2>1 DEF Types
<1>2. ASSUME NEW n \in Nodes, Promote(n) PROVE Types'
  <2>1. ProcessType' /\ DataType' /\ RaftType' /\ MeshType'
    BY <1>0, <1>2 DEF Promote, data, raft, mesh, ProcessType, DataType, RaftType, MeshType
  <2>2. HistoryType'
    <3>1. acts' \in 0..MaxActs
      BY <1>0, <1>2, FailoverBounds DEF Promote, HistoryType
    <3>2. manual'
      BY <1>2 DEF Promote
    <3>3. minted' = minted /\ bare' = bare
      BY <1>2 DEF Promote
    <3>4. manual' \in BOOLEAN
      BY <1>2 DEF Promote
    <3>5. QED
      BY <1>0, <3>1, <3>3, <3>4 DEF HistoryType
  <2>3. QED
    BY <2>1, <2>2 DEF Types
<1>3. ASSUME NEW n \in Nodes, Drain(n) PROVE Types'
  <2>1. CASE Halt(n)
    BY <1>3, <2>1, HaltTypes DEF Drain
  <2>2. CASE ~Halt(n)
    <3>1. ProcessType' /\ DataType' /\ RaftType' /\ HistoryType' /\ Forget({n})
      BY <1>0, <1>3, <2>2 DEF Drain, data, raft, history, ProcessType, DataType, RaftType,
                              HistoryType, Roles
    <3>2. QED
      BY <1>0, <3>1, ForgetTypes DEF Types
  <2>3. QED
    BY <2>1, <2>2
<1>4. ASSUME NEW n \in Nodes, Abandon(n) PROVE Types'
  BY <1>4, HaltTypes DEF Abandon
<1>5. ASSUME NEW n \in Nodes, NEW Q \in SUBSET (Nodes \ {n}), Mint(n, Q) PROVE Types'
  <2> DEFINE e == NewEpoch(n)
  <2>1. e \in Nat /\ <<e, n>> \in Entry /\ log[n] \in Seq(Entry)
    BY <1>0, MintEpoch DEF Entry, DataType
  <2>2. /\ epoch' = [epoch EXCEPT ![n] = e] /\ log' = [log EXCEPT ![n] = Append(@, <<e, n>>)]
        /\ minted' = minted \union {e}
    BY <1>5 DEF Mint
  <2> HIDE DEF e
  <2>3. Append(log[n], <<e, n>>) \in Seq(Entry)
    BY <2>1
  <2>4. DataType'
    BY <1>0, <2>1, <2>2, <2>3 DEF DataType
  <2>5. HistoryType' /\ MeshType'
    BY <1>0, <1>5, <2>1, <2>2 DEF Mint, mesh, HistoryType, MeshType
  <2>6. RaftType'
    BY <1>0, <1>5, FailoverBounds DEF Mint, RaftType
  <2>7. ProcessType'
    BY <1>0, <1>5, FailoverBounds DEF Mint, ProcessType, Roles
  <2>8. QED
    BY <2>4, <2>5, <2>6, <2>7 DEF Types
<1>6. QED
  BY <1>1, <1>2, <1>3, <1>4, <1>5 DEF Promotion

LEMMA TypesStep == Types /\ [Next]_vars => Types'
<1> SUFFICES ASSUME Types, [Next]_vars PROVE Types'
  OBVIOUS
<1>1. CASE UNCHANGED vars
  BY <1>1 DEF vars, process, data, raft, mesh, history, Types, ProcessType, DataType, RaftType,
              MeshType, HistoryType
<1>2. QED
  BY <1>1, TypesDataPlane, TypesProcesses, TypesControlPlane, TypesPromotion DEF Next


-----------------------------------------------------------------------------
(* Every epoch anyone holds, and every epoch an entry carries, was minted. *)

Recorded ==
  /\ 0 \in minted
  /\ \A n \in Nodes : epoch[n] \in minted
  /\ \A n \in Nodes : \A i \in 1..Len(log[n]) : log[n][i][1] \in minted

LEMMA RecordedFrame ==
  ASSUME Recorded, log' = log, epoch' = epoch, minted' = minted
  PROVE  Recorded'
BY DEF Recorded

\* An append of an entry whose epoch is minted, at one journal.
LEMMA RecordedAppend ==
  ASSUME Types, Recorded, NEW n \in Nodes, NEW x \in Entry,
         log' = [log EXCEPT ![n] = Append(@, x)], x[1] \in minted',
         minted \subseteq minted', \A m \in Nodes : epoch'[m] \in minted'
  PROVE  Recorded'
<1>1. log \in [Nodes -> Seq(Entry)]
  BY DEF Types, DataType
<1>2. ASSUME NEW m \in Nodes, NEW i \in 1..Len(log'[m]) PROVE log'[m][i][1] \in minted'
  <2>1. CASE m # n
    BY <1>1, <1>2, <2>1 DEF Recorded
  <2>2. CASE m = n
    <3>1. log[n] \in Seq(Entry) /\ log'[n] = Append(log[n], x)
      BY <1>1
    <3>2. i \in 1..Len(log[n]) \/ i = Len(log[n]) + 1
      BY <1>2, <2>2, <3>1
    <3>3. CASE i \in 1..Len(log[n])
      BY <2>2, <3>1, <3>3 DEF Recorded
    <3>4. CASE i = Len(log[n]) + 1
      BY <2>2, <3>1, <3>4
    <3>5. QED
      BY <3>2, <3>3, <3>4
  <2>3. QED
    BY <2>1, <2>2
<1>3. QED
  BY <1>2 DEF Recorded

LEMMA EpochOfRecorded ==
  ASSUME Types, Recorded, NEW n \in Nodes
  PROVE  EpochOf(log[n]) \in minted
<1>1. log[n] \in Seq(Entry)
  BY DEF Types, DataType
<1>2. CASE log[n] = <<>>
  BY <1>2 DEF EpochOf, Recorded
<1>3. CASE log[n] # <<>>
  <2>1. Len(log[n]) \in 1..Len(log[n])
    BY <1>1, <1>3
  <2>2. QED
    BY <1>3, <2>1 DEF EpochOf, Last, Recorded
<1>4. QED
  BY <1>2, <1>3

LEMMA MaxEpoch ==
  ASSUME NEW a \in Nat, NEW b \in Nat, NEW S, a \in S, b \in S
  PROVE  Max({a, b}) \in S
<1>1. Max({a, b}) \in {a, b}
  BY MaxOfTwo
<1>2. QED
  BY <1>1

LEMMA RecordedHalt ==
  ASSUME Types, Recorded, NEW n \in Nodes, Halt(n)
  PROVE  Recorded'
BY DEF Types, DataType, Recorded, Halt, history

LEMMA RecordedDataPlane ==
  ASSUME Types, Recorded, DataPlane
  PROVE  Recorded'
<1>0. /\ log \in [Nodes -> Seq(Entry)] /\ epoch \in [Nodes -> Nat]
      /\ target \in [Nodes -> Nodes]
  BY DEF Types, DataType, ProcessType
<1>1. ASSUME NEW n \in Nodes, Write(n) PROVE Recorded'
  <2>1. <<epoch[n], n>> \in Entry
    BY <1>0 DEF Entry
  <2>2. epoch' = epoch /\ minted' = minted /\ log' = [log EXCEPT ![n] = Append(@, <<epoch[n], n>>)]
    BY <1>1 DEF Write, history
  <2>3. epoch[n] \in minted' /\ (\A m \in Nodes : epoch'[m] \in minted') /\ minted \subseteq minted'
    BY <2>2 DEF Recorded
  <2>4. QED
    BY <2>1, <2>2, <2>3, RecordedAppend
<1>2. ASSUME NEW n \in Nodes, Replicate(n) PROVE Recorded'
  <2> DEFINE p == target[n]
             k == Len(log[n]) + 1
             x == log[p][k]
  <2>1. p \in Nodes /\ log[p] \in Seq(Entry) /\ k \in 1..Len(log[p])
    BY <1>0, <1>2 DEF Replicate
  <2>2. x \in Entry /\ x[1] \in Nat /\ x[1] \in minted /\ epoch[n] \in Nat
    BY <1>0, <2>1 DEF Entry, Recorded
  <2>3. log' = [log EXCEPT ![n] = Append(@, x)] /\ minted' = minted
        /\ epoch' = [epoch EXCEPT ![n] = Max({@, x[1]})]
    BY <1>2 DEF Replicate
  <2> HIDE DEF p, k, x
  <2>4. Max({epoch[n], x[1]}) \in minted
    BY <2>2, MaxEpoch DEF Recorded
  <2>5. (\A m \in Nodes : epoch'[m] \in minted') /\ minted \subseteq minted' /\ x[1] \in minted'
    BY <1>0, <2>2, <2>3, <2>4 DEF Recorded
  <2>6. QED
    BY <2>2, <2>3, <2>5, RecordedAppend
<1>3. ASSUME NEW n \in Nodes, Transfer(n) PROVE Recorded'
  <2>1. target[n] \in Nodes /\ Max({epoch[n], epoch[target[n]]}) \in minted
    BY <1>0, MaxEpoch DEF Recorded
  <2>2. QED
    BY <1>0, <1>3, <2>1 DEF Transfer, Recorded
<1>4. ASSUME NEW n \in Nodes, LinkDrop(n) \/ ConnectFences(n) PROVE Recorded'
  BY <1>4, RecordedFrame DEF LinkDrop, ConnectFences, data, history
<1>5. ASSUME NEW n \in Nodes, ConnectFollows(n) PROVE Recorded'
  <2>1. target[n] \in Nodes /\ Max({epoch[n], epoch[target[n]]}) \in minted
    BY <1>0, MaxEpoch DEF Recorded
  <2>2. QED
    BY <1>0, <1>5, <2>1 DEF ConnectFollows, Recorded
<1>6. ASSUME NEW n \in Nodes, ConnectDiverges(n) PROVE Recorded'
  BY <1>0, <1>6 DEF ConnectDiverges, Recorded
<1>7. QED
  BY <1>1, <1>2, <1>3, <1>4, <1>5, <1>6 DEF DataPlane

LEMMA RecordedStep == Types /\ Recorded /\ [Next]_vars => Recorded'
<1> SUFFICES ASSUME Types, Recorded, [Next]_vars PROVE Recorded'
  OBVIOUS
<1>0. epoch \in [Nodes -> Nat]
  BY DEF Types, DataType
<1>1. CASE UNCHANGED vars
  BY <1>1, RecordedFrame DEF vars, data, history
<1>2. CASE DataPlane
  BY <1>2, RecordedDataPlane
<1>3. CASE Processes
  <2>1. ASSUME NEW n \in Nodes, Stop(n) PROVE Recorded'
    BY <2>1, RecordedHalt DEF Stop
  <2>2. ASSUME NEW n \in Nodes, RestartPrimary(n) \/ Recover(n) PROVE Recorded'
    <3>1. /\ log' = log /\ minted' = minted
          /\ epoch' = [epoch EXCEPT ![n] = EpochOf(log[n])]
      BY <2>2 DEF RestartPrimary, Recover, history
    <3>2. QED
      BY <1>0, <3>1, EpochOfRecorded DEF Recorded
  <2>3. ASSUME NEW n \in Nodes, NEW t \in Nodes, RestartReplica(n, t) PROVE Recorded'
    BY <2>3, RecordedFrame DEF RestartReplica, data, history
  <2>4. QED
    BY <1>3, <2>1, <2>2, <2>3 DEF Processes
<1>4. CASE ControlPlane
  <2>1. log' = log /\ epoch' = epoch /\ minted' = minted
    BY <1>4 DEF ControlPlane, Elect, DropVote, Heartbeat, Age, data, history
  <2>2. QED
    BY <2>1, RecordedFrame
<1>5. CASE Promotion
  <2>1. ASSUME NEW n \in Nodes, Decide(n) \/ Promote(n) PROVE Recorded'
    BY <2>1, RecordedFrame DEF Decide, Promote, data, history
  <2>2. ASSUME NEW n \in Nodes, Drain(n) PROVE Recorded'
    BY <2>2, RecordedFrame, RecordedHalt DEF Drain, data, history
  <2>3. ASSUME NEW n \in Nodes, Abandon(n) PROVE Recorded'
    BY <2>3, RecordedHalt DEF Abandon
  <2>4. ASSUME NEW n \in Nodes, NEW Q \in SUBSET (Nodes \ {n}), Mint(n, Q) PROVE Recorded'
    <3> DEFINE e == NewEpoch(n)
    <3>1. e \in Nat /\ <<e, n>> \in Entry
      BY MintEpoch DEF Entry
    <3>2. /\ epoch' = [epoch EXCEPT ![n] = e] /\ log' = [log EXCEPT ![n] = Append(@, <<e, n>>)]
          /\ minted' = minted \union {e}
      BY <2>4 DEF Mint
    <3> HIDE DEF e
    <3>3. (\A m \in Nodes : epoch'[m] \in minted') /\ minted \subseteq minted' /\ e \in minted'
      BY <1>0, <3>2 DEF Recorded
    <3>4. QED
      BY <3>1, <3>2, <3>3, RecordedAppend
  <2>5. QED
    BY <1>5, <2>1, <2>2, <2>3, <2>4 DEF Promotion
<1>6. QED
  BY <1>1, <1>2, <1>3, <1>4, <1>5 DEF Next


-----------------------------------------------------------------------------
(* The operator's commands.  A PROMOTE mints one past an epoch that exists  *)
(* whatever the terms are, so the epochs outrun the terms by no more than   *)
(* the commands given and no longer waiting.                                *)

Asked == {n \in Nodes : req[n] = Manual}
Slack == IF manual THEN acts - Cardinality(Asked) ELSE 0
Counted == Cardinality(Asked) <= acts /\ (manual \/ Asked = {})

LEMMA AskedType ==
  ASSUME Types
  PROVE  IsFiniteSet(Asked) /\ Cardinality(Asked) \in Nat /\ acts \in Nat
<1>1. IsFiniteSet(Asked)
  BY FailoverBounds, FS_Subset DEF Asked
<1>2. Cardinality(Asked) \in Nat
  BY <1>1, FS_CardinalityType
<1>3. QED
  BY <1>1, <1>2, FailoverBounds DEF Types, HistoryType

LEMMA SlackType ==
  ASSUME Types, Counted
  PROVE  Slack \in 0..acts
<1>1. Cardinality(Asked) \in Nat /\ acts \in Nat /\ Cardinality(Asked) <= acts
  BY AskedType DEF Counted
<1>2. CASE manual
  BY <1>1, <1>2 DEF Slack
<1>3. CASE ~manual
  BY <1>1, <1>3 DEF Slack
<1>4. QED
  BY <1>2, <1>3

\* Nobody's request changed.
LEMMA SlackFrame ==
  ASSUME Types, Counted, req' = req, manual' = manual, acts' \in {acts, acts + 1}
  PROVE  Counted' /\ Slack' >= Slack
<1>1. Asked' = Asked
  BY DEF Asked
<1>2. Cardinality(Asked) \in Nat /\ acts \in Nat
  BY AskedType
<1>3. acts' >= acts /\ acts' \in Nat
  BY <1>2
<1>4. Counted'
  <2>1. Cardinality(Asked') <= acts'
    BY <1>1, <1>2, <1>3 DEF Counted
  <2>2. manual' \/ Asked' = {}
    BY <1>1 DEF Counted
  <2>3. QED
    BY <2>1, <2>2 DEF Counted
<1>5. CASE manual
  <2>1. Slack = acts - Cardinality(Asked) /\ Slack' = acts' - Cardinality(Asked)
    BY <1>1, <1>5 DEF Slack
  <2>2. QED
    BY <1>2, <1>3, <1>4, <2>1
<1>6. CASE ~manual
  <2>1. Slack = 0 /\ Slack' = 0
    BY <1>6 DEF Slack
  <2>2. QED
    BY <1>4, <2>1
<1>7. QED
  BY <1>4, <1>5, <1>6

\* The request of one node is gone: a command that is carried out, or whose
\* node stopped, no longer waits.
LEMMA SlackAnswered ==
  ASSUME Types, Counted, NEW n \in Nodes, req' = [req EXCEPT ![n] = 0], manual' = manual,
         acts' = acts
  PROVE  Counted' /\ Slack' >= Slack /\ (req[n] = Manual => Slack' >= Slack + 1)
<1>0. req \in [Nodes -> {Manual} \union (0..MaxTerm)]
  BY DEF Types, ProcessType
<1>1. Asked' = Asked \ {n}
  BY <1>0 DEF Asked, Manual
<1>2. IsFiniteSet(Asked) /\ Cardinality(Asked) \in Nat /\ acts \in Nat
  BY AskedType
<1>3. /\ Cardinality(Asked') \in Nat /\ Cardinality(Asked') <= Cardinality(Asked)
      /\ (n \in Asked => Cardinality(Asked') = Cardinality(Asked) - 1)
  BY <1>1, <1>2, FS_RemoveElement, FS_CardinalityType
<1>4. Cardinality(Asked') <= acts'
  BY <1>2, <1>3 DEF Counted
<1>5. manual' \/ Asked' = {}
  BY <1>1 DEF Counted
<1>6. Counted'
  BY <1>4, <1>5 DEF Counted
<1>7. CASE manual
  <2>1. Slack = acts - Cardinality(Asked) /\ Slack' = acts - Cardinality(Asked')
    BY <1>7 DEF Slack
  <2>2. req[n] = Manual => n \in Asked
    BY DEF Asked
  <2>3. QED
    BY <1>2, <1>3, <1>6, <2>1, <2>2
<1>8. CASE ~manual
  <2>1. Slack = 0 /\ Slack' = 0 /\ req[n] # Manual
    BY <1>8 DEF Slack, Counted, Asked
  <2>2. QED
    BY <1>6, <2>1
<1>9. QED
  BY <1>7, <1>8

\* The operator's command is given, and waits.
LEMMA SlackAsked ==
  ASSUME Types, Counted, NEW n \in Nodes, Promote(n)
  PROVE  Counted' /\ Slack' >= Slack
<1>0. req \in [Nodes -> {Manual} \union (0..MaxTerm)]
  BY DEF Types, ProcessType
<1>1. Asked' = Asked \union {n}
  BY <1>0 DEF Asked, Promote
<1>2. IsFiniteSet(Asked) /\ Cardinality(Asked) \in Nat /\ acts \in Nat
  BY AskedType
<1>3. n \notin Asked
  BY DEF Asked, Promote, Manual
<1>4. Cardinality(Asked') = Cardinality(Asked) + 1
  BY <1>1, <1>2, <1>3, FS_AddElement
<1>5. manual' /\ acts' = acts + 1
  BY DEF Promote
<1>6. Cardinality(Asked') <= acts'
  BY <1>2, <1>4, <1>5 DEF Counted
<1>7. Counted'
  BY <1>5, <1>6 DEF Counted
<1>8. Slack' = acts - Cardinality(Asked)
  <2>1. Slack' = acts' - Cardinality(Asked')
    BY <1>5 DEF Slack
  <2>2. QED
    BY <1>2, <1>4, <1>5, <2>1
<1>9. CASE manual
  BY <1>2, <1>7, <1>8, <1>9 DEF Slack
<1>10. CASE ~manual
  <2>1. Slack = 0 /\ Cardinality(Asked) <= acts
    BY <1>10 DEF Slack, Counted
  <2>2. QED
    BY <1>2, <1>7, <1>8, <2>1
<1>11. QED
  BY <1>9, <1>10

\* A decision files a term, never a command.
LEMMA SlackDecided ==
  ASSUME Types, Counted, NEW n \in Nodes, Decide(n)
  PROVE  Counted' /\ Slack' >= Slack
<1>1. req \in [Nodes -> {Manual} \union (0..MaxTerm)] /\ term[n] \in 0..MaxTerm /\ req[n] = 0
      /\ req' = [req EXCEPT ![n] = term[n]] /\ manual' = manual /\ acts' = acts
  BY DEF Types, ProcessType, RaftType, Decide, history
<1>2. term[n] # Manual /\ req[n] # Manual
  BY <1>1 DEF Manual
<1>3. Asked' = Asked
  BY <1>1, <1>2 DEF Asked
<1>4. Slack' = Slack
  BY <1>1, <1>3 DEF Slack
<1>5. Slack \in Int
  BY AskedType, SlackType
<1>6. Counted'
  BY <1>1, <1>3 DEF Counted
<1>7. QED
  BY <1>4, <1>5, <1>6

LEMMA SlackStep ==
  ASSUME Types, Counted, [Next]_vars
  PROVE  Counted' /\ Slack' >= Slack
<1>1. CASE UNCHANGED vars
  BY <1>1, SlackFrame DEF vars, process, history
<1>2. CASE DataPlane
  <2>1. req' = req /\ manual' = manual /\ acts' = acts
    BY <1>2 DEF DataPlane, Write, Replicate, Transfer, LinkDrop, ConnectFences, ConnectFollows,
                ConnectDiverges, process, history
  <2>2. QED
    BY <2>1, SlackFrame
<1>3. CASE Processes
  <2>1. ASSUME NEW n \in Nodes, Stop(n) PROVE Counted' /\ Slack' >= Slack
    <3>1. req' = [req EXCEPT ![n] = 0] /\ manual' = manual /\ acts' = acts
      BY <2>1 DEF Stop, Halt, history
    <3>2. QED
      BY <3>1, SlackAnswered
  <2>2. ASSUME NEW n \in Nodes, RestartPrimary(n) \/ Recover(n) \/ \E t \in Nodes : RestartReplica(n, t)
        PROVE Counted' /\ Slack' >= Slack
    <3>1. req' = req /\ manual' = manual /\ acts' \in {acts, acts + 1}
      BY <2>2 DEF RestartPrimary, Recover, RestartReplica, history
    <3>2. QED
      BY <3>1, SlackFrame
  <2>3. QED
    BY <1>3, <2>1, <2>2 DEF Processes
<1>4. CASE ControlPlane
  <2>1. req' = req /\ manual' = manual /\ acts' = acts
    BY <1>4 DEF ControlPlane, Elect, DropVote, Heartbeat, Age, process, history
  <2>2. QED
    BY <2>1, SlackFrame
<1>5. CASE Promotion
  <2>1. ASSUME NEW n \in Nodes, Drain(n) PROVE Counted' /\ Slack' >= Slack
    <3>1. /\ req' = req \/ req' = [req EXCEPT ![n] = 0]
          /\ manual' = manual /\ acts' = acts
      BY <2>1 DEF Drain, Halt, history
    <3>2. QED
      BY <3>1, SlackFrame, SlackAnswered
  <2>2. ASSUME NEW n \in Nodes, Abandon(n) \/ \E Q \in SUBSET (Nodes \ {n}) : Mint(n, Q)
        PROVE Counted' /\ Slack' >= Slack
    <3>1. req' = [req EXCEPT ![n] = 0] /\ manual' = manual /\ acts' = acts
      BY <2>2 DEF Abandon, Halt, Mint, history
    <3>2. QED
      BY <3>1, SlackAnswered
  <2>3. QED
    BY <1>5, <2>1, <2>2, SlackAsked, SlackDecided DEF Promotion
<1>6. QED
  BY <1>1, <1>2, <1>3, <1>4, <1>5 DEF Next


-----------------------------------------------------------------------------
(* Terms only grow, a node leads only in the term it won, and a term has    *)
(* one winner.                                                              *)

Fresh == {"replica", "promoting"}
Idle == \A n \in Nodes : role[n] \in {"down", "recovering"} => ~lead[n]
OneWinner == \A m, n \in Nodes : lead[m] /\ lead[n] /\ term[m] = term[n] => m = n

\* A step in which no leader is made.
Calm ==
  \A v \in Nodes :
    /\ term'[v] >= term[v]
    /\ lead'[v] => lead[v] /\ term'[v] = term[v] /\ (role'[v] \in Fresh => role[v] \in Fresh)

LEMMA CalmFrame ==
  ASSUME Types, term' = term, lead' = lead,
         \A v \in Nodes : role'[v] = role[v] \/ role'[v] \notin (Fresh \union {"down", "recovering"}),
         Idle
  PROVE  Calm /\ Idle'
<1>1. \A v \in Nodes : term[v] \in Int
  BY DEF Types, RaftType
<1>2. \A v \in Nodes : term'[v] >= term[v]
  BY <1>1
<1>3. \A v \in Nodes : lead'[v] => lead[v] /\ term'[v] = term[v] /\ (role'[v] \in Fresh => role[v] \in Fresh)
  BY Zenon
<1>4. Idle'
  BY DEF Idle
<1>5. QED
  BY <1>2, <1>3, <1>4 DEF Calm

LEMMA CalmHalt ==
  ASSUME Types, Idle, NEW n \in Nodes, Halt(n)
  PROVE  Calm /\ Idle'
<1>1. /\ role' = [role EXCEPT ![n] = "down"] /\ lead' = [lead EXCEPT ![n] = FALSE] /\ term' = term
      /\ role \in [Nodes -> Roles] /\ lead \in [Nodes -> BOOLEAN] /\ term \in [Nodes -> 0..MaxTerm]
  BY DEF Halt, Types, ProcessType, RaftType
<1>2. \A v \in Nodes : term'[v] >= term[v]
  BY <1>1
<1>3. \A v \in Nodes : lead'[v] => lead[v] /\ term'[v] = term[v] /\ (role'[v] \in Fresh => role[v] \in Fresh)
  BY <1>1
<1>4. Idle'
  BY <1>1 DEF Idle
<1>5. QED
  BY <1>2, <1>3, <1>4 DEF Calm

\* Fencing is all that hearing a peer can do to a role.
LEMMA HearingRoles ==
  ASSUME Types, NEW from, role' = AfterHearing(from)
  PROVE  \A v \in Nodes : role'[v] = role[v] \/ role'[v] = "fenced"
BY DEF AfterHearing

LEMMA CalmHeartbeat ==
  ASSUME Types, Idle, NEW n \in Nodes, NEW v \in Nodes, Heartbeat(n, v)
  PROVE  Calm /\ Idle'
<1>1. /\ term \in [Nodes -> 0..MaxTerm] /\ lead \in [Nodes -> BOOLEAN] /\ n # v /\ lead[n]
      /\ term[n] \in Int /\ term[v] \in Int
  BY DEF Types, RaftType, Heartbeat
<1>2. \A u \in Nodes : role'[u] = role[u] \/ role'[u] = "fenced"
  BY HearingRoles DEF Heartbeat
<1> DEFINE a == Max({term[v], term[n]})
           b == Max({term[n], term[v]})
<1>3. /\ a = (IF term[v] >= term[n] THEN term[v] ELSE term[n])
      /\ b = (IF term[n] >= term[v] THEN term[n] ELSE term[v])
  BY <1>1, MaxOfTwo
<1>4. term' = [term EXCEPT ![v] = a, ![n] = b]
  BY <1>1 DEF Heartbeat
<1> HIDE DEF a, b
<1>5. \A u \in Nodes : term'[u] >= term[u]
  BY <1>1, <1>3, <1>4
<1>6. CASE term[v] <= term[n]
  <2>1. lead' = [lead EXCEPT ![v] = FALSE, ![n] = TRUE]
    BY <1>1, <1>6 DEF Heartbeat
  <2>2. \A u \in Nodes : lead'[u] => u # v /\ lead[u]
    BY <1>1, <2>1
  <2>3. \A u \in Nodes : u # v => term'[u] = term[u]
    BY <1>1, <1>3, <1>4, <1>6
  <2>4. QED
    BY <1>2, <1>5, <2>2, <2>3 DEF Calm, Idle, Fresh
<1>7. CASE ~(term[v] <= term[n])
  <2> DEFINE c == term[v] <= term[n]
             d == lead[v] /\ ~c
  <2>1. lead' = [lead EXCEPT ![v] = d, ![n] = c]
    BY <1>1 DEF Heartbeat
  <2>a. ~c /\ d \in BOOLEAN /\ c \in BOOLEAN /\ (d => lead[v])
    BY <1>7
  <2> HIDE DEF c, d
  <2>2. \A u \in Nodes : lead'[u] => u # n /\ lead[u]
    BY <1>1, <2>1, <2>a
  <2>3. \A u \in Nodes : u # n => term'[u] = term[u]
    BY <1>1, <1>3, <1>4, <1>7
  <2>4. QED
    BY <1>2, <1>5, <2>2, <2>3 DEF Calm, Idle, Fresh
<1>8. QED
  BY <1>6, <1>7

LEMMA CalmMint ==
  ASSUME Types, Idle, NEW n \in Nodes, NEW Q \in SUBSET (Nodes \ {n}), Mint(n, Q)
  PROVE  Calm /\ Idle'
<1>1. /\ role \in [Nodes -> Roles] /\ lead \in [Nodes -> BOOLEAN] /\ term \in [Nodes -> 0..MaxTerm]
      /\ \A v \in Nodes : term[v] \in Int
  BY DEF Types, ProcessType, RaftType
<1>2. /\ term' = [v \in Nodes |-> IF v \in Q THEN term[n] ELSE term[v]]
      /\ lead' = [v \in Nodes |-> lead[v] /\ (v \notin Q \/ v = n)]
      /\ \A v \in Nodes : v # n => role'[v] = role[v]
      /\ role'[n] \in {"serving", "fenced"}
  BY <1>1 DEF Mint
<1>3. \A v \in Q : term[v] <= term[n]
  BY DEF Mint, Confirms
<1>4. \A v \in Nodes : term'[v] >= term[v]
  BY <1>1, <1>2, <1>3
<1>5. \A v \in Nodes : lead'[v] => lead[v] /\ v \notin Q
  BY <1>2
<1>6. \A v \in Nodes : v \notin Q => term'[v] = term[v]
  BY <1>2
<1>7. QED
  BY <1>2, <1>4, <1>5, <1>6 DEF Calm, Idle, Fresh

\* No step but an election makes a leader.
LEMMA CalmStep ==
  ASSUME Types, Idle, [Next]_vars,
         ~\E n \in Nodes : \E Q \in SUBSET Nodes : Elect(n, Q)
  PROVE  Calm /\ Idle'
<1>0. role \in [Nodes -> Roles]
  BY DEF Types, ProcessType
<1>1. CASE UNCHANGED vars
  BY <1>1, CalmFrame DEF vars, process, raft
<1>2. CASE DataPlane
  <2>1. term' = term /\ lead' = lead
    BY <1>2 DEF DataPlane, Write, Replicate, Transfer, LinkDrop, ConnectFences, ConnectFollows,
                ConnectDiverges, raft
  <2>2. \A v \in Nodes : role'[v] = role[v] \/ role'[v] = "fenced"
    BY <1>0, <1>2 DEF DataPlane, Write, Replicate, Transfer, LinkDrop, ConnectFences, ConnectFollows,
                      ConnectDiverges, process
  <2>3. QED
    BY <2>1, <2>2, CalmFrame DEF Fresh
<1>3. CASE Processes
  <2>1. ASSUME NEW n \in Nodes, Stop(n) PROVE Calm /\ Idle'
    BY <2>1, CalmHalt DEF Stop
  <2>2. ASSUME NEW n \in Nodes, RestartPrimary(n) \/ Recover(n) \/ \E t \in Nodes : RestartReplica(n, t)
        PROVE Calm /\ Idle'
    <3>1. /\ term' = term /\ lead' = lead /\ ~lead[n]
          /\ \A v \in Nodes : v # n => role'[v] = role[v]
      BY <1>0, <2>2 DEF RestartPrimary, Recover, RestartReplica, raft, Idle
    <3>2. \A v \in Nodes : term[v] \in Int
      BY DEF Types, RaftType
    <3>3. \A v \in Nodes : term'[v] >= term[v]
      BY <3>1, <3>2
    <3>4. \A v \in Nodes : lead'[v] => v # n /\ lead[v]
      BY <3>1
    <3>5. QED
      BY <3>1, <3>3, <3>4 DEF Calm, Idle
  <2>3. QED
    BY <1>3, <2>1, <2>2 DEF Processes
<1>4. CASE ControlPlane
  <2>1. ASSUME NEW n \in Nodes, NEW v \in Nodes, DropVote(n, v) PROVE Calm /\ Idle'
    <3>1. term' = term /\ lead' = lead /\ \A u \in Nodes : role'[u] = role[u] \/ role'[u] = "fenced"
      BY <2>1, HearingRoles DEF DropVote
    <3>2. QED
      BY <3>1, CalmFrame DEF Fresh
  <2>2. ASSUME NEW n \in Nodes, NEW v \in Nodes, Age(n, v) PROVE Calm /\ Idle'
    BY <2>2, CalmFrame DEF Age, process, raft
  <2>3. QED
    BY <1>4, <2>1, <2>2, CalmHeartbeat DEF ControlPlane
<1>5. CASE Promotion
  <2>1. ASSUME NEW n \in Nodes, Decide(n) \/ Promote(n) PROVE Calm /\ Idle'
    BY <2>1, CalmFrame DEF Decide, Promote, raft
  <2>2. ASSUME NEW n \in Nodes, Drain(n) PROVE Calm /\ Idle'
    <3>1. CASE Halt(n)
      BY <3>1, CalmHalt
    <3>2. CASE ~Halt(n)
      <4>1. term' = term /\ lead' = lead /\ role[n] = "replica" /\ role' = [role EXCEPT ![n] = "promoting"]
        BY <2>2, <3>2 DEF Drain, raft
      <4>2. \A v \in Nodes : term[v] \in Int
        BY DEF Types, RaftType
      <4>3. \A v \in Nodes : term'[v] >= term[v]
        BY <4>1, <4>2
      <4>4. \A v \in Nodes : lead'[v] <=> lead[v]
        BY <4>1
      <4>5. \A v \in Nodes : role'[v] = role[v] \/ (role[v] = "replica" /\ role'[v] = "promoting")
        BY <1>0, <4>1
      <4>6. QED
        BY <4>1, <4>3, <4>4, <4>5 DEF Calm, Idle, Fresh
    <3>3. QED
      BY <3>1, <3>2
  <2>3. ASSUME NEW n \in Nodes, Abandon(n) PROVE Calm /\ Idle'
    BY <2>3, CalmHalt DEF Abandon
  <2>4. QED
    BY <1>5, <2>1, <2>2, <2>3, CalmMint DEF Promotion
<1>6. QED
  BY <1>1, <1>2, <1>3, <1>4, <1>5 DEF Next


-----------------------------------------------------------------------------
(* Epochs against terms.  A leader that stands (no majority has moved past  *)
(* its term) and has not minted has the epoch of its term to itself: every  *)
(* epoch that exists is below its term.                                     *)

Later(n) == {v \in Nodes : term[v] > term[n]}
Stands(n) == lead[n] /\ role[n] \in Fresh /\ ~Major(Later(n))
Below == \A e \in minted : \E v \in Nodes : e <= term[v] + Slack
Room == \A n \in Nodes : Stands(n) => \A e \in minted : e < term[n] + Slack
Elections == Idle /\ OneWinner /\ Counted /\ Recorded /\ Below /\ Room

LEMMA ElectionTypes ==
  ASSUME Types, Counted
  PROVE  /\ Slack \in Nat /\ minted \subseteq Nat
         /\ \A v \in Nodes : term[v] \in Nat /\ term[v] <= MaxTerm
BY AskedType, SlackType, FailoverBounds DEF Types, HistoryType, RaftType

LEMMA NextSlackType ==
  ASSUME Types', Counted'
  PROVE  Slack' \in Nat
<1>1. IsFiniteSet(Asked')
  BY FailoverBounds, FS_Subset DEF Asked
<1>2. Cardinality(Asked') \in Nat /\ acts' \in Nat
  BY <1>1, FS_CardinalityType, FailoverBounds DEF Types, HistoryType
<1>3. Cardinality(Asked') <= acts'
  BY DEF Counted
<1>4. CASE manual'
  BY <1>2, <1>3, <1>4 DEF Slack
<1>5. CASE ~manual'
  BY <1>5 DEF Slack
<1>6. QED
  BY <1>4, <1>5

LEMMA ElectLeads ==
  ASSUME Types, Idle, NEW n \in Nodes, NEW Q \in SUBSET Nodes, Elect(n, Q)
  PROVE  Idle' /\ \A v \in Nodes : lead'[v] => v = n \/ (v \notin Q /\ lead[v])
<1>1. lead' = [v \in Nodes |-> IF v \in Q THEN FALSE ELSE v = n \/ lead[v]]
  BY DEF Elect
<1>2. \A v \in Nodes : lead'[v] => v = n \/ (v \notin Q /\ lead[v])
  BY <1>1, Zenon
<1>3. \A v \in Nodes : role'[v] = role[v] \/ role'[v] = "fenced"
  BY HearingRoles DEF Elect
<1>4. role[n] \notin {"down", "recovering"}
  BY DEF Elect, MayCampaign
<1>5. QED
  BY <1>2, <1>3, <1>4 DEF Idle

LEMMA ElectKeeps ==
  ASSUME Types, Types', Elections, Counted', Slack' >= Slack,
         NEW n \in Nodes, NEW Q \in SUBSET Nodes, Elect(n, Q)
  PROVE  OneWinner' /\ Below' /\ Room'
<1>1. PICK t \in 1..MaxTerm : /\ \A v \in Nodes : term[v] < t
                              /\ \E v \in Nodes : term[v] = t - 1
                              /\ term' = [v \in Nodes |-> IF v \in Q \union {n} THEN t ELSE term[v]]
  BY ElectTerm DEF Types
<1>2. \A v \in Nodes : lead'[v] => v = n \/ (v \notin Q /\ lead[v])
  BY ElectLeads DEF Elections
<1>3. Slack \in Nat /\ minted \subseteq Nat /\ \A v \in Nodes : term[v] \in Nat
  BY ElectionTypes DEF Elections
<1>4. Slack' \in Nat /\ t \in Nat
  BY NextSlackType, FailoverBounds
<1>5. minted' = minted
  BY DEF Elect, history
<1>6. /\ term'[n] = t
      /\ \A v \in Nodes : term'[v] = IF v \in Q \union {n} THEN t ELSE term[v]
      /\ \A v \in Nodes : term'[v] >= term[v]
  BY <1>1, <1>3
<1>7. Below'
  <2>1. ASSUME NEW e \in minted PROVE \E v \in Nodes : e <= term'[v] + Slack'
    <3>1. PICK v \in Nodes : e <= term[v] + Slack
      BY DEF Elections, Below
    <3>2. term'[v] >= term[v] /\ term'[v] \in Int /\ term[v] \in Int /\ e \in Int
      BY <1>1, <1>3, <1>6
    <3>3. e <= term'[v] + Slack'
      BY <1>3, <1>4, <3>1, <3>2
    <3>4. QED
      BY <3>3
  <2>2. QED
    BY <1>5, <2>1 DEF Below
<1>8. OneWinner'
  <2>1. ASSUME NEW a \in Nodes, NEW b \in Nodes, lead'[a], lead'[b], term'[a] = term'[b]
        PROVE a = b
    <3>1. \A v \in Nodes : lead'[v] /\ v # n => term'[v] = term[v] /\ term'[v] < t
      BY <1>1, <1>2, <1>6
    <3>2. CASE a = n \/ b = n
      BY <1>1, <1>3, <1>6, <2>1, <3>1, <3>2
    <3>3. CASE a # n /\ b # n
      BY <1>2, <2>1, <3>1, <3>3 DEF Elections, OneWinner
    <3>4. QED
      BY <3>2, <3>3
  <2>2. QED
    BY <2>1 DEF OneWinner
<1>9. Room'
  <2>1. ASSUME NEW m \in Nodes, Stands(m)', NEW e \in minted PROVE e < term'[m] + Slack'
    <3>1. CASE m = n
      <4>1. PICK v \in Nodes : e <= term[v] + Slack
        BY DEF Elections, Below
      <4>2. term[v] < t /\ term[v] \in Int /\ e \in Int /\ term'[m] = t
        BY <1>1, <1>3, <1>6, <3>1
      <4>a. Slack \in Int /\ Slack' \in Int /\ t \in Int /\ Slack' >= Slack
        BY <1>3, <1>4
      <4>3. e < t + Slack'
        BY ONLY <4>1, <4>2, <4>a
      <4>4. QED
        BY <4>2, <4>3
    <3>2. CASE m # n
      <4>1. lead'[m] /\ m \notin Q
        BY <1>2, <2>1, <3>2 DEF Stands
      <4>2. term'[m] = term[m] /\ term[m] < t
        BY <1>1, <1>6, <3>2, <4>1
      <4>3. Q \union {n} \subseteq Later(m)'
        BY <1>6, <4>2 DEF Later
      <4>4. Later(m)' \in SUBSET Nodes
        BY DEF Later
      <4>5. Major(Q \union {n})
        BY DEF Elect
      <4>6. Major(Later(m)')
        BY <4>3, <4>4, <4>5, MajorGrows
      <4>7. QED
        BY <2>1, <4>6 DEF Stands, Major
    <3>3. QED
      BY <3>1, <3>2
  <2>2. QED
    BY <1>5, <2>1 DEF Room
<1>10. QED
  BY <1>7, <1>8, <1>9


\* A step that makes no leader leaves every standing leader standing alone.
LEMMA CalmStands ==
  ASSUME Types, Types', Calm, NEW m \in Nodes, Stands(m)'
  PROVE  Stands(m) /\ term'[m] = term[m]
<1>1. lead[m] /\ role[m] \in Fresh /\ term'[m] = term[m] /\ ~Major(Later(m)')
  BY DEF Stands, Calm, Major
<1>2. \A v \in Nodes : term[v] \in Int /\ term'[v] \in Int /\ term'[v] >= term[v]
  BY DEF Types, RaftType, Calm
<1>3. Later(m) \subseteq Later(m)'
  BY <1>1, <1>2 DEF Later
<1>4. Later(m) \in SUBSET Nodes /\ Later(m)' \in SUBSET Nodes
  BY DEF Later
<1>5. ~Major(Later(m))
  BY <1>1, <1>3, <1>4, MajorGrows
<1>6. QED
  BY <1>1, <1>5 DEF Stands

LEMMA CalmWinner ==
  ASSUME Calm, OneWinner
  PROVE  OneWinner'
BY DEF Calm, OneWinner

\* A step that neither elects nor mints.
LEMMA CalmKeeps ==
  ASSUME Types, Types', Elections, Counted', Slack' >= Slack, Calm, minted' = minted
  PROVE  Below' /\ Room'
<1>1. Slack \in Nat /\ minted \subseteq Nat /\ \A v \in Nodes : term[v] \in Nat
  BY ElectionTypes DEF Elections
<1>2. Slack' \in Nat
  BY NextSlackType
<1>3. \A v \in Nodes : term'[v] >= term[v] /\ term'[v] \in Int
  BY DEF Calm, Types, RaftType
<1>4. ASSUME NEW e \in minted PROVE \E v \in Nodes : e <= term'[v] + Slack'
  <2>1. PICK v \in Nodes : e <= term[v] + Slack
    BY DEF Elections, Below
  <2>2. term'[v] >= term[v] /\ term'[v] \in Int /\ term[v] \in Int /\ e \in Int
    BY <1>1, <1>3
  <2>3. Slack \in Int /\ Slack' \in Int /\ Slack' >= Slack
    BY <1>1, <1>2
  <2>4. e <= term'[v] + Slack'
    BY ONLY <2>1, <2>2, <2>3
  <2>5. QED
    BY <2>4
<1>5. ASSUME NEW m \in Nodes, Stands(m)', NEW e \in minted PROVE e < term'[m] + Slack'
  <2>1. Stands(m) /\ term'[m] = term[m]
    BY <1>5, CalmStands
  <2>2. e < term[m] + Slack
    BY <2>1 DEF Elections, Room
  <2>3. e \in Int /\ term[m] \in Int /\ Slack \in Int /\ Slack' \in Int /\ Slack' >= Slack
    BY <1>1, <1>2
  <2>4. e < term[m] + Slack'
    BY ONLY <2>2, <2>3
  <2>5. QED
    BY <2>1, <2>4
<1>6. QED
  BY <1>4, <1>5 DEF Below, Room

\* The node a confirmed promotion mints on stands.
LEMMA ConfirmedStands ==
  ASSUME Types, NEW n \in Nodes, NEW Q \in SUBSET (Nodes \ {n}), role[n] = "promoting", Confirms(n, Q)
  PROVE  Stands(n)
<1>1. Q \union {n} \in SUBSET Nodes /\ Later(n) \in SUBSET Nodes
  BY DEF Later
<1>2. \A v \in Nodes : term[v] \in Int
  BY DEF Types, RaftType
<1>3. Later(n) \cap (Q \union {n}) = {}
  BY <1>2 DEF Later, Confirms
<1>4. ~Major(Later(n))
  BY <1>1, <1>3, MajorsMeet DEF Confirms
<1>5. QED
  BY <1>4 DEF Stands, Confirms, Fresh

\* The epoch of a mint: no further past its term than the slack allows.
LEMMA MintRoom ==
  ASSUME Types, Types', Elections, Counted', Slack' >= Slack,
         NEW n \in Nodes, NEW Q \in SUBSET (Nodes \ {n}), Mint(n, Q),
         NEW m \in Nodes, m = n \/ Stands(m)'
  PROVE  /\ m = n /\ req[n] # Manual => NewEpoch(n) <= term[n] + Slack'
         /\ m # n => NewEpoch(n) < term'[m] + Slack'
<1>1. Slack \in Int /\ minted \subseteq Nat /\ \A v \in Nodes : term[v] \in Int
  BY ElectionTypes DEF Elections
<1>2. Slack' \in Int
  BY NextSlackType
<1>3. /\ NewEpoch(n) \in {epoch[n] + 1, req[n]} /\ NewEpoch(n) >= epoch[n] + 1
      /\ epoch[n] \in Int /\ req[n] \in Int /\ epoch[n] >= 0
  BY MintEpoch
<1>4. epoch[n] \in minted
  BY DEF Elections, Recorded
<1>5. Calm
  BY CalmMint DEF Elections
<1>6. CASE req[n] = Manual
  <2>1. req' = [req EXCEPT ![n] = 0] /\ manual' = manual /\ acts' = acts
    BY DEF Mint
  <2>2. Slack' >= Slack + 1
    BY <1>6, <2>1, SlackAnswered DEF Elections
  <2>3. NewEpoch(n) = epoch[n] + 1
    BY <1>3, <1>6 DEF Manual
  <2>4. ASSUME m # n PROVE NewEpoch(n) < term'[m] + Slack'
    <3>1. Stands(m) /\ term'[m] = term[m]
      BY <1>5, <2>4, CalmStands
    <3>2. epoch[n] < term[m] + Slack
      BY <1>4, <3>1 DEF Elections, Room
    <3>3. term[m] \in Int
      BY <1>1
    <3>4. QED
      BY ONLY <1>1, <1>2, <1>3, <2>2, <2>3, <3>1, <3>2, <3>3
  <2>5. QED
    BY <1>6, <2>4
<1>7. CASE req[n] # Manual
  <2>1. Confirms(n, Q) /\ role[n] = "promoting" /\ term[n] = req[n]
    BY <1>7 DEF Mint, Confirms
  <2>2. Stands(n)
    BY <2>1, ConfirmedStands
  <2>3. epoch[n] < term[n] + Slack
    BY <1>4, <2>2 DEF Elections, Room
  <2>4. NewEpoch(n) <= term[n] + Slack'
    <3>1. Slack' >= 0
      BY NextSlackType
    <3>2. term[n] \in Int
      BY <1>1
    <3>3. QED
      BY <1>1, <1>2, <1>3, <2>1, <2>3, <3>1, <3>2
  <2>5. ASSUME m # n PROVE NewEpoch(n) < term'[m] + Slack'
    <3>1. Stands(m) /\ term'[m] = term[m] /\ ~Major(Later(m)')
      BY <1>5, <2>5, CalmStands DEF Stands, Major
    <3>2. term[m] # term[n]
      BY <2>2, <2>5, <3>1 DEF Stands, Elections, OneWinner
    <3>3. ~(term[n] > term[m])
      <4>1. SUFFICES ASSUME term[n] > term[m] PROVE FALSE
        OBVIOUS
      <4>2. \A v \in Q \union {n} : term'[v] = term[n]
        BY DEF Mint
      <4>3. Q \union {n} \subseteq Later(m)' /\ Q \union {n} \in SUBSET Nodes /\ Later(m)' \in SUBSET Nodes
        BY <3>1, <4>1, <4>2 DEF Later
      <4>4. Major(Q \union {n})
        BY <2>1 DEF Confirms
      <4>5. QED
        BY <3>1, <4>3, <4>4, MajorGrows
    <3>4. term[m] \in Int /\ term[n] \in Int
      BY <1>1
    <3>5. term[n] < term[m]
      BY <3>2, <3>3, <3>4
    <3>6. NewEpoch(n) \in Int
      BY <1>3
    <3>7. QED
      BY ONLY <1>2, <2>4, <3>1, <3>4, <3>5, <3>6
  <2>6. QED
    BY <2>4, <2>5
<1>8. QED
  BY <1>6, <1>7

LEMMA MintKeeps ==
  ASSUME Types, Types', Elections, Counted', Slack' >= Slack,
         NEW n \in Nodes, NEW Q \in SUBSET (Nodes \ {n}), Mint(n, Q)
  PROVE  Below' /\ Room'
<1>1. Slack \in Nat /\ minted \subseteq Nat /\ \A v \in Nodes : term[v] \in Nat
  BY ElectionTypes DEF Elections
<1>2. Slack' \in Nat
  BY NextSlackType
<1>3. Calm
  BY CalmMint DEF Elections
<1>4. \A v \in Nodes : term'[v] >= term[v] /\ term'[v] \in Int
  BY <1>3 DEF Calm, Types, RaftType
<1>5. minted' = minted \union {NewEpoch(n)}
  BY DEF Mint
<1>6. ASSUME NEW e \in minted PROVE \E v \in Nodes : e <= term'[v] + Slack'
  <2>1. PICK v \in Nodes : e <= term[v] + Slack
    BY DEF Elections, Below
  <2>2. term'[v] >= term[v] /\ term'[v] \in Int /\ term[v] \in Int /\ e \in Int
    BY <1>1, <1>4
  <2>3. Slack \in Int /\ Slack' \in Int /\ Slack' >= Slack
    BY <1>1, <1>2
  <2>4. e <= term'[v] + Slack'
    BY ONLY <2>1, <2>2, <2>3
  <2>5. QED
    BY <2>4
<1>7. \E v \in Nodes : NewEpoch(n) <= term'[v] + Slack'
  <2>1. CASE req[n] = Manual
    <3>1. req' = [req EXCEPT ![n] = 0] /\ manual' = manual /\ acts' = acts
      BY DEF Mint
    <3>2. Slack' >= Slack + 1
      BY <2>1, <3>1, SlackAnswered DEF Elections
    <3>3. NewEpoch(n) = epoch[n] + 1 /\ epoch[n] \in Int
      BY <2>1, MintEpoch DEF Manual
    <3>4. PICK v \in Nodes : epoch[n] <= term[v] + Slack
      BY DEF Elections, Below, Recorded
    <3>5. term'[v] >= term[v] /\ term'[v] \in Int /\ term[v] \in Int /\ Slack \in Int /\ Slack' \in Int
      BY <1>1, <1>2, <1>4
    <3>6. NewEpoch(n) <= term'[v] + Slack'
      BY ONLY <3>2, <3>3, <3>4, <3>5
    <3>7. QED
      BY <3>6
  <2>2. CASE req[n] # Manual
    <3>1. NewEpoch(n) <= term[n] + Slack'
      BY <2>2, MintRoom
    <3>2. term'[n] >= term[n] /\ term'[n] \in Int /\ term[n] \in Int /\ NewEpoch(n) \in Int /\ Slack' \in Int
      BY <1>1, <1>2, <1>4, MintEpoch
    <3>3. NewEpoch(n) <= term'[n] + Slack'
      BY ONLY <3>1, <3>2
    <3>4. QED
      BY <3>3
  <2>3. QED
    BY <2>1, <2>2
<1>8. ASSUME NEW m \in Nodes, Stands(m)' PROVE m # n /\ \A e \in minted' : e < term'[m] + Slack'
  <2>1. Stands(m) /\ term'[m] = term[m]
    BY <1>3, <1>8, CalmStands
  <2>2. m # n
    BY <1>8 DEF Stands, Mint, Fresh, Types, ProcessType
  <2>3. NewEpoch(n) < term'[m] + Slack'
    BY <1>8, <2>2, MintRoom
  <2>4. ASSUME NEW e \in minted PROVE e < term'[m] + Slack'
    <3>1. e < term[m] + Slack
      BY <2>1 DEF Elections, Room
    <3>2. e \in Int /\ term[m] \in Int /\ Slack \in Int /\ Slack' \in Int /\ Slack' >= Slack
      BY <1>1, <1>2
    <3>3. e < term[m] + Slack'
      BY ONLY <3>1, <3>2
    <3>4. QED
      BY <2>1, <3>3
  <2>5. QED
    BY <1>5, <2>2, <2>3, <2>4
<1>9. QED
  BY <1>5, <1>6, <1>7, <1>8 DEF Below, Room


LEMMA ElectionsInit ==
  ASSUME Init
  PROVE  Elections
<1>0. Genesis \in Nodes /\ IsFiniteSet(Nodes) /\ MaxTerm \in Nat
  BY FailoverBounds
<1>1. Idle /\ OneWinner /\ Room
  BY DEF Init, Idle, OneWinner, Room, Stands
<1>2. Asked = {} /\ acts = 0
  BY DEF Init, Asked, Manual
<1>3. Cardinality({}) = 0
  BY FS_EmptySet
<1>4. Counted
  BY <1>2, <1>3 DEF Counted
<1>5. Recorded
  <2>1. minted = {0} /\ \A n \in Nodes : epoch[n] = 0 /\ log[n] = <<<<0, Genesis>>>>
    BY DEF Init
  <2>2. \A n \in Nodes : \A i \in 1..Len(log[n]) : log[n][i][1] = 0
    <3>1. ASSUME NEW n \in Nodes, NEW i \in 1..Len(log[n]) PROVE log[n][i][1] = 0
      <4>1. log[n] = <<<<0, Genesis>>>>
        BY <2>1
      <4>2. \A x : Len(<<x>>) = 1 /\ <<x>>[1] = x
        OBVIOUS
      <4>3. Len(log[n]) = 1 /\ log[n][1] = <<0, Genesis>>
        BY <4>1, <4>2
      <4>4. i = 1
        BY <4>3
      <4>5. QED
        BY <4>3, <4>4
    <3>2. QED
      BY <3>1
  <2>3. QED
    BY <2>1, <2>2 DEF Recorded
<1>6. Below
  <2>1. minted = {0} /\ term[Genesis] = 0 /\ Slack = 0
    BY <1>0 DEF Init, Slack
  <2>2. 0 <= term[Genesis] + Slack
    BY <2>1
  <2>3. QED
    BY <1>0, <2>1, <2>2 DEF Below
<1>7. QED
  BY <1>1, <1>4, <1>5, <1>6 DEF Elections

\* A step that is no election's and no mint's leaves the minted epochs alone.
LEMMA MintedGrows ==
  ASSUME [Next]_vars, ~\E n \in Nodes : \E Q \in SUBSET (Nodes \ {n}) : Mint(n, Q)
  PROVE  minted' = minted
<1>1. CASE UNCHANGED vars
  BY <1>1 DEF vars, history
<1>2. CASE DataPlane
  BY <1>2 DEF DataPlane, Write, Replicate, Transfer, LinkDrop, ConnectFences, ConnectFollows,
              ConnectDiverges, history
<1>3. CASE Processes
  BY <1>3 DEF Processes, Stop, Halt, RestartPrimary, Recover, RestartReplica, history
<1>4. CASE ControlPlane
  BY <1>4 DEF ControlPlane, Elect, DropVote, Heartbeat, Age, history
<1>5. CASE Promotion
  BY <1>5 DEF Promotion, Decide, Promote, Drain, Abandon, Halt, history
<1>6. QED
  BY <1>1, <1>2, <1>3, <1>4, <1>5 DEF Next

LEMMA ElectionsStep == Types /\ Elections /\ [Next]_vars => Elections'
<1> SUFFICES ASSUME Types, Elections, [Next]_vars PROVE Elections'
  OBVIOUS
<1>1. Types' /\ Recorded' /\ Counted' /\ Slack' >= Slack
  BY TypesStep, RecordedStep, SlackStep DEF Elections
<1>2. CASE \E n \in Nodes : \E Q \in SUBSET Nodes : Elect(n, Q)
  <2>1. PICK n \in Nodes, Q \in SUBSET Nodes : Elect(n, Q)
    BY <1>2
  <2>2. Idle'
    BY <2>1, ElectLeads DEF Elections
  <2>3. OneWinner' /\ Below' /\ Room'
    BY <1>1, <2>1, ElectKeeps
  <2>4. QED
    BY <1>1, <2>2, <2>3 DEF Elections
<1>3. CASE ~\E n \in Nodes : \E Q \in SUBSET Nodes : Elect(n, Q)
  <2>1. Calm /\ Idle'
    BY <1>3, CalmStep DEF Elections
  <2>2. OneWinner'
    BY <2>1, CalmWinner DEF Elections
  <2>3. Below' /\ Room'
    <3>1. CASE \E n \in Nodes : \E Q \in SUBSET (Nodes \ {n}) : Mint(n, Q)
      BY <1>1, <3>1, MintKeeps
    <3>2. CASE ~\E n \in Nodes : \E Q \in SUBSET (Nodes \ {n}) : Mint(n, Q)
      BY <1>1, <2>1, <3>2, MintedGrows, CalmKeeps
    <3>3. QED
      BY <3>1, <3>2
  <2>4. QED
    BY <1>1, <2>1, <2>2, <2>3 DEF Elections
<1>4. QED
  BY <1>2, <1>3

\* The one step that lengthens the journal of a node being promoted is its
\* mint.
LEMMA PromotingGrows ==
  ASSUME Types, [Next]_vars, NEW n \in Nodes, role[n] = "promoting", Len(log'[n]) > Len(log[n])
  PROVE  \E Q \in SUBSET (Nodes \ {n}) : Mint(n, Q)
<1>0. log \in [Nodes -> Seq(Entry)] /\ Len(log[n]) \in Nat
  BY DEF Types, DataType
<1>1. log'[n] # log[n]
  BY <1>0
<1>2. CASE UNCHANGED vars
  BY <1>1, <1>2 DEF vars, data
<1>3. CASE DataPlane
  <2>1. ASSUME NEW m \in Nodes, Write(m) \/ Replicate(m) \/ Transfer(m) PROVE FALSE
    BY <1>0, <1>1, <2>1 DEF Write, Replicate, Transfer
  <2>2. ASSUME NEW m \in Nodes, ConnectDiverges(m) PROVE FALSE
    BY <1>0, <1>1, <2>2 DEF ConnectDiverges, Dials
  <2>3. ASSUME NEW m \in Nodes, LinkDrop(m) \/ ConnectFences(m) \/ ConnectFollows(m) PROVE FALSE
    BY <1>1, <2>3 DEF LinkDrop, ConnectFences, ConnectFollows, data
  <2>4. QED
    BY <1>3, <2>1, <2>2, <2>3 DEF DataPlane
<1>4. CASE Processes
  BY <1>1, <1>4 DEF Processes, Stop, Halt, RestartPrimary, Recover, RestartReplica, data
<1>5. CASE ControlPlane
  BY <1>1, <1>5 DEF ControlPlane, Elect, DropVote, Heartbeat, Age, data
<1>6. CASE Promotion
  <2>1. ASSUME NEW m \in Nodes, Decide(m) \/ Promote(m) \/ Drain(m) \/ Abandon(m) PROVE FALSE
    BY <1>1, <2>1 DEF Decide, Promote, Drain, Abandon, Halt, data
  <2>2. ASSUME NEW m \in Nodes, NEW Q \in SUBSET (Nodes \ {m}), Mint(m, Q), m # n PROVE FALSE
    BY <1>0, <1>1, <2>2 DEF Mint
  <2>3. QED
    BY <1>6, <2>1, <2>2 DEF Promotion
<1>7. QED
  BY <1>2, <1>3, <1>4, <1>5, <1>6 DEF Next

\* In every behaviour, as long as no operator's PROMOTE was given, the epoch
\* that a promotion journals is above every epoch journaled before it on any
\* node: LeaderConfirm asks a majority again, so the term it floors the epoch
\* at is still the newest (journal_promotion_epoch_bump, auto_promotion).
THEOREM EpochsAlwaysMintedInOrder == Spec => EpochsMintedInOrder
<1> DEFINE Inv == Types /\ Elections
<1>1. Init => Inv
  BY TypesInit, ElectionsInit
<1>2. Inv /\ [Next]_vars => Inv'
  BY TypesStep, ElectionsStep
<1>3. ASSUME Types, Elections, [Next]_vars
      PROVE  \A n \in Nodes : ~manual /\ role[n] = "promoting" /\ Len(log'[n]) > Len(log[n])
               => \A e \in minted : epoch'[n] > e
  <2>1. ASSUME NEW n \in Nodes, ~manual, role[n] = "promoting", Len(log'[n]) > Len(log[n]),
               NEW e \in minted
        PROVE  epoch'[n] > e
    <3>1. PICK Q \in SUBSET (Nodes \ {n}) : Mint(n, Q)
      BY <1>3, <2>1, PromotingGrows
    <3>2. req[n] # Manual /\ Slack = 0
      BY <1>3, <2>1 DEF Elections, Counted, Asked, Slack
    <3>3. Confirms(n, Q) /\ term[n] = req[n]
      BY <3>1, <3>2 DEF Mint, Confirms
    <3>4. e < term[n] + Slack
      BY <1>3, <2>1, <3>3, ConfirmedStands DEF Elections, Room
    <3>5. epoch'[n] = NewEpoch(n)
      BY <1>3, <3>1 DEF Mint, Types, DataType
    <3>6. NewEpoch(n) >= req[n] /\ NewEpoch(n) \in Int /\ req[n] \in Int
      BY <1>3, MintEpoch
    <3>7. e \in Int
      BY <1>3 DEF Types, HistoryType
    <3>8. QED
      BY <3>2, <3>3, <3>4, <3>5, <3>6, <3>7
  <2>2. QED
    BY <2>1
<1>4. QED
  BY <1>1, <1>2, <1>3, PTL DEF Spec, EpochsMintedInOrder


-----------------------------------------------------------------------------
(* Journals and sessions.  A journal's epochs never fall, and none is above *)
(* the epoch of the process that runs on it; a session that is open is with *)
(* a node that still holds the tenure it was opened in.                     *)

\* s is the beginning of t.
Begins(s, t) == Len(s) <= Len(t) /\ \A i \in 1..Len(s) : s[i] = t[i]

Journal(n) ==
  /\ \A i \in 1..Len(log[n]) : \A j \in 1..Len(log[n]) : i <= j => log[n][i][1] <= log[n][j][1]
  /\ role[n] \notin {"down", "recovering"} => \A i \in 1..Len(log[n]) : log[n][i][1] <= epoch[n]

Session(r) ==
  /\ link[r] # "down" => role[r] \in {"replica", "fenced"}
  /\ link[r] \in {"up", "transfer"} => role[target[r]] \in {"serving", "fenced"}
  /\ link[r] = "transfer" => epoch[r] <= epoch[target[r]]
  /\ link[r] = "up" => epoch[r] = epoch[target[r]] /\ Begins(log[r], log[target[r]])

Lineage == \A n \in Nodes : Journal(n) /\ Session(n)

LEMMA PrefixIsBegins ==
  ASSUME NEW s \in Seq(Entry), NEW t \in Seq(Entry)
  PROVE  IsPrefix(s, t) <=> Begins(s, t)
<1>1. Len(s) \in Nat /\ Len(t) \in Nat
  OBVIOUS
<1>2. ASSUME Len(s) <= Len(t)
      PROVE  SubSeq(s, 1, Len(s)) = SubSeq(t, 1, Len(s)) <=> \A i \in 1..Len(s) : s[i] = t[i]
  <2>1. (\A i \in 1..Len(s) : s[i] \in Entry) /\ \A i \in 1..Len(s) : t[i] \in Entry
    BY <1>1, <1>2
  <2> DEFINE a == SubSeq(s, 1, Len(s))
             b == SubSeq(t, 1, Len(s))
  <2>2. a \in Seq(Entry) /\ Len(a) = Len(s) /\ \A i \in 1..Len(s) : a[i] = s[i]
    <3>1. /\ a \in Seq(Entry) /\ Len(a) = (IF 1 <= Len(s) THEN Len(s) - 1 + 1 ELSE 0)
          /\ \A i \in 1..(Len(s) - 1 + 1) : a[i] = s[1 + i - 1]
      BY <1>1, <2>1, SubSeqProperties
    <3>2. QED
      BY <1>1, <3>1
  <2>3. b \in Seq(Entry) /\ Len(b) = Len(s) /\ \A i \in 1..Len(s) : b[i] = t[i]
    <3>1. /\ b \in Seq(Entry) /\ Len(b) = (IF 1 <= Len(s) THEN Len(s) - 1 + 1 ELSE 0)
          /\ \A i \in 1..(Len(s) - 1 + 1) : b[i] = t[1 + i - 1]
      BY <1>1, <2>1, SubSeqProperties
    <3>2. QED
      BY <1>1, <3>1
  <2> HIDE DEF a, b
  <2>4. a = b => \A i \in 1..Len(s) : s[i] = t[i]
    BY <2>2, <2>3
  <2>5. (\A i \in 1..Len(s) : s[i] = t[i]) => a = b
    BY <2>2, <2>3, SeqEqual
  <2>6. QED
    BY <2>4, <2>5 DEF a, b
<1>3. QED
  BY <1>2 DEF IsPrefix, Begins

\* A step of a node that has no session open to it, and that touches nothing
\* of the others.
LEMMA LineageOne ==
  ASSUME Types, Lineage, NEW n \in Nodes, role[n] \notin {"serving", "fenced"},
         \A r \in Nodes \ {n} : /\ role'[r] = role[r] /\ target'[r] = target[r] /\ link'[r] = link[r]
                                /\ epoch'[r] = epoch[r] /\ log'[r] = log[r],
         Journal(n)', Session(n)'
  PROVE  Lineage'
<1>1. ASSUME NEW r \in Nodes, r # n PROVE Journal(r)' /\ Session(r)'
  <2>1. /\ role'[r] = role[r] /\ target'[r] = target[r] /\ link'[r] = link[r]
        /\ epoch'[r] = epoch[r] /\ log'[r] = log[r] /\ Journal(r) /\ Session(r)
    BY <1>1 DEF Lineage
  <2>2. Journal(r)'
    BY <2>1 DEF Journal
  <2>3. target[r] \in Nodes
    BY DEF Types, ProcessType
  <2>4. CASE link[r] \in {"up", "transfer"}
    <3>1. target[r] # n
      BY <2>1, <2>4 DEF Session
    <3>2. /\ role'[target'[r]] = role[target[r]] /\ epoch'[target'[r]] = epoch[target[r]]
          /\ log'[target'[r]] = log[target[r]]
      BY <2>1, <2>3, <3>1
    <3>3. Session(r)'
      BY <2>1, <3>2 DEF Session, Begins
    <3>4. QED
      BY <2>2, <3>3
  <2>5. CASE link[r] \notin {"up", "transfer"}
    <3>1. Session(r)'
      BY <2>1, <2>5 DEF Session
    <3>2. QED
      BY <2>2, <3>1
  <2>6. QED
    BY <2>4, <2>5
<1>2. QED
  BY <1>1 DEF Lineage

\* A step that writes no journal and opens no session: nodes are fenced and
\* sessions end.
LEMMA LineageFrame ==
  ASSUME Types, Lineage, log' = log, epoch' = epoch, target' = target,
         \A v \in Nodes : link'[v] = link[v] \/ link'[v] = "down",
         \A v \in Nodes : \/ role'[v] = role[v]
                          \/ role'[v] = "fenced" /\ role[v] \notin {"down", "recovering"}
  PROVE  Lineage'
<1>1. ASSUME NEW r \in Nodes PROVE Journal(r)'
  BY <1>1 DEF Lineage, Journal
<1>2. ASSUME NEW r \in Nodes PROVE Session(r)'
  <2>1. target[r] \in Nodes /\ Session(r)
    BY DEF Types, ProcessType, Lineage
  <2>2. CASE link'[r] = "down"
    BY <2>2 DEF Session
  <2>3. CASE link'[r] = link[r]
    <3>1. link[r] # "down" => role'[r] \in {"replica", "fenced"}
      BY <2>1 DEF Session
    <3>2. link[r] \in {"up", "transfer"} => role'[target[r]] \in {"serving", "fenced"}
      BY <2>1 DEF Session
    <3>3. QED
      BY <2>1, <2>3, <3>1, <3>2 DEF Session, Begins
  <2>4. QED
    BY <2>2, <2>3
<1>3. QED
  BY <1>1, <1>2 DEF Lineage

LEMMA LineageHalt ==
  ASSUME Types, Lineage, NEW n \in Nodes, Halt(n)
  PROVE  Lineage'
<1>0. /\ role \in [Nodes -> Roles] /\ target \in [Nodes -> Nodes]
      /\ epoch \in [Nodes -> Nat]
  BY DEF Types, ProcessType, DataType
<1>1. /\ role' = [role EXCEPT ![n] = "down"] /\ epoch' = [epoch EXCEPT ![n] = 0]
      /\ link' = [r \in Nodes |-> IF r = n THEN "down"
                                  ELSE IF target[r] = n /\ link[r] # "down" THEN "lost"
                                  ELSE link[r]]
      /\ target' = target /\ log' = log
  BY DEF Halt
<1>2. ASSUME NEW r \in Nodes PROVE Journal(r)'
  BY <1>0, <1>1 DEF Lineage, Journal
<1>3. ASSUME NEW r \in Nodes PROVE Session(r)'
  <2>1. target[r] \in Nodes /\ Session(r)
    BY <1>0 DEF Lineage
  <2>2. CASE r = n \/ link[r] = "down"
    <3>1. link'[r] = "down"
      BY <1>1, <2>2
    <3>2. QED
      BY <3>1 DEF Session
  <2>3. CASE r # n /\ link[r] # "down" /\ target[r] = n
    <3>1. link'[r] = "lost" /\ role'[r] = role[r]
      BY <1>0, <1>1, <2>3
    <3>2. QED
      BY <2>1, <2>3, <3>1 DEF Session
  <2>4. CASE r # n /\ link[r] # "down" /\ target[r] # n
    <3>1. /\ link'[r] = link[r] /\ role'[r] = role[r] /\ epoch'[r] = epoch[r]
          /\ role'[target[r]] = role[target[r]] /\ epoch'[target[r]] = epoch[target[r]]
      BY <1>0, <1>1, <2>1, <2>4
    <3>2. QED
      BY <1>1, <2>1, <3>1 DEF Session, Begins
  <2>5. QED
    BY <2>2, <2>3, <2>4
<1>4. QED
  BY <1>2, <1>3 DEF Lineage


\* An append of an entry no older than the journal, and no newer than the
\* epoch the node then has.
LEMMA JournalAppend ==
  ASSUME NEW n, NEW x \in Entry, log[n] \in Seq(Entry), Journal(n),
         log'[n] = Append(log[n], x), epoch'[n] \in Nat, x[1] <= epoch'[n],
         \A i \in 1..Len(log[n]) : log[n][i][1] <= x[1]
  PROVE  Journal(n)'
<1> DEFINE s == log[n]
           t == log'[n]
<1>1. Len(t) = Len(s) + 1 /\ Len(s) \in Nat /\ t[Len(s) + 1] = x /\ \A i \in 1..Len(s) : t[i] = s[i]
  OBVIOUS
<1>2. x[1] \in Int /\ \A i \in 1..Len(s) : s[i] \in Entry /\ s[i][1] \in Int
  BY DEF Entry
<1>3. \A i \in 1..Len(t) : i \in 1..Len(s) \/ i = Len(s) + 1
  BY <1>1
<1>4. \A i \in 1..Len(t) : t[i][1] \in Int /\ t[i][1] <= x[1]
  BY <1>1, <1>2, <1>3
<1>5. ASSUME NEW i \in 1..Len(t), NEW j \in 1..Len(t), i <= j PROVE t[i][1] <= t[j][1]
  <2>1. CASE j = Len(s) + 1
    BY <1>1, <1>4, <2>1
  <2>2. CASE j \in 1..Len(s)
    <3>1. i \in 1..Len(s)
      BY <1>1, <1>5, <2>2
    <3>2. t[i] = s[i] /\ t[j] = s[j]
      BY <1>1, <2>2, <3>1
    <3>3. s[i][1] <= s[j][1]
      BY <1>5, <2>2, <3>1 DEF Journal
    <3>4. QED
      BY <3>2, <3>3
  <2>3. QED
    BY <1>3, <2>1, <2>2
<1>6. \A i \in 1..Len(t) : t[i][1] <= epoch'[n]
  BY <1>2, <1>4
<1>7. QED
  BY <1>5, <1>6 DEF Journal

LEMMA BeginsGrows ==
  ASSUME NEW s \in Seq(Entry), NEW t \in Seq(Entry), NEW x \in Entry, Begins(s, t)
  PROVE  Begins(s, Append(t, x))
BY DEF Begins

LEMMA BeginsNext ==
  ASSUME NEW s \in Seq(Entry), NEW t \in Seq(Entry), Begins(s, t), Len(s) + 1 <= Len(t)
  PROVE  Begins(Append(s, t[Len(s) + 1]), t)
<1> DEFINE x == t[Len(s) + 1]
           u == Append(s, x)
<1>1. Len(s) \in Nat /\ Len(t) \in Nat /\ Len(s) + 1 \in 1..Len(t)
  OBVIOUS
<1>2. x \in Entry
  BY <1>1
<1>3. Len(u) = Len(s) + 1 /\ u[Len(s) + 1] = x /\ \A i \in 1..Len(s) : u[i] = s[i]
  BY <1>2
<1> HIDE DEF u
<1>4. \A i \in 1..Len(u) : u[i] = t[i]
  <2>1. ASSUME NEW i \in 1..Len(u) PROVE u[i] = t[i]
    <3>1. i \in 1..Len(s) \/ i = Len(s) + 1
      BY <1>1, <1>3
    <3>2. QED
      BY <1>3, <3>1 DEF Begins
  <2>2. QED
    BY <2>1
<1>5. Begins(u, t)
  BY <1>1, <1>3, <1>4 DEF Begins
<1>6. QED
  BY <1>5 DEF u

LEMMA LineageTypes ==
  ASSUME Types
  PROVE  \A n \in Nodes : /\ log[n] \in Seq(Entry) /\ epoch[n] \in Nat /\ target[n] \in Nodes
                          /\ \A i \in 1..Len(log[n]) : log[n][i] \in Entry /\ log[n][i][1] \in Nat
<1>1. \A n \in Nodes : log[n] \in Seq(Entry) /\ epoch[n] \in Nat /\ target[n] \in Nodes
  BY DEF Types, DataType, ProcessType
<1>2. \A n \in Nodes : \A i \in 1..Len(log[n]) : log[n][i] \in Entry /\ log[n][i][1] \in Nat
  BY <1>1 DEF Entry
<1>3. QED
  BY <1>1, <1>2

LEMMA LineageWrite ==
  ASSUME Types, Lineage, NEW p \in Nodes, Write(p)
  PROVE  Lineage'
<1> DEFINE x == <<epoch[p], p>>
<1>1. /\ log' = [log EXCEPT ![p] = Append(@, x)] /\ epoch' = epoch /\ target' = target /\ link' = link
      /\ role' = role /\ role[p] = "serving" /\ log \in [Nodes -> Seq(Entry)]
  BY DEF Write, process, Types, DataType
<1>2. x \in Entry /\ x[1] = epoch[p] /\ epoch[p] \in Nat /\ log[p] \in Seq(Entry)
  BY LineageTypes DEF Entry
<1> HIDE DEF x
<1>3. \A v \in Nodes : v # p => log'[v] = log[v]
  BY <1>1
<1>4. log'[p] = Append(log[p], x)
  BY <1>1
<1>5. Journal(p)'
  <2>1. Journal(p) /\ \A i \in 1..Len(log[p]) : log[p][i][1] <= x[1]
    BY <1>1, <1>2 DEF Lineage, Journal
  <2>2. epoch'[p] \in Nat /\ x[1] <= epoch'[p]
    BY <1>1, <1>2
  <2>3. QED
    BY <1>2, <1>4, <2>1, <2>2, JournalAppend
<1>6. ASSUME NEW r \in Nodes, r # p PROVE Journal(r)'
  BY <1>1, <1>3, <1>6 DEF Lineage, Journal
<1>7. ASSUME NEW r \in Nodes PROVE Session(r)'
  <2>1. Session(r) /\ target[r] \in Nodes /\ log[r] \in Seq(Entry)
    BY LineageTypes DEF Lineage
  <2>2. CASE link[r] = "up"
    <3>1. r # p /\ log'[r] = log[r]
      BY <1>1, <1>3, <2>1, <2>2 DEF Session
    <3>2. Begins(log[r], log'[target[r]])
      <4>1. CASE target[r] = p
        BY <1>2, <1>4, <2>1, <2>2, <4>1, BeginsGrows DEF Session
      <4>2. CASE target[r] # p
        BY <1>3, <2>1, <2>2, <4>2 DEF Session
      <4>3. QED
        BY <4>1, <4>2
    <3>3. QED
      BY <1>1, <2>1, <2>2, <3>1, <3>2 DEF Session, Begins
  <2>3. CASE link[r] # "up"
    BY <1>1, <2>1, <2>3 DEF Session
  <2>4. QED
    BY <2>2, <2>3
<1>8. QED
  BY <1>5, <1>6, <1>7 DEF Lineage

LEMMA LineageReplicate ==
  ASSUME Types, Lineage, NEW r \in Nodes, Replicate(r)
  PROVE  Lineage'
<1> DEFINE p == target[r]
           k == Len(log[r]) + 1
           x == log[p][k]
<1>1. /\ log' = [log EXCEPT ![r] = Append(@, x)] /\ epoch' = [epoch EXCEPT ![r] = Max({@, x[1]})]
      /\ role' = role /\ target' = target /\ link' = link /\ k <= Len(log[p])
      /\ link[r] = "up" /\ role[r] = "replica" /\ role[p] = "serving"
  BY DEF Replicate, process
<1>2. p \in Nodes /\ log[r] \in Seq(Entry) /\ log[p] \in Seq(Entry) /\ epoch[r] \in Nat
  BY LineageTypes
<1>3. k \in 1..Len(log[p]) /\ x \in Entry /\ x[1] \in Nat
  <2>1. k \in 1..Len(log[p])
    BY <1>1, <1>2
  <2>2. QED
    BY <1>2, <2>1, LineageTypes
<1>4. epoch[r] = epoch[p] /\ Begins(log[r], log[p])
  BY <1>1 DEF Lineage, Session
<1>5. x[1] <= epoch[r]
  BY <1>1, <1>2, <1>3, <1>4 DEF Lineage, Journal
<1>6. \A i \in 1..Len(log[r]) : log[r][i][1] <= x[1]
  <2>1. ASSUME NEW i \in 1..Len(log[r]) PROVE log[r][i][1] <= x[1]
    <3>1. i \in 1..Len(log[p]) /\ i <= k /\ log[r][i] = log[p][i]
      BY <1>2, <1>3, <1>4 DEF Begins
    <3>2. log[p][i][1] <= log[p][k][1]
      BY <1>2, <1>3, <3>1 DEF Lineage, Journal
    <3>3. QED
      BY <3>1, <3>2
  <2>2. QED
    BY <2>1
<1>7. Begins(Append(log[r], x), log[p])
  BY <1>1, <1>2, <1>4, BeginsNext
<1> HIDE DEF p, k, x
<1>8. p # r
  BY <1>1
<1>9. Max({epoch[r], x[1]}) = epoch[r]
  <2>1. epoch[r] \in Int /\ x[1] \in Int
    BY <1>2, <1>3
  <2>2. Max({epoch[r], x[1]}) = IF epoch[r] >= x[1] THEN epoch[r] ELSE x[1]
    BY <2>1, MaxOfTwo
  <2>3. QED
    BY <1>5, <2>1, <2>2
<1>10. /\ log'[r] = Append(log[r], x) /\ log'[p] = log[p] /\ epoch'[r] = epoch[r] /\ epoch'[p] = epoch[p]
       /\ \A v \in Nodes \ {r} : log'[v] = log[v] /\ epoch'[v] = epoch[v]
  BY <1>1, <1>2, <1>8, <1>9 DEF Types, DataType
<1>11. Journal(r)'
  <2>1. Journal(r) /\ epoch'[r] \in Nat /\ x[1] <= epoch'[r]
    BY <1>2, <1>5, <1>10 DEF Lineage
  <2>2. QED
    BY <1>2, <1>3, <1>6, <1>10, <2>1, JournalAppend
<1>12. Session(r)'
  <2>1. target'[r] = p
    BY <1>1 DEF p
  <2>2. QED
    BY <1>1, <1>4, <1>7, <1>10, <2>1 DEF Session, Begins
<1>13. QED
  BY <1>1, <1>10, <1>11, <1>12, LineageOne


\* A session opens: the replica adopts the epoch of its primary.
LEMMA AdoptedEpoch ==
  ASSUME Types, NEW r \in Nodes, epoch[r] <= epoch[target[r]]
  PROVE  Max({epoch[r], epoch[target[r]]}) = epoch[target[r]]
<1>1. epoch[r] \in Int /\ epoch[target[r]] \in Int
  BY LineageTypes
<1>2. Max({epoch[r], epoch[target[r]]}) = IF epoch[r] >= epoch[target[r]] THEN epoch[r] ELSE epoch[target[r]]
  BY <1>1, MaxOfTwo
<1>3. QED
  BY <1>1, <1>2

LEMMA LineageTransfer ==
  ASSUME Types, Lineage, NEW r \in Nodes, Transfer(r)
  PROVE  Lineage'
<1> DEFINE p == target[r]
<1>0. /\ log \in [Nodes -> Seq(Entry)] /\ epoch \in [Nodes -> Nat]
      /\ link \in [Nodes -> {"down", "transfer", "up", "lost"}]
  BY DEF Types, DataType, ProcessType
<1>1. /\ link[r] = "transfer" /\ role[r] = "replica" /\ role[p] = "serving"
      /\ role' = role /\ target' = target /\ link' = [link EXCEPT ![r] = "up"]
      /\ log' = [log EXCEPT ![r] = log[p]]
      /\ epoch' = [epoch EXCEPT ![r] = Max({@, epoch[p]})]
  BY DEF Transfer
<1>2. p \in Nodes /\ p # r /\ log[p] \in Seq(Entry) /\ epoch[p] \in Nat
  BY <1>1, LineageTypes
<1>3. Max({epoch[r], epoch[p]}) = epoch[p]
  BY <1>1, AdoptedEpoch DEF Lineage, Session
<1>4. /\ log'[r] = log[p] /\ log'[p] = log[p] /\ epoch'[r] = epoch[p] /\ epoch'[p] = epoch[p]
      /\ link'[r] = "up" /\ target'[r] = p
      /\ \A v \in Nodes \ {r} : log'[v] = log[v] /\ epoch'[v] = epoch[v] /\ link'[v] = link[v]
  BY <1>0, <1>1, <1>2, <1>3
<1> HIDE DEF p
<1>5. Journal(r)'
  BY <1>1, <1>2, <1>4 DEF Lineage, Journal
<1>6. Session(r)'
  <2>1. Begins(log'[r], log'[p])
    BY <1>2, <1>4 DEF Begins
  <2>2. QED
    BY <1>1, <1>4, <2>1 DEF Session, Begins
<1>7. QED
  BY <1>1, <1>4, <1>5, <1>6, LineageOne

LEMMA LineageFollows ==
  ASSUME Types, Lineage, NEW r \in Nodes, ConnectFollows(r)
  PROVE  Lineage'
<1> DEFINE p == target[r]
<1>0. /\ log \in [Nodes -> Seq(Entry)] /\ epoch \in [Nodes -> Nat]
      /\ link \in [Nodes -> {"down", "transfer", "up", "lost"}]
  BY DEF Types, DataType, ProcessType
<1>1. /\ role[r] = "replica" /\ role[p] = "serving" /\ epoch[r] <= epoch[p] /\ IsPrefix(log[r], log[p])
      /\ role' = role /\ target' = target /\ link' = [link EXCEPT ![r] = "up"] /\ log' = log
      /\ epoch' = [epoch EXCEPT ![r] = Max({@, epoch[p]})]
  BY DEF ConnectFollows, Dials, ChainMatches
<1>2. p \in Nodes /\ p # r /\ log[p] \in Seq(Entry) /\ log[r] \in Seq(Entry) /\ epoch[p] \in Nat /\ epoch[r] \in Nat
  BY <1>1, LineageTypes
<1>3. Max({epoch[r], epoch[p]}) = epoch[p]
  BY <1>1, AdoptedEpoch
<1>4. /\ log'[r] = log[r] /\ log'[p] = log[p] /\ epoch'[r] = epoch[p] /\ epoch'[p] = epoch[p]
      /\ link'[r] = "up" /\ target'[r] = p
      /\ \A v \in Nodes \ {r} : log'[v] = log[v] /\ epoch'[v] = epoch[v] /\ link'[v] = link[v]
  BY <1>0, <1>1, <1>2, <1>3
<1> HIDE DEF p
<1>5. Journal(r)'
  <2>1. Journal(r) /\ \A i \in 1..Len(log[r]) : log[r][i][1] <= epoch[r] /\ log[r][i][1] \in Nat
    BY <1>1, LineageTypes DEF Lineage, Journal
  <2>2. \A i \in 1..Len(log[r]) : log[r][i][1] <= epoch[p]
    BY <1>1, <1>2, <2>1
  <2>3. QED
    BY <1>4, <2>1, <2>2 DEF Journal
<1>6. Session(r)'
  <2>1. Begins(log[r], log[p])
    BY <1>1, <1>2, PrefixIsBegins
  <2>2. QED
    BY <1>1, <1>4, <2>1 DEF Session, Begins
<1>7. QED
  BY <1>1, <1>4, <1>5, <1>6, LineageOne

LEMMA LineageDiverges ==
  ASSUME Types, Lineage, NEW r \in Nodes, ConnectDiverges(r)
  PROVE  Lineage'
<1> DEFINE p == target[r]
<1>0. /\ log \in [Nodes -> Seq(Entry)] /\ link \in [Nodes -> {"down", "transfer", "up", "lost"}]
  BY DEF Types, DataType, ProcessType
<1>1. /\ role[r] = "replica" /\ role[p] = "serving" /\ epoch[r] <= epoch[p]
      /\ role' = role /\ target' = target /\ link' = [link EXCEPT ![r] = "transfer"]
      /\ log' = [log EXCEPT ![r] = <<>>] /\ epoch' = epoch
  BY DEF ConnectDiverges, Dials
<1>2. /\ log'[r] = <<>> /\ link'[r] = "transfer" /\ target'[r] = p
      /\ \A v \in Nodes \ {r} : log'[v] = log[v] /\ link'[v] = link[v]
  BY <1>0, <1>1
<1> HIDE DEF p
<1>3. Journal(r)'
  BY <1>2 DEF Journal
<1>4. Session(r)'
  BY <1>1, <1>2 DEF Session
<1>5. QED
  BY <1>1, <1>2, <1>3, <1>4, LineageOne

LEMMA JournalEpoch ==
  ASSUME Types, Lineage, NEW n \in Nodes
  PROVE  /\ EpochOf(log[n]) \in Nat
         /\ \A i \in 1..Len(log[n]) : log[n][i][1] <= EpochOf(log[n])
<1>1. log[n] \in Seq(Entry)
  BY LineageTypes
<1>2. CASE log[n] = <<>>
  BY <1>2 DEF EpochOf
<1>3. CASE log[n] # <<>>
  <2>1. Len(log[n]) \in 1..Len(log[n])
    BY <1>1, <1>3
  <2>2. EpochOf(log[n]) = log[n][Len(log[n])][1]
    BY <1>3 DEF EpochOf, Last
  <2>3. QED
    BY <2>1, <2>2, LineageTypes DEF Lineage, Journal
<1>4. QED
  BY <1>2, <1>3

\* A process boots on its journal.
LEMMA LineageBoots ==
  ASSUME Types, Lineage, NEW n \in Nodes,
         RestartPrimary(n) \/ Recover(n) \/ \E t \in Nodes : RestartReplica(n, t)
  PROVE  Lineage'
<1>0. /\ role \in [Nodes -> Roles] /\ epoch \in [Nodes -> Nat] /\ target \in [Nodes -> Nodes]
  BY DEF Types, ProcessType, DataType
<1>1. role[n] \in {"down", "recovering"} /\ link[n] = "down"
  BY DEF RestartPrimary, Recover, RestartReplica, Lineage, Session
<1>2. /\ log' = log /\ link' = link /\ \A v \in Nodes \ {n} : role'[v] = role[v]
      /\ (\A v \in Nodes \ {n} : target'[v] = target[v]) /\ \A v \in Nodes \ {n} : epoch'[v] = epoch[v]
  BY <1>0 DEF RestartPrimary, Recover, RestartReplica, data
<1>3. role'[n] = "recovering" \/ epoch'[n] = EpochOf(log[n])
  BY <1>0 DEF RestartPrimary, Recover, RestartReplica
<1>4. Journal(n)'
  <2>1. CASE role'[n] = "recovering"
    BY <1>2, <2>1 DEF Lineage, Journal
  <2>2. CASE epoch'[n] = EpochOf(log[n])
    BY <1>2, <2>2, JournalEpoch DEF Lineage, Journal
  <2>3. QED
    BY <1>3, <2>1, <2>2
<1>5. Session(n)'
  BY <1>1, <1>2 DEF Session
<1>6. QED
  BY <1>1, <1>2, <1>4, <1>5, LineageOne

LEMMA LineageDrain ==
  ASSUME Types, Lineage, NEW n \in Nodes, Drain(n)
  PROVE  Lineage'
<1>1. CASE Halt(n)
  BY <1>1, LineageHalt
<1>2. CASE ~Halt(n)
  <2>1. /\ role[n] = "replica" /\ role' = [role EXCEPT ![n] = "promoting"]
        /\ link' = [link EXCEPT ![n] = "down"] /\ target' = target /\ log' = log /\ epoch' = epoch
        /\ role \in [Nodes -> Roles] /\ link \in [Nodes -> {"down", "transfer", "up", "lost"}]
    BY <1>2 DEF Drain, data, Types, ProcessType
  <2>2. Journal(n)' /\ Session(n)'
    BY <2>1 DEF Lineage, Journal, Session
  <2>3. \A v \in Nodes \ {n} : role'[v] = role[v] /\ link'[v] = link[v]
    BY <2>1
  <2>4. QED
    BY <2>1, <2>2, <2>3, LineageOne
<1>3. QED
  BY <1>1, <1>2

LEMMA LineageMint ==
  ASSUME Types, Lineage, NEW n \in Nodes, NEW Q \in SUBSET (Nodes \ {n}), Mint(n, Q)
  PROVE  Lineage'
<1> DEFINE e == NewEpoch(n)
           x == <<e, n>>
<1>0. /\ role \in [Nodes -> Roles] /\ epoch \in [Nodes -> Nat] /\ log \in [Nodes -> Seq(Entry)]
  BY DEF Types, ProcessType, DataType
<1>1. /\ role[n] = "promoting" /\ epoch' = [epoch EXCEPT ![n] = e] /\ link' = link /\ target' = target
      /\ log' = [log EXCEPT ![n] = Append(@, x)]
      /\ \A v \in Nodes \ {n} : role'[v] = role[v]
  BY <1>0 DEF Mint
<1>2. e \in Nat /\ x \in Entry /\ x[1] = e /\ e >= epoch[n] + 1 /\ epoch[n] \in Nat
  BY MintEpoch DEF Entry
<1> HIDE DEF e, x
<1>3. log'[n] = Append(log[n], x) /\ epoch'[n] = e /\ log[n] \in Seq(Entry)
  BY <1>0, <1>1
<1>4. \A v \in Nodes \ {n} : log'[v] = log[v] /\ epoch'[v] = epoch[v]
  BY <1>0, <1>1
<1>5. Journal(n)'
  <2>1. Journal(n) /\ \A i \in 1..Len(log[n]) : log[n][i][1] <= epoch[n] /\ log[n][i][1] \in Nat
    BY <1>1, LineageTypes DEF Lineage, Journal
  <2>2. \A i \in 1..Len(log[n]) : log[n][i][1] <= x[1]
    BY <1>2, <2>1
  <2>3. epoch'[n] \in Nat /\ x[1] <= epoch'[n]
    BY <1>2, <1>3
  <2>4. QED
    BY <1>2, <1>3, <2>1, <2>2, <2>3, JournalAppend
<1>6. Session(n)'
  BY <1>1 DEF Lineage, Session
<1>7. QED
  BY <1>1, <1>4, <1>5, <1>6, LineageOne


LEMMA HearingFences ==
  ASSUME NEW from, role' = AfterHearing(from)
  PROVE  \A v \in Nodes : \/ role'[v] = role[v]
                          \/ role'[v] = "fenced" /\ role[v] \notin {"down", "recovering"}
BY DEF AfterHearing, Superseded, Claims

LEMMA LineageStep == Types /\ Lineage /\ [Next]_vars => Lineage'
<1> SUFFICES ASSUME Types, Lineage, [Next]_vars PROVE Lineage'
  OBVIOUS
<1>0. role \in [Nodes -> Roles] /\ target \in [Nodes -> Nodes]
      /\ link \in [Nodes -> {"down", "transfer", "up", "lost"}]
  BY DEF Types, ProcessType
<1>1. CASE UNCHANGED vars
  BY <1>1, LineageFrame DEF vars, process, data
<1>2. CASE DataPlane
  <2>1. ASSUME NEW n \in Nodes, LinkDrop(n) PROVE Lineage'
    <3>1. /\ log' = log /\ epoch' = epoch /\ target' = target /\ role' = role
          /\ \A v \in Nodes : link'[v] = link[v] \/ link'[v] = "down"
      BY <1>0, <2>1 DEF LinkDrop, data
    <3>2. QED
      BY <3>1, LineageFrame
  <2>2. ASSUME NEW n \in Nodes, ConnectFences(n) PROVE Lineage'
    <3>1. /\ log' = log /\ epoch' = epoch /\ target' = target /\ link' = link
          /\ \A v \in Nodes : role'[v] = role[v] \/ (role'[v] = "fenced" /\ role[v] = "serving")
      BY <1>0, <2>2 DEF ConnectFences, Dials, data
    <3>2. QED
      BY <3>1, LineageFrame
  <2>3. QED
    BY <1>2, <2>1, <2>2, LineageWrite, LineageReplicate, LineageTransfer, LineageFollows,
       LineageDiverges DEF DataPlane
<1>3. CASE Processes
  BY <1>3, LineageHalt, LineageBoots DEF Processes, Stop
<1>4. CASE ControlPlane
  <2>1. log' = log /\ epoch' = epoch /\ target' = target /\ link' = link
    BY <1>4 DEF ControlPlane, Elect, DropVote, Heartbeat, Age, data, process
  <2>2. \A v \in Nodes : role'[v] = role[v] \/ (role'[v] = "fenced" /\ role[v] \notin {"down", "recovering"})
    <3>1. ASSUME NEW n \in Nodes, NEW v \in Nodes, Age(n, v) PROVE role' = role
      BY <3>1 DEF Age, process
    <3>2. QED
      BY <1>4, <3>1, HearingFences DEF ControlPlane, Elect, DropVote, Heartbeat
  <2>3. QED
    BY <2>1, <2>2, LineageFrame
<1>5. CASE Promotion
  <2>1. ASSUME NEW n \in Nodes, Decide(n) \/ Promote(n) PROVE Lineage'
    BY <2>1, LineageFrame DEF Decide, Promote, data
  <2>2. ASSUME NEW n \in Nodes, Abandon(n) PROVE Lineage'
    BY <2>2, LineageHalt DEF Abandon
  <2>3. QED
    BY <1>5, <2>1, <2>2, LineageDrain, LineageMint DEF Promotion
<1>6. QED
  BY <1>1, <1>2, <1>3, <1>4, <1>5 DEF Next

LEMMA LineageInit ==
  ASSUME Init
  PROVE  Lineage
<1>0. Genesis \in Nodes
  BY FailoverBounds
<1>1. \A n \in Nodes : /\ log[n] = <<<<0, Genesis>>>> /\ epoch[n] = 0 /\ target[n] = Genesis
                       /\ (link[n] # "down" => role[n] = "replica") /\ link[n] # "transfer"
      /\ role[Genesis] = "serving"
  BY <1>0 DEF Init
<1>2. \A x : Len(<<x>>) = 1 /\ <<x>>[1] = x
  OBVIOUS
<1>3. \A n \in Nodes : \A i \in 1..Len(log[n]) : log[n][i][1] = 0
  <2>1. ASSUME NEW n \in Nodes, NEW i \in 1..Len(log[n]) PROVE log[n][i][1] = 0
    <3>1. Len(log[n]) = 1 /\ log[n][1] = <<0, Genesis>>
      BY <1>1, <1>2
    <3>2. i = 1
      BY <3>1
    <3>3. QED
      BY <3>1, <3>2
  <2>2. QED
    BY <2>1
<1>4. \A n \in Nodes : Journal(n)
  <2>1. ASSUME NEW n \in Nodes, NEW i \in 1..Len(log[n]), NEW j \in 1..Len(log[n])
        PROVE  log[n][i][1] <= log[n][j][1] /\ log[n][i][1] <= epoch[n]
    BY <1>1, <1>3
  <2>2. QED
    BY <2>1 DEF Journal
<1>5. \A n \in Nodes : Session(n)
  <2>1. ASSUME NEW n \in Nodes PROVE Begins(log[n], log[Genesis])
    <3>1. log[n] = log[Genesis] /\ Len(log[n]) = 1
      BY <1>0, <1>1, <1>2
    <3>2. QED
      BY <3>1 DEF Begins
  <2>2. QED
    BY <1>0, <1>1, <2>1 DEF Session
<1>6. QED
  BY <1>4, <1>5 DEF Lineage

\* What the invariants say of every epoch and counter.
LEMMA TypesBound ==
  ASSUME Types, Elections
  PROVE  TypeOK
<1>1. \A e \in minted : e \in Epochs
  <2>1. ASSUME NEW e \in minted PROVE e \in Epochs
    <3>1. PICK v \in Nodes : e <= term[v] + Slack
      BY DEF Elections, Below
    <3>2. term[v] \in 0..MaxTerm /\ acts \in 0..MaxActs /\ Slack \in 0..acts /\ e \in Nat
      BY SlackType DEF Elections, Types, RaftType, HistoryType
    <3>3. MaxTerm \in Nat /\ MaxActs \in Nat
      BY FailoverBounds
    <3>4. e <= MaxTerm + MaxActs
      BY ONLY <3>1, <3>2, <3>3
    <3>5. QED
      BY <3>2, <3>3, <3>4 DEF Epochs
  <2>2. QED
    BY <2>1
<1>2. epoch \in [Nodes -> Epochs]
  BY <1>1 DEF Elections, Recorded, Types, DataType
<1>3. ASSUME NEW n \in Nodes, NEW i \in DOMAIN log[n] PROVE log[n][i] \in Epochs \X Nodes
  <2>1. log[n] \in Seq(Entry) /\ DOMAIN log[n] = 1..Len(log[n])
    BY DEF Types, DataType
  <2>2. log[n][i] \in Nat \X Nodes /\ log[n][i][1] \in minted
    BY <2>1 DEF Elections, Recorded, Entry
  <2>3. QED
    BY <1>1, <2>2
<1>4. QED
  BY <1>1, <1>2, <1>3 DEF Types, ProcessType, RaftType, MeshType, HistoryType, TypeOK

\* In every behaviour a replica with an open session has its primary's epoch
\* and a journal that is a prefix of the primary's, whatever crashed, diverged,
\* was fenced or was promoted before (ConnectFollows, the handshake's chain
\* check); and no epoch runs past the terms held and the commands given.
THEOREM SessionsAlwaysOnLineage == Spec => []SessionsOnLineage
<1> DEFINE Inv == Types /\ Elections /\ Lineage
<1>1. Init => Inv
  BY TypesInit, ElectionsInit, LineageInit
<1>2. Inv /\ [Next]_vars => Inv'
  BY TypesStep, ElectionsStep, LineageStep
<1>3. Inv => SessionsOnLineage
  <2>1. ASSUME Types, Lineage, NEW r \in Nodes, link[r] = "up", role[r] = "replica",
               role[target[r]] = "serving"
        PROVE  epoch[r] = epoch[target[r]] /\ IsPrefix(log[r], log[target[r]])
    <3>1. epoch[r] = epoch[target[r]] /\ Begins(log[r], log[target[r]])
      BY <2>1 DEF Lineage, Session
    <3>2. log[r] \in Seq(Entry) /\ log[target[r]] \in Seq(Entry)
      BY <2>1, LineageTypes
    <3>3. QED
      BY <3>1, <3>2, PrefixIsBegins
  <2>2. QED
    BY <2>1, TypesBound DEF SessionsOnLineage, FollowsLineage
<1>4. QED
  BY <1>1, <1>2, <1>3, PTL DEF Spec

-----------------------------------------------------------------------------
(* Prefixes and newest epochs *)

LEMMA BeginsTrans ==
  ASSUME NEW s \in Seq(Entry), NEW t \in Seq(Entry), NEW u \in Seq(Entry), Begins(s, t), Begins(t, u)
  PROVE  Begins(s, u)
<1>1. Len(s) \in Nat /\ Len(t) \in Nat /\ Len(u) \in Nat
  OBVIOUS
<1>2. Len(s) <= Len(u) /\ \A i \in 1..Len(s) : i \in 1..Len(t)
  BY <1>1 DEF Begins
<1>3. \A i \in 1..Len(s) : s[i] = u[i]
  BY <1>2 DEF Begins
<1>4. QED
  BY <1>2, <1>3 DEF Begins

\* Two prefixes of one sequence: the shorter begins the longer.
LEMMA BeginsShorter ==
  ASSUME NEW s \in Seq(Entry), NEW t \in Seq(Entry), NEW u \in Seq(Entry), Begins(s, u), Begins(t, u),
         Len(s) <= Len(t)
  PROVE  Begins(s, t)
<1>1. Len(s) \in Nat /\ Len(t) \in Nat /\ Len(u) \in Nat
  OBVIOUS
<1>2. \A i \in 1..Len(s) : i \in 1..Len(t)
  BY <1>1
<1>3. \A i \in 1..Len(s) : s[i] = t[i]
  BY <1>2 DEF Begins
<1>4. QED
  BY <1>3 DEF Begins

LEMMA BeginsCut ==
  ASSUME NEW s \in Seq(Entry), NEW k \in 0..Len(s)
  PROVE  /\ SubSeq(s, 1, k) \in Seq(Entry) /\ Len(SubSeq(s, 1, k)) = k /\ Begins(SubSeq(s, 1, k), s)
<1>1. Len(s) \in Nat /\ k \in Nat /\ \A i \in 1..k : s[i] \in Entry
  OBVIOUS
<1> DEFINE a == SubSeq(s, 1, k)
<1>2. /\ a \in Seq(Entry) /\ Len(a) = (IF 1 <= k THEN k - 1 + 1 ELSE 0)
      /\ \A i \in 1..(k - 1 + 1) : a[i] = s[1 + i - 1]
  BY <1>1, SubSeqProperties
<1>3. Len(a) = k /\ \A i \in 1..k : a[i] = s[i]
  BY <1>1, <1>2
<1> HIDE DEF a
<1>4. Begins(a, s)
  BY <1>1, <1>3 DEF Begins
<1>5. QED
  BY <1>2, <1>3, <1>4 DEF a

LEMMA BoundedMax ==
  ASSUME NEW N \in Nat, NEW S \in SUBSET (0..N), S # {}
  PROVE  \E m \in S : \A d \in S : d <= m
<1> DEFINE T == {N - x : x \in S}
<1>0. \A x \in S : x \in 0..N /\ N - x \in Nat
  OBVIOUS
<1>1. T \subseteq Nat /\ T # {}
  BY <1>0
<1>2. \E x \in T : \A y \in T : ~(<<y, x>> \in OpToRel(<, Nat))
  BY <1>1, WFMin, NatLessThanWellFounded
<1>3. PICK x \in T : \A y \in T : ~(y < x)
  BY <1>1, <1>2 DEF OpToRel
<1>4. PICK c \in S : x = N - c
  OBVIOUS
<1>5. ASSUME NEW d \in S PROVE d <= c
  <2>1. N - d \in T
    OBVIOUS
  <2>2. ~(N - d < N - c) /\ c \in Int /\ d \in Int
    BY <1>3, <1>4, <2>1
  <2>3. QED
    BY <2>2
<1>6. QED
  BY <1>5

\* What two journals have in common begins both.
LEMMA CommonBegins ==
  ASSUME NEW s \in Seq(Entry), NEW t \in Seq(Entry)
  PROVE  /\ LongestCommonPrefix({s, t}) \in Seq(Entry)
         /\ Begins(LongestCommonPrefix({s, t}), s) /\ Begins(LongestCommonPrefix({s, t}), t)
<1> DEFINE C == CommonPrefixes({s, t})
           L == {Len(c) : c \in C}
           N == IF Len(s) <= Len(t) THEN Len(t) ELSE Len(s)
<1>1. \A c \in Prefixes(s) \union Prefixes(t) : c \in Seq(Entry)
  BY BeginsCut DEF Prefixes
<1>2. C = {c \in Prefixes(s) \union Prefixes(t) : IsPrefix(c, s) /\ IsPrefix(c, t)}
  BY DEF CommonPrefixes
<1>3. \A c \in C : c \in Seq(Entry) /\ Begins(c, s) /\ Begins(c, t)
  BY <1>1, <1>2, PrefixIsBegins
<1>4. C # {}
  <2>1. 0 \in 0..Len(s) /\ SubSeq(s, 1, 0) \in Prefixes(s)
    BY DEF Prefixes
  <2>2. /\ SubSeq(s, 1, 0) \in Seq(Entry) /\ Len(SubSeq(s, 1, 0)) = 0
    BY <2>1, BeginsCut
  <2>3. Begins(SubSeq(s, 1, 0), s) /\ Begins(SubSeq(s, 1, 0), t)
    BY <2>2 DEF Begins
  <2>4. QED
    BY <1>2, <2>1, <2>2, <2>3, PrefixIsBegins
<1> HIDE DEF C
<1>5. N \in Nat /\ L \in SUBSET (0..N) /\ L # {}
  <2>1. Len(s) \in Nat /\ Len(t) \in Nat
    OBVIOUS
  <2>2. ASSUME NEW c \in C PROVE Len(c) \in 0..N
    <3>1. Len(c) \in Nat /\ Len(c) <= Len(s)
      BY <1>3, <2>2 DEF Begins
    <3>2. QED
      BY <2>1, <3>1
  <2>3. QED
    BY <1>4, <2>1, <2>2
<1> HIDE DEF N
<1>6. PICK m \in L : \A d \in L : d <= m
  BY <1>5, BoundedMax
<1>7. \E c \in C : \A o \in C : Len(o) <= Len(c)
  BY <1>6
<1>8. LongestCommonPrefix({s, t}) \in C
  BY <1>7 DEF LongestCommonPrefix, C
<1>9. QED
  BY <1>3, <1>8

\* The newest epoch is the largest one minted.
LEMMA MintedMax ==
  ASSUME Types, Elections
  PROVE  Max(minted) \in minted /\ \A e \in minted : e <= Max(minted)
<1> DEFINE N == MaxTerm + MaxActs
<1>1. N \in Nat /\ minted \in SUBSET (0..N) /\ minted # {}
  BY TypesBound, FailoverBounds DEF TypeOK, Epochs, Elections, Recorded
<1>2. PICK m \in minted : \A d \in minted : d <= m
  BY <1>1, BoundedMax
<1>3. \A d \in minted : m >= d
  BY <1>1, <1>2
<1>4. Max(minted) \in minted /\ \A d \in minted : Max(minted) >= d
  BY <1>3 DEF Max
<1>5. QED
  BY <1>1, <1>4

-----------------------------------------------------------------------------
(* Tenures.  The entries of one epoch were written by one node, one after   *)
(* the other, so two journals that hold entries of an epoch agree up to     *)
(* there; the node that owns a tenure holds the longest journal of it.      *)

Following == {"replica", "recovering", "promoting"}
Owner(p) == role[p] = "serving" \/ target[p] = p
Ends(p) == log[p][Len(log[p])]
Newest(p) == \A e \in minted : e <= Ends(p)[1]

Matching ==
  \A m, n \in Nodes : \A i \in 1..Len(log[m]) : \A j \in 1..Len(log[n]) :
    i <= j /\ log[m][i][1] = log[n][j][1] => \A k \in 1..i : log[m][k] = log[n][k]

Owned(p) ==
  /\ Len(log[p]) >= 1 /\ Ends(p)[2] = p
  /\ role[p] = "serving" => Ends(p)[1] = epoch[p]
  /\ target[p] = p => role[p] \notin Following
  /\ \A m \in Nodes : \A i \in 1..Len(log[m]) : log[m][i][1] = Ends(p)[1] => i <= Len(log[p])

Tenures == Matching /\ \A p \in Nodes : Owner(p) => Owned(p)

\* A step that writes nothing new: each journal is one that was there before,
\* or the beginning of one, and a tenure is owned by who owned it.
Copies == \A m \in Nodes : \E s \in Nodes : Begins(log'[m], log[s])
OwnersKeep ==
  \A p \in Nodes : role'[p] = "serving" \/ target'[p] = p =>
    /\ Owner(p) /\ log'[p] = log[p]
    /\ role'[p] = "serving" => Ends(p)[1] = epoch'[p]
    /\ target'[p] = p => role'[p] \notin Following

LEMMA LogTypes ==
  ASSUME Types
  PROVE  \A n \in Nodes : /\ log[n] \in Seq(Entry) /\ Len(log[n]) \in Nat
                          /\ \A i \in 1..Len(log[n]) : log[n][i] \in Entry /\ log[n][i][1] \in Nat
BY LineageTypes

LEMMA NextLogTypes ==
  ASSUME Types'
  PROVE  \A n \in Nodes : log'[n] \in Seq(Entry) /\ Len(log'[n]) \in Nat
BY DEF Types, DataType

LEMMA TenuresCopies ==
  ASSUME Types, Types', Tenures, Copies, OwnersKeep
  PROVE  Tenures'
<1>1. Matching'
  <2>1. ASSUME NEW m \in Nodes, NEW n \in Nodes, NEW i \in 1..Len(log'[m]), NEW j \in 1..Len(log'[n]),
               i <= j, log'[m][i][1] = log'[n][j][1], NEW k \in 1..i
        PROVE  log'[m][k] = log'[n][k]
    <3>1. PICK s \in Nodes, u \in Nodes : Begins(log'[m], log[s]) /\ Begins(log'[n], log[u])
      BY DEF Copies
    <3>2. /\ Len(log'[m]) \in Nat /\ Len(log'[n]) \in Nat /\ Len(log[s]) \in Nat /\ Len(log[u]) \in Nat
      BY LogTypes, NextLogTypes
    <3>3. /\ i \in 1..Len(log[s]) /\ j \in 1..Len(log[u]) /\ k \in 1..Len(log'[m]) /\ k \in 1..Len(log'[n])
      BY <2>1, <3>1, <3>2 DEF Begins
    <3>4. log[s][i][1] = log[u][j][1]
      BY <2>1, <3>1 DEF Begins
    <3>5. log[s][k] = log[u][k]
      BY <2>1, <3>3, <3>4 DEF Tenures, Matching
    <3>6. QED
      BY <3>1, <3>3, <3>5 DEF Begins
  <2>2. QED
    BY <2>1 DEF Matching
<1>2. ASSUME NEW p \in Nodes, Owner(p)' PROVE Owned(p)'
  <2>1. /\ Owned(p) /\ log'[p] = log[p] /\ (role'[p] = "serving" => Ends(p)[1] = epoch'[p])
        /\ (target'[p] = p => role'[p] \notin Following)
    BY <1>2 DEF OwnersKeep, Owner, Tenures
  <2>2. Ends(p)' = Ends(p)
    BY <2>1 DEF Ends
  <2>3. ASSUME NEW m \in Nodes, NEW i \in 1..Len(log'[m]), log'[m][i][1] = Ends(p)[1]
        PROVE  i <= Len(log[p])
    <3>1. PICK s \in Nodes : Begins(log'[m], log[s])
      BY DEF Copies
    <3>2. Len(log'[m]) \in Nat /\ Len(log[s]) \in Nat
      BY LogTypes, NextLogTypes
    <3>3. i \in 1..Len(log[s]) /\ log[s][i][1] = Ends(p)[1]
      BY <2>3, <3>1, <3>2 DEF Begins
    <3>4. QED
      BY <2>1, <3>3 DEF Owned
  <2>4. QED
    BY <2>1, <2>2, <2>3 DEF Owned
<1>3. QED
  BY <1>1, <1>2 DEF Tenures

\* A tenure has one owner.
LEMMA OneOwner ==
  ASSUME Types, Tenures, NEW p \in Nodes, NEW q \in Nodes, Owner(p), Owner(q),
         Ends(p)[1] = Ends(q)[1]
  PROVE  p = q
<1>1. Owned(p) /\ Owned(q)
  BY DEF Tenures
<1>2. Len(log[p]) \in Nat /\ Len(log[q]) \in Nat
  BY LogTypes
<1>3. Len(log[p]) \in 1..Len(log[p]) /\ Len(log[q]) \in 1..Len(log[q])
  BY <1>1, <1>2 DEF Owned
<1>4. Len(log[q]) <= Len(log[p]) /\ Len(log[p]) <= Len(log[q])
  BY <1>1, <1>3 DEF Owned, Ends
<1>5. Len(log[p]) = Len(log[q])
  BY <1>2, <1>4
<1>6. Ends(p) = Ends(q)
  BY <1>3, <1>4, <1>5 DEF Tenures, Matching, Ends
<1>7. QED
  BY <1>1, <1>6 DEF Owned

\* One journal grows by one entry.
Appends(p, x) == log' = [log EXCEPT ![p] = Append(@, x)]

LEMMA Appended ==
  ASSUME Types, NEW p \in Nodes, NEW x \in Entry, Appends(p, x)
  PROVE  /\ \A m \in Nodes : m # p => log'[m] = log[m]
         /\ log'[p] = Append(log[p], x) /\ Len(log'[p]) = Len(log[p]) + 1
         /\ log'[p][Len(log[p]) + 1] = x
         /\ \A m \in Nodes : Begins(log[m], log'[m])
         /\ \A m \in Nodes : \A i \in 1..Len(log'[m]) :
              i \in 1..Len(log[m]) \/ (m = p /\ i = Len(log[p]) + 1)
<1>1. log \in [Nodes -> Seq(Entry)] /\ log[p] \in Seq(Entry) /\ Len(log[p]) \in Nat
  BY DEF Types, DataType
<1>2. (\A m \in Nodes : m # p => log'[m] = log[m]) /\ log'[p] = Append(log[p], x)
  BY <1>1 DEF Appends
<1>3. /\ Len(log'[p]) = Len(log[p]) + 1 /\ log'[p][Len(log[p]) + 1] = x
      /\ \A i \in 1..Len(log[p]) : log'[p][i] = log[p][i]
  BY <1>1, <1>2
<1>4. \A m \in Nodes : Begins(log[m], log'[m])
  <2>1. Begins(log[p], log'[p])
    BY <1>1, <1>3 DEF Begins
  <2>2. ASSUME NEW m \in Nodes, m # p PROVE Begins(log[m], log'[m])
    BY <1>2, <2>2, LogTypes DEF Begins
  <2>3. QED
    BY <2>1, <2>2
<1>5. ASSUME NEW m \in Nodes, NEW i \in 1..Len(log'[m])
      PROVE  i \in 1..Len(log[m]) \/ (m = p /\ i = Len(log[p]) + 1)
  BY <1>1, <1>2, <1>3
<1>6. QED
  BY <1>2, <1>3, <1>4, <1>5

LEMMA MatchingAppend ==
  ASSUME Types, Matching, NEW p \in Nodes, NEW x \in Entry, Appends(p, x),
         \A m \in Nodes : \A i \in 1..Len(log[m]) : log[m][i][1] = x[1] =>
           i <= Len(log[p]) /\ Ends(p)[1] = x[1]
  PROVE  Matching'
<1> DEFINE L == Len(log[p])
<1>1. ASSUME NEW m \in Nodes, NEW n \in Nodes, NEW i \in 1..Len(log'[m]), NEW j \in 1..Len(log'[n]),
             i <= j, log'[m][i][1] = log'[n][j][1], NEW k \in 1..i
      PROVE  log'[m][k] = log'[n][k]
  <2>1. /\ Begins(log[m], log'[m]) /\ Begins(log[n], log'[n]) /\ Begins(log[p], log'[p])
        /\ Len(log[m]) \in Nat /\ Len(log[n]) \in Nat /\ L \in Nat
    BY Appended, LogTypes
  <2>2. /\ i \in 1..Len(log[m]) \/ (m = p /\ i = L + 1)
        /\ j \in 1..Len(log[n]) \/ (n = p /\ j = L + 1)
    BY Appended
  <2>3. log'[p][L + 1] = x
    BY Appended
  <2> HIDE DEF L
  <2>4. CASE i \in 1..Len(log[m]) /\ j \in 1..Len(log[n])
    <3>0. log'[m][i] = log[m][i] /\ log'[n][j] = log[n][j]
      BY <2>1, <2>4 DEF Begins
    <3>1. log[m][i][1] = log[n][j][1] /\ k \in 1..Len(log[m]) /\ k \in 1..Len(log[n])
      BY <1>1, <2>1, <2>4, <3>0
    <3>2. log[m][k] = log[n][k]
      BY <1>1, <2>4, <3>1 DEF Matching
    <3>3. QED
      BY <2>1, <3>1, <3>2 DEF Begins
  <2>5. CASE i \in 1..Len(log[m]) /\ n = p /\ j = L + 1
    <3>1. log[m][i][1] = x[1] /\ k \in 1..Len(log[m])
      BY <1>1, <2>1, <2>3, <2>5 DEF Begins
    <3>2. i <= L /\ log[p][L][1] = x[1] /\ L \in 1..L /\ k \in 1..L
      BY <2>1, <2>5, <3>1 DEF L, Ends
    <3>3. log[m][k] = log[p][k]
      BY <2>5, <3>1, <3>2 DEF Matching, L
    <3>4. QED
      BY <2>1, <2>5, <3>1, <3>2, <3>3 DEF Begins, L
  <2>6. CASE m = p /\ i = L + 1 /\ j \in 1..Len(log[n])
    <3>1. log[n][j][1] = x[1]
      BY <1>1, <2>1, <2>3, <2>6 DEF Begins
    <3>2. j <= L
      BY <2>6, <3>1 DEF L
    <3>3. QED
      BY <1>1, <2>1, <2>6, <3>2
  <2>7. QED
    BY <2>2, <2>4, <2>5, <2>6
<1>2. QED
  BY <1>1 DEF Matching

LEMMA TenuresWrite ==
  ASSUME Types, Tenures, NEW p \in Nodes, Write(p)
  PROVE  Tenures'
<1> DEFINE x == <<epoch[p], p>>
<1>1. /\ role[p] = "serving" /\ role' = role /\ target' = target /\ epoch' = epoch /\ Appends(p, x)
  BY DEF Write, process, Appends
<1>2. x \in Entry /\ x[1] = epoch[p] /\ x[2] = p
  BY LineageTypes DEF Entry
<1> HIDE DEF x
<1>3. Owner(p) /\ Owned(p) /\ Ends(p)[1] = x[1]
  BY <1>1, <1>2 DEF Owner, Tenures, Owned
<1>4. Matching'
  <2>1. \A m \in Nodes : \A i \in 1..Len(log[m]) : log[m][i][1] = x[1] =>
           i <= Len(log[p]) /\ Ends(p)[1] = x[1]
    BY <1>3 DEF Owned
  <2>2. QED
    BY <1>1, <1>2, <2>1, MatchingAppend DEF Tenures
<1>5. ASSUME NEW q \in Nodes, Owner(q)' PROVE Owned(q)'
  <2>1. Owner(q) /\ Owned(q)
    BY <1>1, <1>5 DEF Owner, Tenures
  <2>2. CASE q = p
    <3>1. Ends(q)' = x /\ Len(log'[q]) = Len(log[p]) + 1 /\ Len(log[p]) \in Nat
      BY <1>1, <1>2, <2>2, Appended, LogTypes DEF Ends
    <3>2. ASSUME NEW m \in Nodes, NEW i \in 1..Len(log'[m]), log'[m][i][1] = x[1]
          PROVE  i <= Len(log'[q])
      <4>1. Begins(log[m], log'[m]) /\ (i \in 1..Len(log[m]) \/ (m = p /\ i = Len(log[p]) + 1))
        BY <1>1, <1>2, Appended
      <4>2. CASE i \in 1..Len(log[m])
        <5>1. i <= Len(log[p])
          BY <1>3, <3>2, <4>1, <4>2 DEF Begins, Owned
        <5>2. QED
          BY <3>1, <4>2, <5>1
      <4>3. QED
        BY <3>1, <4>1, <4>2
    <3>3. QED
      BY <1>1, <1>2, <2>1, <2>2, <3>1, <3>2 DEF Owned
  <2>3. CASE q # p
    <3>1. log'[q] = log[q] /\ Ends(q)' = Ends(q)
      BY <1>1, <1>2, <2>3, Appended DEF Ends
    <3>2. Ends(q)[1] # x[1]
      BY <1>3, <2>1, <2>3, OneOwner
    <3>3. ASSUME NEW m \in Nodes, NEW i \in 1..Len(log'[m]), log'[m][i][1] = Ends(q)[1]
          PROVE  i <= Len(log[q])
      <4>1. /\ Begins(log[m], log'[m]) /\ (i \in 1..Len(log[m]) \/ (m = p /\ i = Len(log[p]) + 1))
            /\ log'[p][Len(log[p]) + 1] = x
        BY <1>1, <1>2, Appended
      <4>2. i \in 1..Len(log[m])
        BY <3>2, <3>3, <4>1
      <4>3. QED
        BY <2>1, <3>3, <4>1, <4>2 DEF Begins, Owned
    <3>4. QED
      BY <1>1, <2>1, <3>1, <3>3 DEF Owned
  <2>4. QED
    BY <2>2, <2>3
<1>6. QED
  BY <1>4, <1>5 DEF Tenures

\* The bump opens a tenure of its own: no entry anywhere is of its epoch.
LEMMA MintFresh ==
  ASSUME Types, Elections, ~manual, NEW n \in Nodes, NEW Q \in SUBSET (Nodes \ {n}), Mint(n, Q)
  PROVE  /\ NewEpoch(n) \in Nat /\ \A e \in minted : e < NewEpoch(n)
         /\ lead[n] /\ Confirms(n, Q)
<1>1. req[n] # Manual /\ Slack = 0
  BY DEF Elections, Counted, Asked, Slack
<1>2. Confirms(n, Q) /\ term[n] = req[n] /\ lead[n]
  BY <1>1 DEF Mint, Confirms
<1>3. role[n] \in Fresh
  BY DEF Mint, Fresh
<1>4. \A e \in minted : e < term[n] + Slack
  BY <1>2, ConfirmedStands DEF Elections, Room, Mint
<1>5. NewEpoch(n) >= req[n] /\ NewEpoch(n) \in Nat /\ req[n] \in Int
  BY MintEpoch
<1>6. \A e \in minted : e \in Int
  BY DEF Types, HistoryType
<1>7. \A e \in minted : e < NewEpoch(n)
  BY <1>1, <1>2, <1>4, <1>5, <1>6
<1>8. QED
  BY <1>2, <1>5, <1>7

LEMMA TenuresMint ==
  ASSUME Types, Elections, Tenures, ~manual, NEW n \in Nodes, NEW Q \in SUBSET (Nodes \ {n}), Mint(n, Q)
  PROVE  Tenures'
<1> DEFINE e == NewEpoch(n)
           x == <<e, n>>
<1>0. role \in [Nodes -> Roles] /\ epoch \in [Nodes -> Nat]
  BY DEF Types, ProcessType, DataType
<1>1. /\ role[n] = "promoting" /\ target' = target /\ epoch' = [epoch EXCEPT ![n] = e] /\ Appends(n, x)
      /\ role'[n] \in {"serving", "fenced"} /\ \A v \in Nodes \ {n} : role'[v] = role[v]
  BY <1>0 DEF Mint, Appends
<1>2. x \in Entry /\ x[1] = e /\ x[2] = n /\ e \in Nat /\ \A f \in minted : f < e
  BY MintFresh DEF Entry
<1> HIDE DEF e, x
<1>3. \A m \in Nodes : \A i \in 1..Len(log[m]) : log[m][i][1] < e /\ log[m][i][1] # e
  <2>1. \A m \in Nodes : \A i \in 1..Len(log[m]) : log[m][i][1] \in minted /\ log[m][i][1] \in Nat
    BY LogTypes DEF Elections, Recorded
  <2>2. QED
    BY <1>2, <2>1
<1>4. Matching'
  BY <1>1, <1>2, <1>3, MatchingAppend DEF Tenures
<1>5. target[n] # n
  BY <1>1 DEF Tenures, Owner, Owned, Following
<1>6. ASSUME NEW q \in Nodes, Owner(q)' PROVE Owned(q)'
  <2>1. CASE q = n
    <3>1. Ends(q)' = x /\ Len(log'[q]) = Len(log[n]) + 1 /\ Len(log[n]) \in Nat
      BY <1>1, <1>2, <2>1, Appended, LogTypes DEF Ends
    <3>2. ASSUME NEW m \in Nodes, NEW i \in 1..Len(log'[m]), log'[m][i][1] = x[1]
          PROVE  i <= Len(log'[q])
      <4>1. Begins(log[m], log'[m]) /\ (i \in 1..Len(log[m]) \/ (m = n /\ i = Len(log[n]) + 1))
        BY <1>1, <1>2, Appended
      <4>2. i \notin 1..Len(log[m])
        BY <1>2, <1>3, <3>2, <4>1 DEF Begins
      <4>3. QED
        BY <3>1, <4>1, <4>2
    <3>3. epoch'[q] = x[1]
      BY <1>0, <1>1, <1>2, <2>1
    <3>4. QED
      BY <1>1, <1>2, <1>5, <2>1, <3>1, <3>2, <3>3 DEF Owned
  <2>2. CASE q # n
    <3>1. Owner(q) /\ Owned(q) /\ role'[q] = role[q] /\ epoch'[q] = epoch[q]
      BY <1>0, <1>1, <1>6, <2>2 DEF Owner, Tenures
    <3>2. log'[q] = log[q] /\ Ends(q)' = Ends(q)
      BY <1>1, <1>2, <2>2, Appended DEF Ends
    <3>3. Ends(q)[1] # x[1]
      <4>1. Len(log[q]) \in 1..Len(log[q])
        BY <3>1, LogTypes DEF Owned
      <4>2. QED
        BY <1>2, <1>3, <4>1 DEF Ends
    <3>4. ASSUME NEW m \in Nodes, NEW i \in 1..Len(log'[m]), log'[m][i][1] = Ends(q)[1]
          PROVE  i <= Len(log[q])
      <4>1. /\ Begins(log[m], log'[m]) /\ (i \in 1..Len(log[m]) \/ (m = n /\ i = Len(log[n]) + 1))
            /\ log'[n][Len(log[n]) + 1] = x
        BY <1>1, <1>2, Appended
      <4>2. i \in 1..Len(log[m])
        BY <3>3, <3>4, <4>1
      <4>3. QED
        BY <3>1, <3>4, <4>1, <4>2 DEF Begins, Owned
    <3>5. QED
      BY <1>1, <3>1, <3>2, <3>4 DEF Owned
  <2>3. QED
    BY <2>1, <2>2
<1>7. QED
  BY <1>4, <1>6 DEF Tenures

\* A step that loses nothing: a journal grows, is one that was archived, or
\* is a snapshot of the newest tenure.
Resynced(m) == \E p \in Nodes : Owner(p) /\ Newest(p) /\ log'[m] = log[p]
JournalsKeep ==
  \A m \in Nodes : m \in bare' \/ (m \notin bare /\ Begins(log[m], log'[m])) \/ Resynced(m)
Quiet == Copies /\ OwnersKeep /\ JournalsKeep /\ minted' = minted

LEMMA NotOwner ==
  ASSUME Tenures, NEW r \in Nodes, role[r] \in Following
  PROVE  ~Owner(r)
BY DEF Tenures, Owner, Owned, Following

LEMMA KeepOwners ==
  ASSUME Tenures, target' = target,
         \A v \in Nodes : role'[v] \in {role[v], "fenced", "down"},
         \A v \in Nodes : role'[v] = "serving" => epoch'[v] = epoch[v],
         \A v \in Nodes : Owner(v) => log'[v] = log[v]
  PROVE  OwnersKeep
<1>1. ASSUME NEW p \in Nodes, role'[p] = "serving" \/ target'[p] = p
      PROVE  /\ Owner(p) /\ log'[p] = log[p]
             /\ role'[p] = "serving" => Ends(p)[1] = epoch'[p]
             /\ target'[p] = p => role'[p] \notin Following
  <2>1. role'[p] = "serving" => role[p] = "serving"
    OBVIOUS
  <2>2. Owner(p) /\ Owned(p)
    BY <1>1, <2>1 DEF Owner, Tenures
  <2>3. QED
    BY <2>1, <2>2 DEF Owned, Following
<1>2. QED
  BY <1>1 DEF OwnersKeep

LEMMA QuietFrame ==
  ASSUME Types, log' = log, minted' = minted, bare' = bare, OwnersKeep
  PROVE  Quiet
<1>1. \A m \in Nodes : Begins(log[m], log'[m]) /\ Begins(log'[m], log[m])
  BY LogTypes DEF Begins
<1>2. QED
  BY <1>1 DEF Quiet, Copies, JournalsKeep

\* No journal is written, and a node is at most fenced or stopped.
LEMMA QuietRoles ==
  ASSUME Types, Tenures, log' = log, minted' = minted, bare' = bare, target' = target,
         \A v \in Nodes : role'[v] \in {role[v], "fenced", "down"},
         \A v \in Nodes : role'[v] = "serving" => epoch'[v] = epoch[v]
  PROVE  Quiet
BY KeepOwners, QuietFrame

LEMMA QuietHalt ==
  ASSUME Types, Tenures, NEW n \in Nodes, Halt(n)
  PROVE  Quiet
<1>1. /\ role' = [role EXCEPT ![n] = "down"] /\ epoch' = [epoch EXCEPT ![n] = 0]
      /\ log' = log /\ minted' = minted /\ bare' = bare /\ target' = target
      /\ role \in [Nodes -> Roles] /\ epoch \in [Nodes -> Nat]
  BY DEF Halt, history, Types, ProcessType, DataType
<1>2. QED
  BY <1>1, QuietRoles

\* One journal of a replica changes: the others stay, and no tenure is its.
LEMMA QuietOne ==
  ASSUME Types, Tenures, NEW r \in Nodes, role[r] = "replica", role' = role, target' = target,
         minted' = minted, \A v \in Nodes \ {r} : log'[v] = log[v] /\ epoch'[v] = epoch[v],
         \A v \in Nodes \ {r} : v \in bare => v \in bare',
         \E s \in Nodes : Begins(log'[r], log[s]),
         r \in bare' \/ (r \notin bare /\ Begins(log[r], log'[r])) \/ Resynced(r)
  PROVE  Quiet
<1>1. OwnersKeep
  <2>1. ~Owner(r)
    BY NotOwner DEF Following
  <2>2. \A v \in Nodes : Owner(v) => log'[v] = log[v]
    BY <2>1
  <2>3. \A v \in Nodes : role'[v] = "serving" => epoch'[v] = epoch[v]
    BY <2>1 DEF Owner
  <2>4. QED
    BY <2>2, <2>3, KeepOwners
<1>2. \A v \in Nodes \ {r} : Begins(log[v], log'[v]) /\ Begins(log'[v], log[v])
  BY LogTypes DEF Begins
<1>3. Copies
  BY <1>2 DEF Copies
<1>4. JournalsKeep
  BY <1>2 DEF JournalsKeep
<1>5. QED
  BY <1>1, <1>3, <1>4 DEF Quiet

\* The primary a replica is in session with owns its tenure.
LEMMA ServingOwns ==
  ASSUME Types, Tenures, NEW p \in Nodes, role[p] = "serving"
  PROVE  /\ Owner(p) /\ Owned(p) /\ Ends(p)[1] = epoch[p]
         /\ Len(log[p]) \in 1..Len(log[p]) /\ Len(log[p]) \in Nat
<1>1. Owner(p) /\ Owned(p) /\ Ends(p)[1] = epoch[p]
  BY DEF Owner, Tenures, Owned
<1>2. QED
  BY <1>1, LogTypes DEF Owned

\* A replica that awaits a snapshot has archived its journal.
Archived == \A r \in Nodes : link[r] = "transfer" => r \in bare

LEMMA ArchivedStep == Types /\ Archived /\ [Next]_vars => Archived'
<1> SUFFICES ASSUME Types, Archived, [Next]_vars PROVE Archived'
  OBVIOUS
<1>0. link \in [Nodes -> {"down", "transfer", "up", "lost"}]
  BY DEF Types, ProcessType
<1>1. ASSUME bare' = bare, \A r \in Nodes : link'[r] = "transfer" => link[r] = "transfer"
      PROVE  Archived'
  BY <1>1 DEF Archived
<1>2. CASE UNCHANGED vars
  BY <1>1, <1>2 DEF vars, process, history
<1>3. CASE DataPlane
  <2>1. ASSUME NEW r \in Nodes, Transfer(r) PROVE Archived'
    <3>1. link' = [link EXCEPT ![r] = "up"] /\ bare \ {r} \subseteq bare'
      BY <2>1 DEF Transfer
    <3>2. QED
      BY <1>0, <3>1 DEF Archived
  <2>2. ASSUME NEW r \in Nodes, ConnectDiverges(r) PROVE Archived'
    <3>1. link' = [link EXCEPT ![r] = "transfer"] /\ bare' = bare \union {r}
      BY <2>2 DEF ConnectDiverges
    <3>2. QED
      BY <1>0, <3>1 DEF Archived
  <2>3. ASSUME NEW r \in Nodes, Write(r) \/ Replicate(r) \/ ConnectFences(r) PROVE Archived'
    BY <1>1, <2>3 DEF Write, Replicate, ConnectFences, process, history
  <2>4. ASSUME NEW r \in Nodes, LinkDrop(r) \/ ConnectFollows(r) PROVE Archived'
    BY <1>0, <1>1, <2>4 DEF LinkDrop, ConnectFollows, history
  <2>5. QED
    BY <1>3, <2>1, <2>2, <2>3, <2>4 DEF DataPlane
<1>4. ASSUME NEW n \in Nodes, Halt(n) PROVE Archived'
  BY <1>0, <1>1, <1>4 DEF Halt, history
<1>5. CASE Processes
  BY <1>1, <1>4, <1>5 DEF Processes, Stop, RestartPrimary, Recover, RestartReplica, history
<1>6. CASE ControlPlane
  BY <1>1, <1>6 DEF ControlPlane, Elect, DropVote, Heartbeat, Age, history, process
<1>7. CASE Promotion
  <2>1. ASSUME NEW n \in Nodes, Drain(n) PROVE Archived'
    BY <1>0, <1>1, <1>4, <2>1 DEF Drain, history
  <2>2. QED
    BY <1>1, <1>4, <1>7, <2>1 DEF Promotion, Decide, Promote, Abandon, Mint, history
<1>8. QED
  BY <1>2, <1>3, <1>5, <1>6, <1>7 DEF Next

LEMMA QuietReplicate ==
  ASSUME Types, Lineage, Tenures, NEW r \in Nodes, Replicate(r)
  PROVE  /\ Quiet /\ log'[r] = Append(log[r], log[target[r]][Len(log[r]) + 1])
         /\ Begins(log'[r], log[target[r]]) /\ log'[target[r]] = log[target[r]] /\ target[r] # r
<1> DEFINE p == target[r]
           k == Len(log[r]) + 1
           x == log[p][k]
<1>1. /\ link[r] = "up" /\ role[r] = "replica" /\ role[p] = "serving" /\ k <= Len(log[p])
      /\ role' = role /\ target' = target /\ minted' = minted /\ bare' = bare
      /\ log' = [log EXCEPT ![r] = Append(@, x)] /\ epoch' = [epoch EXCEPT ![r] = Max({@, x[1]})]
  BY DEF Replicate, process
<1>2. /\ p \in Nodes /\ log[r] \in Seq(Entry) /\ log[p] \in Seq(Entry) /\ k \in 1..Len(log[p])
      /\ log \in [Nodes -> Seq(Entry)] /\ epoch \in [Nodes -> Nat]
  BY <1>1, LineageTypes DEF Types, DataType
<1>3. Begins(log[r], log[p]) /\ x \in Entry
  BY <1>1, <1>2 DEF Lineage, Session
<1>4. Begins(Append(log[r], x), log[p])
  BY <1>1, <1>2, <1>3, BeginsNext
<1>5. p # r
  BY <1>1
<1> HIDE DEF p, k, x
<1>6. /\ log'[r] = Append(log[r], x) /\ \A v \in Nodes \ {r} : log'[v] = log[v] /\ epoch'[v] = epoch[v]
  BY <1>1, <1>2
<1>7. Begins(log[r], log'[r])
  BY <1>2, <1>3, <1>6, BeginsGrows DEF Begins
<1>8. Quiet
  BY <1>1, <1>2, <1>4, <1>6, <1>7, QuietOne
<1>9. QED
  BY <1>2, <1>4, <1>5, <1>6, <1>8 DEF p, k, x

LEMMA QuietTransfer ==
  ASSUME Types, Elections, Lineage, Tenures, Archived, NEW r \in Nodes, Transfer(r)
  PROVE  Quiet /\ log'[r] = log[target[r]] /\ log'[target[r]] = log[target[r]] /\ target[r] # r
<1> DEFINE p == target[r]
<1>1. /\ role[r] = "replica" /\ role[p] = "serving" /\ role' = role /\ target' = target
      /\ minted' = minted /\ log' = [log EXCEPT ![r] = log[p]]
      /\ epoch' = [epoch EXCEPT ![r] = Max({@, epoch[p]})]
      /\ bare' = IF epoch[p] = Max(minted) THEN bare \ {r} ELSE bare
      /\ log \in [Nodes -> Seq(Entry)] /\ epoch \in [Nodes -> Nat]
  BY DEF Transfer, Types, DataType
<1>2. p \in Nodes /\ p # r /\ log[p] \in Seq(Entry) /\ log[r] \in Seq(Entry)
  BY <1>1, LineageTypes
<1>3. Owner(p) /\ Ends(p)[1] = epoch[p]
  BY <1>1, <1>2, ServingOwns
<1> HIDE DEF p
<1>4. log'[r] = log[p] /\ \A v \in Nodes \ {r} : log'[v] = log[v] /\ epoch'[v] = epoch[v]
  BY <1>1, <1>2
<1>5. Begins(log'[r], log[p])
  BY <1>2, <1>4 DEF Begins
<1>6. CASE epoch[p] = Max(minted)
  <2>1. Newest(p)
    BY <1>3, <1>6, MintedMax DEF Newest
  <2>2. Resynced(r)
    BY <1>2, <1>3, <1>4, <2>1 DEF Resynced
  <2>3. QED
    BY <1>1, <1>2, <1>4, <1>5, <1>6, <2>2, QuietOne DEF p
<1>7. CASE epoch[p] # Max(minted)
  <2>1. bare' = bare
    BY <1>1, <1>7
  <2>2. r \in bare
    BY DEF Transfer, Archived
  <2>3. QED
    BY <1>1, <1>2, <1>4, <1>5, <2>1, <2>2, QuietOne DEF p
<1>8. QED
  BY <1>6, <1>7

LEMMA QuietDiverges ==
  ASSUME Types, Tenures, NEW r \in Nodes, ConnectDiverges(r)
  PROVE  Quiet
<1>1. /\ role[r] = "replica" /\ role' = role /\ target' = target /\ minted' = minted /\ epoch' = epoch
      /\ log' = [log EXCEPT ![r] = <<>>] /\ bare' = bare \union {r}
      /\ log \in [Nodes -> Seq(Entry)]
  BY DEF ConnectDiverges, Dials, Types, DataType
<1>2. log'[r] = <<>> /\ \A v \in Nodes \ {r} : log'[v] = log[v] /\ epoch'[v] = epoch[v]
  BY <1>1
<1>3. Begins(log'[r], log[r])
  BY <1>2, LogTypes DEF Begins
<1>4. QED
  BY <1>1, <1>2, <1>3, QuietOne

\* The handshake that lets a replica follow touches no journal.
LEMMA QuietFollows ==
  ASSUME Types, Tenures, NEW r \in Nodes, ConnectFollows(r)
  PROVE  /\ Quiet /\ log' = log /\ target[r] # r
         /\ Begins(log[r], log[target[r]])
<1> DEFINE p == target[r]
<1>1. /\ role[r] = "replica" /\ role[p] = "serving" /\ IsPrefix(log[r], log[p]) /\ role' = role
      /\ target' = target /\ minted' = minted /\ bare' = bare /\ log' = log
      /\ epoch' = [epoch EXCEPT ![r] = Max({@, epoch[p]})] /\ epoch \in [Nodes -> Nat]
  BY DEF ConnectFollows, Dials, ChainMatches, Types, DataType
<1>2. p \in Nodes /\ log[p] \in Seq(Entry) /\ log[r] \in Seq(Entry) /\ p # r
  BY <1>1, LineageTypes
<1>3. Begins(log[r], log[p])
  BY <1>1, <1>2, PrefixIsBegins
<1>4. \A v \in Nodes : role'[v] = "serving" => epoch'[v] = epoch[v]
  BY <1>1
<1>5. Quiet
  BY <1>1, <1>4, QuietRoles
<1>6. QED
  BY <1>1, <1>2, <1>3, <1>5

\* A process boots: a primary on the tenure its journal ends in.
LEMMA QuietBoots ==
  ASSUME Types, Lineage, Tenures, NEW n \in Nodes,
         RestartPrimary(n) \/ Recover(n) \/ \E t \in Nodes : RestartReplica(n, t)
  PROVE  Quiet
<1>0. /\ role \in [Nodes -> Roles] /\ epoch \in [Nodes -> Nat] /\ target \in [Nodes -> Nodes]
  BY DEF Types, ProcessType, DataType
<1>1. /\ log' = log /\ minted' = minted /\ bare' = bare
      /\ \A v \in Nodes \ {n} : role'[v] = role[v] /\ target'[v] = target[v] /\ epoch'[v] = epoch[v]
  BY <1>0 DEF RestartPrimary, Recover, RestartReplica, history, data
<1>2. ASSUME NEW v \in Nodes \ {n}, role'[v] = "serving" \/ target'[v] = v
      PROVE  /\ Owner(v) /\ log'[v] = log[v] /\ (role'[v] = "serving" => Ends(v)[1] = epoch'[v])
             /\ (target'[v] = v => role'[v] \notin Following)
  BY <1>1, <1>2 DEF Owner, Tenures, Owned
<1>3. CASE RestartPrimary(n)
  <2>1. /\ target[n] = n /\ role'[n] = "serving" /\ epoch'[n] = EpochOf(log[n])
    BY <1>0, <1>3 DEF RestartPrimary
  <2>2. Owner(n) /\ Owned(n)
    BY <2>1 DEF Owner, Tenures
  <2>3. Ends(n)[1] = EpochOf(log[n])
    <3>1. Len(log[n]) >= 1 /\ log[n] # <<>>
      BY <2>2 DEF Owned
    <3>2. QED
      BY <3>1 DEF EpochOf, Ends, Last
  <2>4. OwnersKeep
    BY <1>1, <1>2, <2>1, <2>2, <2>3 DEF OwnersKeep, Following
  <2>5. QED
    BY <1>1, <2>4, QuietFrame
<1>4. CASE ~RestartPrimary(n)
  <2>1. role'[n] # "serving" /\ target'[n] # n
    <3>1. CASE Recover(n)
      <4>1. role[n] \in Following /\ target' = target /\ role'[n] = "replica"
        BY <1>0, <3>1 DEF Recover, Following
      <4>2. QED
        BY <4>1, NotOwner DEF Owner
    <3>2. CASE \E t \in Nodes : RestartReplica(n, t)
      BY <1>0, <3>2 DEF RestartReplica
    <3>3. QED
      BY <1>4, <3>1, <3>2
  <2>2. OwnersKeep
    BY <1>2, <2>1 DEF OwnersKeep
  <2>3. QED
    BY <1>1, <2>2, QuietFrame
<1>5. QED
  BY <1>3, <1>4

LEMMA QuietDrain ==
  ASSUME Types, Tenures, NEW n \in Nodes, Drain(n)
  PROVE  Quiet
<1>1. CASE Halt(n)
  BY <1>1, QuietHalt
<1>2. CASE ~Halt(n)
  <2>1. /\ role[n] = "replica" /\ role' = [role EXCEPT ![n] = "promoting"] /\ target' = target
        /\ log' = log /\ epoch' = epoch /\ minted' = minted /\ bare' = bare /\ role \in [Nodes -> Roles]
    BY <1>2 DEF Drain, data, history, Types, ProcessType
  <2>2. ~Owner(n)
    BY <2>1, NotOwner DEF Following
  <2>3. ASSUME NEW v \in Nodes, role'[v] = "serving" \/ target'[v] = v
        PROVE  /\ Owner(v) /\ log'[v] = log[v] /\ (role'[v] = "serving" => Ends(v)[1] = epoch'[v])
               /\ (target'[v] = v => role'[v] \notin Following)
    <3>1. v # n
      BY <2>1, <2>2, <2>3 DEF Owner
    <3>2. QED
      BY <2>1, <2>3, <3>1 DEF Owner, Tenures, Owned
  <2>4. OwnersKeep
    BY <2>3 DEF OwnersKeep
  <2>5. QED
    BY <2>1, <2>4, QuietFrame
<1>3. QED
  BY <1>1, <1>2

Mints == \E n \in Nodes : \E Q \in SUBSET (Nodes \ {n}) : Mint(n, Q)
Writes == \E n \in Nodes : Write(n)

LEMMA QuietStep ==
  ASSUME Types, Elections, Lineage, Tenures, Archived, [Next]_vars, ~Mints, ~Writes
  PROVE  Quiet
<1>0. role \in [Nodes -> Roles]
  BY DEF Types, ProcessType
<1>1. CASE UNCHANGED vars
  BY <1>1, QuietRoles DEF vars, process, data, history
<1>2. CASE DataPlane
  <2>1. ASSUME NEW n \in Nodes, LinkDrop(n) PROVE Quiet
    BY <2>1, QuietRoles DEF LinkDrop, data, history
  <2>2. ASSUME NEW n \in Nodes, ConnectFences(n) PROVE Quiet
    <3>1. /\ log' = log /\ epoch' = epoch /\ target' = target /\ minted' = minted /\ bare' = bare
          /\ \A v \in Nodes : role'[v] \in {role[v], "fenced", "down"}
      BY <1>0, <2>2 DEF ConnectFences, data, history
    <3>2. QED
      BY <3>1, QuietRoles
  <2>3. QED
    BY <1>2, <2>1, <2>2, QuietReplicate, QuietTransfer, QuietDiverges, QuietFollows DEF DataPlane, Writes
<1>3. CASE Processes
  BY <1>3, QuietHalt, QuietBoots DEF Processes, Stop
<1>4. CASE ControlPlane
  <2>1. log' = log /\ epoch' = epoch /\ target' = target /\ minted' = minted /\ bare' = bare
    BY <1>4 DEF ControlPlane, Elect, DropVote, Heartbeat, Age, data, process, history
  <2>2. \A v \in Nodes : role'[v] \in {role[v], "fenced", "down"}
    <3>1. ASSUME NEW n \in Nodes, NEW v \in Nodes, Age(n, v) PROVE role' = role
      BY <3>1 DEF Age, process
    <3>2. QED
      BY <1>4, <3>1, HearingRoles DEF ControlPlane, Elect, DropVote, Heartbeat
  <2>3. QED
    BY <2>1, <2>2, QuietRoles
<1>5. CASE Promotion
  <2>1. ASSUME NEW n \in Nodes, Decide(n) \/ Promote(n) PROVE Quiet
    BY <2>1, QuietRoles DEF Decide, Promote, data, history
  <2>2. ASSUME NEW n \in Nodes, Abandon(n) PROVE Quiet
    BY <2>2, QuietHalt DEF Abandon
  <2>3. QED
    BY <1>5, <2>1, <2>2, QuietDrain DEF Promotion, Mints
<1>6. QED
  BY <1>1, <1>2, <1>3, <1>4, <1>5 DEF Next

LEMMA TenuresStep ==
  ASSUME Types, Elections, Lineage, Tenures, Archived, ~manual, [Next]_vars
  PROVE  Tenures'
<1>1. Types'
  BY TypesStep
<1>2. CASE Mints
  BY <1>2, TenuresMint DEF Mints
<1>3. CASE Writes
  BY <1>3, TenuresWrite DEF Writes
<1>4. CASE ~Mints /\ ~Writes
  BY <1>1, <1>4, QuietStep, TenuresCopies DEF Quiet
<1>5. QED
  BY <1>2, <1>3, <1>4

-----------------------------------------------------------------------------
(* What is acked.  Two nodes hold it, or archived their journal and have    *)
(* not caught up with the newest tenure since; whoever holds an entry of a  *)
(* newer tenure than it was acked in holds all of it.  So does the owner of *)
(* the newest tenure.                                                       *)

Holds(h, E) == Begins(acked, log[h]) /\ \E i \in 1..Len(log[h]) : log[h][i][1] >= E
Secures(h, E) == h \in bare \/ Holds(h, E)
Carried(E) ==
  \A m \in Nodes : \A i \in 1..Len(log[m]) :
    log[m][i][1] > E => Len(acked) < i /\ Begins(acked, log[m])
Leading == \A p \in Nodes : Owner(p) /\ Newest(p) => Begins(acked, log[p])
Kept ==
  /\ acked \in Seq(Entry) /\ Leading
  /\ \E E \in minted : /\ Carried(E)
                       /\ \E g, h \in Nodes : g # h /\ Secures(g, E) /\ Secures(h, E)

LEMMA EpochType ==
  ASSUME Types, NEW E \in minted
  PROVE  E \in Nat
BY DEF Types, HistoryType

LEMMA KeptQuiet ==
  ASSUME Types, Types', Tenures, Kept, Quiet, acked' = acked
  PROVE  Kept'
<1>0. acked \in Seq(Entry) /\ Len(acked) \in Nat /\ Leading /\ minted' = minted
  BY DEF Kept, Quiet
<1>1. Leading'
  <2>1. ASSUME NEW p \in Nodes, Owner(p)', Newest(p)' PROVE Begins(acked', log'[p])
    <3>1. Owner(p) /\ log'[p] = log[p]
      BY <2>1 DEF Quiet, OwnersKeep, Owner
    <3>2. Newest(p)
      BY <1>0, <2>1, <3>1 DEF Newest, Ends
    <3>3. QED
      BY <1>0, <3>1, <3>2 DEF Leading
  <2>2. QED
    BY <2>1 DEF Leading
<1>2. PICK E \in minted, g \in Nodes, h \in Nodes : Carried(E) /\ g # h /\ Secures(g, E) /\ Secures(h, E)
  BY DEF Kept
<1>3. Carried(E)'
  <2>1. ASSUME NEW m \in Nodes, NEW i \in 1..Len(log'[m]), log'[m][i][1] > E
        PROVE  Len(acked) < i /\ Begins(acked, log'[m])
    <3>1. PICK s \in Nodes : Begins(log'[m], log[s])
      BY DEF Quiet, Copies
    <3>2. Len(log'[m]) \in Nat /\ Len(log[s]) \in Nat /\ log'[m] \in Seq(Entry) /\ log[s] \in Seq(Entry)
      BY LogTypes, NextLogTypes
    <3>3. i \in 1..Len(log[s]) /\ log[s][i][1] > E
      BY <2>1, <3>1, <3>2 DEF Begins
    <3>4. Len(acked) < i /\ Begins(acked, log[s])
      BY <1>2, <3>3 DEF Carried
    <3>5. Len(acked) <= Len(log'[m])
      BY <1>0, <3>2, <3>4
    <3>6. QED
      BY <1>0, <3>1, <3>2, <3>4, <3>5, BeginsShorter
  <2>2. QED
    BY <2>1, acked' = acked DEF Carried
<1>4. ASSUME NEW m \in Nodes, Secures(m, E) PROVE Secures(m, E)'
  <2>0. log[m] \in Seq(Entry) /\ log'[m] \in Seq(Entry) /\ Len(log[m]) \in Nat /\ Len(log'[m]) \in Nat
    BY LogTypes, NextLogTypes
  <2>1. CASE m \in bare'
    BY <2>1 DEF Secures
  <2>2. CASE m \notin bare /\ Begins(log[m], log'[m])
    <3>1. Holds(m, E)
      BY <1>4, <2>2 DEF Secures
    <3>2. PICK i \in 1..Len(log[m]) : log[m][i][1] >= E
      BY <3>1 DEF Holds
    <3>3. Begins(acked, log'[m])
      BY <1>0, <2>0, <2>2, <3>1, BeginsTrans DEF Holds
    <3>4. i \in 1..Len(log'[m]) /\ log'[m][i][1] >= E
      BY <2>0, <2>2, <3>2 DEF Begins
    <3>5. QED
      BY <3>3, <3>4, acked' = acked DEF Secures, Holds
  <2>3. CASE Resynced(m)
    <3>1. PICK p \in Nodes : Owner(p) /\ Newest(p) /\ log'[m] = log[p]
      BY <2>3 DEF Resynced
    <3>2. Begins(acked, log[p]) /\ Owned(p) /\ Ends(p)[1] >= E
      BY <1>0, <3>1, EpochType, LogTypes DEF Leading, Tenures, Owned, Newest, Ends
    <3>3. Len(log'[m]) \in 1..Len(log'[m]) /\ log'[m][Len(log'[m])][1] >= E
      BY <2>0, <3>1, <3>2 DEF Owned, Ends
    <3>4. QED
      BY <3>1, <3>2, <3>3, acked' = acked DEF Secures, Holds
  <2>4. QED
    BY <2>1, <2>2, <2>3 DEF Quiet, JournalsKeep
<1>5. E \in minted' /\ acked' \in Seq(Entry)
  BY <1>0
<1>6. QED
  BY <1>1, <1>2, <1>3, <1>4, <1>5 DEF Kept

\* A replica of the newest tenure acknowledges an entry of that tenure.
LEMMA KeptAcks ==
  ASSUME Types, Types', Recorded, Tenures, Kept, Quiet, NEW p \in Nodes, NEW r \in Nodes, p # r,
         Owner(p), Newest(p), log'[p] = log[p], acked' \in Seq(Entry), Len(acked') >= 1,
         Begins(acked', log'[p]), Begins(acked', log'[r]),
         acked'[Len(acked')][1] = Ends(p)[1]
  PROVE  Kept'
<1>0. /\ Len(acked') \in Nat /\ Len(log[p]) \in Nat /\ Len(log'[r]) \in Nat /\ minted' = minted
      /\ Owned(p)
  BY LogTypes, NextLogTypes DEF Quiet, Tenures
<1>1. PICK E \in minted : E = Ends(p)[1] /\ E \in Nat
  <2>1. Len(log[p]) \in 1..Len(log[p])
    BY <1>0 DEF Owned
  <2>2. QED
    BY <2>1, EpochType DEF Recorded, Ends
<1>2. Leading'
  <2>1. ASSUME NEW q \in Nodes, Owner(q)', Newest(q)' PROVE Begins(acked', log'[q])
    <3>1. Owner(q) /\ log'[q] = log[q]
      BY <2>1 DEF Quiet, OwnersKeep, Owner
    <3>2. E <= Ends(q)[1]
      BY <1>0, <1>1, <2>1, <3>1 DEF Newest, Ends
    <3>3. Ends(q)[1] \in minted /\ Ends(q)[1] \in Nat
      <4>1. Len(log[q]) \in 1..Len(log[q])
        BY <3>1, LogTypes DEF Tenures, Owned
      <4>2. QED
        BY <4>1, EpochType DEF Recorded, Ends
    <3>4. Ends(q)[1] <= E
      BY <1>1, <3>3 DEF Newest
    <3>5. q = p
      BY <1>1, <3>1, <3>2, <3>3, <3>4, OneOwner
    <3>6. QED
      BY <3>5
  <2>2. QED
    BY <2>1 DEF Leading
<1>3. Carried(E)'
  <2>1. ASSUME NEW m \in Nodes, NEW i \in 1..Len(log'[m]), log'[m][i][1] > E PROVE FALSE
    <3>1. PICK s \in Nodes : Begins(log'[m], log[s])
      BY DEF Quiet, Copies
    <3>2. Len(log'[m]) \in Nat /\ Len(log[s]) \in Nat
      BY LogTypes, NextLogTypes
    <3>3. i \in 1..Len(log[s]) /\ log[s][i][1] > E
      BY <2>1, <3>1, <3>2 DEF Begins
    <3>4. log[s][i][1] \in minted /\ log[s][i][1] \in Nat
      BY <3>3, LogTypes DEF Recorded
    <3>5. QED
      BY <1>1, <3>3, <3>4 DEF Newest
  <2>2. QED
    BY <2>1 DEF Carried
<1>4. Holds(p, E)' /\ Holds(r, E)'
  <2>1. Len(acked') \in 1..Len(acked') /\ acked'[Len(acked')][1] >= E
    BY <1>0, <1>1
  <2>2. /\ Len(acked') \in 1..Len(log'[p]) /\ log'[p][Len(acked')][1] >= E
        /\ Len(acked') \in 1..Len(log'[r]) /\ log'[r][Len(acked')][1] >= E
    BY <1>0, <2>1 DEF Begins
  <2>3. QED
    BY <2>2 DEF Holds
<1>5. E \in minted' /\ Secures(p, E)' /\ Secures(r, E)'
  BY <1>0, <1>1, <1>4 DEF Secures
<1>6. QED
  BY <1>2, <1>3, <1>5 DEF Kept

\* What is acked only grows within a tenure.
LEMMA AckedWithGrows ==
  ASSUME Types, Elections, Tenures, Kept, NEW p \in Nodes, role[p] = "serving", NEW k \in 0..Len(log[p])
  PROVE  /\ Begins(acked, AckedWith(p, k))
         /\ \/ AckedWith(p, k) = acked
            \/ /\ Newest(p) /\ AckedWith(p, k) \in Seq(Entry) /\ Len(AckedWith(p, k)) = k /\ k >= 1
               /\ Begins(AckedWith(p, k), log[p]) /\ AckedWith(p, k)[k][1] = Ends(p)[1]
<1>0. /\ acked \in Seq(Entry) /\ Len(acked) \in Nat /\ log[p] \in Seq(Entry) /\ k \in Nat
      /\ Owner(p) /\ Ends(p)[1] = epoch[p]
  BY LogTypes, ServingOwns DEF Kept
<1>1. CASE epoch[p] = Max(minted) /\ k > Len(acked) /\ log[p][k][1] = epoch[p]
  <2> DEFINE a == SubSeq(log[p], 1, k)
  <2>1. AckedWith(p, k) = a
    BY <1>1 DEF AckedWith
  <2>2. a \in Seq(Entry) /\ Len(a) = k /\ Begins(a, log[p])
    BY <1>0, BeginsCut
  <2> HIDE DEF a
  <2>3. Newest(p)
    BY <1>0, <1>1, MintedMax DEF Newest
  <2>4. Begins(acked, log[p])
    BY <1>0, <2>3 DEF Kept, Leading
  <2>5. Begins(acked, a)
    BY <1>0, <1>1, <2>2, <2>4, BeginsShorter
  <2>6. k >= 1 /\ k \in 1..Len(a)
    BY <1>0, <1>1, <2>2
  <2>7. a[k][1] = Ends(p)[1]
    BY <1>0, <1>1, <2>2, <2>6 DEF Begins
  <2>8. QED
    BY <2>1, <2>2, <2>3, <2>5, <2>6, <2>7
<1>2. CASE ~(epoch[p] = Max(minted) /\ k > Len(acked) /\ log[p][k][1] = epoch[p])
  <2>1. AckedWith(p, k) = acked
    BY <1>2 DEF AckedWith
  <2>2. QED
    BY <1>0, <2>1 DEF Begins
<1>3. QED
  BY <1>1, <1>2

LEMMA KeptAckedWith ==
  ASSUME Types, Types', Elections, Tenures, Kept, Quiet, NEW p \in Nodes, NEW r \in Nodes, p # r,
         role[p] = "serving", NEW k \in 0..Len(log[p]), log'[p] = log[p], Begins(log'[r], log[p]),
         k <= Len(log'[r]), acked' = AckedWith(p, k)
  PROVE  Kept' /\ Begins(acked, acked')
<1>1. Begins(acked, acked')
  BY AckedWithGrows
<1>2. CASE acked' = acked
  BY <1>1, <1>2, KeptQuiet
<1>3. CASE acked' # acked
  <2>1. /\ Newest(p) /\ acked' \in Seq(Entry) /\ Len(acked') = k /\ k >= 1
        /\ Begins(acked', log[p]) /\ acked'[k][1] = Ends(p)[1]
    BY <1>3, AckedWithGrows
  <2>2. Owner(p) /\ log[p] \in Seq(Entry) /\ log'[r] \in Seq(Entry)
    BY LogTypes, NextLogTypes, ServingOwns
  <2>3. Begins(acked', log'[r])
    BY <2>1, <2>2, BeginsShorter
  <2>4. Recorded /\ Len(acked') >= 1 /\ acked'[Len(acked')][1] = Ends(p)[1]
    BY <2>1 DEF Elections
  <2>5. Kept'
    BY <2>1, <2>2, <2>3, <2>4, KeptAcks
  <2>6. QED
    BY <1>1, <2>5
<1>4. QED
  BY <1>2, <1>3

LEMMA KeptSessions ==
  ASSUME Types, Types', Elections, Lineage, Tenures, Archived, Kept, NEW r \in Nodes,
         Replicate(r) \/ Transfer(r) \/ ConnectFollows(r)
  PROVE  Kept' /\ Begins(acked, acked')
<1> DEFINE p == target[r]
<1>0. /\ p \in Nodes /\ log[p] \in Seq(Entry) /\ log[r] \in Seq(Entry) /\ Len(log[p]) \in Nat
      /\ Len(log[r]) \in Nat /\ role[p] = "serving"
  BY LineageTypes DEF Replicate, Transfer, ConnectFollows, Dials
<1>1. CASE Replicate(r)
  <2> DEFINE k == Len(log[r]) + 1
  <2>1. acked' = AckedWith(p, k) /\ k \in 0..Len(log[p]) /\ log[p][k] \in Entry
    BY <1>0, <1>1 DEF Replicate
  <2>2. Quiet /\ Begins(log'[r], log[p]) /\ log'[p] = log[p] /\ p # r /\ log'[r] = Append(log[r], log[p][k])
    BY <1>1, QuietReplicate
  <2>3. k <= Len(log'[r])
    BY <1>0, <2>1, <2>2
  <2> HIDE DEF p, k
  <2>4. QED
    BY <1>0, <2>1, <2>2, <2>3, KeptAckedWith
<1>2. CASE Transfer(r)
  <2> DEFINE k == Len(log[p])
  <2>1. acked' = AckedWith(p, k) /\ k \in 0..Len(log[p])
    BY <1>0, <1>2 DEF Transfer
  <2>2. Quiet /\ log'[r] = log[p] /\ log'[p] = log[p] /\ p # r
    BY <1>2, QuietTransfer
  <2>3. k <= Len(log'[r]) /\ Begins(log'[r], log[p])
    BY <1>0, <2>2 DEF Begins
  <2> HIDE DEF p, k
  <2>4. QED
    BY <1>0, <2>1, <2>2, <2>3, KeptAckedWith
<1>3. CASE ConnectFollows(r)
  <2> DEFINE k == Len(log[r])
  <2>1. acked' = AckedWith(p, k)
    BY <1>3 DEF ConnectFollows
  <2>2. Quiet /\ log'[r] = log[r] /\ log'[p] = log[p] /\ p # r /\ Begins(log'[r], log[p])
    BY <1>3, QuietFollows
  <2>3. k <= Len(log'[r]) /\ k \in 0..Len(log[p])
    BY <1>0, <2>2 DEF Begins
  <2> HIDE DEF p, k
  <2>4. QED
    BY <1>0, <2>1, <2>2, <2>3, KeptAckedWith
<1>4. QED
  BY <1>1, <1>2, <1>3

LEMMA HoldsGrows ==
  ASSUME Types, Types', Kept, acked' \in Seq(Entry), Begins(acked', acked), bare' = bare,
         \A m \in Nodes : Begins(log[m], log'[m]), NEW h \in Nodes, NEW E \in Nat, Secures(h, E)
  PROVE  Secures(h, E)'
<1>1. CASE h \in bare
  BY <1>1 DEF Secures
<1>2. CASE h \notin bare
  <2>1. Begins(acked, log[h]) /\ acked \in Seq(Entry) /\ log[h] \in Seq(Entry) /\ log'[h] \in Seq(Entry)
    BY <1>2, LogTypes, NextLogTypes DEF Secures, Holds, Kept
  <2>2. Begins(acked', log'[h])
    <3>1. Begins(acked', log[h])
      BY <2>1, BeginsTrans
    <3>2. QED
      BY <2>1, <3>1, BeginsTrans
  <2>3. PICK i \in 1..Len(log[h]) : log[h][i][1] >= E
    BY <1>2 DEF Secures, Holds
  <2>4. i \in 1..Len(log'[h]) /\ log'[h][i][1] >= E
    BY <2>1, <2>3 DEF Begins
  <2>5. QED
    BY <2>2, <2>4 DEF Secures, Holds
<1>3. QED
  BY <1>1, <1>2

LEMMA KeptWrite ==
  ASSUME Types, Types', Tenures, Kept, NEW p \in Nodes, Write(p)
  PROVE  Kept' /\ Begins(acked, acked')
<1> DEFINE x == <<epoch[p], p>>
<1>1. /\ role[p] = "serving" /\ role' = role /\ target' = target /\ Appends(p, x)
      /\ acked' = acked /\ minted' = minted /\ bare' = bare
  BY DEF Write, process, history, Appends
<1>2. x \in Entry /\ x[1] = epoch[p]
  BY LineageTypes DEF Entry
<1> HIDE DEF x
<1>3. /\ Owner(p) /\ Ends(p)[1] = x[1] /\ Len(log[p]) \in 1..Len(log[p]) /\ Len(log[p]) \in Nat
      /\ acked \in Seq(Entry) /\ Len(acked) \in Nat
  BY <1>1, <1>2, ServingOwns DEF Kept
<1>4. Begins(acked, acked')
  BY <1>1, <1>3 DEF Begins
<1>5. /\ \A m \in Nodes : Begins(log[m], log'[m])
      /\ \A m \in Nodes : log[m] \in Seq(Entry) /\ log'[m] \in Seq(Entry)
  BY <1>1, <1>2, Appended, LogTypes, NextLogTypes
<1>6. Leading'
  <2>1. ASSUME NEW q \in Nodes, Owner(q)', Newest(q)' PROVE Begins(acked, log'[q])
    <3>1. Owner(q)
      BY <1>1, <2>1 DEF Owner
    <3>2. Ends(q)'[1] = Ends(q)[1]
      <4>1. CASE q = p
        BY <1>1, <1>2, <1>3, <4>1, Appended DEF Ends
      <4>2. CASE q # p
        BY <1>1, <1>2, <4>2, Appended DEF Ends
      <4>3. QED
        BY <4>1, <4>2
    <3>3. Newest(q)
      BY <1>1, <2>1, <3>2 DEF Newest
    <3>4. Begins(acked, log[q])
      BY <3>1, <3>3 DEF Kept, Leading
    <3>5. QED
      BY <1>3, <1>5, <3>4, BeginsTrans
  <2>2. QED
    BY <1>1, <2>1 DEF Leading
<1>7. PICK E \in minted, g \in Nodes, h \in Nodes : Carried(E) /\ g # h /\ Secures(g, E) /\ Secures(h, E)
  BY DEF Kept
<1>8. Carried(E)'
  <2>1. ASSUME NEW m \in Nodes, NEW i \in 1..Len(log'[m]), log'[m][i][1] > E
        PROVE  Len(acked) < i /\ Begins(acked, log'[m])
    <3>1. CASE i \in 1..Len(log[m])
      <4>1. log[m][i][1] > E
        BY <1>5, <2>1, <3>1 DEF Begins
      <4>2. Len(acked) < i /\ Begins(acked, log[m])
        BY <1>7, <3>1, <4>1 DEF Carried
      <4>3. QED
        BY <1>3, <1>5, <4>2, BeginsTrans
    <3>2. CASE m = p /\ i = Len(log[p]) + 1
      <4>1. log[p][Len(log[p])][1] > E
        BY <1>1, <1>2, <1>3, <2>1, <3>2, Appended DEF Ends
      <4>2. Len(acked) < Len(log[p]) /\ Begins(acked, log[p])
        BY <1>3, <1>7, <4>1 DEF Carried
      <4>3. QED
        BY <1>3, <1>5, <3>2, <4>2, BeginsTrans
    <3>3. QED
      BY <1>1, <1>2, <3>1, <3>2, Appended
  <2>2. QED
    BY <1>1, <2>1 DEF Carried
<1>9. Secures(g, E)' /\ Secures(h, E)'
  <2>1. acked' \in Seq(Entry) /\ Begins(acked', acked) /\ E \in Nat
    BY <1>1, <1>3, EpochType DEF Begins
  <2>2. QED
    BY <1>1, <1>5, <1>7, <2>1, HoldsGrows
<1>10. E \in minted' /\ acked' \in Seq(Entry)
  BY <1>1, <1>3
<1>11. QED
  BY <1>4, <1>6, <1>7, <1>8, <1>9, <1>10 DEF Kept

\* A tenure opens: what its owner lacks is no longer acked.
LEMMA KeptMint ==
  ASSUME Types, Types', Elections, Tenures, Kept, ~manual, NEW n \in Nodes,
         NEW Q \in SUBSET (Nodes \ {n}), Mint(n, Q)
  PROVE  Kept'
<1> DEFINE e == NewEpoch(n)
           x == <<e, n>>
<1>0. role \in [Nodes -> Roles] /\ log[n] \in Seq(Entry) /\ Len(log[n]) \in Nat
      /\ acked \in Seq(Entry) /\ Len(acked) \in Nat
  BY LogTypes DEF Types, ProcessType, Kept
<1>1. /\ target' = target /\ Appends(n, x) /\ minted' = minted \union {e} /\ bare' = bare
      /\ acked' = LongestCommonPrefix({acked, log[n]}) /\ \A v \in Nodes \ {n} : role'[v] = role[v]
  BY <1>0 DEF Mint, Appends
<1>2. x \in Entry /\ x[1] = e /\ e \in Nat /\ \A f \in minted : f < e
  BY MintFresh DEF Entry
<1> HIDE DEF e, x
<1>3. acked' \in Seq(Entry) /\ Len(acked') \in Nat /\ Begins(acked', acked) /\ Begins(acked', log[n])
  BY <1>0, <1>1, CommonBegins
<1>4. /\ \A m \in Nodes : Begins(log[m], log'[m])
      /\ \A m \in Nodes : log[m] \in Seq(Entry) /\ log'[m] \in Seq(Entry)
  BY <1>1, <1>2, Appended, LogTypes, NextLogTypes
<1>5. Begins(acked', log'[n])
  BY <1>0, <1>3, <1>4, BeginsTrans
<1>6. Leading'
  <2>1. ASSUME NEW q \in Nodes, Owner(q)', Newest(q)' PROVE q = n
    <3>1. SUFFICES ASSUME q # n PROVE FALSE
      OBVIOUS
    <3>2. Owner(q) /\ log'[q] = log[q]
      BY <1>1, <1>2, <2>1, <3>1, Appended DEF Owner
    <3>3. Len(log[q]) \in 1..Len(log[q])
      BY <3>2, LogTypes DEF Tenures, Owned
    <3>4. log[q][Len(log[q])][1] \in minted /\ log[q][Len(log[q])][1] \in Nat
      BY <3>3, LogTypes DEF Elections, Recorded
    <3>5. e <= log[q][Len(log[q])][1]
      BY <1>1, <2>1, <3>2 DEF Newest, Ends
    <3>6. QED
      BY <1>2, <3>4, <3>5
  <2>2. QED
    BY <1>5, <2>1 DEF Leading
<1>7. PICK E \in minted, g \in Nodes, h \in Nodes : Carried(E) /\ g # h /\ Secures(g, E) /\ Secures(h, E)
  BY DEF Kept
<1>8. Carried(E)'
  <2>1. ASSUME NEW m \in Nodes, NEW i \in 1..Len(log'[m]), log'[m][i][1] > E
        PROVE  Len(acked') < i /\ Begins(acked', log'[m])
    <3>1. CASE i \in 1..Len(log[m])
      <4>1. log[m][i][1] > E
        BY <1>4, <2>1, <3>1 DEF Begins
      <4>2. Len(acked) < i /\ Begins(acked, log[m])
        BY <1>7, <3>1, <4>1 DEF Carried
      <4>3. Len(acked') < i
        BY <1>0, <1>3, <4>2 DEF Begins
      <4>4. Begins(acked', log[m])
        BY <1>0, <1>3, <1>4, <4>2, BeginsTrans
      <4>5. QED
        BY <1>3, <1>4, <4>3, <4>4, BeginsTrans
    <3>2. CASE m = n /\ i = Len(log[n]) + 1
      BY <1>0, <1>3, <1>5, <3>2 DEF Begins
    <3>3. QED
      BY <1>1, <1>2, <3>1, <3>2, Appended
  <2>2. QED
    BY <2>1 DEF Carried
<1>9. Secures(g, E)' /\ Secures(h, E)'
  BY <1>1, <1>3, <1>4, <1>7, EpochType, HoldsGrows
<1>10. E \in minted'
  BY <1>1
<1>11. QED
  BY <1>3, <1>6, <1>7, <1>8, <1>9, <1>10 DEF Kept

LEMMA AckedStays ==
  ASSUME [Next]_vars, ~Mints, ~Writes,
         ~\E r \in Nodes : Replicate(r) \/ Transfer(r) \/ ConnectFollows(r)
  PROVE  acked' = acked
<1>1. CASE UNCHANGED vars
  BY <1>1 DEF vars, history
<1>2. CASE DataPlane
  BY <1>2 DEF DataPlane, Writes, LinkDrop, ConnectFences, ConnectDiverges, history
<1>3. CASE Processes
  BY <1>3 DEF Processes, Stop, Halt, RestartPrimary, Recover, RestartReplica, history
<1>4. CASE ControlPlane
  BY <1>4 DEF ControlPlane, Elect, DropVote, Heartbeat, Age, history
<1>5. CASE Promotion
  BY <1>5 DEF Promotion, Mints, Decide, Promote, Drain, Abandon, Halt, history
<1>6. QED
  BY <1>1, <1>2, <1>3, <1>4, <1>5 DEF Next

LEMMA KeptStep ==
  ASSUME Types, Elections, Lineage, Tenures, Archived, Kept, ~manual, [Next]_vars
  PROVE  Kept' /\ (Mints \/ Begins(acked, acked'))
<1>0. Types'
  BY TypesStep
<1>1. CASE Mints
  BY <1>0, <1>1, KeptMint DEF Mints
<1>2. CASE Writes
  BY <1>0, <1>2, KeptWrite DEF Writes
<1>3. CASE \E r \in Nodes : Replicate(r) \/ Transfer(r) \/ ConnectFollows(r)
  BY <1>0, <1>3, KeptSessions
<1>4. CASE ~Mints /\ ~Writes /\ ~\E r \in Nodes : Replicate(r) \/ Transfer(r) \/ ConnectFollows(r)
  <2>1. Quiet /\ acked' = acked
    BY <1>4, QuietStep, AckedStays
  <2>2. Begins(acked, acked')
    BY <2>1 DEF Begins, Kept
  <2>3. QED
    BY <1>0, <2>1, <2>2, KeptQuiet
<1>5. QED
  BY <1>1, <1>2, <1>3, <1>4

-----------------------------------------------------------------------------
(* The answers a leader holds.  While it holds one it stands still: its     *)
(* link is down and its journal and epoch do not change; the peers it heard *)
(* are in its term or past it, so unless all of them moved on no tenure has *)
(* opened since, and all that was acked is acked still.                     *)

Answers(n) == \E v \in Nodes : heard[n][v] # "none"
Level(n) == \E v \in Nodes : heard[n][v] = "level"
MovedOn(n) == \A v \in Nodes \ {n} : term[v] > term[n]

Judging(n) ==
  /\ link[n] = "down" /\ role[n] \in {"replica", "fenced"} /\ heard[n][n] = "none"
  /\ lead[n] => /\ \A v \in Nodes : heard[n][v] # "none" => term[v] >= term[n]
                /\ Begins(owed[n], acked) \/ MovedOn(n)
                /\ TruthfulTips(n) /\ Level(n) => Begins(owed[n], log[n])

OwedType == owed \in [Nodes -> Seq(Entry)] /\ blind \in [Nodes -> BOOLEAN]
Judged == OwedType /\ \A n \in Nodes : Answers(n) => Judging(n)

\* A step that leaves n and the answers it holds alone, or takes some away.
Keeps(n) ==
  /\ \A v \in Nodes : heard'[n][v] \in {heard[n][v], "none"}
  /\ owed'[n] = owed[n] /\ blind'[n] = blind[n] /\ log'[n] = log[n] /\ epoch'[n] = epoch[n]
  /\ (n \in bare' <=> n \in bare) /\ (link[n] = "down" => link'[n] = "down")
  /\ role'[n] \in {role[n], "fenced"}
  /\ lead'[n] => lead[n] /\ term'[n] = term[n]

LEMMA JudgingKeeps ==
  ASSUME Types, Types', Judged, acked \in Seq(Entry), acked' \in Seq(Entry),
         NEW n \in Nodes, Answers(n)', Keeps(n), \A v \in Nodes : term'[v] >= term[v],
         Begins(acked, acked') \/ (lead'[n] => MovedOn(n)')
  PROVE  Judging(n)'
<1>0. \A v \in Nodes : term[v] \in Int /\ term'[v] \in Int
  BY DEF Types, RaftType
<1>1. Answers(n)
  BY DEF Answers, Keeps
<1>2. Judging(n) /\ owed[n] \in Seq(Entry)
  BY <1>1 DEF Judged, OwedType
<1>3. link'[n] = "down" /\ role'[n] \in {"replica", "fenced"} /\ heard'[n][n] = "none"
  BY <1>2 DEF Judging, Keeps
<1>4. ASSUME lead'[n]
      PROVE  /\ \A v \in Nodes : heard'[n][v] # "none" => term'[v] >= term'[n]
             /\ Begins(owed'[n], acked') \/ MovedOn(n)'
             /\ (TruthfulTips(n) /\ Level(n))' => Begins(owed'[n], log'[n])
  <2>1. lead[n] /\ term'[n] = term[n] /\ owed'[n] = owed[n]
    BY <1>4 DEF Keeps
  <2>2. ASSUME NEW v \in Nodes, heard'[n][v] # "none" PROVE term'[v] >= term'[n]
    <3>1. heard[n][v] # "none"
      BY <2>2 DEF Keeps
    <3>2. term[v] >= term[n]
      BY <1>2, <2>1, <3>1 DEF Judging
    <3>3. term'[v] >= term[v]
      OBVIOUS
    <3>4. QED
      BY <1>0, <2>1, <3>2, <3>3
  <2>3. Begins(owed'[n], acked') \/ MovedOn(n)'
    <3>1. CASE MovedOn(n)
      <4>1. ASSUME NEW v \in Nodes \ {n} PROVE term'[v] > term'[n]
        <5>1. term[v] > term[n] /\ term'[v] >= term[v]
          BY <3>1 DEF MovedOn
        <5>2. QED
          BY <1>0, <2>1, <5>1
      <4>2. QED
        BY <4>1 DEF MovedOn
    <3>2. CASE Begins(owed[n], acked) /\ Begins(acked, acked')
      BY <1>2, <2>1, <3>2, BeginsTrans
    <3>3. QED
      BY <1>2, <1>4, <2>1, <3>1, <3>2 DEF Judging
  <2>4. ASSUME TruthfulTips(n)', Level(n)' PROVE Begins(owed'[n], log'[n])
    <3>1. TruthfulTips(n) /\ Level(n)
      BY <2>4 DEF TruthfulTips, Level, Keeps, EpochOf
    <3>2. QED
      BY <1>2, <2>1, <3>1 DEF Judging, Keeps
  <2>5. QED
    BY <2>2, <2>3, <2>4
<1>5. QED
  BY <1>3, <1>4 DEF Judging

LEMMA JudgedFrame ==
  ASSUME Types, Types', Judged, OwedType', acked \in Seq(Entry), acked' \in Seq(Entry),
         \A v \in Nodes : term'[v] >= term[v], Begins(acked, acked'),
         \A n \in Nodes : Answers(n)' => Keeps(n)
  PROVE  Judged'
<1>1. ASSUME NEW n \in Nodes, Answers(n)' PROVE Judging(n)'
  BY <1>1, JudgingKeeps
<1>2. QED
  BY <1>1 DEF Judged

LEMMA Forgotten ==
  ASSUME OwedType, NEW S, Forget(S)
  PROVE  /\ OwedType' /\ \A n \in Nodes : n \in S => ~Answers(n)'
         /\ \A n \in Nodes : n \notin S => heard'[n] = heard[n] /\ owed'[n] = owed[n] /\ blind'[n] = blind[n]
<1>1. OwedType'
  <2>1. owed' \in [Nodes -> Seq(Entry)]
    BY DEF Forget, OwedType
  <2>2. blind' \in [Nodes -> BOOLEAN]
    BY Zenon DEF Forget
  <2>3. QED
    BY <2>1, <2>2 DEF OwedType
<1>2. \A n \in Nodes : n \in S => ~Answers(n)'
  BY DEF Forget, Answers
<1>3. \A n \in Nodes : n \notin S => heard'[n] = heard[n] /\ owed'[n] = owed[n]
  BY DEF Forget
<1>4. ASSUME NEW n \in Nodes, n \notin S PROVE blind'[n] = blind[n]
  <2>1. blind'[n] = (blind[n] /\ n \notin S)
    BY DEF Forget
  <2>2. blind[n] \in BOOLEAN
    BY DEF OwedType
  <2>3. QED
    BY <1>4, <2>1, <2>2
<1>5. QED
  BY <1>1, <1>2, <1>3, <1>4

\* The answers stay, and nothing happens to a node that holds one.
LEMMA KeepsMesh ==
  ASSUME NEW n \in Nodes, heard'[n] = heard[n], owed'[n] = owed[n], blind'[n] = blind[n],
         log'[n] = log[n], epoch'[n] = epoch[n], (n \in bare' <=> n \in bare),
         link[n] = "down" => link'[n] = "down", role'[n] \in {role[n], "fenced"},
         lead'[n] => lead[n] /\ term'[n] = term[n]
  PROVE  Keeps(n)
BY DEF Keeps

Still == OwedType' /\ \A n \in Nodes : Answers(n)' => Keeps(n)

\* A step of r: to another node it does no more than end its session with a
\* process that stopped, or fence it.
Apart(r) ==
  \A n \in Nodes \ {r} :
    /\ log'[n] = log[n] /\ epoch'[n] = epoch[n] /\ (n \in bare' <=> n \in bare)
    /\ (link[n] = "down" => link'[n] = "down") /\ role'[n] \in {role[n], "fenced"}

LEMMA StillForget ==
  ASSUME Judged, Calm, NEW r \in Nodes, Forget({r}), Apart(r)
  PROVE  Still
<1>1. OwedType
  BY DEF Judged
<1>2. /\ OwedType' /\ ~Answers(r)'
      /\ \A n \in Nodes \ {r} : heard'[n] = heard[n] /\ owed'[n] = owed[n] /\ blind'[n] = blind[n]
  BY <1>1, Forgotten
<1>3. ASSUME NEW n \in Nodes, Answers(n)' PROVE Keeps(n)
  <2>1. n \in Nodes \ {r}
    BY <1>2, <1>3
  <2>2. QED
    BY <1>2, <2>1, KeepsMesh DEF Apart, Calm
<1>4. QED
  BY <1>2, <1>3 DEF Still

LEMMA StillMesh ==
  ASSUME Judged, Calm, NEW r \in Nodes, mesh' = mesh, Apart(r),
         ~(link[r] = "down" /\ role[r] \in {"replica", "fenced"})
  PROVE  Still
<1>1. heard' = heard /\ owed' = owed /\ blind' = blind
  BY DEF mesh
<1>2. OwedType' /\ ~Answers(r)'
  BY <1>1 DEF Judged, OwedType, Answers, Judging
<1>3. ASSUME NEW n \in Nodes, Answers(n)' PROVE Keeps(n)
  <2>1. n \in Nodes \ {r}
    BY <1>2, <1>3
  <2>2. QED
    BY <1>1, <2>1, KeepsMesh DEF Apart, Calm
<1>4. QED
  BY <1>2, <1>3 DEF Still

\* No journal changes and no session ends.
LEMMA StillFrame ==
  ASSUME Judged, Calm, mesh' = mesh, data' = data, link' = link, bare' = bare,
         \A n \in Nodes : role'[n] \in {role[n], "fenced"}
  PROVE  Still
<1>1. heard' = heard /\ owed' = owed /\ blind' = blind /\ log' = log /\ epoch' = epoch
  BY DEF mesh, data
<1>2. ASSUME NEW n \in Nodes PROVE Keeps(n)
  BY <1>1, KeepsMesh DEF Calm
<1>3. QED
  BY <1>1, <1>2 DEF Still, Judged, OwedType

LEMMA StillHalt ==
  ASSUME Types, Judged, Calm, NEW n \in Nodes, Halt(n)
  PROVE  Still
<1>1. /\ role' = [role EXCEPT ![n] = "down"] /\ epoch' = [epoch EXCEPT ![n] = 0]
      /\ link' = [r \in Nodes |-> IF r = n THEN "down"
                                  ELSE IF target[r] = n /\ link[r] # "down" THEN "lost"
                                  ELSE link[r]]
      /\ log' = log /\ bare' = bare /\ Forget({n})
      /\ role \in [Nodes -> Roles] /\ epoch \in [Nodes -> Nat]
  BY DEF Halt, history, Types, ProcessType, DataType
<1>2. Apart(n)
  BY <1>1 DEF Apart
<1>3. QED
  BY <1>1, <1>2, StillForget

LEMMA StillDataPlane ==
  ASSUME Types, Judged, Calm, DataPlane
  PROVE  Still
<1>0. /\ role \in [Nodes -> Roles] /\ link \in [Nodes -> {"down", "transfer", "up", "lost"}]
      /\ log \in [Nodes -> Seq(Entry)] /\ epoch \in [Nodes -> Nat]
  BY DEF Types, ProcessType, DataType
<1>1. ASSUME NEW r \in Nodes, Write(r) PROVE Still
  <2>1. Apart(r) /\ mesh' = mesh /\ role[r] = "serving"
    BY <1>0, <1>1 DEF Write, Apart, process, history, mesh
  <2>2. QED
    BY <2>1, StillMesh
<1>2. ASSUME NEW r \in Nodes, Replicate(r) PROVE Still
  <2>1. Apart(r) /\ mesh' = mesh /\ link[r] = "up"
    BY <1>0, <1>2 DEF Replicate, Apart, process, mesh
  <2>2. QED
    BY <2>1, StillMesh
<1>3. ASSUME NEW r \in Nodes, Transfer(r) PROVE Still
  <2>1. Apart(r) /\ mesh' = mesh /\ link[r] = "transfer"
    BY <1>0, <1>3 DEF Transfer, Apart, mesh
  <2>2. QED
    BY <2>1, StillMesh
<1>4. ASSUME NEW r \in Nodes, LinkDrop(r) PROVE Still
  <2>1. Apart(r) /\ Forget({r})
    BY <1>0, <1>4 DEF LinkDrop, Apart, data, history
  <2>2. QED
    BY <2>1, StillForget
<1>5. ASSUME NEW r \in Nodes, ConnectFences(r) PROVE Still
  <2>1. Apart(r) /\ Forget({r})
    BY <1>0, <1>5 DEF ConnectFences, Apart, data, history
  <2>2. QED
    BY <2>1, StillForget
<1>6. ASSUME NEW r \in Nodes, ConnectFollows(r) PROVE Still
  <2>1. Apart(r) /\ Forget({r})
    BY <1>0, <1>6 DEF ConnectFollows, Apart
  <2>2. QED
    BY <2>1, StillForget
<1>7. ASSUME NEW r \in Nodes, ConnectDiverges(r) PROVE Still
  <2>1. Apart(r) /\ Forget({r})
    BY <1>0, <1>7 DEF ConnectDiverges, Apart
  <2>2. QED
    BY <2>1, StillForget
<1>8. QED
  BY <1>1, <1>2, <1>3, <1>4, <1>5, <1>6, <1>7 DEF DataPlane

LEMMA StillProcesses ==
  ASSUME Types, Judged, Calm, Processes
  PROVE  Still
<1>0. role \in [Nodes -> Roles] /\ epoch \in [Nodes -> Nat]
  BY DEF Types, ProcessType, DataType
<1>1. ASSUME NEW n \in Nodes, RestartPrimary(n) \/ Recover(n) \/ \E t \in Nodes : RestartReplica(n, t)
      PROVE  Still
  <2>1. Apart(n) /\ mesh' = mesh /\ role[n] \in {"down", "recovering"}
    BY <1>0, <1>1 DEF RestartPrimary, Recover, RestartReplica, Apart, data, mesh, history
  <2>2. QED
    BY <2>1, StillMesh
<1>2. QED
  BY <1>1, StillHalt DEF Processes, Stop

LEMMA StillPromotion ==
  ASSUME Types, Judged, Calm, Promotion
  PROVE  Still
<1>0. /\ role \in [Nodes -> Roles] /\ epoch \in [Nodes -> Nat] /\ log \in [Nodes -> Seq(Entry)]
      /\ link \in [Nodes -> {"down", "transfer", "up", "lost"}]
  BY DEF Types, ProcessType, DataType
<1>1. ASSUME NEW n \in Nodes, Decide(n) \/ Promote(n) PROVE Still
  BY <1>1, StillFrame DEF Decide, Promote, history
<1>2. ASSUME NEW n \in Nodes, Drain(n) PROVE Still
  <2>1. CASE Halt(n)
    BY <2>1, StillHalt
  <2>2. CASE ~Halt(n)
    <3>1. Apart(n) /\ Forget({n})
      BY <1>0, <1>2, <2>2 DEF Drain, Apart, data, history
    <3>2. QED
      BY <3>1, StillForget
  <2>3. QED
    BY <2>1, <2>2
<1>3. ASSUME NEW n \in Nodes, Abandon(n) PROVE Still
  BY <1>3, StillHalt DEF Abandon
<1>4. ASSUME NEW n \in Nodes, NEW Q \in SUBSET (Nodes \ {n}), Mint(n, Q) PROVE Still
  <2>1. Apart(n) /\ mesh' = mesh /\ role[n] = "promoting"
    BY <1>0, <1>4 DEF Mint, Apart, mesh
  <2>2. QED
    BY <2>1, StillMesh
<1>5. QED
  BY <1>1, <1>2, <1>3, <1>4 DEF Promotion

\* An election: whoever voted in it starts anew.
LEMMA StillElect ==
  ASSUME Types, Judged, NEW n \in Nodes, NEW Q \in SUBSET Nodes, Elect(n, Q)
  PROVE  Still /\ \A v \in Nodes : term'[v] >= term[v]
<1>1. /\ Forget(Q \union {n}) /\ log' = log /\ epoch' = epoch /\ bare' = bare /\ link' = link
  BY DEF Elect, data, history
<1>2. \A v \in Nodes : role'[v] = role[v] \/ role'[v] = "fenced"
  BY HearingRoles DEF Elect
<1>3. PICK t \in 1..MaxTerm : /\ \A v \in Nodes : term[v] < t
                              /\ term' = [v \in Nodes |-> IF v \in Q \union {n} THEN t ELSE term[v]]
  BY ElectTerm DEF Types
<1>4. \A v \in Nodes : term'[v] >= term[v]
  BY <1>3, FailoverBounds DEF Types, RaftType
<1>5. OwedType /\ lead' = [v \in Nodes |-> IF v \in Q THEN FALSE ELSE v = n \/ lead[v]]
  BY DEF Judged, Elect
<1>6. /\ OwedType' /\ \A m \in Nodes : m \in Q \union {n} => ~Answers(m)'
      /\ \A m \in Nodes : m \notin Q \union {n} =>
           heard'[m] = heard[m] /\ owed'[m] = owed[m] /\ blind'[m] = blind[m]
  BY <1>1, <1>5, Forgotten
<1>7. ASSUME NEW m \in Nodes, Answers(m)' PROVE Keeps(m)
  <2>1. m \notin Q \union {n}
    BY <1>6, <1>7
  <2>2. term'[m] = term[m]
    BY <1>3, <2>1
  <2>3. lead'[m] => lead[m]
    BY <1>5, <2>1
  <2>4. QED
    BY <1>1, <1>2, <1>6, <2>1, <2>2, <2>3, KeepsMesh
<1>8. QED
  BY <1>4, <1>6, <1>7 DEF Still

\* A peer's answer ages.
LEMMA StillAge ==
  ASSUME Types, Judged, Calm, NEW n \in Nodes, NEW v \in Nodes, Age(n, v)
  PROVE  Still
<1>1. /\ log' = log /\ epoch' = epoch /\ bare' = bare /\ link' = link /\ role' = role
  BY DEF Age, process, data, history
<1>2. CASE Forget({n})
  BY <1>1, <1>2, StillForget DEF Apart
<1>3. CASE ~Forget({n})
  <2>1. heard' = [heard EXCEPT ![n][v] = "none"] /\ owed' = owed /\ blind' = blind
    BY <1>3 DEF Age
  <2>2. heard \in [Nodes -> [Nodes -> {"none", "level", "ahead"}]]
    BY DEF Types, MeshType
  <2>3. \A m \in Nodes : \A w \in Nodes : heard'[m][w] \in {heard[m][w], "none"}
    BY <2>1, <2>2
  <2>4. \A m \in Nodes : Keeps(m)
    BY <1>1, <2>1, <2>3 DEF Keeps, Calm
  <2>5. QED
    BY <2>1, <2>4 DEF Still, Judged, OwedType
<1>4. QED
  BY <1>2, <1>3

-----------------------------------------------------------------------------
(* Three voters: two nodes are a majority. *)

LEMMA PairIsMajor ==
  ASSUME Cardinality(Nodes) = 3, NEW a \in Nodes, NEW b \in Nodes, a # b
  PROVE  Major({a, b})
<1>1. IsFiniteSet({a}) /\ Cardinality({a}) = 1
  BY FS_Singleton
<1>2. Cardinality({a} \union {b}) = Cardinality({a}) + 1
  BY <1>1, FS_AddElement
<1>3. {a, b} = {a} \union {b}
  OBVIOUS
<1>4. QED
  BY <1>1, <1>2, <1>3 DEF Major

LEMMA OneIsNot ==
  ASSUME Cardinality(Nodes) = 3, NEW n \in Nodes
  PROVE  ~Major({n})
BY FS_Singleton DEF Major

\* A majority without m is everyone else.
LEMMA MajorWithout ==
  ASSUME Cardinality(Nodes) = 3, NEW m \in Nodes, NEW S \in SUBSET Nodes, m \notin S, Major(S)
  PROVE  S = Nodes \ {m}
<1> DEFINE T == Nodes \ {m}
<1>1. IsFiniteSet(T) /\ Cardinality(T) = 2
  BY FailoverBounds, FS_RemoveElement
<1>2. S \in SUBSET T
  OBVIOUS
<1>3. IsFiniteSet(S) /\ Cardinality(S) <= Cardinality(T) /\ (Cardinality(S) = Cardinality(T) => S = T)
  BY <1>1, <1>2, FS_Subset
<1>4. Cardinality(S) \in Nat
  BY <1>3, FS_CardinalityType
<1>5. Cardinality(S) = 2
  BY <1>1, <1>3, <1>4 DEF Major
<1>6. QED
  BY <1>1, <1>3, <1>5

\* A node whose journal reached its epoch, level with a peer that runs on a
\* journal it has not archived, holds all that is acked.
LEMMA LevelHoldsAcked ==
  ASSUME Cardinality(Nodes) = 3, Types, Lineage, Tenures, Kept, NEW n \in Nodes, NEW v \in Nodes,
         n # v, role[n] = "replica", role[v] \notin {"down", "recovering"}, n \notin bare,
         v \notin bare, EpochOf(log[n]) = epoch[n], ~Ahead(Tip(v), Tip(n))
  PROVE  Begins(acked, log[n])
<1>0. /\ log[n] \in Seq(Entry) /\ log[v] \in Seq(Entry) /\ Len(log[n]) \in Nat /\ Len(log[v]) \in Nat
      /\ epoch[n] \in Nat /\ epoch[v] \in Nat /\ acked \in Seq(Entry)
  BY LineageTypes DEF Kept
<1>1. PICK E \in minted, g \in Nodes, h \in Nodes : Carried(E) /\ g # h /\ Secures(g, E) /\ Secures(h, E)
  BY DEF Kept
<1>2. E \in Nat
  BY EpochType
<1>3. {n, v} \cap {g, h} # {}
  BY <1>1, PairIsMajor, MajorsMeet
<1>4. CASE n \in {g, h}
  BY <1>1, <1>4 DEF Secures, Holds
<1>5. CASE v \in {g, h}
  <2>1. Begins(acked, log[v])
    BY <1>1, <1>5 DEF Secures, Holds
  <2>2. PICK i \in 1..Len(log[v]) : log[v][i][1] >= E
    BY <1>1, <1>5 DEF Secures, Holds
  <2> DEFINE L == Len(log[v])
             j == Len(log[n])
             a == log[v][i][1]
             b == log[v][L][1]
  <2>3. L \in 1..L /\ a \in Nat /\ b \in Nat
    BY <1>0, <2>2, LineageTypes
  <2>4. a <= b /\ b <= epoch[v]
    BY <1>0, <2>2, <2>3 DEF Lineage, Journal
  <2>5. /\ epoch[v] <= epoch[n] /\ (epoch[v] = epoch[n] => L <= j)
    <3>1. Tip(v) = <<epoch[v], L>> /\ Tip(n) = <<epoch[n], j>>
      BY DEF Tip
    <3>2. QED
      BY <1>0, <3>1 DEF Ahead
  <2>6. log[n] # <<>>
    <3>1. SUFFICES ASSUME log[n] = <<>> PROVE FALSE
      OBVIOUS
    <3>2. epoch[n] = 0 /\ j = 0
      BY <3>1 DEF EpochOf
    <3>3. epoch[v] = epoch[n] /\ L <= 0
      BY <1>0, <2>5, <3>2
    <3>4. QED
      BY <1>0, <2>3, <3>3
  <2>7. j \in 1..j /\ log[n][j][1] = epoch[n]
    BY <1>0, <2>6 DEF EpochOf, Last
  <2>8. CASE epoch[n] > E
    BY <1>1, <2>7, <2>8 DEF Carried
  <2>9. CASE ~(epoch[n] > E)
    <3>1. a >= E
      BY <2>2
    <3> HIDE DEF a, b, L, j
    <3>2. b = epoch[n] /\ epoch[v] = epoch[n]
      BY ONLY <1>0, <1>2, <2>3, <2>4, <2>5, <2>9, <3>1
    <3>3. L <= j /\ log[v][L][1] = log[n][j][1]
      BY <2>5, <2>7, <3>2 DEF b
    <3>4. \A k \in 1..L : log[v][k] = log[n][k]
      BY <2>3, <2>7, <3>3 DEF Tenures, Matching, L, j
    <3>5. Begins(log[v], log[n])
      BY <3>3, <3>4 DEF Begins, L, j
    <3>6. QED
      BY <1>0, <2>1, <3>5, BeginsTrans
  <2>10. QED
    BY <2>8, <2>9
<1>6. QED
  BY <1>3, <1>4, <1>5

LEMMA AnswerEffect ==
  ASSUME Types, Judged, acked \in Seq(Entry), NEW n \in Nodes, NEW v \in Nodes, Answered(n, v)
  PROVE  /\ OwedType'
         /\ heard'[n][v] = (IF Ahead(Tip(v), Tip(n)) THEN "ahead" ELSE "level")
         /\ \A w \in Nodes \ {v} : heard'[n][w] = heard[n][w]
         /\ owed'[n] = (IF Answers(n) THEN owed[n] ELSE acked)
         /\ ~blind'[n] => ~blind[n] /\ role[v] # "recovering" /\ v \notin bare
         /\ \A m \in Nodes \ {n} : heard'[m] = heard[m] /\ owed'[m] = owed[m] /\ blind'[m] = blind[m]
<1>0. /\ heard \in [Nodes -> [Nodes -> {"none", "level", "ahead"}]]
      /\ owed \in [Nodes -> Seq(Entry)] /\ blind \in [Nodes -> BOOLEAN]
  BY DEF Types, MeshType, Judged, OwedType
<1> DEFINE c == IF Ahead(Tip(v), Tip(n)) THEN "ahead" ELSE "level"
           o == IF Answers(n) THEN owed[n] ELSE acked
           d == blind[n] \/ role[v] = "recovering" \/ v \in bare
<1>1. heard' = [heard EXCEPT ![n][v] = c]
  BY DEF Answered
<1>2. owed' = [owed EXCEPT ![n] = o]
  <2>1. owed' = [owed EXCEPT ![n] = IF \A w \in Nodes : heard[n][w] = "none" THEN acked ELSE owed[n]]
    BY <1>0 DEF Answered
  <2>2. (\A w \in Nodes : heard[n][w] = "none") <=> ~Answers(n)
    BY DEF Answers
  <2>3. QED
    BY <2>1, <2>2
<1>3. blind' = [blind EXCEPT ![n] = d]
  BY <1>0 DEF Answered
<1>4. o \in Seq(Entry) /\ d \in BOOLEAN
  BY <1>0
<1>5. OwedType'
  <2> HIDE DEF o, d
  <2>1. QED
    BY <1>0, <1>2, <1>3, <1>4 DEF OwedType
<1>6. ~blind'[n] => ~d
  <2> HIDE DEF d
  <2>1. QED
    BY <1>0, <1>3
<1>7. heard'[n][v] = c /\ \A w \in Nodes \ {v} : heard'[n][w] = heard[n][w]
  BY <1>0, <1>1
<1>8. owed'[n] = o
  BY <1>0, <1>2
<1>9. \A m \in Nodes \ {n} : heard'[m] = heard[m] /\ owed'[m] = owed[m] /\ blind'[m] = blind[m]
  <2> HIDE DEF c, o, d
  <2>1. QED
    BY <1>0, <1>1, <1>2, <1>3
<1>10. QED
  BY <1>5, <1>6, <1>7, <1>8, <1>9

\* The terms and the leaders after an answer of n's own term.
LEMMA HeartbeatTerms ==
  ASSUME Types, NEW n \in Nodes, NEW v \in Nodes, Heartbeat(n, v), term[v] <= term[n]
  PROVE  term'[n] = term[n] /\ term'[v] = term[n]
<1>0. term \in [Nodes -> 0..MaxTerm] /\ term[n] \in Int /\ term[v] \in Int /\ n # v
  BY FailoverBounds DEF Types, RaftType, Heartbeat
<1> DEFINE a == Max({term[v], term[n]})
           b == Max({term[n], term[v]})
<1>1. term' = [term EXCEPT ![v] = a, ![n] = b]
  BY <1>0 DEF Heartbeat
<1>2. a = term[n] /\ b = term[n]
  <2>1. /\ a = (IF term[v] >= term[n] THEN term[v] ELSE term[n])
        /\ b = (IF term[n] >= term[v] THEN term[n] ELSE term[v])
    BY <1>0, MaxOfTwo
  <2> HIDE DEF a, b
  <2>2. QED
    BY <1>0, <2>1
<1> HIDE DEF a, b
<1>3. QED
  BY <1>0, <1>1, <1>2

\* A leader takes an answer: it holds all that is acked, if it is level.
LEMMA JudgedAnswered ==
  ASSUME Cardinality(Nodes) = 3, Types, Types', Lineage, Tenures, Kept, Judged, Calm,
         NEW n \in Nodes, NEW v \in Nodes, Heartbeat(n, v), term[v] <= term[n], Counts(n), Answered(n, v)
  PROVE  Judged'
<1>0. /\ acked \in Seq(Entry) /\ \A w \in Nodes : term[w] \in Int /\ term'[w] \in Int
  BY DEF Kept, Types, RaftType
<1>1. /\ lead[n] /\ n # v /\ role[v] # "down" /\ log' = log /\ epoch' = epoch /\ bare' = bare
      /\ link' = link /\ acked' = acked
  BY DEF Heartbeat, data, history, Up
<1>2. role[n] = "replica" /\ link[n] = "down"
  BY DEF Counts
<1>3. \A m \in Nodes : role'[m] = role[m] \/ role'[m] = "fenced"
  BY HearingRoles DEF Heartbeat
<1>4. term'[n] = term[n] /\ term'[v] = term[n]
  BY HeartbeatTerms
<1>5. /\ OwedType'
      /\ heard'[n][v] = (IF Ahead(Tip(v), Tip(n)) THEN "ahead" ELSE "level")
      /\ \A w \in Nodes \ {v} : heard'[n][w] = heard[n][w]
      /\ owed'[n] = (IF Answers(n) THEN owed[n] ELSE acked)
      /\ ~blind'[n] => ~blind[n] /\ role[v] # "recovering" /\ v \notin bare
      /\ \A m \in Nodes \ {n} : heard'[m] = heard[m] /\ owed'[m] = owed[m] /\ blind'[m] = blind[m]
  BY <1>0, AnswerEffect
<1>6. Answers(n) => Judging(n)
  BY DEF Judged
<1>7. heard'[n][n] = "none"
  BY <1>1, <1>5, <1>6 DEF Answers, Judging
<1>8. ASSUME NEW w \in Nodes, heard'[n][w] # "none" PROVE term'[w] >= term'[n]
  <2>1. CASE w = v
    BY <1>0, <1>4, <2>1
  <2>2. CASE w # v
    <3>1. heard[n][w] # "none"
      BY <1>5, <1>8, <2>2
    <3>2. term[w] >= term[n]
      BY <1>1, <1>6, <3>1 DEF Answers, Judging
    <3>3. term'[w] >= term[w]
      BY DEF Calm
    <3>4. QED
      BY <1>0, <1>4, <3>2, <3>3
  <2>3. QED
    BY <2>1, <2>2
<1>9. Begins(owed'[n], acked)
  <2>1. CASE Answers(n)
    <3>1. ~MovedOn(n)
      BY <1>0, <1>1 DEF MovedOn
    <3>2. QED
      BY <1>1, <1>5, <1>6, <2>1, <3>1 DEF Judging
  <2>2. CASE ~Answers(n)
    BY <1>0, <1>5, <2>2 DEF Begins
  <2>3. QED
    BY <2>1, <2>2
<1>10. ASSUME TruthfulTips(n)', Level(n)' PROVE Begins(owed'[n], log[n])
  <2>1. /\ ~blind[n] /\ role[v] # "recovering" /\ v \notin bare /\ n \notin bare
        /\ EpochOf(log[n]) = epoch[n]
    BY <1>1, <1>5, <1>10 DEF TruthfulTips
  <2>2. CASE heard'[n][v] = "level"
    <3>1. ~Ahead(Tip(v), Tip(n))
      BY <1>5, <2>2
    <3>2. Begins(acked, log[n])
      BY <1>1, <1>2, <2>1, <3>1, LevelHoldsAcked
    <3>3. owed'[n] \in Seq(Entry) /\ log[n] \in Seq(Entry)
      BY <1>5, LogTypes DEF OwedType
    <3>4. QED
      BY <1>0, <1>9, <3>2, <3>3, BeginsTrans
  <2>3. CASE heard'[n][v] # "level"
    <3>1. PICK w \in Nodes \ {v} : heard'[n][w] = "level"
      BY <1>10, <2>3 DEF Level
    <3>2. heard[n][w] = "level"
      BY <1>5, <3>1
    <3>3. Answers(n) /\ Level(n) /\ TruthfulTips(n)
      BY <2>1, <3>2 DEF Answers, Level, TruthfulTips
    <3>4. QED
      BY <1>1, <1>5, <1>6, <3>3 DEF Judging
  <2>4. QED
    BY <2>2, <2>3
<1>11. Judging(n)'
  BY <1>1, <1>2, <1>3, <1>7, <1>8, <1>9, <1>10 DEF Judging
<1>12. ASSUME NEW m \in Nodes \ {n}, Answers(m)' PROVE Judging(m)'
  <2>1. Keeps(m)
    BY <1>1, <1>3, <1>5, KeepsMesh DEF Calm
  <2>2. Begins(acked, acked') /\ acked' \in Seq(Entry) /\ \A w \in Nodes : term'[w] >= term[w]
    BY <1>0, <1>1 DEF Begins, Calm
  <2>3. QED
    BY <1>0, <1>12, <2>1, <2>2, JudgingKeeps
<1>13. QED
  BY <1>5, <1>11, <1>12 DEF Judged

LEMMA StillHeartbeat ==
  ASSUME Types, Judged, Calm, NEW n \in Nodes, NEW v \in Nodes, Heartbeat(n, v),
         ~(term[v] <= term[n] /\ Counts(n))
  PROVE  Still
<1>1. /\ log' = log /\ epoch' = epoch /\ bare' = bare /\ link' = link
  BY DEF Heartbeat, data, history
<1>2. \A m \in Nodes : role'[m] = role[m] \/ role'[m] = "fenced"
  BY HearingRoles DEF Heartbeat
<1>3. Apart(n) /\ Apart(v)
  BY <1>1, <1>2 DEF Apart
<1>4. Forget({n}) \/ Forget({v})
  BY DEF Heartbeat
<1>5. QED
  BY <1>3, <1>4, StillForget

\* A tenure opens: a leader that still holds an answer has been left behind.
LEMMA JudgedMint ==
  ASSUME Cardinality(Nodes) = 3, Types, Types', Elections, Judged, acked \in Seq(Entry),
         acked' \in Seq(Entry), Calm, Still, ~manual, NEW n \in Nodes,
         NEW Q \in SUBSET (Nodes \ {n}), Mint(n, Q)
  PROVE  Judged'
<1>0. \A w \in Nodes : term[w] \in Int /\ term'[w] \in Int
  BY DEF Types, RaftType
<1>1. /\ lead[n] /\ Confirms(n, Q)
  BY MintFresh
<1>2. /\ Major(Q \union {n}) /\ \A v \in Q : term[v] <= term[n]
  BY <1>1 DEF Confirms
<1>3. /\ term' = [v \in Nodes |-> IF v \in Q THEN term[n] ELSE term[v]]
      /\ lead' = [v \in Nodes |-> lead[v] /\ (v \notin Q \/ v = n)] /\ role[n] = "promoting" /\ mesh' = mesh
  BY DEF Mint, mesh
<1>4. ASSUME NEW m \in Nodes, Answers(m)', lead'[m] PROVE MovedOn(m)'
  <2>1. Answers(m) /\ heard' = heard
    BY <1>3, <1>4 DEF Answers, mesh
  <2>2. Judging(m) /\ m # n
    BY <1>3, <2>1 DEF Judged, Judging
  <2>3. lead[m] /\ m \notin Q
    BY <1>3, <1>4, <2>2, Zenon
  <2>4. Q \union {n} = Nodes \ {m}
    BY <1>2, <2>2, <2>3, MajorWithout
  <2>5. PICK w \in Nodes : heard[m][w] # "none"
    BY <2>1 DEF Answers
  <2>6. w # m /\ term[w] >= term[m]
    BY <2>2, <2>3, <2>5 DEF Judging
  <2>7. term[w] <= term[n]
    BY <1>0, <1>2, <2>4, <2>6
  <2>8. term[m] # term[n]
    BY <1>1, <2>2, <2>3 DEF Elections, OneWinner
  <2>9. term[n] > term[m]
    BY <1>0, <2>6, <2>7, <2>8
  <2>10. term'[m] = term[m] /\ \A u \in Nodes \ {m} : term'[u] = term[n]
    BY <1>3, <2>3, <2>4
  <2>11. QED
    BY <2>9, <2>10 DEF MovedOn
<1>5. ASSUME NEW m \in Nodes, Answers(m)' PROVE Judging(m)'
  <2>1. Keeps(m) /\ \A w \in Nodes : term'[w] >= term[w]
    BY <1>5 DEF Still, Calm
  <2>2. lead'[m] => MovedOn(m)'
    BY <1>4, <1>5
  <2>3. QED
    BY <1>5, <2>1, <2>2, JudgingKeeps
<1>6. QED
  BY <1>5 DEF Judged, Still

LEMMA JudgedStep ==
  ASSUME Cardinality(Nodes) = 3, Types, Elections, Lineage, Tenures, Archived, Kept, Judged, ~manual,
         [Next]_vars
  PROVE  Judged'
<1>1. Types' /\ Kept' /\ (Mints \/ Begins(acked, acked'))
  BY TypesStep, KeptStep
<1>2. acked \in Seq(Entry) /\ acked' \in Seq(Entry)
  BY <1>1 DEF Kept
<1>3. ASSUME Still, ~Mints, \A v \in Nodes : term'[v] >= term[v] PROVE Judged'
  BY <1>1, <1>2, <1>3, JudgedFrame DEF Still
<1>4. CASE \E n \in Nodes : \E Q \in SUBSET Nodes : Elect(n, Q)
  <2>1. PICK n \in Nodes, Q \in SUBSET Nodes : Elect(n, Q)
    BY <1>4
  <2>2. Begins(acked, acked')
    BY <1>2, <2>1 DEF Elect, history, Begins
  <2>3. Still /\ \A v \in Nodes : term'[v] >= term[v]
    BY <2>1, StillElect
  <2>4. QED
    BY <1>1, <1>2, <2>2, <2>3, JudgedFrame DEF Still
<1>5. CASE ~\E n \in Nodes : \E Q \in SUBSET Nodes : Elect(n, Q)
  <2>1. Calm /\ \A v \in Nodes : term'[v] >= term[v]
    BY <1>5, CalmStep DEF Elections, Calm
  <2>2. CASE Mints
    <3>0. PICK n \in Nodes : \E R \in SUBSET (Nodes \ {n}) : Mint(n, R)
      BY <2>2 DEF Mints
    <3>1. PICK Q \in SUBSET (Nodes \ {n}) : Mint(n, Q)
      BY <3>0
    <3>2. Still
      BY <2>1, <3>1, StillPromotion DEF Promotion
    <3>3. QED
      BY <1>1, <1>2, <2>1, <3>1, <3>2, JudgedMint
  <2>3. CASE ~Mints
    <3>1. CASE UNCHANGED vars
      <4>1. Still
        BY <2>1, <3>1, StillFrame DEF vars, process, history
      <4>2. QED
        BY <1>3, <2>1, <2>3, <4>1
    <3>2. CASE DataPlane \/ Processes \/ Promotion
      BY <1>3, <2>1, <2>3, <3>2, StillDataPlane, StillProcesses, StillPromotion
    <3>3. ASSUME NEW n \in Nodes, NEW v \in Nodes, DropVote(n, v) PROVE Judged'
      <4>1. \A m \in Nodes : role'[m] \in {role[m], "fenced"}
        BY <3>3, HearingRoles DEF DropVote
      <4>2. Still
        BY <2>1, <3>3, <4>1, StillFrame DEF DropVote, history
      <4>3. QED
        BY <1>3, <2>1, <2>3, <4>2
    <3>4. ASSUME NEW n \in Nodes, NEW v \in Nodes, Heartbeat(n, v) PROVE Judged'
      <4>1. CASE term[v] <= term[n] /\ Counts(n)
        <5>1. Answered(n, v)
          BY <3>4, <4>1 DEF Heartbeat
        <5>2. QED
          BY <1>1, <2>1, <3>4, <4>1, <5>1, JudgedAnswered
      <4>2. CASE ~(term[v] <= term[n] /\ Counts(n))
        BY <1>3, <2>1, <2>3, <3>4, <4>2, StillHeartbeat
      <4>3. QED
        BY <4>1, <4>2
    <3>5. ASSUME NEW n \in Nodes, NEW v \in Nodes, Age(n, v) PROVE Judged'
      BY <1>3, <2>1, <2>3, <3>5, StillAge
    <3>6. QED
      BY <1>5, <3>1, <3>2, <3>3, <3>4, <3>5 DEF Next, ControlPlane
  <2>4. QED
    BY <2>2, <2>3
<1>6. QED
  BY <1>4, <1>5

-----------------------------------------------------------------------------
(* The decision *)

Trusted == Tenures /\ Archived /\ Kept /\ Judged

LEMMA TrustedInit ==
  ASSUME Init
  PROVE  Trusted
<1>0. Genesis \in Nodes /\ <<0, Genesis>> \in Entry /\ IsFiniteSet(Nodes) /\ Cardinality(Nodes) >= 3
  BY FailoverBounds DEF Entry
<1> DEFINE s == <<<<0, Genesis>>>>
<1>1. s \in Seq(Entry) /\ Len(s) = 1 /\ s[1] = <<0, Genesis>>
  BY <1>0
<1>2. /\ (\A n \in Nodes : log[n] = s) /\ acked = s /\ minted = {0} /\ epoch = [n \in Nodes |-> 0]
      /\ target = [n \in Nodes |-> Genesis] /\ bare = {}
      /\ role = [n \in Nodes |-> IF n = Genesis THEN "serving" ELSE "replica"]
      /\ link = [n \in Nodes |-> IF n = Genesis THEN "down" ELSE "up"]
      /\ heard = [n \in Nodes |-> [v \in Nodes |-> "none"]]
      /\ owed = [n \in Nodes |-> <<>>] /\ blind = [n \in Nodes |-> FALSE]
  BY DEF Init
<1> HIDE DEF s
<1>3. Matching
  BY <1>2 DEF Matching
<1>4. ASSUME NEW p \in Nodes, Owner(p) PROVE Owned(p)
  <2>1. p = Genesis /\ role[p] = "serving" /\ epoch[p] = 0 /\ Ends(p) = <<0, Genesis>>
    BY <1>1, <1>2, <1>4 DEF Owner, Ends
  <2>2. Len(log[p]) = 1 /\ Ends(p)[1] = 0 /\ Ends(p)[2] = p
    BY <1>1, <1>2, <2>1
  <2>3. \A m \in Nodes : \A i \in 1..Len(log[m]) : i <= Len(log[p])
    BY <1>1, <1>2
  <2>4. QED
    BY <2>1, <2>2, <2>3 DEF Owned, Following
<1>5. Archived
  BY <1>2 DEF Archived
<1>6. \A n \in Nodes : Begins(acked, log[n])
  BY <1>1, <1>2 DEF Begins
<1>7. Carried(0)
  <2>1. ASSUME NEW m \in Nodes, NEW i \in 1..Len(log[m]) PROVE ~(log[m][i][1] > 0)
    BY <1>1, <1>2
  <2>2. QED
    BY <2>1 DEF Carried
<1>8. PICK g \in Nodes, h \in Nodes : g # h
  <2>1. SUFFICES ASSUME \A g \in Nodes : g = Genesis PROVE FALSE
    BY <1>0
  <2>2. Nodes = {Genesis}
    BY <1>0, <2>1
  <2>3. Cardinality(Nodes) = 1
    BY <2>2, FS_Singleton
  <2>4. QED
    BY <1>0, <2>3
<1>9. Holds(g, 0) /\ Holds(h, 0)
  <2>1. ASSUME NEW n \in Nodes PROVE Holds(n, 0)
    <3>0. Len(log[n]) = 1 /\ log[n][1] = <<0, Genesis>>
      BY <1>1, <1>2
    <3>1. 1 \in 1..Len(log[n]) /\ log[n][1][1] >= 0
      BY <3>0
    <3>2. QED
      BY <1>6, <3>1 DEF Holds
  <2>2. QED
    BY <2>1
<1>10. Kept
  <2>1. Secures(g, 0) /\ Secures(h, 0) /\ 0 \in minted /\ acked \in Seq(Entry) /\ Leading
    BY <1>1, <1>2, <1>6, <1>9 DEF Secures, Leading
  <2>2. QED
    BY <1>7, <1>8, <2>1 DEF Kept
<1>11. Judged
  BY <1>2 DEF Judged, OwedType, Answers
<1>12. QED
  BY <1>3, <1>4, <1>5, <1>10, <1>11 DEF Trusted, Tenures

\* A command is never taken back.
LEMMA ManualStays ==
  ASSUME [Next]_vars, manual
  PROVE  manual'
<1>1. CASE UNCHANGED vars
  BY <1>1 DEF vars, history
<1>2. CASE DataPlane
  BY <1>2 DEF DataPlane, Write, Replicate, Transfer, LinkDrop, ConnectFences, ConnectFollows,
              ConnectDiverges, history
<1>3. CASE Processes
  BY <1>3 DEF Processes, Stop, Halt, RestartPrimary, Recover, RestartReplica, history
<1>4. CASE ControlPlane
  BY <1>4 DEF ControlPlane, Elect, DropVote, Heartbeat, Age, history
<1>5. CASE Promotion
  BY <1>5 DEF Promotion, Decide, Promote, Drain, Abandon, Halt, Mint, history
<1>6. QED
  BY <1>1, <1>2, <1>3, <1>4, <1>5 DEF Next

\* The one step that files an election's promotion is its decision.
LEMMA FilesDecides ==
  ASSUME Types, [Next]_vars, NEW n \in Nodes, Files(n)
  PROVE  Decide(n)
<1>0. req \in [Nodes -> {Manual} \union (0..MaxTerm)] /\ req[n] = 0 /\ req'[n] > 0
  BY DEF Types, ProcessType, Files
<1>1. req'[n] # req[n] /\ req'[n] # 0 /\ req'[n] # Manual
  BY <1>0 DEF Manual
<1>2. CASE UNCHANGED vars
  BY <1>1, <1>2 DEF vars, process
<1>3. CASE DataPlane
  BY <1>1, <1>3 DEF DataPlane, Write, Replicate, Transfer, LinkDrop, ConnectFences, ConnectFollows,
                    ConnectDiverges, process
<1>4. ASSUME NEW m \in Nodes, Halt(m) PROVE FALSE
  BY <1>0, <1>1, <1>4 DEF Halt
<1>5. CASE Processes
  BY <1>1, <1>4, <1>5 DEF Processes, Stop, RestartPrimary, Recover, RestartReplica
<1>6. CASE ControlPlane
  BY <1>1, <1>6 DEF ControlPlane, Elect, DropVote, Heartbeat, Age, process
<1>7. CASE Promotion
  <2>1. ASSUME NEW m \in Nodes, Promote(m) PROVE FALSE
    BY <1>0, <1>1, <2>1 DEF Promote
  <2>2. ASSUME NEW m \in Nodes, Drain(m) \/ Abandon(m) PROVE FALSE
    BY <1>1, <1>4, <2>2 DEF Drain, Abandon
  <2>3. ASSUME NEW m \in Nodes, NEW Q \in SUBSET (Nodes \ {m}), Mint(m, Q) PROVE FALSE
    BY <1>0, <1>1, <2>3 DEF Mint
  <2>4. ASSUME NEW m \in Nodes, Decide(m), m # n PROVE FALSE
    BY <1>0, <1>1, <2>4 DEF Decide
  <2>5. QED
    BY <1>7, <2>1, <2>2, <2>3, <2>4 DEF Promotion
<1>8. QED
  BY <1>2, <1>3, <1>5, <1>6, <1>7 DEF Next

\* In a cluster of three voters, in every behaviour and as long as no
\* operator's PROMOTE was given, a promotion that an election files lands on a
\* node that holds every entry acked before the first answer it judged by, if
\* every tip it judged by stands for the journal behind it: the leader lease
\* and the journal-safety veto together are enough, whatever crashed,
\* restarted or was fenced before (auto_promotion_decision, PeerTips).
THEOREM TruthfulDecisionAlwaysHoldsAcked ==
  ASSUME Cardinality(Nodes) = 3
  PROVE  Spec => TruthfulDecisionHoldsAcked
<1> DEFINE Inv == Types /\ Elections /\ Lineage /\ (~manual => Trusted)
<1>1. Init => Inv
  BY TypesInit, ElectionsInit, LineageInit, TrustedInit
<1>2. Inv /\ [Next]_vars => Inv'
  <2> SUFFICES ASSUME Types, Elections, Lineage, ~manual => Trusted, [Next]_vars
               PROVE  Types' /\ Elections' /\ Lineage' /\ (~manual' => Trusted')
    OBVIOUS
  <2>1. Types' /\ Elections' /\ Lineage'
    BY TypesStep, ElectionsStep, LineageStep
  <2>2. ASSUME ~manual' PROVE Trusted'
    <3>1. ~manual /\ Tenures /\ Archived /\ Kept /\ Judged
      BY <2>2, ManualStays DEF Trusted
    <3>2. Tenures' /\ Archived' /\ Kept' /\ Judged'
      BY <3>1, TenuresStep, ArchivedStep, KeptStep, JudgedStep
    <3>3. QED
      BY <3>2 DEF Trusted
  <2>3. QED
    BY <2>1, <2>2
<1>3. ASSUME Types, ~manual => Trusted, [Next]_vars
      PROVE  \A n \in Nodes : ~manual /\ Files(n) /\ TruthfulTips(n) => HoldsAcked(n)
  <2>1. ASSUME NEW n \in Nodes, ~manual, Files(n), TruthfulTips(n) PROVE HoldsAcked(n)
    <3>1. Decide(n) /\ Judged
      BY <1>3, <2>1, FilesDecides DEF Trusted
    <3>2. lead[n] /\ Leased(n) /\ NotBehind(n)
      BY <3>1 DEF Decide
    <3>3. Answers(n)
      <4>1. SUFFICES ASSUME ~Answers(n) PROVE FALSE
        OBVIOUS
      <4>2. {n} \union {v \in Nodes : heard[n][v] # "none"} = {n}
        BY <4>1 DEF Answers
      <4>3. QED
        BY <3>2, <4>2, OneIsNot DEF Leased
    <3>4. Level(n)
      BY <1>3, <3>2, <3>3 DEF NotBehind, Answers, Level, Types, MeshType
    <3>5. Begins(owed[n], log[n])
      BY <2>1, <3>1, <3>2, <3>3, <3>4 DEF Judged, Judging
    <3>6. owed[n] \in Seq(Entry) /\ log[n] \in Seq(Entry)
      BY <1>3, <3>1, LogTypes DEF Judged, OwedType
    <3>7. QED
      BY <3>5, <3>6, PrefixIsBegins DEF HoldsAcked
  <2>2. QED
    BY <2>1
<1>4. QED
  BY <1>1, <1>2, <1>3, PTL DEF Spec, TruthfulDecisionHoldsAcked
=============================================================================
