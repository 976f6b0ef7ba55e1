------------------------- MODULE JournalStage_proofs -------------------------
(***************************************************************************)
(* The journal stage for any number of slots, batch size, ring depth and   *)
(* failed rotations: what the two threads publish is on disk, a stop drops *)
(* nothing, and a replica's segments are the primary's.                    *)
(***************************************************************************)
EXTENDS JournalStage, FiniteSetTheorems, SequenceTheorems, TLAPS

-----------------------------------------------------------------------------
(* Counting entries *)

Kinds == {"entry", "query", "shutdown"}

\* The entries among the first p of the slots s: SeqAt, for slots that change.
Count(s, p) == Cardinality({i \in 1..p : s[i] = "entry"})

LEMMA CountFinite ==
  ASSUME NEW s, NEW p \in Nat
  PROVE  /\ IsFiniteSet({i \in 1..p : s[i] = "entry"}) /\ Count(s, p) \in Nat
         /\ Count(s, p) <= p
<1>1. IsFiniteSet(1..p) /\ Cardinality(1..p) = p
  BY FS_Interval
<1>2. {i \in 1..p : s[i] = "entry"} \subseteq 1..p
  OBVIOUS
<1>3. IsFiniteSet({i \in 1..p : s[i] = "entry"}) /\ Cardinality({i \in 1..p : s[i] = "entry"}) <= p
  BY <1>1, <1>2, FS_Subset
<1>4. QED
  BY <1>3, FS_CardinalityType DEF Count

LEMMA CountGrows ==
  ASSUME NEW s, NEW p \in Nat, NEW q \in Nat, p <= q
  PROVE  Count(s, p) <= Count(s, q)
<1>1. {i \in 1..p : s[i] = "entry"} \subseteq {i \in 1..q : s[i] = "entry"}
  OBVIOUS
<1>2. QED
  BY <1>1, CountFinite, FS_Subset DEF Count

LEMMA CountSame ==
  ASSUME NEW s, NEW p \in Nat, NEW q \in Nat, p <= q,
         \A i \in (p + 1)..q : s[i] # "entry"
  PROVE  Count(s, p) = Count(s, q)
<1>1. {i \in 1..p : s[i] = "entry"} = {i \in 1..q : s[i] = "entry"}
  OBVIOUS
<1>2. QED
  BY <1>1 DEF Count

LEMMA CountAll ==
  ASSUME NEW s, NEW p \in Nat, \A i \in 1..p : s[i] = "entry"
  PROVE  Count(s, p) = p
<1>1. {i \in 1..p : s[i] = "entry"} = 1..p
  OBVIOUS
<1>2. Cardinality(1..p) = p
  BY FS_Interval
<1>3. QED
  BY <1>1, <1>2 DEF Count

LEMMA CountAppend ==
  ASSUME NEW s \in Seq(Kinds), NEW x \in Kinds, NEW p \in Nat, p <= Len(s)
  PROVE  Count(Append(s, x), p) = Count(s, p)
<1>1. \A i \in 1..p : Append(s, x)[i] = s[i]
  OBVIOUS
<1>2. {i \in 1..p : s[i] = "entry"} = {i \in 1..p : Append(s, x)[i] = "entry"}
  BY <1>1
<1>3. QED
  BY <1>2 DEF Count

LEMMA SeqAtCounts == \A p : SeqAt(p) = Count(slots, p)
BY DEF SeqAt, Count

LEMMA AtCounts == At = Count(slots, pos)
BY DEF At, SeqAt, Count

LEMMA NextAtCounts == At' = Count(slots', pos')
BY DEF At, SeqAt, Count

-----------------------------------------------------------------------------
(* Least and greatest *)

LEMMA MinOfTwo ==
  ASSUME NEW a \in Int, NEW b \in Int
  PROVE  Min({a, b}) = IF a <= b THEN a ELSE b
<1>1. \E x \in {a, b} : \A y \in {a, b} : x <= y
  OBVIOUS
<1>2. Min({a, b}) \in {a, b} /\ \A y \in {a, b} : Min({a, b}) <= y
  BY <1>1 DEF Min
<1>3. QED
  BY <1>2

LEMMA MinOfSet ==
  ASSUME NEW S \in SUBSET Nat, S # {}
  PROVE  Min(S) \in S /\ \A y \in S : Min(S) <= y
<1>1. \E x \in S : \A y \in S : ~(<<y, x>> \in OpToRel(<, Nat))
  BY WFMin, NatLessThanWellFounded
<1>2. PICK x \in S : \A y \in S : ~(y < x)
  BY <1>1 DEF OpToRel
<1>3. \A y \in S : x <= y
  BY <1>2
<1>4. QED
  BY <1>3 DEF Min

LEMMA MaxIs ==
  ASSUME NEW S \in SUBSET Int, NEW m \in S, \A y \in S : y <= m
  PROVE  Max(S) = m
<1>1. Max(S) \in S /\ \A y \in S : Max(S) >= y
  BY DEF Max
<1>2. Max(S) >= m /\ Max(S) <= m /\ Max(S) \in Int /\ m \in Int
  BY <1>1
<1>3. QED
  BY ONLY <1>2

-----------------------------------------------------------------------------
(* Types *)

MarkType == [kind : {"rotate", "check"}, seq : 1..MaxSlots]
HeldType == [kind : {"none", "rotate", "check"}, seq : 0..MaxSlots]
BatchType == [base : Nat, seq : Nat, ring : Nat]
RotationType == [kind : {"idle", "requested", "ok", "failed"}, start : 0..(MaxSlots + 1)]

Places == {"top", "refresh", "encode", "barrier", "sync", "rotate?", "tail", "drain", "resolve",
           "quiesce", "await", "finish", "halt", "join", "done", "failed"}
Calls == {"none", "inline", "barrier", "idle", "sync", "local"}
DiskPlaces == {"loop", "stage", "write", "sync", "progress", "fsync state", "durable", "release",
               "poison", "latch", "rendezvous", "exited"}

FixedType ==
  /\ role \in Roles /\ boundaries \in SUBSET (1..MaxSlots) /\ diverged \in BOOLEAN

UpstreamType ==
  /\ slots \in Seq(Kinds) /\ Len(slots) <= MaxSlots /\ announced \in 0..2
  /\ marks \in Seq(MarkType) /\ firstMark \in 0..MaxSlots

SequencerType ==
  /\ pc \in Places /\ from \in Calls
  /\ pos \in Nat /\ readEnd \in Nat /\ handed \in Nat
  /\ pos <= readEnd /\ readEnd <= Len(slots) /\ handed <= Len(slots)
  /\ segStart \in Nat /\ pendingMark \in HeldType
  /\ backoff \in {"none", "open", "expired"} /\ drainFrom \in 0..(MaxSlots + 1)

HandOffType == batches \in Seq(BatchType) /\ rotation \in RotationType

\* The places of the disk thread where it has batches staged.
Staging == {"write", "sync", "progress", "fsync state", "durable", "release", "poison", "latch"}

DiskType ==
  /\ dpc \in DiskPlaces /\ staged \in Nat /\ placed \in Seq(Nat)
  /\ dpc \in Staging => staged \in 1..Len(batches)
  /\ synced \in Nat /\ live \in Nat
  /\ progress \in Nat /\ durable \in Nat /\ fsync \in [seq : Nat, ring : Nat]

Flags ==
  /\ compared \in BOOLEAN /\ shutdown \in BOOLEAN /\ rotateRequested \in BOOLEAN
  /\ claim \in BOOLEAN /\ sawShutdown \in BOOLEAN
  /\ stop \in BOOLEAN /\ poisoned \in BOOLEAN /\ cause \in BOOLEAN /\ stopSampled \in BOOLEAN

Types == FixedType /\ UpstreamType /\ SequencerType /\ HandOffType /\ DiskType /\ Flags


LEMMA TypesInit ==
  ASSUME Init
  PROVE  Types
<1>0. MaxSlots \in Nat /\ Roles \subseteq {"primary", "replica"}
  BY JournalStageBounds
<1>1. FixedType
  <2>1. role \in Roles /\ diverged \in BOOLEAN
    BY DEF Init
  <2>2. boundaries \in SUBSET (1..MaxSlots)
    <3>1. boundaries \subseteq 1..(MaxSlots - 1)
      BY DEF Init
    <3>2. 1..(MaxSlots - 1) \subseteq 1..MaxSlots
      BY <1>0
    <3>3. QED
      BY <3>1, <3>2
  <2>3. QED
    BY <2>1, <2>2 DEF FixedType
<1>2. UpstreamType
  <2>1. slots = <<>> /\ marks = <<>> /\ announced = 0 /\ firstMark = 0
    BY DEF Init
  <2>2. Len(<<>>) = 0 /\ <<>> \in Seq(Kinds) /\ <<>> \in Seq(MarkType)
    OBVIOUS
  <2>3. QED
    BY <1>0, <2>1, <2>2 DEF UpstreamType
<1>3. SequencerType
  <2>1. /\ pc = "top" /\ from = "none" /\ pos = 0 /\ readEnd = 0 /\ handed = 0 /\ segStart = 1
        /\ pendingMark = [kind |-> "none", seq |-> 0] /\ backoff = "none" /\ drainFrom = MaxSlots + 1
        /\ slots = <<>>
    BY DEF Init, NoMark
  <2>2. Len(<<>>) = 0
    OBVIOUS
  <2>3. pendingMark \in HeldType /\ drainFrom \in 0..(MaxSlots + 1)
    BY <1>0, <2>1 DEF HeldType
  <2>4. QED
    BY <2>1, <2>2, <2>3 DEF SequencerType, Places, Calls
<1>4. HandOffType
  <2>1. <<>> \in Seq(BatchType)
    OBVIOUS
  <2>2. batches = <<>> /\ rotation = [kind |-> "idle", start |-> 0]
    BY DEF Init, RotateSlot
  <2>3. rotation \in RotationType
    BY <1>0, <2>2 DEF RotationType
  <2>4. QED
    BY <2>1, <2>2, <2>3 DEF HandOffType
<1>5. DiskType
  <2>1. <<>> \in Seq(Nat)
    OBVIOUS
  <2>2. QED
    BY <2>1 DEF Init, DiskType, DiskPlaces, Staging
<1>6. Flags
  BY DEF Init, Flags
<1>7. QED
  BY <1>1, <1>2, <1>3, <1>4, <1>5, <1>6 DEF Types

LEMMA FixedFrame ==
  ASSUME FixedType, lineage' = lineage
  PROVE  FixedType'
BY DEF FixedType, lineage

LEMMA DiskFrame ==
  ASSUME DiskType, disk' = disk, Len(batches') \in Nat, Len(batches) \in Nat,
         Len(batches') >= Len(batches)
  PROVE  DiskType'
<1>1. dpc' \in Staging => staged' \in 1..Len(batches')
  BY DEF DiskType, disk
<1>2. QED
  BY <1>1 DEF DiskType, disk, cursors

LEMMA SequencerFrame ==
  ASSUME SequencerType, sequencer' = sequencer, Len(slots') >= Len(slots), Len(slots') \in Nat,
         Len(slots) \in Nat
  PROVE  SequencerType'
<1>1. /\ pos' = pos /\ readEnd' = readEnd /\ handed' = handed /\ pc' = pc /\ from' = from
      /\ segStart' = segStart /\ pendingMark' = pendingMark /\ backoff' = backoff
      /\ drainFrom' = drainFrom
  BY DEF sequencer
<1>2. readEnd' <= Len(slots') /\ handed' <= Len(slots')
  BY <1>1 DEF SequencerType
<1>3. QED
  BY <1>1, <1>2 DEF SequencerType

LEMMA HandOffFrame ==
  ASSUME HandOffType, handOff' = handOff
  PROVE  HandOffType'
BY DEF HandOffType, handOff

LEMMA MarkTyped ==
  ASSUME NEW m \in MarkType
  PROVE  m \in HeldType /\ m.kind \in {"rotate", "check"} /\ m.seq \in 1..MaxSlots
<1>1. m.kind \in {"rotate", "check"} /\ m.seq \in 1..MaxSlots /\ m = [kind |-> m.kind, seq |-> m.seq]
  BY DEF MarkType
<1>2. m.seq \in 0..MaxSlots
  BY <1>1, JournalStageBounds
<1>3. QED
  BY <1>1, <1>2 DEF HeldType

LEMMA TypesUpstream ==
  ASSUME Types, Upstream
  PROVE  Types'
<1>0. FixedType /\ UpstreamType /\ SequencerType /\ HandOffType /\ DiskType /\ Flags
  BY DEF Types
<1>a. MaxSlots \in Nat /\ slots \in Seq(Kinds) /\ Len(slots) \in Nat /\ Len(slots) <= MaxSlots
  BY <1>0, JournalStageBounds DEF UpstreamType
<1>b. batches' = batches /\ Len(batches) \in Nat
  BY <1>0 DEF HandOffType, Upstream, PublishEntry, PublishQuery, PublishSentinel, Publish, QueueRotate,
              QueueChainCheck, QueueStreamMark, AskRotation, RaiseShutdown, handOff
<1>c. disk' = disk => DiskType'
  BY <1>0, <1>b, DiskFrame
<1>1. ASSUME NEW kind \in Kinds, Publish(kind) PROVE Types'
  <2>1. slots' = Append(slots, kind) /\ Len(slots) < MaxSlots
    BY <1>1 DEF Publish
  <2>2. slots' \in Seq(Kinds) /\ Len(slots') = Len(slots) + 1
    BY <1>a, <2>1
  <2>3. UpstreamType'
    BY <1>0, <1>1, <1>a, <2>1, <2>2 DEF Publish, UpstreamType
  <2>4. SequencerType'
    BY <1>0, <1>1, <1>a, <2>2, SequencerFrame DEF Publish
  <2>5. Flags'
    BY <1>0, <1>1 DEF Publish, Flags, sequencer, handOff, disk
  <2>6. QED
    BY <1>0, <1>1, <1>c, <2>3, <2>4, <2>5, FixedFrame, HandOffFrame DEF Publish, Types
<1>2. ASSUME QueueRotate \/ QueueChainCheck PROVE Types'
  <2> DEFINE m == IF QueueRotate THEN Mark("rotate", Len(slots)) ELSE Mark("check", Len(slots))
  <2>1. QueueStreamMark(m) /\ Len(slots) \in 1..MaxSlots
    BY <1>0, <1>2, <1>a DEF QueueRotate, QueueChainCheck, FixedType
  <2>2. m \in MarkType
    BY <2>1 DEF MarkType, Mark
  <2> HIDE DEF m
  <2>3. marks' = Append(marks, m) /\ slots' = slots /\ firstMark' \in {m.seq, firstMark}
    BY <2>1 DEF QueueStreamMark
  <2>4. marks' \in Seq(MarkType)
    BY <1>0, <2>2, <2>3 DEF UpstreamType
  <2>5. firstMark' \in 0..MaxSlots
    BY <1>0, <1>a, <2>2, <2>3, MarkTyped DEF UpstreamType
  <2>6. announced' \in 0..2
    BY <1>0, <1>2 DEF QueueRotate, QueueChainCheck, UpstreamType
  <2>7. UpstreamType'
    BY <1>0, <2>3, <2>4, <2>5, <2>6 DEF UpstreamType
  <2>8. SequencerType'
    BY <1>0, <1>a, <2>1, <2>3, SequencerFrame DEF QueueStreamMark
  <2>9. Flags'
    BY <1>0, <1>2, <2>1 DEF QueueRotate, QueueChainCheck, QueueStreamMark, Flags, sequencer, handOff, disk
  <2>10. QED
    BY <1>0, <1>c, <2>1, <2>7, <2>8, <2>9, FixedFrame, HandOffFrame DEF QueueStreamMark, Types
<1>3. ASSUME AskRotation \/ RaiseShutdown PROVE Types'
  <2>1. UpstreamType'
    BY <1>0, <1>3 DEF AskRotation, RaiseShutdown, UpstreamType
  <2>2. SequencerType'
    BY <1>0, <1>3, <1>a, SequencerFrame DEF AskRotation, RaiseShutdown
  <2>3. Flags'
    BY <1>0, <1>3 DEF AskRotation, RaiseShutdown, Flags, sequencer, handOff, disk
  <2>4. QED
    BY <1>0, <1>3, <1>c, <2>1, <2>2, <2>3, FixedFrame, HandOffFrame
    DEF AskRotation, RaiseShutdown, Types
<1>4. QED
  BY <1>1, <1>2, <1>3 DEF Upstream, PublishEntry, PublishQuery, PublishSentinel, Kinds


\* The batches staged are finitely many entries.
LEMMA StagedFinite ==
  ASSUME Types, staged \in 0..Len(batches)
  PROVE  StagedLen \in Nat
<1>1. batches \in Seq(BatchType) /\ staged \in Nat /\ staged <= Len(batches)
  BY DEF Types, HandOffType, DiskType
<1>2. \A i \in 1..staged : batches[i] \in BatchType
  BY <1>1
<1>3. \A i \in 1..staged : IsFiniteSet(EntriesOf(batches[i]))
  <2>1. ASSUME NEW i \in 1..staged PROVE IsFiniteSet(EntriesOf(batches[i]))
    <3>1. batches[i].base + 1 \in Int /\ batches[i].seq \in Int
      BY <1>2 DEF BatchType
    <3>2. QED
      BY <3>1, FS_Interval DEF EntriesOf
  <2>2. QED
    BY <2>1
<1> DEFINE S == {EntriesOf(batches[i]) : i \in 1..staged}
           f == [i \in 1..staged |-> EntriesOf(batches[i])]
<1>4. IsFiniteSet(S)
  <2>1. f \in Surjection(1..staged, S)
    BY DEF Surjection
  <2>2. IsFiniteSet(1..staged)
    BY <1>1, FS_Interval
  <2> HIDE DEF f, S
  <2>3. QED
    BY <2>1, <2>2, FS_Surjection
<1>5. IsFiniteSet(UNION S)
  BY <1>3, <1>4, FS_UNION
<1>6. QED
  BY <1>5, FS_CardinalityType DEF StagedLen

LEMMA StagedBatch ==
  ASSUME Types, dpc \in Staging
  PROVE  /\ staged \in 1..Len(batches) /\ Last \in BatchType
         /\ Last.base \in Nat /\ Last.seq \in Nat /\ Last.ring \in Nat
<1>1. batches \in Seq(BatchType) /\ staged \in 1..Len(batches)
  BY DEF Types, HandOffType, DiskType
<1>2. Last \in BatchType
  BY <1>1 DEF Last
<1>3. QED
  BY <1>1, <1>2 DEF BatchType

LEMMA DiskKeepsFlags ==
  ASSUME Types, Disk
  PROVE  Flags' /\ FixedType' /\ UpstreamType' /\ SequencerType'
<1>0. FixedType /\ UpstreamType /\ SequencerType /\ HandOffType /\ DiskType /\ Flags
  BY DEF Types
<1>1. lineage' = lineage /\ upstream' = upstream /\ sequencer' = sequencer
  BY DEF Disk, SampleStop, StageReady, Write, Sync, PublishProgress, PublishFsyncState, PublishDurable,
         Release, StoreCause, LatchPoison, RotateSegment, NothingToDo
<1>2. FixedType' /\ UpstreamType' /\ SequencerType'
  BY <1>0, <1>1 DEF FixedType, UpstreamType, SequencerType, lineage, upstream, sequencer
<1>3. /\ compared' = compared /\ shutdown' = shutdown /\ rotateRequested' = rotateRequested
      /\ claim' = claim /\ sawShutdown' = sawShutdown
  BY <1>1 DEF upstream, sequencer
<1>4. /\ stop' = stop
      /\ poisoned' = poisoned \/ poisoned' = TRUE
      /\ cause' = cause \/ cause' = TRUE
      /\ stopSampled' = stopSampled \/ stopSampled' = stop
  BY DEF Disk, SampleStop, StageReady, Write, Sync, PublishProgress, PublishFsyncState, PublishDurable,
         Release, StoreCause, LatchPoison, RotateSegment, NothingToDo, handOff
<1>5. Flags'
  BY <1>0, <1>3, <1>4 DEF Flags
<1>6. QED
  BY <1>2, <1>5

LEMMA TypesDisk ==
  ASSUME Types, Disk
  PROVE  Types'
<1>0. FixedType /\ UpstreamType /\ SequencerType /\ HandOffType /\ DiskType /\ Flags
  BY DEF Types
<1>a. batches \in Seq(BatchType) /\ Len(batches) \in Nat /\ rotation \in RotationType
  BY <1>0 DEF HandOffType
<1>b. MaxSlots \in Nat
  BY JournalStageBounds
<1> SUFFICES HandOffType' /\ DiskType'
  BY DiskKeepsFlags DEF Types
<1>1. CASE SampleStop
  BY <1>0, <1>1 DEF SampleStop, HandOffType, DiskType, handOff, cursors, Staging, DiskPlaces
<1>2. CASE StageReady
  <2>1. /\ staged' = Len(batches) /\ batches' = batches /\ rotation' = rotation
        /\ dpc' \in {"rendezvous", "write", "progress"} /\ (dpc' # "rendezvous" => batches # <<>>)
        /\ placed' = placed /\ synced' = synced /\ live' = live /\ cursors' = cursors
    BY <1>2 DEF StageReady, handOff
  <2>2. batches # <<>> => Len(batches) \in 1..Len(batches)
    BY <1>a
  <2>3. dpc' \in Staging => staged' \in 1..Len(batches')
    BY <2>1, <2>2 DEF Staging
  <2>4. QED
    BY <1>0, <1>a, <2>1, <2>3 DEF HandOffType, DiskType, cursors, DiskPlaces
<1>3. CASE Write
  <2>1. PICK n \in 0..StagedLen : /\ placed' = placed \o [i \in 1..n |-> live]
                                  /\ dpc' \in {"sync", "poison"}
    BY <1>3 DEF Write
  <2>2. n \in Nat
    <3>1. staged \in 0..Len(batches)
      BY <1>0, <1>3, <1>a DEF DiskType, Write, Staging
    <3>2. QED
      BY <3>1, StagedFinite
  <2>3. [i \in 1..n |-> live] \in Seq(Nat)
    BY <1>0, <2>2, IsASeq DEF DiskType
  <2>4. placed' \in Seq(Nat)
    BY <1>0, <2>1, <2>3, ConcatProperties DEF DiskType
  <2>5. QED
    BY <1>0, <1>3, <2>1, <2>4 DEF Write, HandOffType, DiskType, handOff, cursors, Staging, DiskPlaces
<1>4. CASE Sync
  <2>1. Len(placed) \in Nat
    BY <1>0 DEF DiskType
  <2>2. QED
    BY <1>0, <1>4, <2>1 DEF Sync, AfterSyncError, HandOffType, DiskType, handOff, cursors, Staging, DiskPlaces
<1>5. CASE PublishProgress
  <2>1. Last.ring \in Nat
    BY <1>5, StagedBatch DEF PublishProgress, Staging
  <2>2. QED
    BY <1>0, <1>5, <2>1 DEF PublishProgress, HandOffType, DiskType, handOff, Staging, DiskPlaces
<1>6. CASE PublishFsyncState
  <2>1. Last.ring \in Nat /\ Last.seq \in Nat
    BY <1>6, StagedBatch DEF PublishFsyncState, Staging
  <2>2. QED
    BY <1>0, <1>6, <2>1 DEF PublishFsyncState, HandOffType, DiskType, handOff, Staging, DiskPlaces
<1>7. CASE PublishDurable
  <2>1. Last.seq \in Nat
    BY <1>7, StagedBatch DEF PublishDurable, Staging
  <2>2. QED
    BY <1>0, <1>7, <2>1 DEF PublishDurable, HandOffType, DiskType, handOff, Staging, DiskPlaces
<1>8. CASE Release
  <2>1. staged \in 1..Len(batches) /\ batches' = SubSeq(batches, staged + 1, Len(batches))
    BY <1>8, StagedBatch DEF Release, Staging
  <2>2. \A i \in (staged + 1)..Len(batches) : batches[i] \in BatchType
    BY <1>a, <2>1
  <2>3. batches' \in Seq(BatchType)
    BY <1>a, <2>1, <2>2, SubSeqProperties
  <2>4. QED
    BY <1>0, <1>8, <2>3 DEF Release, HandOffType, DiskType, cursors, Staging, DiskPlaces
<1>9. CASE StoreCause
  BY <1>0, <1>9 DEF StoreCause, HandOffType, DiskType, cursors, Staging, DiskPlaces
<1>10. CASE LatchPoison
  BY <1>0, <1>10 DEF LatchPoison, AfterPoison, HandOffType, DiskType, cursors, Staging, DiskPlaces
<1>11. CASE RotateSegment
  <2>1. rotation.start \in Nat /\ 0 \in 0..(MaxSlots + 1)
    BY <1>a, <1>b DEF RotationType
  <2>2. rotation' \in RotationType
    BY <1>11, <2>1 DEF RotateSegment, RotateSlot, RotationType
  <2>3. live' \in Nat
    BY <1>0, <1>11, <2>1 DEF RotateSegment, DiskType
  <2>4. QED
    BY <1>0, <1>11, <2>2, <2>3 DEF RotateSegment, HandOffType, DiskType, cursors, Staging, DiskPlaces
<1>12. CASE NothingToDo
  BY <1>0, <1>12 DEF NothingToDo, HandOffType, DiskType, handOff, cursors, Staging, DiskPlaces
<1>13. QED
  BY <1>1, <1>2, <1>3, <1>4, <1>5, <1>6, <1>7, <1>8, <1>9, <1>10, <1>11, <1>12 DEF Disk


-----------------------------------------------------------------------------
(* The sequencer's steps, by what they touch *)

SequencerStep == Sequencing \/ SyncDelayed \/ IdleApply \/ BackoffExpires

\* The span Encode takes: it ends no later than the read, at the sentinel or
\* at the pending mark.
LEMMA SpanFacts ==
  ASSUME Types
  PROVE  /\ MarkSplit \in Nat /\ SpanEnd(MarkSplit) \in Nat
         /\ pos <= SpanEnd(MarkSplit) /\ SpanEnd(MarkSplit) <= MarkSplit /\ MarkSplit <= readEnd
         /\ SpanEnd(MarkSplit) \in {MarkSplit, MarkSplit - 1}
<1>1. pos \in Nat /\ readEnd \in Nat /\ pos <= readEnd
  BY DEF Types, SequencerType
<1> DEFINE past == {i \in (pos + 1)..readEnd : slots[i] = "entry" /\ i > pendingMark.seq}
<1>2. MarkSplit \in Nat /\ pos <= MarkSplit /\ MarkSplit <= readEnd
  <2>1. MarkSplit = IF pendingMark.kind = "none" \/ past = {} THEN readEnd ELSE Min(past) - 1
    BY DEF MarkSplit
  <2>2. CASE pendingMark.kind = "none" \/ past = {}
    BY <1>1, <2>1, <2>2
  <2>3. CASE ~(pendingMark.kind = "none" \/ past = {})
    <3>1. past \in SUBSET Nat /\ past # {} /\ \A i \in past : i >= pos + 1 /\ i <= readEnd
      BY <1>1, <2>3
    <3> HIDE DEF past
    <3>2. Min(past) \in past
      BY <3>1, MinOfSet
    <3>3. MarkSplit = Min(past) - 1
      BY <2>1, <2>3
    <3>4. Min(past) \in Nat /\ Min(past) >= pos + 1 /\ Min(past) <= readEnd
      BY <3>1, <3>2
    <3>5. QED
      BY <1>1, <3>3, <3>4
  <2>4. QED
    BY <2>2, <2>3
<1>3. SpanEnd(MarkSplit) = IF \E i \in (pos + 1)..MarkSplit : slots[i] = "shutdown" THEN MarkSplit - 1 ELSE MarkSplit
  BY DEF SpanEnd
<1>4. (\E i \in (pos + 1)..MarkSplit : slots[i] = "shutdown") => pos + 1 <= MarkSplit
  BY <1>1, <1>2
<1> HIDE DEF past
<1>5. QED
  BY <1>1, <1>2, <1>3, <1>4

LEMMA ReadableFacts ==
  ASSUME Types, NEW room \in Int, NEW e \in Readable(room)
  PROVE  e \in Nat /\ pos <= e /\ e <= Len(slots)
<1>1. pos \in Nat /\ Len(slots) \in Nat /\ pos <= Len(slots)
  BY DEF Types, SequencerType, UpstreamType
<1> DEFINE ready == Min({Len(slots) - pos, room})
<1>2. ready = IF Len(slots) - pos <= room THEN Len(slots) - pos ELSE room
  BY <1>1, MinOfTwo
<1>3. e \in (IF ready = 0 THEN {pos} ELSE (pos + 1)..(pos + ready))
  BY DEF Readable
<1>4. ready \in Int /\ ready <= Len(slots) - pos
  BY <1>1, <1>2
<1> HIDE DEF ready
<1>5. QED
  BY <1>1, <1>3, <1>4

\* What a step of the sequencer leaves alone, and the few ways it touches the
\* positions.
LEMMA SequencerFootprint ==
  ASSUME SequencerStep
  PROVE  /\ lineage' = lineage /\ disk' = disk /\ slots' = slots /\ announced' = announced
         /\ compared' = compared /\ firstMark' = firstMark /\ shutdown' = shutdown
         /\ poisoned' = poisoned
  BY DEF SequencerStep, Sequencing, SeesPoison, FailPoisoned, SeesShutdown, Read, RefreshPendingMark, Encode,
     EncodeFails, ClaimFails, BarrierSubmit, BarrierApply, BarrierPasses, SyncPoint, SubmitFails, SubmitBatch,
     Idle, TailSubmit, TailEnd, DrainSubmit, DrainRemaining, DrainDone, ResolveStreamMarks, MaybeRotate,
     RequestRotation, RotationDone, RotationFailed, FinishDrained, FinishFails, Halt, Join, SyncDelayed,
     IdleApply, BackoffExpires, upstream, handOff

\* A step that hands a batch over.
Submits == BarrierSubmit \/ SyncPoint \/ TailSubmit \/ DrainSubmit

LEMMA SubmitEffect ==
  ASSUME Types, Submits
  PROVE  \E target \in {pos, readEnd} :
           /\ CanClaim
           /\ batches' = Append(batches, [base |-> SeqAt(handed), seq |-> At, ring |-> target])
           /\ claim' = FALSE /\ handed' = target /\ Pending > 0
           /\ stop' = stop /\ rotation' = rotation /\ cause' = cause
           /\ pos' = pos /\ readEnd' = readEnd /\ segStart' = segStart /\ from' = from
           /\ pendingMark' = pendingMark /\ marks' = marks /\ backoff' = backoff
           /\ sawShutdown' = sawShutdown /\ drainFrom' = drainFrom /\ outcome' = outcome
           /\ rotateRequested' = rotateRequested
           /\ \/ pc = "barrier" /\ pc' = "barrier" /\ target = pos
              \/ pc = "sync" /\ pc' = "rotate?" /\ target = readEnd
              \/ pc = "tail" /\ pc' = "tail" /\ target = readEnd /\ sawShutdown
              \/ pc = "drain" /\ pc' = "drain" /\ target = readEnd
  BY DEF Submits, BarrierSubmit, SyncPoint, TailSubmit, DrainSubmit, SubmitBatch, BarrierTarget, upstream

\* The steps that take part in a rotation or a stop.
Rendezvous == RequestRotation \/ RotationDone \/ (pc = "await" /\ RotationFailed) \/ FinishDrained \/ Halt

\* Every other step leaves the hand-off and what was handed over alone.
LEMMA QuietEffect ==
  ASSUME SequencerStep, ~Submits, ~Rendezvous
  PROVE  /\ batches' = batches /\ handed' = handed /\ stop' = stop /\ rotation' = rotation
         /\ segStart' = segStart
  BY DEF SequencerStep, Submits, Rendezvous, Sequencing, SeesPoison, FailPoisoned, SeesShutdown, Read,
     RefreshPendingMark, Encode, EncodeFails, ClaimFails, SubmitFails, Idle, TailEnd, DrainRemaining, BarrierApply,
     BarrierPasses, DrainDone, ResolveStreamMarks, MaybeRotate, RotationFailed, FinishFails, Join, SyncDelayed,
     IdleApply, BackoffExpires, handOff


LEMMA BatchTyped ==
  ASSUME Types
  PROVE  \A t \in {pos, readEnd} : [base |-> SeqAt(handed), seq |-> At, ring |-> t] \in BatchType
<1>1. pos \in Nat /\ readEnd \in Nat /\ handed \in Nat
  BY DEF Types, SequencerType
<1>2. SeqAt(handed) \in Nat /\ At \in Nat
  BY <1>1, SeqAtCounts, AtCounts, CountFinite
<1>3. QED
  BY <1>1, <1>2 DEF BatchType

\* The marks after a step: the queue as it was, or without its head, which is
\* then the pending one.
LEMMA MarksEffect ==
  ASSUME Types, SequencerStep
  PROVE  /\ marks' \in Seq(MarkType) /\ pendingMark' \in HeldType
         /\ \/ marks' = marks
            \/ marks # <<>> /\ marks' = Tail(marks)
<1>1. marks \in Seq(MarkType) /\ pendingMark \in HeldType
  BY DEF Types, UpstreamType, SequencerType
<1>2. marks # <<>> => Head(marks) \in HeldType /\ Tail(marks) \in Seq(MarkType)
  BY <1>1, MarkTyped, HeadTailProperties
<1>3. NoMark \in HeldType
  BY JournalStageBounds DEF NoMark, HeldType
<1>4. Refreshed(pendingMark) \in HeldType
  BY <1>1, <1>2 DEF Refreshed
<1>5. /\ QueueAfterRefresh(pendingMark) \in Seq(MarkType)
      /\ \/ QueueAfterRefresh(pendingMark) = marks
         \/ marks # <<>> /\ QueueAfterRefresh(pendingMark) = Tail(marks)
  BY <1>1, <1>2 DEF QueueAfterRefresh
<1>6. CASE RefreshPendingMark
  BY <1>4, <1>5, <1>6 DEF RefreshPendingMark
<1>7. CASE ResolveStreamMarks
  BY <1>3, <1>4, <1>5, <1>7 DEF ResolveStreamMarks, HeldMark
<1>8. CASE RotationDone
  BY <1>1, <1>2, <1>3, <1>8 DEF RotationDone, SuccessorTaken
<1>9. CASE ~(RefreshPendingMark \/ ResolveStreamMarks \/ RotationDone)
  <2>1. marks' = marks /\ pendingMark' = pendingMark
    BY <1>9 DEF SequencerStep, Sequencing, SeesPoison, FailPoisoned, SeesShutdown, Read, Encode,
     EncodeFails, ClaimFails, BarrierSubmit, BarrierApply, BarrierPasses, SyncPoint, SubmitFails, SubmitBatch,
     Idle, TailSubmit, TailEnd, DrainSubmit, DrainRemaining, DrainDone, MaybeRotate,
     RequestRotation, RotationFailed, FinishDrained, FinishFails, Halt, Join, SyncDelayed,
     IdleApply, BackoffExpires, upstream
  <2>2. QED
    BY <1>1, <2>1
<1>10. QED
  BY <1>6, <1>7, <1>8, <1>9

\* The positions after a step.
LEMMA PositionsEffect ==
  ASSUME Types, SequencerStep
  PROVE  /\ pos' \in Nat /\ readEnd' \in Nat /\ handed' \in Nat
         /\ pos <= pos' /\ pos' <= readEnd' /\ readEnd' <= Len(slots)
         /\ handed' <= Len(slots)
<1>1. /\ pos \in Nat /\ readEnd \in Nat /\ handed \in Nat /\ Len(slots) \in Nat
      /\ pos <= readEnd /\ readEnd <= Len(slots) /\ handed <= Len(slots)
  BY DEF Types, SequencerType, UpstreamType
<1>2. MaxBatch \in Int /\ MaxBatch - Pending \in Int
  BY <1>1, JournalStageBounds DEF Pending
<1>3. CASE Read
  <2>1. pos' = pos /\ handed' = handed /\ readEnd' \in Readable(MaxBatch - Pending)
    BY <1>3 DEF Read
  <2>2. \A e \in Readable(MaxBatch - Pending) : e \in Nat /\ pos <= e /\ e <= Len(slots)
    BY <1>2, ReadableFacts
  <2>3. QED
    BY <1>1, <2>1, <2>2
<1>4. CASE Encode
  <2>1. pos' = SpanEnd(MarkSplit) /\ handed' = handed /\ readEnd' = readEnd
    BY <1>4 DEF Encode
  <2>2. QED
    BY <1>1, <2>1, SpanFacts
<1>5. CASE DrainRemaining
  <2>1. PICK e \in Readable(MaxBatch) : pos' = e /\ readEnd' = e
    BY <1>5 DEF DrainRemaining
  <2>2. handed' = handed /\ e \in Nat /\ pos <= e /\ e <= Len(slots)
    BY <1>2, <1>5, <2>1, ReadableFacts DEF DrainRemaining
  <2>3. QED
    BY <1>1, <2>1, <2>2
<1>6. CASE Submits
  <2>1. pos' = pos /\ readEnd' = readEnd /\ handed' \in {pos, readEnd}
    BY <1>6, SubmitEffect
  <2>2. QED
    BY <1>1, <2>1
<1>7. CASE ~(Read \/ Encode \/ DrainRemaining \/ Submits)
  <2>1. pos' = pos /\ readEnd' = readEnd /\ handed' = handed
    BY <1>7 DEF SequencerStep, Submits, Sequencing, SeesPoison, FailPoisoned, SeesShutdown, RefreshPendingMark,
     EncodeFails, ClaimFails, BarrierApply, BarrierPasses, SubmitFails, Idle, TailEnd, DrainDone,
     ResolveStreamMarks, MaybeRotate, RequestRotation, RotationDone, RotationFailed, FinishDrained, FinishFails,
     Halt, Join, SyncDelayed, IdleApply, BackoffExpires
  <2>2. QED
    BY <1>1, <2>1
<1>8. QED
  BY <1>3, <1>4, <1>5, <1>6, <1>7

LEMMA ReturnTyped ==
  /\ Return \in {"barrier", "encode", "resolve", "tail"}
  /\ from \in Calls => ReturnFrom \in Calls
BY DEF Return, ReturnFrom, Calls

\* The program counter and the smaller state after a step.
LEMMA ControlEffect ==
  ASSUME Types, SequencerStep
  PROVE  /\ pc' \in Places /\ from' \in Calls /\ backoff' \in {"none", "open", "expired"}
         /\ drainFrom' = drainFrom \/ drainFrom' = At
         /\ segStart' = segStart \/ segStart' = At + 1
         /\ rotation' = rotation \/ rotation' = RotateSlot("idle", 0)
            \/ rotation' = RotateSlot("requested", At + 1)
<1>1. pc \in Places /\ from \in Calls /\ backoff \in {"none", "open", "expired"}
  BY DEF Types, SequencerType
<1>2. pc' \in Places /\ from' \in Calls
  <2>1. CASE ResolveStreamMarks \/ RotationDone \/ RotationFailed
    BY <1>1, <2>1, ReturnTyped DEF ResolveStreamMarks, RotationDone, RotationFailed, Leave, Places, Calls
  <2>2. CASE ~(ResolveStreamMarks \/ RotationDone \/ RotationFailed)
    BY <1>1, <2>2 DEF Places, Calls, SequencerStep, Sequencing, SeesPoison, FailPoisoned, SeesShutdown, Read, Encode,
     RefreshPendingMark, EncodeFails, ClaimFails, BarrierSubmit, BarrierApply, BarrierPasses, SyncPoint, SubmitFails,
     SubmitBatch, Idle, TailSubmit, TailEnd, DrainSubmit, DrainRemaining, DrainDone, MaybeRotate, Leave,
     RequestRotation, FinishDrained, FinishFails, Halt, Join, SyncDelayed, IdleApply, BackoffExpires
  <2>3. QED
    BY <2>1, <2>2
<1>3. QED
  BY <1>1, <1>2 DEF SequencerStep, Sequencing, SeesPoison, FailPoisoned, SeesShutdown, Read, Encode,
     RefreshPendingMark, EncodeFails, ClaimFails, BarrierSubmit, BarrierApply, BarrierPasses, SyncPoint, SubmitFails,
     SubmitBatch, Idle, TailSubmit, TailEnd, DrainSubmit, DrainRemaining, DrainDone, MaybeRotate, ResolveStreamMarks,
     RequestRotation, RotationDone, RotationFailed, FinishDrained, FinishFails, Halt, Join, SyncDelayed, IdleApply,
     BackoffExpires, handOff

\* Boolean state stays Boolean.
LEMMA FlagsEffect ==
  ASSUME Types, SequencerStep
  PROVE  /\ rotateRequested' \in BOOLEAN /\ claim' \in BOOLEAN /\ sawShutdown' \in BOOLEAN
         /\ stop' \in BOOLEAN /\ cause' \in BOOLEAN
<1>1. Flags
  BY DEF Types
<1>2. CASE Encode
  BY <1>1, <1>2 DEF Encode, upstream, handOff, Flags
<1>3. CASE DrainRemaining
  BY <1>1, <1>3 DEF DrainRemaining, upstream, handOff, Flags
<1>4. CASE Join
  BY <1>1, <1>4 DEF Join, upstream, Flags
<1>5. CASE ~(Encode \/ DrainRemaining \/ Join)
  BY <1>1, <1>5 DEF Flags, SequencerStep, Sequencing, SeesPoison, FailPoisoned, SeesShutdown, Read,
     RefreshPendingMark, EncodeFails, ClaimFails, BarrierSubmit, BarrierApply, BarrierPasses, SyncPoint, SubmitFails,
     SubmitBatch, Idle, TailSubmit, TailEnd, DrainSubmit, DrainDone, MaybeRotate, ResolveStreamMarks,
     RequestRotation, RotationDone, RotationFailed, FinishDrained, FinishFails, Halt, SyncDelayed, IdleApply,
     BackoffExpires, handOff, upstream, StopFlag
<1>6. QED
  BY <1>2, <1>3, <1>4, <1>5


\* The hand-off ring after a step: as it was, or one batch longer.
LEMMA BatchesEffect ==
  ASSUME Types, SequencerStep
  PROVE  batches' \in Seq(BatchType) /\ Len(batches') >= Len(batches)
<1>1. batches \in Seq(BatchType) /\ Len(batches) \in Nat
  BY DEF Types, HandOffType
<1>2. CASE Submits
  <2>1. PICK t \in {pos, readEnd} : batches' = Append(batches, [base |-> SeqAt(handed), seq |-> At, ring |-> t])
    BY <1>2, SubmitEffect
  <2>2. [base |-> SeqAt(handed), seq |-> At, ring |-> t] \in BatchType
    BY BatchTyped
  <2>3. QED
    BY <1>1, <2>1, <2>2
<1>3. CASE ~Submits
  <2>1. batches' = batches
    BY <1>3, QuietEffect DEF Rendezvous, RequestRotation, RotationDone, RotationFailed, FinishDrained, Halt
  <2>2. QED
    BY <1>1, <2>1
<1>4. QED
  BY <1>2, <1>3

LEMMA AtBound ==
  ASSUME Types
  PROVE  At \in Nat /\ At <= pos /\ pos <= Len(slots) /\ At <= MaxSlots /\ pos \in Nat /\ Len(slots) \in Nat
         /\ MaxSlots \in Nat
<1>1. pos \in Nat /\ Len(slots) \in Nat /\ pos <= Len(slots) /\ Len(slots) <= MaxSlots /\ MaxSlots \in Nat
  BY JournalStageBounds DEF Types, SequencerType, UpstreamType
<1>2. At \in Nat /\ At <= pos
  BY <1>1, AtCounts, CountFinite
<1>3. QED
  BY <1>1, <1>2

LEMMA TypesSequencing ==
  ASSUME Types, SequencerStep
  PROVE  Types'
<1>0. FixedType /\ UpstreamType /\ SequencerType /\ HandOffType /\ DiskType /\ Flags
  BY DEF Types
<1>1. /\ lineage' = lineage /\ disk' = disk /\ slots' = slots /\ announced' = announced
      /\ compared' = compared /\ firstMark' = firstMark /\ shutdown' = shutdown
      /\ poisoned' = poisoned
  BY SequencerFootprint
<1>2. FixedType'
  BY <1>0, <1>1, FixedFrame
<1>3. UpstreamType'
  BY <1>0, <1>1, MarksEffect DEF UpstreamType
<1>4. SequencerType'
  <2>1. pendingMark' \in HeldType
    BY MarksEffect
  <2>2. drainFrom' \in 0..(MaxSlots + 1)
    BY <1>0, ControlEffect, AtBound DEF SequencerType
  <2>3. segStart' \in Nat
    BY <1>0, ControlEffect, AtBound DEF SequencerType
  <2>4. QED
    BY <1>1, <2>1, <2>2, <2>3, ControlEffect, PositionsEffect DEF SequencerType
<1>5. HandOffType'
  <2>1. RotateSlot("idle", 0) \in RotationType /\ RotateSlot("requested", At + 1) \in RotationType
    BY AtBound DEF RotateSlot, RotationType
  <2>2. rotation' \in RotationType
    BY <1>0, <2>1, ControlEffect DEF HandOffType
  <2>3. QED
    BY <2>2, BatchesEffect DEF HandOffType
<1>6. DiskType'
  <2>1. Len(batches') >= Len(batches) /\ Len(batches) \in Nat /\ Len(batches') \in Nat
    BY <1>0, <1>5, BatchesEffect DEF HandOffType
  <2>2. QED
    BY <1>0, <1>1, <2>1, DiskFrame
<1>7. Flags'
  <2>1. stopSampled' = stopSampled
    BY <1>1 DEF disk
  <2>2. QED
    BY <1>0, <1>1, <2>1, FlagsEffect DEF Flags
<1>8. QED
  BY <1>2, <1>3, <1>4, <1>5, <1>6, <1>7 DEF Types

LEMMA TypesStep ==
  ASSUME Types, [Next]_vars
  PROVE  Types'
<1>1. CASE Next
  BY <1>1, TypesUpstream, TypesDisk, TypesSequencing DEF Next, SequencerStep
<1>2. CASE UNCHANGED vars
  <2>1. lineage' = lineage /\ upstream' = upstream /\ sequencer' = sequencer /\ handOff' = handOff /\ disk' = disk
    BY <1>2 DEF vars
  <2>2. QED
    BY <2>1 DEF Types, FixedType, UpstreamType, SequencerType, HandOffType, DiskType, Flags, lineage, upstream,
       sequencer, handOff, disk, cursors
<1>3. QED
  BY <1>1, <1>2


-----------------------------------------------------------------------------
(* The window: what the sequencer has read, encoded and handed over *)

\* What upstream leaves alone: everything but the slots it appends, the marks
\* it queues and its flags.
LEMMA UpstreamEffect ==
  ASSUME Types, Upstream
  PROVE  /\ lineage' = lineage /\ sequencer' = sequencer /\ handOff' = handOff /\ disk' = disk
         /\ \/ slots' = slots
            \/ \E kind \in Kinds : /\ slots' = Append(slots, kind)
                                   /\ \A i \in 1..Len(slots) : slots[i] # "shutdown"
  BY DEF Upstream, PublishEntry, PublishQuery, PublishSentinel, Publish, QueueRotate, QueueChainCheck,
         QueueStreamMark, AskRotation, RaiseShutdown, Feeding, Kinds

\* The slots published stay what they are.
LEMMA SlotsStay ==
  ASSUME Types, Upstream
  PROVE  /\ Len(slots') \in Nat /\ Len(slots) \in Nat /\ Len(slots) <= Len(slots')
         /\ \A i \in 1..Len(slots) : slots'[i] = slots[i]
         /\ \A p \in Nat : p <= Len(slots) => Count(slots', p) = Count(slots, p)
<1>1. slots \in Seq(Kinds) /\ Len(slots) \in Nat
  BY DEF Types, UpstreamType
<1>2. CASE slots' = slots
  BY <1>1, <1>2
<1>3. ASSUME NEW kind \in Kinds, slots' = Append(slots, kind)
      PROVE  /\ Len(slots') \in Nat /\ Len(slots) \in Nat /\ Len(slots) <= Len(slots')
             /\ \A i \in 1..Len(slots) : slots'[i] = slots[i]
             /\ \A p \in Nat : p <= Len(slots) => Count(slots', p) = Count(slots, p)
  <2>1. \A p \in Nat : p <= Len(slots) => Count(Append(slots, kind), p) = Count(slots, p)
    BY <1>1, CountAppend
  <2>2. QED
    BY <1>1, <1>3, <2>1
<1>4. QED
  BY <1>2, <1>3, UpstreamEffect

Finishing == {"finish", "halt", "join", "done", "failed"}

\* Past the encoding of what was read.
Settled ==
  \/ pc \in {"sync", "rotate?", "tail"}
  \/ pc \in {"resolve", "quiesce", "await"} /\ from \in {"idle", "sync", "local"}

\* Where everything encoded has been handed over.
Emptied == pc \in {"quiesce", "await", "rotate?"} \/ (pc = "resolve" /\ from # "inline")

SentinelLast == \A i \in 1..Len(slots) : slots[i] = "shutdown" => i = Len(slots)

SentinelSeen ==
  sawShutdown => /\ readEnd = pos + 1 /\ slots[readEnd] = "shutdown"
                 /\ Settled \/ pc \in Finishing

AllEncoded == (pc \in {"top", "drain"} \/ Settled) /\ ~sawShutdown => pos = readEnd

HandedOver ==
  /\ handed <= pos \/ (sawShutdown /\ handed <= readEnd)
  /\ Emptied => Count(slots, handed) = Count(slots, pos)

CallKnown ==
  /\ pc \in {"quiesce", "await", "resolve"} => from # "none"
  /\ pc \in {"quiesce", "await"} => from # "inline"
  /\ from = "local" => pc \in {"quiesce", "await"}

Window == SentinelLast /\ SentinelSeen /\ AllEncoded /\ HandedOver /\ CallKnown

LEMMA WindowInit ==
  ASSUME Init
  PROVE  Window
<1>1. /\ slots = <<>> /\ pc = "top" /\ from = "none" /\ pos = 0 /\ readEnd = 0 /\ handed = 0 /\ ~sawShutdown
  BY DEF Init
<1>2. Len(<<>>) = 0
  OBVIOUS
<1>3. SentinelLast
  BY <1>1, <1>2 DEF SentinelLast
<1>4. SentinelSeen /\ AllEncoded /\ HandedOver /\ CallKnown
  BY <1>1 DEF SentinelSeen, AllEncoded, HandedOver, CallKnown, Emptied
<1>5. QED
  BY <1>3, <1>4 DEF Window

LEMMA WindowUpstream ==
  ASSUME Types, Window, Upstream
  PROVE  Window'
<1>1. SentinelLast /\ SentinelSeen /\ AllEncoded /\ HandedOver /\ CallKnown
  BY DEF Window
<1>2. /\ pc' = pc /\ from' = from /\ pos' = pos /\ readEnd' = readEnd /\ handed' = handed
      /\ sawShutdown' = sawShutdown
  BY UpstreamEffect DEF sequencer
<1>3. /\ pos \in Nat /\ readEnd \in Nat /\ handed \in Nat /\ Len(slots) \in Nat
      /\ pos <= readEnd /\ readEnd <= Len(slots) /\ handed <= Len(slots)
  BY DEF Types, SequencerType, UpstreamType
<1>4. Count(slots', handed) = Count(slots, handed) /\ Count(slots', pos) = Count(slots, pos)
  BY <1>3, SlotsStay
<1>5. SentinelLast'
  <2>1. CASE slots' = slots
    BY <1>1, <2>1 DEF SentinelLast
  <2>2. ASSUME NEW kind \in Kinds, slots' = Append(slots, kind), \A i \in 1..Len(slots) : slots[i] # "shutdown"
        PROVE  SentinelLast'
    <3>1. slots \in Seq(Kinds)
      BY DEF Types, UpstreamType
    <3>2. \A i \in 1..Len(slots') : i = Len(slots') \/ slots'[i] # "shutdown"
      BY <3>1, <2>2
    <3>3. QED
      BY <3>2 DEF SentinelLast
  <2>3. QED
    BY <2>1, <2>2, UpstreamEffect
<1>6. SentinelSeen'
  <2>1. sawShutdown => slots'[readEnd] = slots[readEnd]
    BY <1>1, <1>3, SlotsStay DEF SentinelSeen
  <2>2. QED
    BY <1>1, <1>2, <2>1 DEF SentinelSeen, Settled
<1>7. AllEncoded'
  BY <1>1, <1>2 DEF AllEncoded, Settled
<1>8. HandedOver'
  BY <1>1, <1>2, <1>4 DEF HandedOver, Emptied
<1>9. CallKnown'
  BY <1>1, <1>2 DEF CallKnown
<1>10. QED
  BY <1>5, <1>6, <1>7, <1>8, <1>9 DEF Window

LEMMA WindowFrame ==
  ASSUME Window, slots' = slots, sequencer' = sequencer
  PROVE  Window'
<1>1. /\ pc' = pc /\ from' = from /\ pos' = pos /\ readEnd' = readEnd /\ handed' = handed
      /\ sawShutdown' = sawShutdown
  BY DEF sequencer
<1>2. QED
  BY <1>1 DEF Window, SentinelLast, SentinelSeen, AllEncoded, HandedOver, CallKnown, Settled, Emptied


LEMMA ResolveOutcomes ==
  ASSUME NEW m \in HeldType
  PROVE  /\ ResolveOutcome(m) \in {"return", "settle", "ordering", "divergence", "rotate"}
         /\ ResolveOutcome(m) = "rotate" => /\ m.kind = "rotate" /\ ~(At < m.seq) /\ ~(At > m.seq)
                                            /\ from # "inline" /\ ~diverged /\ backoff # "open"
         /\ ResolveOutcome(m) \in {"settle", "ordering", "divergence"} => m.kind # "none" /\ ~(At < m.seq)
BY DEF ResolveOutcome, HeldType, Quiesced, ChainAgrees

LEMMA HeldMarkTyped ==
  ASSUME Types
  PROVE  HeldMark \in HeldType
<1>1. marks \in Seq(MarkType) /\ pendingMark \in HeldType
  BY DEF Types, UpstreamType, SequencerType
<1>2. marks # <<>> => Head(marks) \in HeldType
  BY <1>1, MarkTyped, HeadTailProperties
<1>3. QED
  BY <1>1, <1>2 DEF HeldMark, Refreshed

\* The steps that move the positions.
Advances == Submits \/ Read \/ Encode \/ DrainRemaining

\* The ways control moves when no position does.
Moves ==
  \/ pc' = pc /\ from' = from
  \/ pc \notin {"quiesce", "await", "done", "failed"} /\ pc' = "halt" /\ from' = from
  \/ pc = "top" /\ pc' = "drain" /\ from' = from
  \/ pc = "refresh" /\ pc' = "encode" /\ from' = from
  \/ pc = "barrier" /\ pc' = "resolve" /\ from' = "barrier" /\ Pending = 0
  \/ pc = "barrier" /\ pc' = "encode" /\ from' = from
  \/ pc = "sync" /\ pc' = "tail" /\ from' = from
  \/ pc = "sync" /\ pc' = "resolve" /\ from' = "idle" /\ Pending = 0
  \/ pc = "tail" /\ pc' = "top" /\ from' = from /\ ~sawShutdown
  \/ pc \in {"tail", "drain"} /\ pc' = "finish" /\ from' = from
  \/ pc \in {"resolve", "quiesce", "await"} /\ pc' = Return /\ from' = ReturnFrom
  \/ pc = "resolve" /\ pc' = "quiesce" /\ from' = from /\ from # "inline"
  \/ pc = "rotate?" /\ pc' = "quiesce" /\ from' = "local"
  \/ pc = "rotate?" /\ pc' = "resolve" /\ from' = "sync"
  \/ pc = "quiesce" /\ pc' = "await" /\ from' = from
  \/ pc \in Finishing /\ pc' \in Finishing /\ from' = from

LEMMA QuietMoves ==
  ASSUME Types, CallKnown, SequencerStep, ~Advances
  PROVE  /\ pos' = pos /\ readEnd' = readEnd /\ handed' = handed /\ sawShutdown' = sawShutdown
         /\ Moves
<1>1. /\ pos' = pos /\ readEnd' = readEnd /\ handed' = handed /\ sawShutdown' = sawShutdown
    BY DEF SequencerStep, Advances, Submits, Sequencing, SeesPoison, FailPoisoned, SeesShutdown, RefreshPendingMark,
     EncodeFails, ClaimFails, BarrierApply, BarrierPasses, SubmitFails, Idle, TailEnd, DrainDone,
     ResolveStreamMarks, MaybeRotate, RequestRotation, RotationDone, RotationFailed, FinishDrained, FinishFails,
     Halt, Join, SyncDelayed, IdleApply, BackoffExpires
<1>2. Moves
  <2>1. CASE ResolveStreamMarks
    <3>1. HeldMark \in HeldType
      BY HeldMarkTyped
    <3>2. QED
      BY <2>1, <3>1, ResolveOutcomes DEF ResolveStreamMarks, Moves, Leave
  <2>2. CASE RotationDone \/ RotationFailed
    BY <2>2 DEF RotationDone, RotationFailed, Moves
  <2>3. CASE SeesPoison \/ EncodeFails \/ SubmitFails \/ FinishFails
    BY <2>3 DEF SeesPoison, EncodeFails, SubmitFails, FinishFails, ClaimFails, FailPoisoned, Leave, TakePoison, Moves
  <2>4. CASE TailEnd \/ DrainDone
    BY <2>4 DEF TailEnd, DrainDone, Leave, Moves
  <2>5. CASE SeesShutdown \/ RefreshPendingMark \/ BarrierApply \/ BarrierPasses \/ Idle \/ SyncDelayed \/ IdleApply
    BY <2>5 DEF SeesShutdown, RefreshPendingMark, BarrierApply, BarrierPasses, Idle, SyncDelayed, IdleApply, Moves
  <2>6. CASE MaybeRotate \/ RequestRotation \/ FinishDrained \/ Halt \/ Join \/ BackoffExpires
    BY <2>6 DEF MaybeRotate, RequestRotation, FinishDrained, Halt, Join, BackoffExpires, Finishing, Moves
  <2>7. QED
    BY <2>1, <2>2, <2>3, <2>4, <2>5, <2>6 DEF SequencerStep, Sequencing, Advances, Submits
<1>3. QED
  BY <1>1, <1>2

LEMMA WindowQuiet ==
  ASSUME Types, Window, SequencerStep, ~Advances
  PROVE  Window'
<1>1. SentinelLast /\ SentinelSeen /\ AllEncoded /\ HandedOver /\ CallKnown
  BY DEF Window
<1>2. /\ pos' = pos /\ readEnd' = readEnd /\ handed' = handed /\ sawShutdown' = sawShutdown /\ Moves
  BY <1>1, QuietMoves
<1>3. slots' = slots
  BY SequencerFootprint
<1>4. pc \in Places /\ from \in Calls /\ pos \in Nat /\ handed \in Nat
  BY DEF Types, SequencerType
<1>5. SentinelLast'
  BY <1>1, <1>3 DEF SentinelLast
<1>6. CallKnown'
  BY <1>1, <1>2, <1>4 DEF CallKnown, Moves, Return, ReturnFrom, Finishing
<1>7. Pending = 0 => handed = pos
  BY <1>4 DEF Pending
<1>8. Emptied' => Emptied \/ handed = pos
  BY <1>1, <1>2, <1>4, <1>7 DEF CallKnown, Emptied, Moves, Return, ReturnFrom, Finishing
<1>9. HandedOver'
  BY <1>1, <1>2, <1>3, <1>8 DEF HandedOver
<1>10. (Settled \/ pc \in Finishing) /\ sawShutdown => (Settled \/ pc \in Finishing)'
  BY <1>1, <1>2, <1>4 DEF CallKnown, Settled, Moves, Return, ReturnFrom, Finishing
<1>11. SentinelSeen'
  BY <1>1, <1>2, <1>3, <1>10 DEF SentinelSeen
<1>12. (pc \in {"top", "drain"} \/ Settled)' => (pc \in {"top", "drain"} \/ Settled)
  <2>1. CASE pc \in {"resolve", "quiesce", "await"}
    BY <1>1, <1>2, <1>4, <2>1 DEF CallKnown, Settled, Moves, Return, ReturnFrom, Finishing, Calls
  <2>2. CASE pc \notin {"resolve", "quiesce", "await"}
    BY <1>2, <2>2 DEF Settled, Moves, Finishing
  <2>3. QED
    BY <2>1, <2>2
<1>13. AllEncoded'
  BY <1>1, <1>2, <1>12 DEF AllEncoded
<1>14. QED
  BY <1>5, <1>6, <1>9, <1>11, <1>13 DEF Window


\* What Encode does to the window: all of it, up to the sentinel, or up to the
\* pending mark.
LEMMA EncodeEffect ==
  ASSUME Types, Window, Encode
  PROVE  /\ readEnd' = readEnd /\ handed' = handed /\ handed <= pos /\ pos <= pos'
         /\ \/ pc' = "sync" /\ from' = from /\ ~sawShutdown' /\ pos' = readEnd /\ MarkSplit = readEnd
            \/ /\ pc' = "sync" /\ from' = from /\ sawShutdown' /\ readEnd = pos' + 1
               /\ slots[readEnd] = "shutdown" /\ MarkSplit = readEnd
            \/ pc' = "resolve" /\ from' = "inline" /\ ~sawShutdown' /\ pos' = MarkSplit /\ MarkSplit < readEnd
<1>1. SentinelLast /\ SentinelSeen /\ HandedOver
  BY DEF Window
<1>2. /\ pos \in Nat /\ readEnd \in Nat /\ handed \in Nat /\ Len(slots) \in Nat
      /\ pos <= readEnd /\ readEnd <= Len(slots) /\ handed <= Len(slots)
  BY DEF Types, SequencerType, UpstreamType
<1>3. ~sawShutdown
  BY <1>1 DEF Encode, SentinelSeen, Settled, Finishing
<1>4. handed <= pos
  BY <1>1, <1>3 DEF HandedOver
<1>5. /\ pos' = SpanEnd(MarkSplit) /\ readEnd' = readEnd /\ handed' = handed
      /\ sawShutdown' = (SpanEnd(MarkSplit) < MarkSplit)
      /\ MarkSplit = readEnd => pc' = "sync" /\ from' = from
      /\ MarkSplit # readEnd => pc' = "resolve" /\ from' = "inline"
  BY DEF Encode
<1>6. /\ MarkSplit \in Nat /\ SpanEnd(MarkSplit) \in Nat
      /\ pos <= SpanEnd(MarkSplit) /\ SpanEnd(MarkSplit) <= MarkSplit /\ MarkSplit <= readEnd
      /\ SpanEnd(MarkSplit) \in {MarkSplit, MarkSplit - 1}
  BY SpanFacts
<1>7. CASE SpanEnd(MarkSplit) < MarkSplit
  <2>1. \E i \in (pos + 1)..MarkSplit : slots[i] = "shutdown"
    BY <1>6, <1>7 DEF SpanEnd
  <2>2. PICK i \in (pos + 1)..MarkSplit : slots[i] = "shutdown"
    BY <2>1
  <2>3. i \in 1..Len(slots) /\ i <= MarkSplit
    BY <1>2, <1>6, <2>2
  <2>4. i = Len(slots)
    BY <1>1, <2>2, <2>3 DEF SentinelLast
  <2>5. i = readEnd /\ MarkSplit = readEnd
    BY <1>2, <1>6, <2>3, <2>4
  <2>6. SpanEnd(MarkSplit) = MarkSplit - 1
    BY <1>6, <1>7
  <2>7. sawShutdown'
    BY <1>5, <1>7
  <2>8. readEnd = pos' + 1
    BY <1>2, <1>5, <2>5, <2>6
  <2>9. QED
    BY <1>4, <1>5, <1>6, <2>2, <2>5, <2>7, <2>8
<1>8. CASE ~(SpanEnd(MarkSplit) < MarkSplit)
  <2>1. SpanEnd(MarkSplit) = MarkSplit
    BY <1>6, <1>8
  <2>2. ~sawShutdown'
    BY <1>5, <1>8
  <2>3. MarkSplit # readEnd => MarkSplit < readEnd
    BY <1>2, <1>6
  <2>4. pos' = MarkSplit /\ pos <= pos'
    BY <1>5, <1>6, <2>1
  <2>5. CASE MarkSplit = readEnd
    BY <1>4, <1>5, <2>2, <2>4, <2>5
  <2>6. CASE MarkSplit # readEnd
    BY <1>4, <1>5, <2>2, <2>3, <2>4, <2>6
  <2>7. QED
    BY <2>5, <2>6
<1>9. QED
  BY <1>7, <1>8

LEMMA WindowAdvances ==
  ASSUME Types, Window, SequencerStep, Advances
  PROVE  Window'
<1>1. SentinelLast /\ SentinelSeen /\ AllEncoded /\ HandedOver /\ CallKnown
  BY DEF Window
<1>2. slots' = slots
  BY SequencerFootprint
<1>3. /\ pos \in Nat /\ readEnd \in Nat /\ handed \in Nat /\ Len(slots) \in Nat
      /\ pos <= readEnd /\ readEnd <= Len(slots) /\ handed <= Len(slots)
  BY DEF Types, SequencerType, UpstreamType
<1>4. SentinelLast'
  BY <1>1, <1>2 DEF SentinelLast
<1>5. CASE Read
  <2>1. /\ pc = "top" /\ pos' = pos /\ handed' = handed /\ sawShutdown' = sawShutdown /\ from' = from
        /\ pc' = IF readEnd' > pos THEN "refresh" ELSE "sync"
    BY <1>5 DEF Read
  <2>2. ~sawShutdown /\ handed <= pos /\ from # "local"
    BY <1>1, <2>1 DEF SentinelSeen, HandedOver, CallKnown, Settled, Finishing
  <2>3. readEnd' \in Nat /\ pos' <= readEnd'
    BY PositionsEffect
  <2>4. pc' = "sync" => pos' = readEnd'
    BY <1>3, <2>1, <2>3
  <2>5. pc' \in {"refresh", "sync"}
    BY <2>1
  <2>6. SentinelSeen' /\ AllEncoded'
    BY <2>1, <2>2, <2>4, <2>5 DEF SentinelSeen, AllEncoded, Settled
  <2>7. HandedOver' /\ CallKnown'
    BY <2>1, <2>2, <2>5 DEF HandedOver, CallKnown, Emptied
  <2>8. QED
    BY <1>4, <2>6, <2>7 DEF Window
<1>6. CASE Encode
  <2>1. readEnd' = readEnd /\ handed' = handed /\ handed <= pos /\ pos <= pos' /\ pos' \in Nat
    BY <1>6, EncodeEffect, PositionsEffect
  <2>2. handed' <= pos'
    BY <1>3, <2>1
  <2>3. from # "local" /\ pc = "encode"
    BY <1>1, <1>6 DEF CallKnown, Encode
  <2>4. \/ pc' = "sync" /\ from' = from /\ ~sawShutdown' /\ pos' = readEnd
        \/ pc' = "sync" /\ from' = from /\ sawShutdown' /\ readEnd = pos' + 1 /\ slots[readEnd] = "shutdown"
        \/ pc' = "resolve" /\ from' = "inline" /\ ~sawShutdown'
    BY <1>6, EncodeEffect
  <2>5. SentinelSeen' /\ AllEncoded'
    BY <1>2, <2>1, <2>4 DEF SentinelSeen, AllEncoded, Settled
  <2>6. HandedOver' /\ CallKnown'
    BY <2>2, <2>3, <2>4 DEF HandedOver, CallKnown, Emptied
  <2>7. QED
    BY <1>4, <2>5, <2>6 DEF Window
<1>7. CASE DrainRemaining
  <2>1. /\ pc = "drain" /\ pc' = "drain" /\ Pending = 0 /\ handed' = handed /\ from' = from /\ sawShutdown' = sawShutdown
        /\ pos' = readEnd'
    BY <1>7 DEF DrainRemaining
  <2>2. ~sawShutdown /\ from # "local"
    BY <1>1, <2>1 DEF SentinelSeen, CallKnown, Settled, Finishing
  <2>3. pos' \in Nat /\ pos <= pos' /\ handed = pos
    BY <1>3, <2>1, PositionsEffect DEF Pending
  <2>4. handed' <= pos'
    BY <2>1, <2>3
  <2>5. SentinelSeen' /\ AllEncoded'
    BY <2>1, <2>2 DEF SentinelSeen, AllEncoded
  <2>6. HandedOver' /\ CallKnown'
    BY <2>1, <2>2, <2>4 DEF HandedOver, CallKnown, Emptied
  <2>7. QED
    BY <1>4, <2>5, <2>6 DEF Window
<1>8. CASE Submits
  <2>1. PICK target \in {pos, readEnd} :
           /\ handed' = target /\ pos' = pos /\ readEnd' = readEnd /\ from' = from /\ sawShutdown' = sawShutdown
           /\ \/ pc = "barrier" /\ pc' = "barrier" /\ target = pos
              \/ pc = "sync" /\ pc' = "rotate?" /\ target = readEnd
              \/ pc = "tail" /\ pc' = "tail" /\ target = readEnd /\ sawShutdown
              \/ pc = "drain" /\ pc' = "drain" /\ target = readEnd
    BY <1>8, SubmitEffect
  <2>2. pc # "barrier" /\ ~sawShutdown => readEnd = pos
    BY <1>1, <2>1 DEF AllEncoded, Settled
  <2>3. target = pos \/ (sawShutdown /\ target = readEnd)
    BY <2>1, <2>2
  <2>4. Count(slots, target) = Count(slots, pos)
    <3>1. CASE target = pos
      BY <3>1
    <3>2. CASE sawShutdown /\ target = readEnd
      <4>1. readEnd = pos + 1 /\ slots[readEnd] = "shutdown"
        BY <1>1, <3>2 DEF SentinelSeen
      <4>2. \A i \in (pos + 1)..readEnd : slots[i] # "entry"
        BY <1>3, <4>1
      <4>3. QED
        BY <1>3, <3>2, <4>2, CountSame
    <3>3. QED
      BY <2>3, <3>1, <3>2
  <2>5. target <= pos \/ (sawShutdown /\ target <= readEnd)
    BY <1>3, <2>3
  <2>6. SentinelSeen'
    BY <1>1, <1>2, <2>1 DEF SentinelSeen, Settled, Finishing
  <2>7. AllEncoded'
    BY <1>1, <2>1 DEF AllEncoded, Settled
  <2>8. HandedOver'
    BY <1>2, <2>1, <2>4, <2>5 DEF HandedOver
  <2>9. CallKnown'
    BY <1>1, <2>1 DEF CallKnown
  <2>10. QED
    BY <1>4, <2>6, <2>7, <2>8, <2>9 DEF Window
<1>9. QED
  BY <1>5, <1>6, <1>7, <1>8 DEF Advances

LEMMA WindowStep ==
  ASSUME Types, Window, [Next]_vars
  PROVE  Window'
<1>1. CASE Upstream
  BY <1>1, WindowUpstream
<1>2. CASE SequencerStep
  BY <1>2, WindowQuiet, WindowAdvances
<1>3. CASE Disk
  <2>1. sequencer' = sequencer /\ slots' = slots
    BY <1>3 DEF Disk, SampleStop, StageReady, Write, Sync, PublishProgress, PublishFsyncState, PublishDurable,
         Release, StoreCause, LatchPoison, RotateSegment, NothingToDo, upstream
  <2>2. QED
    BY <2>1, WindowFrame
<1>4. CASE UNCHANGED vars
  BY <1>4, WindowFrame DEF vars, upstream
<1>5. QED
  BY <1>1, <1>2, <1>3, <1>4 DEF Next, SequencerStep


-----------------------------------------------------------------------------
(* The hand-off: the write ring, the stop flag and the rotation slot *)

Stopped == stop => pc \in {"join", "done", "failed"}

\* A claimed slot is one of the ring's.
RingRoom == Len(batches) + (IF claim THEN 1 ELSE 0) <= RingDepth

\* A rotation is asked for and answered while the sequencer waits for it with
\* the ring drained; its segment starts right past what is encoded.
RotationInv ==
  /\ rotation.kind # "idle" => pc = "await" /\ batches = <<>>
  /\ rotation.kind = "requested" => rotation.start = Count(slots, pos) + 1
  /\ rotation.kind = "ok" => live = Count(slots, pos) + 1
  /\ rotation.kind # "ok" => live = segStart
  /\ segStart >= 1 /\ segStart <= Count(slots, pos) + 1

HandOffInv == Stopped /\ RingRoom /\ RotationInv

LEMMA HandOffInit ==
  ASSUME Init
  PROVE  HandOffInv
<1>1. /\ slots = <<>> /\ pc = "top" /\ stop = FALSE /\ batches = <<>> /\ claim = FALSE
      /\ rotation = [kind |-> "idle", start |-> 0] /\ live = 1 /\ segStart = 1 /\ pos = 0
  BY DEF Init, RotateSlot
<1>2. Len(<<>>) = 0 /\ rotation.kind = "idle"
  BY <1>1
<1>3. Count(slots, pos) \in Nat
  BY <1>1, CountFinite
<1>4. Stopped
  BY <1>1 DEF Stopped
<1>5. RingRoom
  BY <1>1, <1>2, JournalStageBounds DEF RingRoom
<1>6. RotationInv
  BY <1>1, <1>2, <1>3 DEF RotationInv
<1>7. QED
  BY <1>4, <1>5, <1>6 DEF HandOffInv

LEMMA HandOffUpstream ==
  ASSUME Types, HandOffInv, Upstream
  PROVE  HandOffInv'
<1>1. /\ pc' = pc /\ stop' = stop /\ batches' = batches /\ claim' = claim /\ rotation' = rotation
      /\ live' = live /\ segStart' = segStart /\ pos' = pos
  BY UpstreamEffect DEF sequencer, handOff, disk
<1>2. Count(slots', pos) = Count(slots, pos)
  BY SlotsStay, AtBound
<1>3. QED
  BY <1>1, <1>2 DEF HandOffInv, Stopped, RingRoom, RotationInv

\* The stop flag and the place of the sequencer after a step.
LEMMA StoppedSequencing ==
  ASSUME Stopped, SequencerStep
  PROVE  Stopped'
<1>1. \/ stop' = stop /\ (pc \in {"join", "done", "failed"} => pc' \in {"join", "done", "failed"})
      \/ pc' = "join"
  BY DEF SequencerStep, Sequencing, SeesPoison, FailPoisoned, SeesShutdown, Read,
     RefreshPendingMark, Encode, EncodeFails, ClaimFails, SubmitFails, Idle, TailEnd, DrainRemaining, BarrierApply,
     BarrierPasses, DrainDone, ResolveStreamMarks, MaybeRotate, RotationFailed, RotationDone, RequestRotation,
     FinishDrained, Halt, FinishFails, Join, SyncDelayed, IdleApply, BackoffExpires, BarrierSubmit, SyncPoint,
     TailSubmit, DrainSubmit, SubmitBatch, handOff
<1>2. QED
  BY <1>1 DEF Stopped

LEMMA RoomSequencing ==
  ASSUME Types, RingRoom, SequencerStep
  PROVE  RingRoom'
<1>1. batches \in Seq(BatchType) /\ Len(batches) \in Nat /\ RingDepth \in Nat
  BY JournalStageBounds DEF Types, HandOffType
<1>a. claim \in BOOLEAN
  BY DEF Types, Flags
<1>b. Len(batches) <= RingDepth /\ (claim => Len(batches) < RingDepth)
  BY <1>1, <1>a DEF RingRoom
<1>2. CASE Submits
  <2>1. PICK t \in {pos, readEnd} : /\ batches' = Append(batches, [base |-> SeqAt(handed), seq |-> At, ring |-> t])
                                    /\ claim' = FALSE /\ CanClaim
    BY <1>2, SubmitEffect
  <2>2. Len(batches') = Len(batches) + 1
    BY <1>1, <2>1, BatchTyped
  <2>3. Len(batches) < RingDepth
    BY <1>b, <2>1 DEF CanClaim
  <2>4. QED
    BY <1>1, <2>1, <2>2, <2>3 DEF RingRoom
<1>3. CASE ~Submits
  <2>1. batches' = batches
    BY <1>3, QuietEffect DEF Rendezvous, RequestRotation, RotationDone, RotationFailed, FinishDrained, Halt
  <2>2. claim' => claim \/ Len(batches) < RingDepth
    <3>1. CASE Encode
      <4>1. SeqAt(SpanEnd(MarkSplit)) > At => CanClaim
        BY <3>1 DEF Encode
      <4>2. claim' <=> (claim \/ SeqAt(SpanEnd(MarkSplit)) > At)
        BY <3>1, <1>a DEF Encode
      <4>3. QED
        BY <4>1, <4>2 DEF CanClaim
    <3>2. CASE DrainRemaining
      <4>1. PICK e \in Readable(MaxBatch) : (SeqAt(e) > At => CanClaim) /\ claim' = (claim \/ SeqAt(e) > At)
        BY <3>2 DEF DrainRemaining
      <4>2. claim' <=> (claim \/ SeqAt(e) > At)
        BY <4>1, <1>a
      <4>3. QED
        BY <4>1, <4>2 DEF CanClaim
    <3>3. CASE ~(Encode \/ DrainRemaining)
      <4>1. claim' = claim
        BY <1>3, <3>3 DEF SequencerStep, Submits, Sequencing, SeesPoison, FailPoisoned, SeesShutdown, Read,
          RefreshPendingMark, EncodeFails, ClaimFails, SubmitFails, Idle, TailEnd, BarrierApply,
          BarrierPasses, DrainDone, ResolveStreamMarks, MaybeRotate, RotationFailed, RotationDone, RequestRotation,
          FinishDrained, Halt, FinishFails, Join, SyncDelayed, IdleApply, BackoffExpires
      <4>2. QED
        BY <4>1
    <3>4. QED
      BY <3>1, <3>2, <3>3
  <2>3. claim' => Len(batches) < RingDepth
    BY <1>b, <2>2
  <2>4. (IF claim' THEN 1 ELSE 0) \in {0, 1} /\ ((IF claim' THEN 1 ELSE 0) = 1 => claim')
    OBVIOUS
  <2>5. QED
    BY <1>1, <1>b, <2>1, <2>3, <2>4 DEF RingRoom
<1>4. QED
  BY <1>2, <1>3

LEMMA RotationSequencing ==
  ASSUME Types, Window, RotationInv, SequencerStep
  PROVE  RotationInv'
<1>1. slots' = slots /\ live' = live /\ rotation \in RotationType
  BY SequencerFootprint DEF disk, Types, HandOffType
<1>2. /\ Count(slots, pos) \in Nat /\ Count(slots, pos') \in Nat /\ Count(slots, pos) <= Count(slots, pos')
  BY PositionsEffect, AtBound, CountFinite, CountGrows
<1>3. segStart \in Nat
  BY DEF Types, SequencerType
<1>4. CASE Submits
  <2>1. pc # "await" /\ rotation' = rotation /\ segStart' = segStart /\ pos' = pos
    BY <1>4, SubmitEffect
  <2>2. QED
    BY <1>1, <2>1 DEF RotationInv
<1>5. CASE RequestRotation
  <2>1. /\ pc' = "await" /\ batches' = <<>> /\ pos' = pos /\ segStart' = segStart /\ pc = "quiesce"
        /\ rotation' = [kind |-> "requested", start |-> Count(slots, pos) + 1]
    BY <1>5, AtCounts DEF RequestRotation, Drained, RotateSlot
  <2>2. rotation'.kind = "requested" /\ rotation'.start = Count(slots, pos) + 1
    BY <2>1
  <2>3. QED
    BY <1>1, <2>1, <2>2 DEF RotationInv
<1>6. CASE RotationDone
  <2>1. /\ rotation.kind = "ok" /\ pos' = pos /\ segStart' = Count(slots, pos) + 1
        /\ rotation' = [kind |-> "idle", start |-> 0]
    BY <1>6, AtCounts DEF RotationDone, RotateSlot
  <2>2. rotation'.kind = "idle"
    BY <2>1
  <2>3. QED
    BY <1>1, <1>2, <2>1, <2>2 DEF RotationInv
<1>7. CASE pc = "await" /\ RotationFailed
  <2>1. /\ rotation.kind = "failed" /\ pos' = pos /\ segStart' = segStart
        /\ rotation' = [kind |-> "idle", start |-> 0]
    BY <1>7 DEF RotationFailed, RotateSlot
  <2>2. rotation'.kind = "idle"
    BY <2>1
  <2>3. QED
    BY <1>1, <2>1, <2>2 DEF RotationInv
<1>8. CASE FinishDrained \/ Halt
  <2>1. pc # "await" /\ rotation' = rotation /\ segStart' = segStart /\ pos' = pos
    BY <1>8 DEF FinishDrained, Halt
  <2>2. QED
    BY <1>1, <2>1 DEF RotationInv
<1>9. CASE ~Submits /\ ~Rendezvous
  <2>1. batches' = batches /\ rotation' = rotation /\ segStart' = segStart
    BY <1>9, QuietEffect
  <2>2. pc = "await" => pc' = "await" /\ pos' = pos
    BY <1>9 DEF SequencerStep, Submits, Rendezvous, Sequencing, SeesPoison, FailPoisoned, SeesShutdown, Read,
          RefreshPendingMark, Encode, EncodeFails, ClaimFails, SubmitFails, Idle, TailEnd, BarrierApply, DrainRemaining,
          BarrierPasses, DrainDone, ResolveStreamMarks, MaybeRotate, RotationFailed,
          FinishFails, Join, SyncDelayed, IdleApply, BackoffExpires
  <2>3. segStart <= Count(slots, pos') + 1
    BY <1>2, <1>3 DEF RotationInv
  <2>4. CASE pc = "await"
    BY <1>1, <2>1, <2>2, <2>4 DEF RotationInv
  <2>5. CASE pc # "await"
    <3>1. rotation.kind = "idle"
      BY <2>5 DEF RotationInv
    <3>2. QED
      BY <1>1, <2>1, <2>3, <3>1 DEF RotationInv
  <2>6. QED
    BY <2>4, <2>5
<1>10. QED
  BY <1>4, <1>5, <1>6, <1>7, <1>8, <1>9 DEF Rendezvous


\* What every step of the disk thread leaves alone.
LEMMA DiskFootprint ==
  ASSUME Disk
  PROVE  /\ lineage' = lineage /\ upstream' = upstream /\ sequencer' = sequencer /\ stop' = stop
         /\ slots' = slots /\ pc' = pc /\ pos' = pos /\ handed' = handed /\ claim' = claim /\ segStart' = segStart
  BY DEF Disk, SampleStop, StageReady, Write, Sync, PublishProgress, PublishFsyncState, PublishDurable,
         Release, StoreCause, LatchPoison, RotateSegment, NothingToDo, upstream, sequencer, handOff

LEMMA HandOffDisk ==
  ASSUME Types, HandOffInv, Disk
  PROVE  HandOffInv'
<1>1. Stopped /\ RingRoom /\ RotationInv
  BY DEF HandOffInv
<1>2. /\ slots' = slots /\ pc' = pc /\ pos' = pos /\ stop' = stop /\ claim' = claim /\ segStart' = segStart
  BY DiskFootprint
<1>3. batches \in Seq(BatchType) /\ Len(batches) \in Nat /\ RingDepth \in Nat /\ rotation \in RotationType
  BY JournalStageBounds DEF Types, HandOffType
<1>4. Stopped'
  BY <1>1, <1>2 DEF Stopped
<1>5. CASE Release
  <2>1. staged \in 1..Len(batches) /\ batches' = SubSeq(batches, staged + 1, Len(batches))
        /\ rotation' = rotation /\ live' = live
    BY <1>5, StagedBatch DEF Release, Staging
  <2>2. Len(batches') \in Nat /\ Len(batches') <= Len(batches)
    BY <1>3, <2>1, SubSeqProperties
  <2>3. batches # <<>>
    BY <1>3, <2>1
  <2>4. RotationInv'
    BY <1>1, <1>2, <2>1, <2>3 DEF RotationInv
  <2>5. (IF claim THEN 1 ELSE 0) \in {0, 1}
    OBVIOUS
  <2> DEFINE c == IF claim THEN 1 ELSE 0
  <2>6. Len(batches) + c <= RingDepth /\ c \in {0, 1}
    BY <1>1, <2>5 DEF RingRoom
  <2> HIDE DEF c
  <2>7. Len(batches') + c <= RingDepth
    BY <1>3, <2>2, <2>6
  <2>8. RingRoom'
    BY <1>2, <2>7 DEF RingRoom, c
  <2>9. QED
    BY <1>4, <2>4, <2>8 DEF HandOffInv
<1>6. CASE RotateSegment
  <2>1. /\ batches' = batches /\ rotation.kind = "requested"
        /\ \/ live' = rotation.start /\ rotation' = [kind |-> "ok", start |-> 0]
           \/ live' = live /\ rotation' = [kind |-> "failed", start |-> 0]
    BY <1>6 DEF RotateSegment, RotateSlot
  <2>2. \/ live' = rotation.start /\ rotation'.kind = "ok"
        \/ live' = live /\ rotation'.kind = "failed"
    BY <2>1
  <2>3. RotationInv'
    BY <1>1, <1>2, <2>1, <2>2 DEF RotationInv
  <2>4. RingRoom'
    BY <1>1, <1>2, <2>1 DEF RingRoom
  <2>5. QED
    BY <1>4, <2>3, <2>4 DEF HandOffInv
<1>7. CASE ~Release /\ ~RotateSegment
  <2>1. batches' = batches /\ rotation' = rotation /\ live' = live
    BY <1>7 DEF Disk, SampleStop, StageReady, Write, Sync, PublishProgress, PublishFsyncState, PublishDurable,
         StoreCause, LatchPoison, NothingToDo, handOff
  <2>2. QED
    BY <1>1, <1>2, <1>4, <2>1 DEF HandOffInv, RingRoom, RotationInv
<1>8. QED
  BY <1>5, <1>6, <1>7

LEMMA HandOffStep ==
  ASSUME Types, Window, HandOffInv, [Next]_vars
  PROVE  HandOffInv'
<1>1. CASE Upstream
  BY <1>1, HandOffUpstream
<1>2. CASE SequencerStep
  BY <1>2, StoppedSequencing, RoomSequencing, RotationSequencing DEF HandOffInv
<1>3. CASE Disk
  BY <1>3, HandOffDisk
<1>4. CASE UNCHANGED vars
  BY <1>4 DEF vars, upstream, sequencer, handOff, disk, HandOffInv, Stopped, RingRoom, RotationInv
<1>5. QED
  BY <1>1, <1>2, <1>3, <1>4 DEF Next, SequencerStep

-----------------------------------------------------------------------------
(* The batches in the write ring *)

\* Each batch carries what follows the one before it, up to its ring position.
Linked(i) ==
  /\ batches[i].seq = Count(slots, batches[i].ring)
  /\ batches[i].ring <= handed /\ batches[i].base <= batches[i].seq
  /\ i > 1 => batches[i].base = batches[i - 1].seq

ChainInv ==
  /\ \A i \in 1..Len(batches) : Linked(i)
  /\ \A i, j \in 1..Len(batches) : i <= j => batches[i].ring <= batches[j].ring
  /\ batches # <<>> => batches[Len(batches)].ring = handed
  /\ batches = <<>> => progress = handed /\ durable = Count(slots, handed)

LEMMA BatchFields ==
  ASSUME Types
  PROVE  \A i \in 1..Len(batches) : batches[i].base \in Nat /\ batches[i].seq \in Nat /\ batches[i].ring \in Nat
<1>1. batches \in Seq(BatchType)
  BY DEF Types, HandOffType
<1>2. \A i \in 1..Len(batches) : batches[i] \in BatchType
  BY <1>1
<1>3. \A b \in BatchType : b.base \in Nat /\ b.seq \in Nat /\ b.ring \in Nat
  BY DEF BatchType
<1>4. QED
  BY <1>2, <1>3

\* The batches 1..n together carry one interval of entries.
LEMMA StagedSpan ==
  ASSUME Types, ChainInv, NEW n \in 1..Len(batches)
  PROVE  /\ UNION {EntriesOf(batches[i]) : i \in 1..n} = (batches[1].base + 1)..batches[n].seq
         /\ batches[1].base \in Nat /\ batches[n].seq \in Nat /\ batches[1].base <= batches[n].seq
<1>1. batches \in Seq(BatchType) /\ Len(batches) \in Nat /\ n \in Nat /\ 1 \in 1..Len(batches)
  BY DEF Types, HandOffType
<1>2. \A i \in 1..Len(batches) : batches[i].base \in Nat /\ batches[i].seq \in Nat /\ batches[i].ring \in Nat
  BY BatchFields
<1>3. \A i, j \in 1..Len(batches) : i <= j => batches[i].seq <= batches[j].seq
  <2>1. SUFFICES ASSUME NEW i \in 1..Len(batches), NEW j \in 1..Len(batches), i <= j
                 PROVE  batches[i].seq <= batches[j].seq
    OBVIOUS
  <2>2. batches[i].ring <= batches[j].ring /\ batches[i].ring \in Nat /\ batches[j].ring \in Nat
    BY <1>2, <2>1 DEF ChainInv
  <2>3. Count(slots, batches[i].ring) <= Count(slots, batches[j].ring)
    BY <2>2, CountGrows
  <2>4. QED
    BY <2>3 DEF ChainInv, Linked
<1>4. \A i \in 1..Len(batches) : batches[1].base <= batches[i].base
  <2>1. SUFFICES ASSUME NEW i \in 1..Len(batches) PROVE batches[1].base <= batches[i].base
    OBVIOUS
  <2>2. CASE i = 1
    BY <1>1, <1>2, <2>2
  <2>3. CASE i # 1
    <3>1. i - 1 \in 1..Len(batches) /\ i > 1
      BY <1>1, <2>3
    <3>2. batches[i].base = batches[i - 1].seq /\ batches[1].base <= batches[1].seq
      BY <1>1, <3>1 DEF ChainInv, Linked
    <3>3. batches[1].seq <= batches[i - 1].seq
      BY <1>1, <1>3, <3>1
    <3>4. QED
      BY <1>1, <1>2, <3>1, <3>2, <3>3
  <2>4. QED
    BY <2>2, <2>3
<1>5. batches[1].base <= batches[n].seq
  <2>1. batches[1].base <= batches[n].base /\ batches[n].base <= batches[n].seq
    BY <1>4 DEF ChainInv, Linked
  <2>2. QED
    BY <1>1, <1>2, <2>1
<1>6. ASSUME NEW i \in 1..n, NEW e \in EntriesOf(batches[i])
      PROVE  e \in (batches[1].base + 1)..batches[n].seq
  <2>1. i \in 1..Len(batches) /\ i <= n
    BY <1>1
  <2>2. batches[i].seq <= batches[n].seq /\ batches[1].base <= batches[i].base
    BY <1>3, <1>4, <2>1
  <2>3. e \in (batches[i].base + 1)..batches[i].seq
    BY DEF EntriesOf
  <2>4. QED
    BY <1>1, <1>2, <2>1, <2>2, <2>3
<1>7. ASSUME NEW e \in (batches[1].base + 1)..batches[n].seq
      PROVE  \E i \in 1..n : e \in EntriesOf(batches[i])
  <2> DEFINE S == {i \in 1..n : e <= batches[i].seq}
  <2>1. S \in SUBSET Nat /\ n \in S /\ e \in Int /\ batches[1].base + 1 <= e
    BY <1>1, <1>2
  <2>2. S # {}
    BY <2>1
  <2>3. Min(S) \in S /\ \A y \in S : Min(S) <= y
    BY <2>1, <2>2, MinOfSet
  <2>4. PICK i \in S : \A y \in S : i <= y
    BY <2>3
  <2>5. i \in 1..n /\ i \in 1..Len(batches) /\ e <= batches[i].seq
    BY <1>1, <2>4
  <2>6. batches[i].base + 1 <= e
    <3>1. CASE i = 1
      BY <2>1, <3>1
    <3>2. CASE i # 1
      <4>1. i - 1 \in 1..n /\ i - 1 \in 1..Len(batches) /\ i > 1 /\ i \in Nat
        BY <1>1, <2>5, <3>2
      <4>2. i - 1 \notin S
        BY <2>4, <4>1
      <4>3. ~(e <= batches[i - 1].seq)
        BY <4>1, <4>2
      <4>4. batches[i].base = batches[i - 1].seq
        BY <2>5, <4>1 DEF ChainInv, Linked
      <4>5. batches[i - 1].seq \in Nat
        BY <1>2, <4>1
      <4>6. QED
        BY <2>1, <4>3, <4>4, <4>5
    <3>3. QED
      BY <3>1, <3>2
  <2>7. batches[i].base \in Nat /\ batches[i].seq \in Nat
    BY <1>2, <2>5
  <2>8. e \in EntriesOf(batches[i])
    BY <2>1, <2>5, <2>6, <2>7 DEF EntriesOf
  <2>9. QED
    BY <2>5, <2>8
<1>8. UNION {EntriesOf(batches[i]) : i \in 1..n} = (batches[1].base + 1)..batches[n].seq
  BY <1>6, <1>7
<1>9. QED
  BY <1>1, <1>2, <1>5, <1>8

\* The length the disk thread writes.
LEMMA StagedLength ==
  ASSUME Types, ChainInv, staged \in 1..Len(batches)
  PROVE  StagedLen = Last.seq - batches[1].base
<1>1. /\ UNION {EntriesOf(batches[i]) : i \in 1..staged} = (batches[1].base + 1)..batches[staged].seq
      /\ batches[1].base \in Nat /\ batches[staged].seq \in Nat /\ batches[1].base <= batches[staged].seq
  BY StagedSpan
<1> DEFINE a == batches[1].base + 1
           b == batches[staged].seq
<1>2. a \in Int /\ b \in Int /\ a <= b + 1
  BY <1>1
<1> HIDE DEF a, b
<1>3. Cardinality(a..b) = IF a > b THEN 0 ELSE b - a + 1
  BY <1>2, FS_Interval
<1>4. Cardinality(a..b) = b + 1 - a
  BY <1>2, <1>3
<1>5. StagedLen = b + 1 - a
  BY <1>1, <1>4 DEF StagedLen, a, b
<1>6. QED
  BY <1>1, <1>5 DEF Last, a, b

\* Batches that carry nothing leave the sequence where it was.
LEMMA StagedNothing ==
  ASSUME Types, ChainInv, NEW n \in 1..Len(batches), \A i \in 1..n : EntriesOf(batches[i]) = {}
  PROVE  batches[n].seq = batches[1].base
<1>1. /\ UNION {EntriesOf(batches[i]) : i \in 1..n} = (batches[1].base + 1)..batches[n].seq
      /\ batches[1].base \in Nat /\ batches[n].seq \in Nat /\ batches[1].base <= batches[n].seq
  BY StagedSpan
<1>2. UNION {EntriesOf(batches[i]) : i \in 1..n} = {}
  OBVIOUS
<1>3. (batches[1].base + 1)..batches[n].seq = {}
  BY <1>1, <1>2
<1>4. ~(batches[1].base + 1 <= batches[n].seq)
  BY <1>1, <1>3
<1>5. QED
  BY <1>1, <1>4


-----------------------------------------------------------------------------
(* What the disk thread has written, synced and published *)

DiskInv ==
  /\ dpc \in {"loop", "stage", "rendezvous"} => staged = 0
  /\ dpc = "exited" /\ poisoned => staged \in 1..Len(batches)
  /\ dpc = "exited" /\ ~poisoned => stop /\ batches = <<>> /\ staged = 0
  /\ poisoned => dpc = "exited"
  /\ stopSampled => stop
  /\ dpc = "rendezvous" /\ stopSampled => batches = <<>>

Releasing == {"fsync state", "durable", "release"}

\* The cursors stand where the batches staged last end, once published, and
\* where the first batch begins before that.
CursorInv ==
  /\ fsync.seq = Count(slots, fsync.ring)
  /\ fsync.ring <= progress /\ progress <= handed
  /\ dpc # "durable" => durable = fsync.seq
  /\ dpc # "fsync state" => fsync.ring = progress
  /\ batches # <<>> /\ dpc # "release" => batches[1].base = durable
  /\ batches # <<>> /\ dpc \notin Releasing => progress <= batches[1].ring
  /\ dpc \in Releasing => progress = Last.ring
  /\ dpc = "release" => durable = Last.seq

\* At rest the file holds what is durable; a write adds what is staged, whole
\* or in part; only a sync precedes the publication.
PlacedInv ==
  /\ synced <= Len(placed) /\ durable <= synced
  /\ dpc \in {"loop", "stage", "write", "rendezvous"} => Len(placed) = durable
  /\ dpc = "exited" /\ ~poisoned => Len(placed) = durable
  /\ dpc = "sync" => Len(placed) = Last.seq
  /\ dpc \in {"progress"} \union Releasing => Len(placed) = Last.seq /\ synced = Last.seq
  /\ dpc \in {"poison", "latch"} \/ poisoned => Len(placed) <= Last.seq
  /\ live <= durable + 1

DurableInv == ChainInv /\ DiskInv /\ CursorInv /\ PlacedInv

LEMMA DurableInit ==
  ASSUME Init
  PROVE  DurableInv
<1>1. /\ slots = <<>> /\ batches = <<>> /\ handed = 0 /\ progress = 0 /\ fsync = [seq |-> 0, ring |-> 0] /\ durable = 0
      /\ dpc = "loop" /\ staged = 0 /\ placed = <<>> /\ synced = 0 /\ live = 1 /\ poisoned = FALSE /\ stopSampled = FALSE
  BY DEF Init
<1>2. Len(<<>>) = 0 /\ fsync.seq = 0 /\ fsync.ring = 0
  BY <1>1
<1>3. Count(slots, 0) = 0
  <2>1. Count(slots, 0) \in Nat /\ Count(slots, 0) <= 0
    BY CountFinite
  <2>2. QED
    BY <2>1
<1>4. ChainInv
  BY <1>1, <1>2, <1>3 DEF ChainInv
<1>5. DiskInv
  BY <1>1 DEF DiskInv
<1>6. CursorInv
  BY <1>1, <1>2, <1>3 DEF CursorInv, Releasing
<1>7. PlacedInv
  BY <1>1, <1>2 DEF PlacedInv, Releasing
<1>8. QED
  BY <1>4, <1>5, <1>6, <1>7 DEF DurableInv

LEMMA DurableUpstream ==
  ASSUME Types, DurableInv, Upstream
  PROVE  DurableInv'
<1>1. ChainInv /\ DiskInv /\ CursorInv /\ PlacedInv
  BY DEF DurableInv
<1>2. /\ handed' = handed /\ batches' = batches /\ stop' = stop /\ poisoned' = poisoned /\ disk' = disk
  BY UpstreamEffect DEF sequencer, handOff
<1>3. /\ progress' = progress /\ fsync' = fsync /\ durable' = durable /\ dpc' = dpc /\ staged' = staged
      /\ placed' = placed /\ synced' = synced /\ live' = live /\ stopSampled' = stopSampled
  BY <1>2 DEF disk, cursors
<1>4. /\ handed \in Nat /\ handed <= Len(slots) /\ fsync.ring \in Nat /\ progress \in Nat /\ Len(slots) \in Nat
  BY DEF Types, SequencerType, DiskType, UpstreamType
<1>5. \A p \in Nat : p <= handed => Count(slots', p) = Count(slots, p)
  BY <1>4, SlotsStay
<1>6. Count(slots', handed) = Count(slots, handed) /\ Count(slots', fsync.ring) = Count(slots, fsync.ring)
  <2>a. fsync.ring <= progress /\ progress <= handed
    BY <1>1 DEF CursorInv
  <2>b. fsync.ring \in Nat /\ progress \in Nat /\ handed \in Nat
    BY <1>4
  <2>1. fsync.ring <= handed
    BY ONLY <2>a, <2>b
  <2>2. Count(slots', fsync.ring) = Count(slots, fsync.ring)
    BY <1>4, <1>5, <2>1
  <2>3. Count(slots', handed) = Count(slots, handed)
    BY <1>4, <1>5
  <2>4. QED
    BY <2>2, <2>3
<1>7. \A i \in 1..Len(batches) : Count(slots', batches[i].ring) = Count(slots, batches[i].ring)
  BY <1>1, <1>5, BatchFields DEF ChainInv, Linked
<1>8. ChainInv'
  BY <1>1, <1>2, <1>3, <1>6, <1>7 DEF ChainInv, Linked
<1>9. DiskInv' /\ PlacedInv'
  BY <1>1, <1>2, <1>3 DEF DiskInv, PlacedInv, Last
<1>10. CursorInv'
  BY <1>1, <1>2, <1>3, <1>6 DEF CursorInv, Last
<1>11. QED
  BY <1>8, <1>9, <1>10 DEF DurableInv

\* A batch is handed over with everything encoded in it.
LEMMA SubmitTarget ==
  ASSUME Types, Window, Submits
  PROVE  \E target \in {pos, readEnd} :
           /\ batches' = Append(batches, [base |-> SeqAt(handed), seq |-> At, ring |-> target])
           /\ handed' = target /\ handed < target /\ Count(slots, target) = At
           /\ stop' = stop
<1>1. PICK target \in {pos, readEnd} :
           /\ batches' = Append(batches, [base |-> SeqAt(handed), seq |-> At, ring |-> target])
           /\ handed' = target /\ Pending > 0 /\ stop' = stop
           /\ \/ pc = "barrier" /\ pc' = "barrier" /\ target = pos
              \/ pc = "sync" /\ pc' = "rotate?" /\ target = readEnd
              \/ pc = "tail" /\ pc' = "tail" /\ target = readEnd /\ sawShutdown
              \/ pc = "drain" /\ pc' = "drain" /\ target = readEnd
  BY SubmitEffect
<1>2. SentinelSeen /\ AllEncoded
  BY DEF Window
<1>3. pos \in Nat /\ readEnd \in Nat /\ handed \in Nat /\ pos <= readEnd
  BY DEF Types, SequencerType
<1>4. target = pos \/ (readEnd = pos + 1 /\ slots[readEnd] = "shutdown" /\ target = readEnd)
  <2>1. pc # "barrier" /\ ~sawShutdown => readEnd = pos
    BY <1>1, <1>2 DEF AllEncoded, Settled
  <2>2. sawShutdown => readEnd = pos + 1 /\ slots[readEnd] = "shutdown"
    BY <1>2 DEF SentinelSeen
  <2>3. QED
    BY <1>1, <2>1, <2>2
<1>5. Count(slots, target) = Count(slots, pos)
  <2>1. CASE target = pos
    BY <2>1
  <2>2. CASE readEnd = pos + 1 /\ slots[readEnd] = "shutdown" /\ target = readEnd
    <3>1. \A i \in (pos + 1)..readEnd : slots[i] # "entry"
      BY <1>3, <2>2
    <3>2. QED
      BY <1>3, <2>2, <3>1, CountSame
  <2>3. QED
    BY <1>4, <2>1, <2>2
<1>6. handed < target
  BY <1>1, <1>3 DEF Pending
<1>7. QED
  BY <1>1, <1>5, <1>6, AtCounts


LEMMA DurableSubmit ==
  ASSUME Types, Window, HandOffInv, DurableInv, SequencerStep, Submits
  PROVE  DurableInv'
<1>1. ChainInv /\ DiskInv /\ CursorInv /\ PlacedInv
  BY DEF DurableInv
<1>2. PICK target \in {pos, readEnd} :
           /\ batches' = Append(batches, [base |-> SeqAt(handed), seq |-> At, ring |-> target])
           /\ handed' = target /\ handed < target /\ Count(slots, target) = At
           /\ stop' = stop
  BY SubmitTarget
<1>3. slots' = slots /\ disk' = disk /\ poisoned' = poisoned
  BY SequencerFootprint
<1>4. /\ progress' = progress /\ fsync' = fsync /\ durable' = durable /\ dpc' = dpc /\ staged' = staged
      /\ placed' = placed /\ synced' = synced /\ live' = live /\ stopSampled' = stopSampled
  BY <1>3 DEF disk, cursors
<1>5. ~stop
  BY SubmitEffect DEF HandOffInv, Stopped
<1>0. PICK n \in Nat : Len(batches) = n
  BY DEF Types, HandOffType
<1> USE <1>0
<1> DEFINE b == [base |-> SeqAt(handed), seq |-> At, ring |-> target]
<1>6. /\ batches \in Seq(BatchType) /\ n \in Nat /\ b \in BatchType
      /\ handed \in Nat /\ target \in Nat /\ progress \in Nat
  BY BatchTyped DEF Types, HandOffType, SequencerType, DiskType
<1>7. b.base = Count(slots, handed) /\ b.seq = Count(slots, target) /\ b.ring = target
  BY <1>2, SeqAtCounts
<1>8. Count(slots, handed) <= Count(slots, target)
  BY <1>2, <1>6, CountGrows
<1>9. /\ batches' = Append(batches, b) /\ Len(batches') = n + 1 /\ batches' # <<>>
      /\ batches'[n + 1] = b /\ \A i \in 1..n : batches'[i] = batches[i]
  BY <1>2, <1>6
<1> HIDE DEF b
<1>10. \A i \in 1..Len(batches) : batches[i].base \in Nat /\ batches[i].seq \in Nat /\ batches[i].ring \in Nat
  BY BatchFields
<1>11. ChainInv'
  <2>1. \A i \in 1..n : batches[i].ring <= handed
    BY <1>1 DEF ChainInv, Linked
  <2>2. \A i \in 1..n : batches[i].ring <= target
    BY <1>2, <1>6, <1>10, <2>1
  <2>3. ASSUME NEW i \in 1..n PROVE Linked(i)'
    <3>1. Linked(i)
      BY <1>1, <2>3 DEF ChainInv
    <3>2. i > 1 => i - 1 \in 1..n
      BY <1>6, <2>3
    <3>3. batches'[i] = batches[i] /\ (i > 1 => batches'[i - 1] = batches[i - 1]) /\ batches[i].ring <= target
      BY <1>9, <2>2, <2>3, <3>2
    <3>4. QED
      BY <1>2, <1>3, <3>1, <3>3 DEF Linked
  <2>4. Linked(n + 1)'
    <3>1. n + 1 > 1 => /\ batches'[n + 1 - 1] = batches[n] /\ batches[n].seq = Count(slots, handed)
      <4>1. SUFFICES ASSUME n + 1 > 1
                     PROVE  batches'[n + 1 - 1] = batches[n] /\ batches[n].seq = Count(slots, handed)
        OBVIOUS
      <4>2. n \in 1..n /\ n + 1 - 1 = n /\ batches # <<>>
        BY <1>6, <4>1
      <4>3. batches[n].ring = handed /\ batches[n].seq = Count(slots, batches[n].ring)
        BY <1>1, <4>2 DEF ChainInv, Linked
      <4>4. QED
        BY <1>9, <4>2, <4>3
    <3>2. /\ batches'[n + 1].seq = Count(slots', batches'[n + 1].ring)
          /\ batches'[n + 1].ring <= handed' /\ batches'[n + 1].base <= batches'[n + 1].seq
      BY <1>2, <1>3, <1>6, <1>7, <1>8, <1>9
    <3>3. n + 1 > 1 => batches'[n + 1].base = batches'[n + 1 - 1].seq
      BY <1>7, <1>9, <3>1
    <3>4. QED
      BY <3>2, <3>3 DEF Linked
  <2>5. \A i \in 1..Len(batches') : i \in 1..n \/ i = n + 1
    BY <1>6, <1>9
  <2>6. \A i \in 1..Len(batches') : Linked(i)'
    BY <2>3, <2>4, <2>5
  <2>7. ASSUME NEW i \in 1..Len(batches'), NEW j \in 1..Len(batches'), i <= j
        PROVE  batches'[i].ring <= batches'[j].ring
    <3>1. CASE j \in 1..n
      <4>1. i \in 1..n
        BY <1>6, <2>5, <2>7, <3>1
      <4>2. batches[i].ring <= batches[j].ring
        BY <1>1, <2>7, <3>1, <4>1 DEF ChainInv
      <4>3. QED
        BY <1>9, <3>1, <4>1, <4>2
    <3>2. CASE j = n + 1
      <4>1. batches'[j].ring = target
        BY <1>7, <1>9, <3>2
      <4>2. CASE i \in 1..n
        BY <1>9, <2>2, <4>1, <4>2
      <4>3. CASE i = n + 1
        BY <1>6, <3>2, <4>1, <4>3
      <4>4. QED
        BY <2>5, <4>2, <4>3
    <3>3. QED
      BY <2>5, <3>1, <3>2
  <2>8. batches'[Len(batches')].ring = handed'
    BY <1>2, <1>7, <1>9
  <2>9. QED
    BY <1>9, <2>6, <2>7, <2>8 DEF ChainInv
<1>12. staged \in 1..n => Last' = Last /\ staged \in 1..Len(batches')
  BY <1>4, <1>6, <1>9 DEF Last
<1>13. dpc \in Staging \/ poisoned => staged \in 1..n
  BY <1>1 DEF DiskInv, Types, DiskType
<1>14. DiskInv'
  BY <1>1, <1>2, <1>3, <1>4, <1>5, <1>12, <1>13 DEF DiskInv
<1>15. /\ dpc # "release" => batches'[1].base = durable
       /\ dpc \notin Releasing => progress <= batches'[1].ring
  <2>1. CASE n = 0
    <3>1. batches = <<>> /\ batches'[1] = b
      BY <1>6, <1>9, <2>1
    <3>2. progress = handed /\ durable = Count(slots, handed)
      BY <1>1, <3>1 DEF ChainInv
    <3>3. QED
      BY <1>2, <1>6, <1>7, <3>1, <3>2
  <2>2. CASE n # 0
    <3>1. batches # <<>> /\ batches'[1] = batches[1]
      BY <1>6, <1>9, <2>2
    <3>2. QED
      BY <1>1, <3>1 DEF CursorInv
  <2>3. QED
    BY <2>1, <2>2
<1>16. CursorInv'
  <2>1. progress <= handed'
    <3>1. progress <= handed
      BY <1>1 DEF CursorInv
    <3>2. QED
      BY <1>2, <1>6, <3>1
  <2>2. dpc \in Releasing => Last' = Last
    BY <1>12, <1>13 DEF Releasing, Staging
  <2>3. QED
    BY <1>1, <1>3, <1>4, <1>15, <2>1, <2>2 DEF CursorInv, Releasing
<1>17. PlacedInv'
  <2>1. dpc \in {"sync", "progress", "poison", "latch"} \union Releasing \/ poisoned => Last' = Last
    BY <1>12, <1>13 DEF Releasing, Staging
  <2>2. QED
    BY <1>1, <1>3, <1>4, <2>1 DEF PlacedInv
<1>18. QED
  BY <1>11, <1>14, <1>16, <1>17 DEF DurableInv

LEMMA DurableQuiet ==
  ASSUME Types, HandOffInv, DurableInv, SequencerStep, ~Submits
  PROVE  DurableInv'
<1>1. ChainInv /\ DiskInv /\ CursorInv /\ PlacedInv
  BY DEF DurableInv
<1>2. batches' = batches /\ handed' = handed
  BY QuietEffect DEF Rendezvous, RequestRotation, RotationDone, RotationFailed, FinishDrained, Halt
<1>3. slots' = slots /\ disk' = disk /\ poisoned' = poisoned
  BY SequencerFootprint
<1>4. /\ progress' = progress /\ fsync' = fsync /\ durable' = durable /\ dpc' = dpc /\ staged' = staged
      /\ placed' = placed /\ synced' = synced /\ live' = live /\ stopSampled' = stopSampled
  BY <1>3 DEF disk, cursors
<1>5. stop => stop'
  <2>1. stop' = stop \/ stop' = TRUE
    BY QuietEffect DEF Rendezvous, RequestRotation, RotationDone, RotationFailed, FinishDrained, Halt, StopFlag
  <2>2. QED
    BY <2>1
<1>6. ChainInv' /\ CursorInv' /\ PlacedInv'
  BY <1>1, <1>2, <1>3, <1>4 DEF ChainInv, Linked, CursorInv, PlacedInv, Last
<1>7. DiskInv'
  BY <1>1, <1>2, <1>3, <1>4, <1>5 DEF DiskInv
<1>8. QED
  BY <1>6, <1>7 DEF DurableInv


\* The last batch staged, as the chain knows it.
LEMMA LastFacts ==
  ASSUME Types, ChainInv, staged \in 1..Len(batches)
  PROVE  /\ batches # <<>> /\ Last.seq = Count(slots, Last.ring) /\ Last.ring <= handed
         /\ batches[1].ring <= Last.ring /\ batches[1].base <= Last.seq
         /\ Last.seq \in Nat /\ Last.ring \in Nat /\ batches[1].base \in Nat /\ batches[1].ring \in Nat
<1>1. batches \in Seq(BatchType) /\ Len(batches) \in Nat
  BY DEF Types, HandOffType
<1>2. batches # <<>> /\ 1 \in 1..Len(batches) /\ 1 <= staged
  BY <1>1
<1>3. batches[staged].seq = Count(slots, batches[staged].ring) /\ batches[staged].ring <= handed
  BY DEF ChainInv, Linked
<1>4. batches[1].ring <= batches[staged].ring
  BY <1>2 DEF ChainInv
<1>5. batches[1].base <= batches[staged].seq
  BY StagedSpan
<1>6. QED
  BY <1>2, <1>3, <1>4, <1>5, BatchFields DEF Last

LEMMA RestFacts ==
  ASSUME Types, PlacedInv, dpc \in {"loop", "stage", "write", "rendezvous"}
  PROVE  Len(placed) = durable /\ synced = durable /\ durable \in Nat
<1>1. Len(placed) = durable /\ synced <= Len(placed) /\ durable <= synced
  BY DEF PlacedInv
<1>2. durable \in Nat /\ synced \in Nat
  BY DEF Types, DiskType
<1>3. QED
  BY <1>1, <1>2

\* A step that moves the disk thread alone.
LEMMA DurableSame ==
  ASSUME DurableInv, slots' = slots, handed' = handed, batches' = batches, cursors' = cursors
  PROVE  ChainInv'
BY DEF DurableInv, ChainInv, Linked, cursors

LEMMA DurableRelease ==
  ASSUME Types, HandOffInv, DurableInv, Release
  PROVE  DurableInv'
<1>1. ChainInv /\ DiskInv /\ CursorInv /\ PlacedInv
  BY DEF DurableInv
<1>2. slots' = slots /\ handed' = handed /\ stop' = stop
  BY DiskFootprint DEF Disk
<1>3. /\ dpc = "release" /\ dpc' = "loop" /\ batches' = SubSeq(batches, staged + 1, Len(batches)) /\ staged' = 0
      /\ poisoned' = poisoned /\ stopSampled' = stopSampled /\ placed' = placed /\ synced' = synced /\ live' = live
      /\ progress' = progress /\ fsync' = fsync /\ durable' = durable
  BY DEF Release, cursors
<1>4. staged \in 1..Len(batches)
  BY <1>3, StagedBatch DEF Staging
<1>5. PICK k \in Nat : k = staged
  BY <1>4
<1>6. PICK n \in Nat : n = Len(batches)
  BY DEF Types, HandOffType
<1>7. batches \in Seq(BatchType) /\ k \in 1..n
  BY <1>4, <1>5, <1>6 DEF Types, HandOffType
<1>8. Len(batches') = n - k /\ \A i \in 1..(n - k) : batches'[i] = batches[i + k]
  <2>1. batches' = SubSeq(batches, k + 1, n) /\ k + 1 \in 1..(n + 1)
    BY <1>3, <1>5, <1>6, <1>7
  <2>2. Len(batches') = n - k
    BY <1>6, <1>7, <2>1, SubSeqProperties
  <2>3. \A i \in 1..(n - k) : batches'[i] = batches[k + 1 + i - 1]
    BY <1>6, <1>7, <2>1, SubSeqProperties
  <2>4. \A i \in 1..(n - k) : k + 1 + i - 1 = i + k
    BY <1>7
  <2>5. QED
    BY <2>2, <2>3, <2>4
<1>9. progress = Last.ring /\ durable = Last.seq
  BY <1>1, <1>3 DEF CursorInv, Releasing
<1>10. ~poisoned
  BY <1>1, <1>3 DEF DiskInv
<1>11. \A i \in 1..(n - k) : i + k \in 1..n
  BY <1>7
<1>12. ASSUME NEW i \in 1..(n - k) PROVE Linked(i)'
  <2>1. batches'[i] = batches[i + k] /\ i + k \in 1..n /\ i + k > 1
    BY <1>7, <1>8, <1>11
  <2>2. Linked(i + k)
    BY <1>1, <1>6, <2>1 DEF ChainInv
  <2>3. i > 1 => i - 1 \in 1..(n - k) /\ i - 1 + k = i + k - 1
    BY <1>7
  <2>4. i > 1 => batches'[i - 1] = batches[i + k - 1]
    BY <1>8, <2>3
  <2>5. QED
    BY <1>2, <2>1, <2>2, <2>4 DEF Linked
<1>13. ASSUME NEW i \in 1..(n - k), NEW j \in 1..(n - k), i <= j PROVE batches'[i].ring <= batches'[j].ring
  <2>1. i + k <= j + k /\ i + k \in 1..n /\ j + k \in 1..n
    BY <1>7, <1>11, <1>13
  <2>2. batches[i + k].ring <= batches[j + k].ring
    BY <1>1, <1>6, <2>1 DEF ChainInv
  <2>3. QED
    BY <1>8, <2>2
<1>14. CASE n = k
  <2>1. Len(batches') = 0 /\ batches' \in Seq(BatchType) /\ batches' = <<>>
    <3>1. Types'
      BY TypesDisk DEF Disk
    <3>2. batches' \in Seq(BatchType)
      BY <3>1 DEF Types, HandOffType
    <3>3. QED
      BY <1>7, <1>8, <1>14, <3>2
  <2>2. Last.ring = handed /\ Last.seq = Count(slots, handed)
    BY <1>1, <1>4, <1>5, <1>6, <1>14, LastFacts DEF ChainInv, Last
  <2>3. ChainInv'
    BY <1>2, <1>3, <1>9, <2>1, <2>2 DEF ChainInv
  <2>4. DiskInv'
    BY <1>1, <1>2, <1>3, <1>10, <2>1 DEF DiskInv
  <2>5. CursorInv'
    BY <1>1, <1>2, <1>3, <2>1 DEF CursorInv, Releasing
  <2>6. PlacedInv'
    BY <1>1, <1>3, <1>9, <1>10 DEF PlacedInv, Releasing
  <2>7. QED
    BY <2>3, <2>4, <2>5, <2>6 DEF DurableInv
<1>15. CASE n # k
  <2>1. n - k \in Nat /\ n - k >= 1 /\ 1 \in 1..(n - k) /\ n - k \in 1..(n - k) /\ n - k + k = n
    BY <1>7, <1>15
  <2>2. batches' # <<>>
    BY <1>8, <2>1
  <2>3. batches'[n - k].ring = handed
    <3>1. batches # <<>> /\ batches[n].ring = handed
      BY <1>1, <1>4, <1>6, LastFacts DEF ChainInv
    <3>2. QED
      BY <1>8, <2>1, <3>1
  <2>4. ChainInv'
    BY <1>2, <1>8, <1>12, <1>13, <2>2, <2>3 DEF ChainInv
  <2>5. batches'[1].base = durable /\ progress <= batches'[1].ring
    <3>1. batches'[1] = batches[1 + k] /\ 1 + k \in 1..n /\ 1 + k > 1 /\ 1 + k - 1 = k /\ k <= 1 + k
      BY <1>7, <1>8, <1>11, <2>1
    <3>2. batches[1 + k].base = batches[k].seq /\ batches[k].ring <= batches[1 + k].ring
      BY <1>1, <1>6, <1>7, <3>1 DEF ChainInv, Linked
    <3>3. QED
      BY <1>5, <1>9, <3>1, <3>2 DEF Last
  <2>6. DiskInv'
    <3>1. ~(dpc' = "rendezvous") /\ ~(dpc' = "exited")
      BY <1>3
    <3>2. QED
      BY <1>1, <1>2, <1>3, <1>10, <3>1 DEF DiskInv
  <2>7. CursorInv'
    BY <1>1, <1>2, <1>3, <2>5 DEF CursorInv, Releasing
  <2>8. PlacedInv'
    BY <1>1, <1>3, <1>9, <1>10 DEF PlacedInv, Releasing
  <2>9. QED
    BY <2>4, <2>6, <2>7, <2>8 DEF DurableInv
<1>16. QED
  BY <1>14, <1>15


LEMMA DurableWrites ==
  ASSUME Types, DurableInv, StageReady \/ Write \/ Sync
  PROVE  DurableInv'
<1>1. ChainInv /\ DiskInv /\ CursorInv /\ PlacedInv
  BY DEF DurableInv
<1>2. slots' = slots /\ handed' = handed /\ stop' = stop
  BY DiskFootprint DEF Disk
<1>3. /\ batches' = batches /\ poisoned' = poisoned /\ stopSampled' = stopSampled /\ live' = live /\ cursors' = cursors
      /\ progress' = progress /\ fsync' = fsync /\ durable' = durable
  BY DEF StageReady, Write, Sync, handOff, cursors
<1>4. ~poisoned
  BY <1>1 DEF DiskInv, StageReady, Write, Sync
<1>5. ChainInv'
  BY <1>2, <1>3, DurableSame
<1>6. durable \in Nat /\ synced \in Nat /\ placed \in Seq(Nat) /\ Len(placed) \in Nat
  BY DEF Types, DiskType
<1>7. CASE StageReady
  <2>1. /\ dpc = "stage" /\ staged' = Len(batches) /\ placed' = placed /\ synced' = synced
        /\ dpc' = IF batches = <<>> THEN "rendezvous"
                  ELSE IF \E i \in 1..Len(batches) : EntriesOf(batches[i]) # {} THEN "write" ELSE "progress"
    BY <1>7 DEF StageReady
  <2>2. Len(placed) = durable /\ synced = durable
    BY <1>1, <2>1, RestFacts
  <2>3. CASE batches = <<>>
    <3>1. dpc' = "rendezvous" /\ staged' = 0
      BY <2>1, <2>3
    <3>2. DiskInv'
      BY <1>1, <1>2, <1>3, <1>4, <2>3, <3>1 DEF DiskInv
    <3>3. CursorInv'
      BY <1>1, <1>2, <1>3, <2>1, <2>3, <3>1 DEF CursorInv, Releasing
    <3>4. PlacedInv'
      BY <1>1, <1>3, <1>4, <2>1, <2>2, <3>1 DEF PlacedInv, Releasing
    <3>5. QED
      BY <1>5, <3>2, <3>3, <3>4 DEF DurableInv
  <2>4. CASE batches # <<>>
    <3>1. dpc' \in {"write", "progress"}
      BY <2>1, <2>4
    <3>2. DiskInv'
      BY <1>1, <1>2, <1>3, <1>4, <3>1 DEF DiskInv
    <3>3. CursorInv'
      BY <1>1, <1>2, <1>3, <2>1, <3>1 DEF CursorInv, Releasing
    <3>4. dpc' = "progress" => Last'.seq = durable
      <4>1. SUFFICES ASSUME dpc' = "progress" PROVE Last'.seq = durable
        OBVIOUS
      <4>2. \A i \in 1..Len(batches) : EntriesOf(batches[i]) = {}
        BY <2>1, <2>4, <4>1
      <4>3. Len(batches) \in 1..Len(batches)
        BY <2>4 DEF Types, HandOffType
      <4>4. batches[Len(batches)].seq = batches[1].base
        BY <1>1, <4>2, <4>3, StagedNothing
      <4>5. batches[1].base = durable
        BY <1>1, <2>1, <2>4 DEF CursorInv
      <4>6. QED
        BY <1>3, <2>1, <4>4, <4>5 DEF Last
    <3>5. PlacedInv'
      <4>1. dpc' = "progress" => Len(placed') = Last'.seq /\ synced' = Last'.seq
        BY <2>1, <2>2, <3>4
      <4>2. dpc' = "write" => Len(placed') = durable'
        BY <1>3, <2>1, <2>2
      <4>3. QED
        BY <1>1, <1>3, <1>4, <2>1, <3>1, <4>1, <4>2 DEF PlacedInv, Releasing
    <3>6. QED
      BY <1>5, <3>2, <3>3, <3>5 DEF DurableInv
  <2>5. QED
    BY <2>3, <2>4
<1>8. CASE Write
  <2>1. dpc = "write" /\ staged' = staged /\ synced' = synced
    BY <1>8 DEF Write
  <2>2. staged \in 1..Len(batches) /\ Last' = Last
    BY <1>3, <2>1, StagedBatch DEF Staging, Last
  <2>3. batches # <<>> /\ Last.seq \in Nat /\ batches[1].base \in Nat /\ batches[1].base <= Last.seq
    BY <1>1, <2>2, LastFacts
  <2>4. StagedLen = Last.seq - durable
    <3>1. StagedLen = Last.seq - batches[1].base
      BY <1>1, <2>2, StagedLength
    <3>2. batches[1].base = durable
      BY <1>1, <2>1, <2>3 DEF CursorInv
    <3>3. QED
      BY <3>1, <3>2
  <2>5. durable <= Last.seq
    BY <1>1, <2>1, <2>3 DEF CursorInv
  <2>6. Len(placed) = durable /\ synced = durable
    BY <1>1, <2>1, RestFacts
  <2>7. PICK k \in 0..StagedLen : /\ placed' = placed \o [i \in 1..k |-> live]
                                  /\ dpc' \in (IF k = StagedLen THEN {"sync", "poison"} ELSE {"poison"})
    BY <1>8 DEF Write
  <2>8. k \in Nat /\ k <= Last.seq - durable
    BY <1>6, <2>3, <2>4, <2>5, <2>7
  <2>9. [i \in 1..k |-> live] \in Seq(Nat) /\ Len([i \in 1..k |-> live]) = k
    BY <2>8, IsASeq DEF Types, DiskType
  <2>10. Len(placed') = durable + k
    BY <1>6, <2>6, <2>7, <2>9, ConcatProperties
  <2>11. Len(placed') <= Last.seq /\ synced <= Len(placed')
    BY <1>6, <2>3, <2>6, <2>8, <2>10
  <2>12. dpc' \in {"sync", "poison"} /\ (dpc' = "sync" => Len(placed') = Last.seq)
    BY <1>6, <2>3, <2>4, <2>7, <2>10
  <2>13. DiskInv'
    BY <1>1, <1>2, <1>3, <1>4, <2>12 DEF DiskInv
  <2>14. CursorInv'
    BY <1>1, <1>2, <1>3, <2>1, <2>12 DEF CursorInv, Releasing
  <2>15. PlacedInv'
    BY <1>1, <1>3, <1>4, <2>1, <2>2, <2>11, <2>12 DEF PlacedInv, Releasing
  <2>16. QED
    BY <1>5, <2>13, <2>14, <2>15 DEF DurableInv
<1>9. CASE Sync
  <2>1. /\ dpc = "sync" /\ staged' = staged /\ placed' = placed
        /\ \/ dpc' = "progress" /\ synced' = Len(placed)
           \/ dpc' = "poison" /\ synced' = synced
    BY <1>9 DEF Sync, AfterSyncError
  <2>2. Last' = Last /\ Last.seq \in Nat
    BY <1>3, <2>1, StagedBatch DEF Staging, Last
  <2>3. Len(placed) = Last.seq /\ synced <= Len(placed) /\ durable <= synced
    BY <1>1, <2>1 DEF PlacedInv
  <2>4. DiskInv'
    BY <1>1, <1>2, <1>3, <1>4, <2>1 DEF DiskInv
  <2>5. CursorInv'
    BY <1>1, <1>2, <1>3, <2>1 DEF CursorInv, Releasing
  <2>6. Len(placed) <= Last.seq /\ durable <= synced' /\ synced' <= Len(placed')
    BY <1>6, <2>1, <2>2, <2>3
  <2>7. PlacedInv'
    BY <1>1, <1>3, <1>4, <2>1, <2>2, <2>3, <2>6 DEF PlacedInv, Releasing
  <2>8. QED
    BY <1>5, <2>4, <2>5, <2>7 DEF DurableInv
<1>10. QED
  BY <1>7, <1>8, <1>9

LEMMA DurablePublishes ==
  ASSUME Types, DurableInv, PublishProgress \/ PublishFsyncState \/ PublishDurable
  PROVE  DurableInv'
<1>1. ChainInv /\ DiskInv /\ CursorInv /\ PlacedInv
  BY DEF DurableInv
<1>2. slots' = slots /\ handed' = handed /\ stop' = stop
  BY DiskFootprint DEF Disk
<1>3. /\ batches' = batches /\ poisoned' = poisoned /\ stopSampled' = stopSampled /\ live' = live
      /\ staged' = staged /\ placed' = placed /\ synced' = synced
  BY DEF PublishProgress, PublishFsyncState, PublishDurable, handOff
<1>4. ~poisoned
  BY <1>1 DEF DiskInv, PublishProgress, PublishFsyncState, PublishDurable
<1>5. staged \in 1..Len(batches) /\ Last' = Last
  BY <1>3, StagedBatch DEF PublishProgress, PublishFsyncState, PublishDurable, Staging, Last
<1>6. /\ batches # <<>> /\ Last.seq = Count(slots, Last.ring) /\ Last.ring <= handed
      /\ batches[1].ring <= Last.ring /\ batches[1].base <= Last.seq
      /\ Last.seq \in Nat /\ Last.ring \in Nat /\ batches[1].base \in Nat /\ batches[1].ring \in Nat
  BY <1>1, <1>5, LastFacts
<1>7. ChainInv'
  BY <1>1, <1>2, <1>3, <1>6 DEF ChainInv, Linked
<1>8. progress \in Nat /\ durable \in Nat /\ synced \in Nat /\ live \in Nat /\ fsync.ring \in Nat /\ fsync.seq \in Nat
  BY DEF Types, DiskType
<1>9. CASE PublishProgress
  <2>1. dpc = "progress" /\ dpc' = "fsync state" /\ progress' = Last.ring /\ fsync' = fsync /\ durable' = durable
    BY <1>9 DEF PublishProgress
  <2>2. fsync.ring = progress /\ progress <= batches[1].ring
    BY <1>1, <1>6, <2>1 DEF CursorInv, Releasing
  <2>3. fsync.ring <= Last.ring
    BY <1>6, <1>8, <2>2
  <2>4. CursorInv'
    BY <1>1, <1>2, <1>3, <1>5, <1>6, <2>1, <2>3 DEF CursorInv, Releasing
  <2>5. DiskInv'
    BY <1>1, <1>2, <1>3, <1>4, <2>1 DEF DiskInv
  <2>6. PlacedInv'
    BY <1>1, <1>3, <1>4, <1>5, <2>1 DEF PlacedInv, Releasing
  <2>7. QED
    BY <1>7, <2>4, <2>5, <2>6 DEF DurableInv
<1>10. CASE PublishFsyncState
  <2>1. /\ dpc = "fsync state" /\ dpc' = "durable" /\ progress' = progress /\ durable' = durable
        /\ fsync' = [seq |-> Last.seq, ring |-> Last.ring]
    BY <1>10 DEF PublishFsyncState
  <2>2. fsync'.seq = Last.seq /\ fsync'.ring = Last.ring
    BY <2>1
  <2>a. progress = Last.ring
    BY <1>1, <2>1 DEF CursorInv, Releasing
  <2>3. progress = Last.ring /\ Last.ring <= Last.ring
    BY <1>6, <2>a
  <2>4. CursorInv'
    BY <1>1, <1>2, <1>3, <1>5, <1>6, <2>1, <2>2, <2>3 DEF CursorInv, Releasing
  <2>5. DiskInv'
    BY <1>1, <1>2, <1>3, <1>4, <2>1 DEF DiskInv
  <2>6. PlacedInv'
    BY <1>1, <1>3, <1>4, <1>5, <2>1 DEF PlacedInv, Releasing
  <2>7. QED
    BY <1>7, <2>4, <2>5, <2>6 DEF DurableInv
<1>11. CASE PublishDurable
  <2>1. dpc = "durable" /\ dpc' = "release" /\ progress' = progress /\ fsync' = fsync /\ durable' = Last.seq
    BY <1>11 DEF PublishDurable
  <2>2. fsync.ring = progress /\ progress = Last.ring /\ fsync.seq = Count(slots, fsync.ring) /\ batches[1].base = durable
    BY <1>1, <1>6, <2>1 DEF CursorInv, Releasing
  <2>3. fsync.seq = Last.seq /\ durable <= Last.seq
    BY <1>6, <2>2
  <2>4. live <= durable + 1 /\ synced = Last.seq /\ Len(placed) = Last.seq
    BY <1>1, <2>1 DEF PlacedInv, Releasing
  <2>5. live <= Last.seq + 1 /\ Last.seq <= synced
    BY <1>6, <1>8, <2>3, <2>4
  <2>6. CursorInv'
    BY <1>1, <1>2, <1>3, <1>5, <1>6, <2>1, <2>2, <2>3 DEF CursorInv, Releasing
  <2>7. DiskInv'
    BY <1>1, <1>2, <1>3, <1>4, <2>1 DEF DiskInv
  <2>8. PlacedInv'
    BY <1>1, <1>3, <1>4, <1>5, <2>1, <2>4, <2>5 DEF PlacedInv, Releasing
  <2>9. QED
    BY <1>7, <2>6, <2>7, <2>8 DEF DurableInv
<1>12. QED
  BY <1>9, <1>10, <1>11

\* The rotation swaps segments with exactly the entries before the new one on
\* disk.
LEMMA RotationClean ==
  ASSUME Types, Window, HandOffInv, DurableInv, dpc = "rendezvous", rotation.kind = "requested"
  PROVE  rotation.start = durable + 1 /\ synced = durable /\ Len(placed) = durable /\ durable \in Nat
<1>1. pc = "await" /\ batches = <<>> /\ rotation.start = Count(slots, pos) + 1
  BY DEF HandOffInv, RotationInv
<1>2. Count(slots, handed) = Count(slots, pos)
  BY <1>1 DEF Window, HandedOver, Emptied
<1>3. durable = Count(slots, handed)
  BY <1>1 DEF DurableInv, ChainInv
<1>4. QED
  BY <1>1, <1>2, <1>3, RestFacts DEF DurableInv

LEMMA DurableOthers ==
  ASSUME Types, Window, HandOffInv, DurableInv, SampleStop \/ StoreCause \/ LatchPoison \/ RotateSegment \/ NothingToDo
  PROVE  DurableInv'
<1>1. ChainInv /\ DiskInv /\ CursorInv /\ PlacedInv
  BY DEF DurableInv
<1>2. slots' = slots /\ handed' = handed /\ stop' = stop
  BY DiskFootprint DEF Disk
<1>3. /\ batches' = batches /\ staged' = staged /\ placed' = placed /\ synced' = synced /\ cursors' = cursors
      /\ progress' = progress /\ fsync' = fsync /\ durable' = durable /\ Last' = Last
  BY DEF SampleStop, StoreCause, LatchPoison, RotateSegment, NothingToDo, handOff, cursors, Last
<1>4. ChainInv'
  BY <1>2, <1>3, DurableSame
<1>5. ~poisoned
  BY <1>1 DEF DiskInv, SampleStop, StoreCause, LatchPoison, RotateSegment, NothingToDo
<1>6. CursorInv'
  <2>1. dpc \notin Releasing /\ dpc' \notin Releasing
    BY DEF SampleStop, StoreCause, LatchPoison, RotateSegment, NothingToDo, AfterPoison, Releasing
  <2>2. QED
    BY <1>1, <1>2, <1>3, <2>1 DEF CursorInv, Releasing
<1>7. CASE SampleStop
  <2>1. dpc = "loop" /\ dpc' = "stage" /\ stopSampled' = stop /\ poisoned' = poisoned /\ live' = live
    BY <1>7 DEF SampleStop, handOff
  <2>2. DiskInv'
    BY <1>1, <1>2, <1>3, <1>5, <2>1 DEF DiskInv
  <2>3. PlacedInv'
    BY <1>1, <1>3, <1>5, <2>1 DEF PlacedInv, Releasing
  <2>4. QED
    BY <1>4, <1>6, <2>2, <2>3 DEF DurableInv
<1>8. CASE StoreCause
  <2>1. dpc = "poison" /\ dpc' = "latch" /\ stopSampled' = stopSampled /\ poisoned' = poisoned /\ live' = live
    BY <1>8 DEF StoreCause
  <2>2. DiskInv'
    BY <1>1, <1>2, <1>3, <1>5, <2>1 DEF DiskInv
  <2>3. PlacedInv'
    BY <1>1, <1>3, <1>5, <2>1 DEF PlacedInv, Releasing
  <2>4. QED
    BY <1>4, <1>6, <2>2, <2>3 DEF DurableInv
<1>9. CASE LatchPoison
  <2>1. dpc = "latch" /\ dpc' = "exited" /\ stopSampled' = stopSampled /\ poisoned' = TRUE /\ live' = live
    BY <1>9 DEF LatchPoison, AfterPoison
  <2>2. staged \in 1..Len(batches)
    BY <2>1, StagedBatch DEF Staging
  <2>3. DiskInv'
    BY <1>1, <1>2, <1>3, <2>1, <2>2 DEF DiskInv
  <2>4. PlacedInv'
    BY <1>1, <1>3, <2>1 DEF PlacedInv, Releasing
  <2>5. QED
    BY <1>4, <1>6, <2>3, <2>4 DEF DurableInv
<1>10. CASE RotateSegment
  <2>1. /\ dpc = "rendezvous" /\ dpc' = "loop" /\ stopSampled' = stopSampled /\ poisoned' = poisoned
        /\ live' = live \/ live' = rotation.start
        /\ rotation.kind = "requested"
    BY <1>10 DEF RotateSegment
  <2>2. live' <= durable + 1
    <3>1. rotation.start = durable + 1 /\ durable \in Nat
      BY <1>10, RotationClean DEF RotateSegment
    <3>2. live <= durable + 1
      BY <1>1 DEF PlacedInv
    <3>3. QED
      BY <2>1, <3>1, <3>2
  <2>3. DiskInv'
    BY <1>1, <1>2, <1>3, <1>5, <2>1 DEF DiskInv
  <2>4. PlacedInv'
    BY <1>1, <1>3, <1>5, <2>1, <2>2 DEF PlacedInv, Releasing
  <2>5. QED
    BY <1>4, <1>6, <2>3, <2>4 DEF DurableInv
<1>11. CASE NothingToDo
  <2>1. /\ dpc = "rendezvous" /\ dpc' = IF stopSampled THEN "exited" ELSE "loop"
        /\ stopSampled' = stopSampled /\ poisoned' = poisoned /\ live' = live
    BY <1>11 DEF NothingToDo, MayLeave, handOff
  <2>2. DiskInv'
    BY <1>1, <1>2, <1>3, <1>5, <2>1 DEF DiskInv
  <2>3. PlacedInv'
    BY <1>1, <1>3, <1>5, <2>1 DEF PlacedInv, Releasing
  <2>4. QED
    BY <1>4, <1>6, <2>2, <2>3 DEF DurableInv
<1>12. QED
  BY <1>7, <1>8, <1>9, <1>10, <1>11

LEMMA DurableStep ==
  ASSUME Types, Window, HandOffInv, DurableInv, [Next]_vars
  PROVE  DurableInv'
<1>1. CASE Upstream
  BY <1>1, DurableUpstream
<1>2. CASE SequencerStep
  BY <1>2, DurableSubmit, DurableQuiet
<1>3. CASE Disk
  BY <1>3, DurableRelease, DurableWrites, DurablePublishes, DurableOthers DEF Disk
<1>4. CASE UNCHANGED vars
  <2>1. /\ slots' = slots /\ handed' = handed /\ batches' = batches /\ stop' = stop /\ poisoned' = poisoned
        /\ cursors' = cursors /\ progress' = progress /\ fsync' = fsync /\ durable' = durable /\ dpc' = dpc
        /\ staged' = staged /\ placed' = placed /\ synced' = synced /\ live' = live /\ stopSampled' = stopSampled
    BY <1>4 DEF vars, upstream, sequencer, handOff, disk, cursors
  <2>2. Last' = Last
    BY <2>1 DEF Last
  <2>3. ChainInv'
    BY <2>1, DurableSame
  <2>4. DiskInv' /\ CursorInv' /\ PlacedInv'
    BY <2>1, <2>2 DEF DurableInv, DiskInv, CursorInv, PlacedInv
  <2>5. QED
    BY <2>3, <2>4 DEF DurableInv
<1>5. QED
  BY <1>1, <1>2, <1>3, <1>4 DEF Next, SequencerStep


-----------------------------------------------------------------------------
(* What the two threads publish *)

StageInv == Types /\ Window /\ HandOffInv /\ DurableInv

LEMMA StageInit ==
  ASSUME Init
  PROVE  StageInv
BY TypesInit, WindowInit, HandOffInit, DurableInit DEF StageInv

LEMMA StageStep ==
  ASSUME StageInv, [Next]_vars
  PROVE  StageInv'
BY TypesStep, WindowStep, HandOffStep, DurableStep DEF StageInv

\* What was handed over is encoded.
LEMMA HandedEncoded ==
  ASSUME StageInv
  PROVE  /\ handed \in Nat /\ handed <= readEnd /\ Count(slots, handed) \in Nat /\ Count(slots, handed) <= At
<1>1. pos \in Nat /\ readEnd \in Nat /\ handed \in Nat /\ pos <= readEnd
  BY DEF StageInv, Types, SequencerType
<1>2. SentinelSeen /\ HandedOver
  BY DEF StageInv, Window
<1>3. Count(slots, handed) \in Nat /\ Count(slots, pos) \in Nat /\ Count(slots, readEnd) \in Nat
  BY <1>1, CountFinite
<1>4. CASE handed <= pos
  <2>1. Count(slots, handed) <= Count(slots, pos)
    BY <1>1, <1>4, CountGrows
  <2>2. handed <= readEnd
    BY <1>1, <1>4
  <2>3. QED
    BY <1>1, <1>3, <2>1, <2>2, AtCounts
<1>5. CASE sawShutdown /\ handed <= readEnd
  <2>1. readEnd = pos + 1 /\ slots[readEnd] = "shutdown"
    BY <1>2, <1>5 DEF SentinelSeen
  <2>2. \A i \in (pos + 1)..readEnd : slots[i] # "entry"
    BY <1>1, <2>1
  <2>3. Count(slots, readEnd) = Count(slots, pos)
    BY <1>1, <2>2, CountSame
  <2>4. Count(slots, handed) <= Count(slots, readEnd)
    BY <1>1, <1>5, CountGrows
  <2>5. QED
    BY <1>1, <1>3, <1>5, <2>3, <2>4, AtCounts
<1>6. QED
  BY <1>2, <1>4, <1>5 DEF HandedOver

\* Nothing is written that is not encoded.
LEMMA PlacedEncoded ==
  ASSUME StageInv
  PROVE  Len(placed) \in Nat /\ Len(placed) <= At
<1>1. Types /\ ChainInv /\ DiskInv /\ CursorInv /\ PlacedInv
  BY DEF StageInv, DurableInv
<1>2. /\ handed \in Nat /\ Count(slots, handed) \in Nat /\ Count(slots, handed) <= At
  BY HandedEncoded
<1>3. At \in Nat /\ Len(placed) \in Nat /\ dpc \in DiskPlaces /\ durable \in Nat /\ fsync.ring \in Nat /\ progress \in Nat
  BY <1>1, AtBound DEF Types, DiskType
<1>4. CASE dpc \in {"sync", "progress", "poison", "latch"} \union Releasing \/ poisoned
  <2>1. staged \in 1..Len(batches)
    BY <1>1, <1>4 DEF Types, DiskType, DiskInv, Staging, Releasing
  <2>2. Last.seq = Count(slots, Last.ring) /\ Last.ring <= handed /\ Last.ring \in Nat /\ Last.seq \in Nat
    BY <1>1, <2>1, LastFacts
  <2>3. Count(slots, Last.ring) <= Count(slots, handed)
    BY <1>2, <2>2, CountGrows
  <2>4. Len(placed) = Last.seq \/ Len(placed) <= Last.seq
    BY <1>1, <1>4 DEF PlacedInv, Releasing
  <2>5. QED
    BY <1>2, <1>3, <2>2, <2>3, <2>4
<1>5. CASE ~(dpc \in {"sync", "progress", "poison", "latch"} \union Releasing \/ poisoned)
  <2>1. dpc \in {"loop", "stage", "write", "rendezvous", "exited"} /\ ~poisoned
    BY <1>3, <1>5 DEF DiskPlaces, Releasing
  <2>2. Len(placed) = durable /\ durable = fsync.seq /\ fsync.seq = Count(slots, fsync.ring)
    BY <1>1, <2>1 DEF PlacedInv, CursorInv
  <2>3. fsync.ring <= progress /\ progress <= handed
    BY <1>1 DEF CursorInv
  <2>4. fsync.ring <= handed
    BY <1>2, <1>3, <2>3
  <2>5. Count(slots, fsync.ring) <= Count(slots, handed)
    BY <1>2, <1>3, <2>4, CountGrows
  <2>6. QED
    BY <1>2, <1>3, <2>2, <2>5
<1>6. QED
  BY <1>4, <1>5

LEMMA TypeOKHolds ==
  ASSUME StageInv
  PROVE  TypeOK
<1>1. FixedType /\ UpstreamType /\ SequencerType /\ HandOffType /\ DiskType /\ Flags /\ Types
  BY DEF StageInv, Types
<1>2. MaxSlots \in Nat
  BY JournalStageBounds
<1>3. role \in Roles /\ boundaries \subseteq 1..MaxSlots /\ diverged \in BOOLEAN
  BY <1>1 DEF FixedType
<1>4. slots \in Seq({"entry", "query", "shutdown"}) /\ Len(slots) <= MaxSlots /\ announced \in 0..2
  BY <1>1 DEF UpstreamType, Kinds
<1>5. \A i \in 1..Len(marks) : marks[i] \in [kind : {"rotate", "check"}, seq : 1..MaxSlots]
  <2>1. marks \in Seq(MarkType)
    BY <1>1 DEF UpstreamType
  <2>2. \A i \in 1..Len(marks) : marks[i] \in MarkType
    BY <2>1
  <2>3. QED
    BY <2>2 DEF MarkType
<1>6. pendingMark \in [kind : {"none", "rotate", "check"}, seq : 0..MaxSlots]
  BY <1>1 DEF SequencerType, HeldType
<1>7. pos \in 0..Len(slots) /\ readEnd \in pos..Len(slots)
  BY <1>1 DEF SequencerType, UpstreamType
<1>8. handed \in 0..readEnd
  BY <1>1, HandedEncoded DEF SequencerType
<1>9. segStart \in 1..(At + 1) /\ live \in 1..(At + 1)
  <2>1. At \in Nat /\ segStart \in Nat /\ live \in Nat
    BY <1>1, AtBound DEF SequencerType, DiskType
  <2>2. segStart >= 1 /\ segStart <= At + 1 /\ (live = segStart \/ live = At + 1)
    BY AtCounts DEF StageInv, HandOffInv, RotationInv
  <2>3. QED
    BY <2>1, <2>2
<1>10. backoff \in {"none", "open", "expired"} /\ drainFrom \in 0..(MaxSlots + 1)
  BY <1>1 DEF SequencerType
<1>11. /\ {compared, shutdown, rotateRequested} \subseteq BOOLEAN
       /\ {claim, sawShutdown, stop, poisoned, cause, stopSampled} \subseteq BOOLEAN
  BY <1>1, Zenon DEF Flags
<1>12. Len(batches) + (IF claim THEN 1 ELSE 0) <= RingDepth
  BY DEF StageInv, HandOffInv, RingRoom
<1>13. staged \in 0..Len(batches)
  <2>1. Len(batches) \in Nat /\ staged \in Nat /\ dpc \in DiskPlaces
    BY <1>1 DEF HandOffType, DiskType
  <2>2. DiskInv
    BY DEF StageInv, DurableInv
  <2>3. staged = 0 \/ staged \in 1..Len(batches)
    <3>1. CASE dpc \in Staging
      BY <1>1, <3>1 DEF DiskType
    <3>2. CASE dpc \in {"loop", "stage", "rendezvous"}
      BY <2>2, <3>2 DEF DiskInv
    <3>3. CASE dpc = "exited"
      BY <2>2, <3>3 DEF DiskInv
    <3>4. QED
      BY <2>1, <3>1, <3>2, <3>3 DEF Staging, DiskPlaces
  <2>4. QED
    BY <2>1, <2>3
<1>14. rotation \in [kind : {"idle", "requested", "ok", "failed"}, start : 0..(MaxSlots + 1)]
  BY <1>1 DEF HandOffType, RotationType
<1>15. synced \in 0..Len(placed) /\ Len(placed) <= At
  <2>1. synced <= Len(placed)
    BY DEF StageInv, DurableInv, PlacedInv
  <2>2. QED
    BY <1>1, <2>1, PlacedEncoded DEF DiskType
<1>16. QED
  BY <1>3, <1>4, <1>5, <1>6, <1>7, <1>8, <1>9, <1>10, <1>11, <1>12, <1>13, <1>14, <1>15 DEF TypeOK


LEMMA CursorsHold ==
  ASSUME StageInv
  PROVE  CursorsDurable /\ FsyncStateAligned
<1>1. Types /\ ChainInv /\ DiskInv /\ CursorInv /\ PlacedInv
  BY DEF StageInv, DurableInv
<1>2. /\ fsync.ring \in Nat /\ fsync.seq \in Nat /\ progress \in Nat /\ durable \in Nat /\ synced \in Nat
      /\ dpc \in DiskPlaces
  BY <1>1 DEF Types, DiskType
<1>3. fsync.seq = Count(slots, fsync.ring) /\ fsync.ring <= progress /\ durable <= synced
  BY <1>1 DEF CursorInv, PlacedInv
<1>4. Count(slots, fsync.ring) <= Count(slots, progress) /\ Count(slots, progress) \in Nat
  BY <1>2, <1>3, CountGrows, CountFinite
<1>5. CASE dpc \in Releasing
  <2>1. staged \in 1..Len(batches)
    BY <1>1, <1>5 DEF Types, DiskType, Staging, Releasing
  <2>2. /\ Last.seq = Count(slots, Last.ring) /\ batches # <<>> /\ batches[1].base <= Last.seq
        /\ Last.seq \in Nat /\ batches[1].base \in Nat
    BY <1>1, <2>1, LastFacts
  <2>3. synced = Last.seq /\ progress = Last.ring
    BY <1>1, <1>5 DEF PlacedInv, CursorInv
  <2>4. durable <= fsync.seq
    <3>1. CASE dpc = "durable"
      <4>1. fsync.ring = Last.ring /\ batches[1].base = durable
        BY <1>1, <2>2, <2>3, <3>1 DEF CursorInv
      <4>2. QED
        BY <1>3, <2>2, <4>1
    <3>2. CASE dpc # "durable"
      <4>1. durable = fsync.seq
        BY <1>1, <3>2 DEF CursorInv
      <4>2. QED
        BY <1>2, <4>1
    <3>3. QED
      BY <3>1, <3>2
  <2>5. /\ Count(slots, progress) <= synced /\ fsync.seq <= synced
    BY <1>2, <1>3, <1>4, <2>2, <2>3
  <2>6. QED
    BY <1>3, <1>4, <2>4, <2>5, SeqAtCounts DEF CursorsDurable, FsyncStateAligned
<1>6. CASE dpc \notin Releasing
  <2>1. durable = fsync.seq /\ fsync.ring = progress
    BY <1>1, <1>6 DEF CursorInv, Releasing
  <2>2. Count(slots, progress) <= synced /\ fsync.seq <= synced /\ durable <= fsync.seq /\ fsync.seq <= Count(slots, progress)
    BY <1>2, <1>3, <1>4, <2>1
  <2>3. QED
    BY <1>3, <2>2, SeqAtCounts DEF CursorsDurable, FsyncStateAligned
<1>7. QED
  BY <1>5, <1>6

\* Whatever the disk thread publishes is on disk, the shadow's pair describes
\* one prefix of the input ring, and no position of the two threads leaves its
\* bounds: the write ring is never overfull, nothing is handed over that was
\* not read, nothing is written that was not encoded.
THEOREM CursorsAlwaysTruthful == Spec => []CursorsTruthful
<1>1. Init => StageInv
  BY StageInit
<1>2. StageInv /\ [Next]_vars => StageInv'
  BY StageStep
<1>3. StageInv => CursorsTruthful
  BY TypeOKHolds, CursorsHold DEF CursorsTruthful
<1>4. QED
  BY <1>1, <1>2, <1>3, PTL DEF Spec

\* A disk thread that leaves without poison has written, synced and published
\* every batch the sequencer handed over, however the stop, the last batch and
\* the rotation met.
THEOREM NothingEverDroppedOnStop == Spec => []NothingDroppedOnStop
<1>1. Init => StageInv
  BY StageInit
<1>2. StageInv /\ [Next]_vars => StageInv'
  BY StageStep
<1>3. StageInv => NothingDroppedOnStop
  <2>1. SUFFICES ASSUME StageInv, dpc = "exited", ~poisoned
                 PROVE  batches = <<>> /\ durable = SeqAt(handed) /\ synced = durable /\ progress = handed
    BY DEF NothingDroppedOnStop
  <2>2. batches = <<>> /\ Len(placed) = durable /\ synced <= Len(placed) /\ durable <= synced
    BY <2>1 DEF StageInv, DurableInv, DiskInv, PlacedInv
  <2>3. progress = handed /\ durable = Count(slots, handed)
    BY <2>1, <2>2 DEF StageInv, DurableInv, ChainInv
  <2>4. synced \in Nat /\ durable \in Nat
    BY <2>1 DEF StageInv, Types, DiskType
  <2>5. synced = durable
    BY <2>2, <2>4
  <2>6. QED
    BY <2>2, <2>3, <2>5, SeqAtCounts
<1>4. QED
  BY <1>1, <1>2, <1>3, PTL DEF Spec

\* No step of the disk thread publishes or writes once the poison is latched,
\* and it swaps segments only when the outgoing one holds, durably, exactly the
\* entries before the boundary.
THEOREM DiskThreadKeepsItsSteps == Spec => DiskThreadSteps
<1>1. Init => StageInv
  BY StageInit
<1>2. StageInv /\ [Next]_vars => StageInv'
  BY StageStep
<1>3. ASSUME StageInv, [Next]_vars
      PROVE  [/\ poisoned => UNCHANGED <<cursors, synced, placed, live>>
              /\ live' # live => synced = live' - 1 /\ Len(placed) = synced]_vars
  <2>1. CASE disk' = disk
    BY <2>1 DEF disk
  <2>2. CASE Disk
    <3>1. ~poisoned
      BY <1>3, <2>2 DEF StageInv, DurableInv, DiskInv, Disk, SampleStop, StageReady, Write, Sync, PublishProgress,
         PublishFsyncState, PublishDurable, Release, StoreCause, LatchPoison, RotateSegment, NothingToDo
    <3>2. live' = live \/ (dpc = "rendezvous" /\ rotation.kind = "requested" /\ live' = rotation.start)
      BY <2>2 DEF Disk, SampleStop, StageReady, Write, Sync, PublishProgress,
         PublishFsyncState, PublishDurable, Release, StoreCause, LatchPoison, RotateSegment, NothingToDo
    <3>3. live' # live => synced = live' - 1 /\ Len(placed) = synced
      <4>1. SUFFICES ASSUME live' # live PROVE synced = live' - 1 /\ Len(placed) = synced
        OBVIOUS
      <4>2. rotation.start = durable + 1 /\ synced = durable /\ Len(placed) = durable /\ durable \in Nat
        BY <1>3, <3>2, <4>1, RotationClean DEF StageInv
      <4>3. QED
        BY <3>2, <4>1, <4>2
    <3>4. QED
      BY <3>1, <3>3
  <2>3. disk' = disk \/ Disk
    <3>1. CASE Upstream
      BY <1>3, <3>1, UpstreamEffect DEF StageInv
    <3>2. CASE SequencerStep
      BY <3>2, SequencerFootprint
    <3>3. CASE UNCHANGED vars
      BY <3>3 DEF vars
    <3>4. QED
      BY <1>3, <3>1, <3>2, <3>3 DEF Next, SequencerStep
  <2>4. QED
    BY <2>1, <2>2, <2>3
<1>4. QED
  BY <1>1, <1>2, <1>3, PTL DEF Spec, DiskThreadSteps


-----------------------------------------------------------------------------
(* The marks outstanding: the one held, then the ones queued *)

Joined(held, queue) == IF held.kind = "none" THEN queue ELSE <<held>> \o queue
Outstanding == Joined(pendingMark, marks)

LEMMA JoinedForm ==
  ASSUME NEW m \in MarkType, NEW q \in Seq(MarkType)
  PROVE  /\ Joined(m, q) \in Seq(MarkType) /\ Len(Joined(m, q)) = Len(q) + 1 /\ Joined(m, q) # <<>>
         /\ Joined(m, q)[1] = m /\ \A i \in 1..Len(q) : Joined(m, q)[i + 1] = q[i]
<1>1. m.kind # "none"
  BY MarkTyped
<1>2. Joined(m, q) = <<m>> \o q
  BY <1>1 DEF Joined
<1>3. <<m>> \in Seq(MarkType) /\ Len(<<m>>) = 1 /\ <<m>>[1] = m /\ Len(q) \in Nat
  OBVIOUS
<1>4. /\ <<m>> \o q \in Seq(MarkType) /\ Len(<<m>> \o q) = Len(<<m>>) + Len(q)
      /\ \A i \in 1 .. Len(<<m>>) + Len(q) : (<<m>> \o q)[i] = IF i <= Len(<<m>>) THEN <<m>>[i] ELSE q[i - Len(<<m>>)]
  BY <1>3, ConcatProperties
<1>5. (<<m>> \o q)[1] = m
  BY <1>3, <1>4
<1>6. ASSUME NEW i \in 1..Len(q) PROVE (<<m>> \o q)[i + 1] = q[i]
  <2>1. i + 1 \in 1..(1 + Len(q)) /\ ~(i + 1 <= 1) /\ i + 1 - 1 = i
    BY <1>3
  <2>2. QED
    BY <1>3, <1>4, <2>1
<1>7. Len(<<m>> \o q) = Len(q) + 1 /\ <<m>> \o q # <<>>
  BY <1>3, <1>4
<1>8. QED
  BY <1>2, <1>4, <1>5, <1>6, <1>7

LEMMA JoinedTail ==
  ASSUME NEW m \in MarkType, NEW q \in Seq(MarkType)
  PROVE  Tail(Joined(m, q)) = q
<1>1. /\ Joined(m, q) \in Seq(MarkType) /\ Len(Joined(m, q)) = Len(q) + 1 /\ Joined(m, q) # <<>>
      /\ \A i \in 1..Len(q) : Joined(m, q)[i + 1] = q[i]
  BY JoinedForm
<1>2. /\ Tail(Joined(m, q)) \in Seq(MarkType) /\ Len(Tail(Joined(m, q))) = Len(Joined(m, q)) - 1
      /\ \A i \in 1 .. Len(Tail(Joined(m, q))) : Tail(Joined(m, q))[i] = Joined(m, q)[i + 1]
  BY <1>1, HeadTailProperties
<1>3. Len(q) \in Nat /\ Len(Tail(Joined(m, q))) = Len(q)
  BY <1>1, <1>2
<1>4. \A i \in 1..Len(Tail(Joined(m, q))) : Tail(Joined(m, q))[i] = q[i]
  BY <1>1, <1>2, <1>3
<1>5. QED
  BY <1>2, <1>3, <1>4, SeqEqual

LEMMA JoinedHead ==
  ASSUME NEW q \in Seq(MarkType), q # <<>>
  PROVE  Head(q) \in MarkType /\ Head(q) = q[1] /\ Tail(q) \in Seq(MarkType) /\ Joined(Head(q), Tail(q)) = q
<1>1. /\ Head(q) \in MarkType /\ Tail(q) \in Seq(MarkType) /\ Len(Tail(q)) = Len(q) - 1
      /\ \A i \in 1 .. Len(Tail(q)) : Tail(q)[i] = q[i + 1]
  BY HeadTailProperties
<1>2. Head(q) = q[1] /\ Len(q) \in Nat /\ Len(q) >= 1
  OBVIOUS
<1> DEFINE j == Joined(Head(q), Tail(q))
<1>3. /\ j \in Seq(MarkType) /\ Len(j) = Len(Tail(q)) + 1
      /\ j[1] = Head(q) /\ \A i \in 1..Len(Tail(q)) : j[i + 1] = Tail(q)[i]
  BY <1>1, JoinedForm
<1> HIDE DEF j
<1>4. Len(j) = Len(q)
  BY <1>1, <1>2, <1>3
<1>5. ASSUME NEW i \in 1..Len(j) PROVE j[i] = q[i]
  <2>1. CASE i = 1
    BY <1>2, <1>3, <2>1
  <2>2. CASE i # 1
    <3>1. i - 1 \in 1..Len(Tail(q)) /\ i - 1 + 1 = i
      BY <1>1, <1>2, <1>4, <2>2
    <3>2. QED
      BY <1>1, <1>3, <3>1
  <2>3. QED
    BY <2>1, <2>2
<1>6. j = q
  BY <1>3, <1>4, <1>5, SeqEqual
<1>7. QED
  BY <1>1, <1>2, <1>6 DEF j

LEMMA JoinedAppend ==
  ASSUME NEW p \in HeldType, p.kind # "none" => p \in MarkType, NEW q \in Seq(MarkType), NEW m \in MarkType
  PROVE  Joined(p, Append(q, m)) = Append(Joined(p, q), m)
<1>1. CASE p.kind = "none"
  BY <1>1 DEF Joined
<1>2. CASE p.kind # "none"
  <2>1. Append(q, m) \in Seq(MarkType) /\ Len(Append(q, m)) = Len(q) + 1 /\ Append(q, m)[Len(q) + 1] = m
        /\ (\A i \in 1..Len(q) : Append(q, m)[i] = q[i]) /\ Len(q) \in Nat /\ p \in MarkType
    BY <1>2, AppendProperties
  <2> DEFINE a == Joined(p, Append(q, m))
             j == Joined(p, q)
             c == Append(j, m)
  <2>2. /\ a \in Seq(MarkType) /\ Len(a) = Len(q) + 1 + 1 /\ a[1] = p
        /\ \A i \in 1..(Len(q) + 1) : a[i + 1] = Append(q, m)[i]
    <3> DEFINE t == Append(q, m)
    <3>1. t \in Seq(MarkType) /\ Len(t) = Len(q) + 1
      BY <2>1
    <3> HIDE DEF t
    <3>2. /\ Joined(p, t) \in Seq(MarkType) /\ Len(Joined(p, t)) = Len(t) + 1 /\ Joined(p, t)[1] = p
          /\ \A i \in 1..Len(t) : Joined(p, t)[i + 1] = t[i]
      BY <2>1, <3>1, JoinedForm
    <3>3. QED
      BY <3>1, <3>2 DEF t
  <2>3. /\ j \in Seq(MarkType) /\ Len(j) = Len(q) + 1 /\ j[1] = p
        /\ \A i \in 1..Len(q) : j[i + 1] = q[i]
    BY <2>1, JoinedForm
  <2> HIDE DEF j
  <2>4. /\ c \in Seq(MarkType) /\ Len(c) = Len(j) + 1 /\ c[Len(j) + 1] = m
        /\ \A i \in 1..Len(j) : c[i] = j[i]
    BY <2>3, AppendProperties
  <2> HIDE DEF a, c
  <2>5. Len(a) = Len(c)
    BY <2>2, <2>3, <2>4
  <2>6. ASSUME NEW i \in 1..Len(a) PROVE a[i] = c[i]
    <3>1. CASE i = 1
      BY <2>1, <2>2, <2>3, <2>4, <3>1
    <3>2. CASE i \in 2..(Len(q) + 1)
      <4>1. i - 1 \in 1..Len(q) /\ i - 1 \in 1..(Len(q) + 1) /\ i - 1 + 1 = i /\ i \in 1..Len(j)
        BY <2>1, <2>3, <3>2
      <4>2. a[i] = q[i - 1] /\ j[i] = q[i - 1]
        BY <2>1, <2>2, <2>3, <4>1
      <4>3. QED
        BY <2>4, <4>1, <4>2
    <3>3. CASE i = Len(q) + 2
      <4>1. Len(q) + 1 \in 1..(Len(q) + 1) /\ i = Len(q) + 1 + 1
        BY <2>1, <3>3
      <4>2. a[i] = m
        BY <2>1, <2>2, <4>1
      <4>3. QED
        BY <2>3, <2>4, <4>1, <4>2
    <3>4. QED
      BY <2>1, <2>2, <3>1, <3>2, <3>3
  <2>7. a = c
    BY <2>2, <2>4, <2>5, <2>6, SeqEqual
  <2>8. QED
    BY <2>7 DEF a, c, j
<1>3. QED
  BY <1>1, <1>2

\* A mark held is a mark of the stream.
HeldSound == pendingMark.kind # "none" => pendingMark \in MarkType

LEMMA OutstandingForm ==
  ASSUME Types, HeldSound
  PROVE  /\ Outstanding \in Seq(MarkType)
         /\ Outstanding = <<>> <=> pendingMark.kind = "none" /\ marks = <<>>
         /\ Outstanding = <<>> => HeldMark.kind = "none"
         /\ Outstanding # <<>> => /\ HeldMark = Outstanding[1] /\ HeldMark \in MarkType
                                  /\ Outstanding[1] \in MarkType /\ 1 \in 1..Len(Outstanding)
                                  /\ Tail(Outstanding) = QueueAfterRefresh(pendingMark)
         /\ Joined(HeldMark, QueueAfterRefresh(pendingMark)) = Outstanding
         /\ pendingMark.kind # "none" => pendingMark = Outstanding[1] /\ Outstanding # <<>> /\ Tail(Outstanding) = marks
<1>1. marks \in Seq(MarkType) /\ pendingMark \in HeldType
  BY DEF Types, UpstreamType, SequencerType
<1>2. CASE pendingMark.kind # "none"
  <2>1. pendingMark \in MarkType
    BY <1>2 DEF HeldSound
  <2>2. HeldMark = pendingMark /\ QueueAfterRefresh(pendingMark) = marks
    BY <1>2 DEF HeldMark, Refreshed, QueueAfterRefresh
  <2>3. /\ Outstanding \in Seq(MarkType) /\ Len(Outstanding) = Len(marks) + 1 /\ Outstanding # <<>> /\ Outstanding[1] = pendingMark
    BY <1>1, <2>1, JoinedForm DEF Outstanding
  <2>4. Tail(Outstanding) = marks
    BY <1>1, <2>1, JoinedTail DEF Outstanding
  <2>5. 1 \in 1..Len(Outstanding)
    BY <1>1, <2>3
  <2>6. QED
    BY <1>2, <2>1, <2>2, <2>3, <2>4, <2>5 DEF Outstanding
<1>3. CASE pendingMark.kind = "none"
  <2>1. Outstanding = marks
    BY <1>3 DEF Outstanding, Joined
  <2>2. CASE marks = <<>>
    <3>1. HeldMark = pendingMark /\ QueueAfterRefresh(pendingMark) = marks
      BY <1>3, <2>2 DEF HeldMark, Refreshed, QueueAfterRefresh
    <3>2. QED
      BY <1>1, <1>3, <2>1, <2>2, <3>1 DEF Outstanding
  <2>3. CASE marks # <<>>
    <3>1. HeldMark = Head(marks) /\ QueueAfterRefresh(pendingMark) = Tail(marks)
      BY <1>3, <2>3 DEF HeldMark, Refreshed, QueueAfterRefresh
    <3>2. Head(marks) \in MarkType /\ Head(marks) = marks[1] /\ Joined(Head(marks), Tail(marks)) = marks
      BY <1>1, <2>3, JoinedHead
    <3>3. 1 \in 1..Len(marks)
      BY <1>1, <2>3
    <3>4. QED
      BY <1>1, <1>3, <2>1, <2>3, <3>1, <3>2, <3>3
  <2>4. QED
    BY <2>2, <2>3
<1>4. QED
  BY <1>2, <1>3


-----------------------------------------------------------------------------
(* The replica: slots, marks and boundaries *)

Draining == drainFrom <= MaxSlots

DrainInv ==
  /\ pc = "drain" => Draining
  /\ Draining => pc \in {"drain"} \union Finishing /\ drainFrom <= At

\* Only a replica is fed marks; it is fed nothing but entries and the sentinel,
\* and encodes the entries alone unless it drains.
FedInv ==
  /\ role = "primary" => boundaries = {} /\ marks = <<>> /\ pendingMark.kind = "none" /\ ~diverged
  /\ role = "replica" => ~rotateRequested /\ \A i \in 1..Len(slots) : slots[i] \in {"entry", "shutdown"}
  /\ role = "replica" /\ ~Draining => \A i \in 1..pos : slots[i] = "entry"

\* A mark outstanding lies ahead of the writer, at a position published.
Ahead(mark) ==
  /\ mark.seq <= Len(slots)
  /\ mark.kind = "rotate" => mark.seq \in boundaries
  /\ ~Draining => At <= mark.seq

MarkInv ==
  /\ \A i \in 1..Len(Outstanding) : Ahead(Outstanding[i])
  /\ \A i, j \in 1..Len(Outstanding) : i <= j => Outstanding[i].seq <= Outstanding[j].seq

\* While it encodes without a mark, no mark falls inside what it has read.
QueueInv ==
  pc \in {"encode", "barrier"} /\ pendingMark.kind = "none" =>
    \A i \in 1..Len(marks) : marks[i].seq >= readEnd

\* The stream has gone past boundary b, or announced it.
Shown(b) ==
  \/ b < Len(slots) /\ slots[b + 1] = "entry"
  \/ b = Len(slots) /\ announced > 0

BoundaryInv ==
  /\ \A b \in boundaries : b >= segStart => b >= At \/ b >= drainFrom
  /\ \A b \in boundaries : b >= segStart /\ Shown(b) =>
        \E i \in 1..Len(Outstanding) : Outstanding[i] = Mark("rotate", b)

AdoptInv ==
  /\ role = "replica" => segStart - 1 \in {0} \union boundaries
  /\ role = "replica" /\ pc \in {"quiesce", "await"} =>
        pendingMark.kind = "rotate" /\ pendingMark.seq = At /\ from # "local" /\ ~diverged
  /\ outcome # "ordering"

DivergeInv ==
  diverged => /\ segStart = 1
              /\ firstMark = 0 => Outstanding = <<>>
              /\ firstMark > 0 /\ ~Draining => Outstanding # <<>> /\ Outstanding[1].seq = firstMark

ReplicaInv ==
  /\ DrainInv /\ FedInv /\ HeldSound /\ MarkInv /\ QueueInv /\ BoundaryInv /\ AdoptInv /\ DivergeInv

LEMMA ReplicaInit ==
  ASSUME Init
  PROVE  ReplicaInv
<1>1. Types
  BY TypesInit
<1>2. /\ slots = <<>> /\ announced = 0 /\ marks = <<>> /\ firstMark = 0 /\ rotateRequested = FALSE /\ pc = "top"
      /\ pos = 0 /\ segStart = 1 /\ pendingMark = NoMark /\ drainFrom = MaxSlots + 1 /\ outcome = "none"
  BY DEF Init
<1>3. NoMark.kind = "none" /\ Len(<<>>) = 0
  BY DEF NoMark
<1>4. HeldSound
  BY <1>2, <1>3 DEF HeldSound
<1>5. Outstanding = <<>>
  BY <1>1, <1>2, <1>3, <1>4, OutstandingForm
<1>6. MaxSlots \in Nat /\ ~Draining
  BY <1>2, JournalStageBounds DEF Draining
<1>7. DrainInv
  BY <1>2, <1>6 DEF DrainInv
<1>8. FedInv
  <2>1. role = "primary" => boundaries = {} /\ ~diverged
    BY DEF Init
  <2>2. QED
    BY <1>2, <1>3, <2>1 DEF FedInv
<1>9. MarkInv /\ QueueInv
  BY <1>2, <1>3, <1>5 DEF MarkInv, QueueInv
<1>10. BoundaryInv
  <2>1. boundaries \subseteq 1..MaxSlots
    BY <1>1 DEF Types, FixedType
  <2>2. At \in Nat /\ At <= pos
    BY <1>1, AtBound
  <2>3. At = 0
    BY <1>2, <2>2
  <2>4. ASSUME NEW b \in boundaries PROVE b >= At /\ ~Shown(b)
    <3>1. b \in 1..MaxSlots
      BY <2>1
    <3>2. QED
      BY <1>2, <1>3, <2>3, <3>1 DEF Shown
  <2>5. QED
    BY <2>4 DEF BoundaryInv
<1>11. AdoptInv /\ DivergeInv
  BY <1>2, <1>3, <1>5 DEF AdoptInv, DivergeInv
<1>12. QED
  BY <1>4, <1>7, <1>8, <1>9, <1>10, <1>11 DEF ReplicaInv

LEMMA UpstreamAt ==
  ASSUME Types, Upstream
  PROVE  At' = At
<1>1. pos' = pos
  BY UpstreamEffect DEF sequencer
<1>2. Count(slots', pos) = Count(slots, pos)
  BY SlotsStay, AtBound
<1>3. QED
  BY <1>1, <1>2, AtCounts, NextAtCounts

LEMMA ReplicaPublish ==
  ASSUME Types, ReplicaInv, Upstream, NEW kind \in Kinds, Publish(kind), role = "primary" \/ kind # "query",
         kind = "entry" /\ Len(slots) \in boundaries => announced > 0
  PROVE  ReplicaInv'
<1>1. /\ DrainInv /\ FedInv /\ HeldSound /\ MarkInv /\ QueueInv /\ BoundaryInv /\ AdoptInv /\ DivergeInv
  BY DEF ReplicaInv
<1>2. /\ slots' = Append(slots, kind) /\ announced' = 0 /\ marks' = marks /\ firstMark' = firstMark
      /\ rotateRequested' = rotateRequested /\ role' = role /\ boundaries' = boundaries /\ diverged' = diverged
      /\ pc' = pc /\ from' = from /\ pos' = pos /\ readEnd' = readEnd /\ segStart' = segStart
      /\ pendingMark' = pendingMark /\ drainFrom' = drainFrom /\ outcome' = outcome
  BY DEF Publish, lineage, sequencer
<1>3. At' = At
  BY UpstreamAt
<1>4. slots \in Seq(Kinds) /\ Len(slots) \in Nat /\ boundaries \subseteq 1..MaxSlots /\ pos \in Nat /\ pos <= Len(slots)
  BY AtBound DEF Types, UpstreamType, FixedType
<1>5. Len(slots') = Len(slots) + 1 /\ slots'[Len(slots) + 1] = kind /\ \A i \in 1..Len(slots) : slots'[i] = slots[i]
  BY <1>2, <1>4
<1>6. Outstanding' = Outstanding /\ HeldSound'
  BY <1>1, <1>2 DEF Outstanding, Joined, HeldSound
<1>7. Outstanding \in Seq(MarkType) /\ \A i \in 1..Len(Outstanding) : Outstanding[i].seq \in Nat
  <2>1. Outstanding \in Seq(MarkType)
    BY <1>1, OutstandingForm
  <2>2. \A i \in 1..Len(Outstanding) : Outstanding[i] \in MarkType
    BY <2>1
  <2>3. \A m \in MarkType : m.seq \in Nat
    BY MarkTyped
  <2>4. QED
    BY <2>1, <2>2, <2>3
<1>8. DrainInv'
  BY <1>1, <1>2, <1>3 DEF DrainInv, Draining
<1>9. FedInv'
  <2>1. role = "replica" => \A i \in 1..Len(slots') : slots'[i] \in {"entry", "shutdown"}
    <3>1. SUFFICES ASSUME role = "replica", NEW i \in 1..Len(slots') PROVE slots'[i] \in {"entry", "shutdown"}
      OBVIOUS
    <3>2. i \in 1..Len(slots) \/ i = Len(slots) + 1
      BY <1>4, <1>5
    <3>3. kind \in {"entry", "shutdown"}
      BY <3>1 DEF Kinds
    <3>4. QED
      BY <1>1, <1>5, <3>1, <3>2, <3>3 DEF FedInv
  <2>2. \A i \in 1..pos : slots'[i] = slots[i]
    BY <1>4, <1>5
  <2>3. QED
    BY <1>1, <1>2, <2>1, <2>2 DEF FedInv, Draining
<1>10. MarkInv'
  <2>1. \A i \in 1..Len(Outstanding) : Outstanding[i].seq <= Len(slots')
    <3>1. \A i \in 1..Len(Outstanding) : Outstanding[i].seq <= Len(slots)
      BY <1>1 DEF MarkInv, Ahead
    <3>2. QED
      BY <1>4, <1>5, <1>7, <3>1
  <2>2. \A i \in 1..Len(Outstanding) : Ahead(Outstanding[i])'
    <3>1. SUFFICES ASSUME NEW i \in 1..Len(Outstanding) PROVE Ahead(Outstanding[i])'
      OBVIOUS
    <3>2. PICK m : m = Outstanding[i]
      OBVIOUS
    <3>3. Ahead(m) /\ m.seq <= Len(slots') /\ Outstanding'[i] = m
      BY <1>1, <1>6, <2>1, <3>2 DEF MarkInv
    <3>4. QED
      BY <1>2, <1>3, <3>3 DEF Ahead, Draining
  <2>3. QED
    BY <1>1, <1>6, <2>2 DEF MarkInv
<1>11. QueueInv'
  BY <1>1, <1>2 DEF QueueInv
<1>12. BoundaryInv'
  <2>1. ASSUME NEW b \in boundaries, Shown(b)' PROVE Shown(b)
    <3>1. b \in Nat
      BY <1>4
    <3>a. ~(announced' > 0)
      BY <1>2
    <3>2. b < Len(slots') /\ slots'[b + 1] = "entry"
      BY <2>1, <3>a DEF Shown
    <3>3. CASE b < Len(slots)
      <4>1. b + 1 \in 1..Len(slots)
        BY <1>4, <3>1, <3>3
      <4>2. QED
        BY <1>5, <3>2, <3>3, <4>1 DEF Shown
    <3>4. CASE b = Len(slots)
      BY <1>5, <3>2, <3>4 DEF Shown
    <3>5. QED
      BY <1>4, <1>5, <3>1, <3>2, <3>3, <3>4
  <2>2. QED
    BY <1>1, <1>2, <1>3, <1>6, <2>1 DEF BoundaryInv
<1>13. AdoptInv' /\ DivergeInv'
  BY <1>1, <1>2, <1>3, <1>6 DEF AdoptInv, DivergeInv, Draining
<1>14. QED
  BY <1>6, <1>8, <1>9, <1>10, <1>11, <1>12, <1>13 DEF ReplicaInv


LEMMA ReplicaQueue ==
  ASSUME Types, ReplicaInv, Upstream, QueueRotate \/ QueueChainCheck
  PROVE  ReplicaInv'
<1>1. /\ DrainInv /\ FedInv /\ HeldSound /\ MarkInv /\ QueueInv /\ BoundaryInv /\ AdoptInv /\ DivergeInv
  BY DEF ReplicaInv
<1>2. /\ slots' = slots /\ rotateRequested' = rotateRequested /\ role' = role /\ boundaries' = boundaries
      /\ diverged' = diverged
      /\ pc' = pc /\ from' = from /\ pos' = pos /\ readEnd' = readEnd /\ segStart' = segStart
      /\ pendingMark' = pendingMark /\ drainFrom' = drainFrom /\ outcome' = outcome
  BY DEF QueueRotate, QueueChainCheck, QueueStreamMark, lineage, sequencer
<1>3. At' = At /\ At \in Nat /\ At <= Len(slots) /\ Len(slots) \in Nat
  <2>1. At \in Nat /\ At <= pos /\ pos <= Len(slots) /\ pos \in Nat /\ Len(slots) \in Nat
    BY AtBound
  <2>2. QED
    BY <2>1, UpstreamAt
<1>4. role = "replica" /\ Len(slots) \in 1..MaxSlots
  <2>1. boundaries \subseteq 1..MaxSlots /\ role \in {"primary", "replica"} /\ Len(slots) <= MaxSlots
    BY JournalStageBounds DEF Types, FixedType, UpstreamType
  <2>2. CASE QueueRotate
    BY <1>1, <2>1, <2>2 DEF QueueRotate, FedInv
  <2>3. CASE QueueChainCheck
    BY <1>3, <2>1, <2>3 DEF QueueChainCheck
  <2>4. QED
    BY <2>2, <2>3
<1>5. \E m \in MarkType : /\ marks' = Append(marks, m) /\ m.seq = Len(slots)
                          /\ firstMark' = IF diverged /\ firstMark = 0 THEN Len(slots) ELSE firstMark
                          /\ m.kind = "rotate" => Len(slots) \in boundaries
                          /\ announced' # announced => m = Mark("rotate", Len(slots))
  <2>1. CASE QueueRotate
    <3>1. Mark("rotate", Len(slots)) \in MarkType /\ Mark("rotate", Len(slots)).seq = Len(slots)
      BY <1>4 DEF Mark, MarkType
    <3>2. QED
      BY <2>1, <3>1 DEF QueueRotate, QueueStreamMark
  <2>2. CASE QueueChainCheck
    <3>1. Mark("check", Len(slots)) \in MarkType /\ Mark("check", Len(slots)).seq = Len(slots)
          /\ Mark("check", Len(slots)).kind = "check"
      BY <1>4 DEF Mark, MarkType
    <3>2. QED
      BY <2>2, <3>1 DEF QueueChainCheck, QueueStreamMark
  <2>3. QED
    BY <2>1, <2>2
<1>6. PICK m \in MarkType : /\ marks' = Append(marks, m) /\ m.seq = Len(slots)
                            /\ firstMark' = IF diverged /\ firstMark = 0 THEN Len(slots) ELSE firstMark
                            /\ m.kind = "rotate" => Len(slots) \in boundaries
                            /\ announced' # announced => m = Mark("rotate", Len(slots))
  BY <1>5
<1>7. Outstanding' = Append(Outstanding, m)
  <2>1. pendingMark \in HeldType /\ marks \in Seq(MarkType)
    BY DEF Types, SequencerType, UpstreamType
  <2>2. Joined(pendingMark, Append(marks, m)) = Append(Joined(pendingMark, marks), m)
    BY <1>1, <2>1, JoinedAppend DEF HeldSound
  <2>3. QED
    BY <1>2, <1>6, <2>2 DEF Outstanding
<1>8. Outstanding \in Seq(MarkType)
  BY <1>1, OutstandingForm
<1>9. PICK n \in Nat : n = Len(Outstanding)
  BY <1>8
<1>10. /\ Len(Outstanding') = n + 1 /\ Outstanding'[n + 1] = m /\ Outstanding' # <<>>
       /\ \A i \in 1..n : Outstanding'[i] = Outstanding[i]
  BY <1>7, <1>8, <1>9
<1>11. \A i \in 1..n : Outstanding[i].seq \in Nat /\ Outstanding[i].seq <= Len(slots)
  <2>1. \A i \in 1..n : Outstanding[i] \in MarkType
    BY <1>8, <1>9
  <2>2. \A x \in MarkType : x.seq \in Nat
    BY MarkTyped
  <2>3. QED
    BY <1>1, <1>9, <2>1, <2>2 DEF MarkInv, Ahead
<1>12. \A i \in 1..Len(Outstanding') : i \in 1..n \/ i = n + 1
  BY <1>10
<1>13. HeldSound' /\ DrainInv' /\ AdoptInv'
  BY <1>1, <1>2, <1>3 DEF HeldSound, DrainInv, Draining, AdoptInv
<1>14. FedInv'
  BY <1>1, <1>2, <1>4 DEF FedInv, Draining
<1>15. MarkInv'
  <2>1. \A x : Ahead(x) => /\ x.seq <= Len(slots') /\ (x.kind = "rotate" => x.seq \in boundaries')
                           /\ (~(drainFrom' <= MaxSlots) => At' <= x.seq)
    BY <1>2, <1>3 DEF Ahead, Draining
  <2>2. Ahead(m)
    BY <1>3, <1>6 DEF Ahead
  <2>3. ASSUME NEW i \in 1..Len(Outstanding') PROVE Ahead(Outstanding[i])'
    <3>1. PICK x : x = Outstanding'[i]
      OBVIOUS
    <3>2. Ahead(x)
      BY <1>1, <1>9, <1>10, <1>12, <2>2, <2>3, <3>1 DEF MarkInv
    <3>3. QED
      BY <2>1, <3>1, <3>2 DEF Ahead, Draining
  <2>4. ASSUME NEW i \in 1..Len(Outstanding'), NEW j \in 1..Len(Outstanding'), i <= j
        PROVE  Outstanding'[i].seq <= Outstanding'[j].seq
    <3>1. CASE j \in 1..n
      <4>1. i \in 1..n
        BY <1>12, <2>4, <3>1
      <4>2. QED
        BY <1>1, <1>9, <1>10, <2>4, <3>1, <4>1 DEF MarkInv
    <3>2. CASE j = n + 1
      <4>1. Outstanding'[j].seq = Len(slots)
        BY <1>6, <1>10, <3>2
      <4>2. CASE i \in 1..n
        BY <1>10, <1>11, <4>1, <4>2
      <4>3. CASE i = n + 1
        BY <1>3, <3>2, <4>1, <4>3
      <4>4. QED
        BY <1>12, <4>2, <4>3
    <3>3. QED
      BY <1>12, <3>1, <3>2
  <2>5. QED
    BY <2>3, <2>4 DEF MarkInv
<1>16. QueueInv'
  <2>1. marks \in Seq(MarkType) /\ readEnd \in Nat /\ readEnd <= Len(slots)
    BY DEF Types, SequencerType, UpstreamType
  <2>2. \A i \in 1..Len(marks') : (i \in 1..Len(marks) /\ marks'[i] = marks[i]) \/ marks'[i].seq = Len(slots)
    BY <1>6, <2>1
  <2>3. Len(slots) >= readEnd
    BY <1>3, <2>1
  <2>4. QED
    BY <1>1, <1>2, <2>2, <2>3 DEF QueueInv
<1>17. BoundaryInv'
  <2>1. ASSUME NEW b \in boundaries, b >= segStart, Shown(b)'
        PROVE  \E i \in 1..Len(Outstanding') : Outstanding'[i] = Mark("rotate", b)
    <3>1. CASE Shown(b)
      <4>1. PICK i \in 1..n : Outstanding[i] = Mark("rotate", b)
        BY <1>1, <1>9, <2>1, <3>1 DEF BoundaryInv
      <4>2. i \in 1..Len(Outstanding') /\ Outstanding'[i] = Mark("rotate", b)
        BY <1>9, <1>10, <4>1
      <4>3. QED
        BY <4>2
    <3>2. CASE ~Shown(b)
      <4>1. b = Len(slots) /\ announced' # announced
        BY <1>2, <2>1, <3>2 DEF Shown
      <4>2. m = Mark("rotate", b) /\ n + 1 \in 1..Len(Outstanding')
        BY <1>6, <1>9, <1>10, <4>1
      <4>3. QED
        BY <1>10, <4>2
    <3>3. QED
      BY <3>1, <3>2
  <2>2. QED
    BY <1>1, <1>2, <1>3, <2>1 DEF BoundaryInv
<1>18. DivergeInv'
  <2>1. SUFFICES ASSUME diverged PROVE /\ segStart' = 1 /\ firstMark' > 0
                                       /\ ~Draining => Outstanding'[1].seq = firstMark'
    BY <1>2, <1>10 DEF DivergeInv, Draining
  <2>2. segStart' = 1
    BY <1>1, <1>2, <2>1 DEF DivergeInv
  <2>3. firstMark \in Nat
    BY JournalStageBounds DEF Types, UpstreamType
  <2>4. CASE firstMark = 0
    <3>1. Outstanding = <<>> /\ firstMark' = Len(slots)
      BY <1>1, <1>6, <2>1, <2>4 DEF DivergeInv
    <3>2. n = 0
      BY <1>9, <3>1
    <3>3. QED
      BY <1>4, <1>6, <1>10, <2>2, <3>1, <3>2
  <2>5. CASE firstMark # 0
    <3>1. firstMark' = firstMark /\ firstMark > 0
      BY <1>6, <2>3, <2>5
    <3>2. ~Draining => Outstanding # <<>> /\ Outstanding[1].seq = firstMark
      BY <1>1, <2>1, <3>1 DEF DivergeInv
    <3>3. Outstanding # <<>> => 1 \in 1..n
      BY <1>8, <1>9
    <3>4. QED
      BY <1>10, <2>2, <3>1, <3>2, <3>3
  <2>6. QED
    BY <2>4, <2>5
<1>19. QED
  BY <1>13, <1>14, <1>15, <1>16, <1>17, <1>18 DEF ReplicaInv

\* A step that touches none of it.
LEMMA ReplicaFrame ==
  ASSUME ReplicaInv, lineage' = lineage, sequencer' = sequencer, slots' = slots, announced' = announced,
         marks' = marks, firstMark' = firstMark,
         rotateRequested' = rotateRequested \/ role = "primary"
  PROVE  ReplicaInv'
<1>1. /\ DrainInv /\ FedInv /\ HeldSound /\ MarkInv /\ QueueInv /\ BoundaryInv /\ AdoptInv /\ DivergeInv
  BY DEF ReplicaInv
<1>2. /\ role' = role /\ boundaries' = boundaries /\ diverged' = diverged
      /\ pc' = pc /\ from' = from /\ pos' = pos /\ readEnd' = readEnd /\ segStart' = segStart
      /\ pendingMark' = pendingMark /\ drainFrom' = drainFrom /\ outcome' = outcome
  BY DEF lineage, sequencer
<1>3. At' = At /\ Outstanding' = Outstanding
  BY <1>2 DEF At, SeqAt, Outstanding, Joined
<1>4. HeldSound' /\ DrainInv' /\ AdoptInv' /\ QueueInv' /\ DivergeInv'
  BY <1>1, <1>2, <1>3 DEF HeldSound, DrainInv, Draining, AdoptInv, QueueInv, DivergeInv
<1>5. FedInv'
  BY <1>1, <1>2 DEF FedInv, Draining
<1>6. MarkInv' /\ BoundaryInv'
  BY <1>1, <1>2, <1>3 DEF MarkInv, Ahead, Draining, BoundaryInv, Shown
<1>7. QED
  BY <1>4, <1>5, <1>6 DEF ReplicaInv

LEMMA ReplicaUpstream ==
  ASSUME Types, ReplicaInv, Upstream
  PROVE  ReplicaInv'
<1>1. CASE PublishEntry
  BY <1>1, ReplicaPublish DEF PublishEntry, Kinds
<1>2. CASE PublishQuery
  BY <1>2, ReplicaPublish DEF PublishQuery, Kinds
<1>3. CASE PublishSentinel
  BY <1>3, ReplicaPublish DEF PublishSentinel, Kinds
<1>4. CASE QueueRotate \/ QueueChainCheck
  BY <1>4, ReplicaQueue
<1>5. CASE AskRotation \/ RaiseShutdown
  BY <1>5, ReplicaFrame DEF AskRotation, RaiseShutdown
<1>6. QED
  BY <1>1, <1>2, <1>3, <1>4, <1>5 DEF Upstream


LEMMA RoleKnown ==
  ASSUME Types
  PROVE  role \in {"primary", "replica"}
BY JournalStageBounds DEF Types, FixedType

\* A replica's writer position is its sequence.
LEMMA AtIsPos ==
  ASSUME Types, FedInv, role = "replica", ~Draining
  PROVE  At = pos
<1>1. \A i \in 1..pos : slots[i] = "entry"
  BY DEF FedInv
<1>2. QED
  BY <1>1, AtBound, AtCounts, CountAll

\* A mark is dropped when it is settled or adopted, and only then.
SettleMove ==
  /\ pc = "resolve" /\ pc' = "resolve" /\ Outstanding # <<>> /\ Outstanding' = Tail(Outstanding)
  /\ segStart' = segStart /\ pos' = pos /\ drainFrom' = drainFrom
  /\ \/ Outstanding[1].kind = "check" /\ ~diverged
     \/ Outstanding[1].kind = "rotate" /\ segStart = Outstanding[1].seq + 1

AdoptMove ==
  /\ role = "replica" /\ pc = "await" /\ Outstanding # <<>> /\ Outstanding' = Tail(Outstanding)
  /\ Outstanding[1].kind = "rotate" /\ Outstanding[1].seq = At /\ ~diverged
  /\ segStart' = At + 1 /\ pos' = pos /\ drainFrom' = drainFrom

LEMMA JoinedNone ==
  ASSUME NEW q
  PROVE  Joined(NoMark, q) = q /\ NoMark.kind = "none"
BY DEF Joined, NoMark

LEMMA MarkMoves ==
  ASSUME Types, ReplicaInv, SequencerStep
  PROVE  /\ HeldSound'
         /\ \/ Outstanding' = Outstanding /\ (segStart' = segStart \/ role = "primary")
            \/ SettleMove
            \/ AdoptMove
<1>1. FedInv /\ HeldSound /\ AdoptInv
  BY DEF ReplicaInv
<1>2. marks \in Seq(MarkType) /\ pendingMark \in HeldType
  BY DEF Types, UpstreamType, SequencerType
<1>3. Outstanding' = Joined(pendingMark', marks')
  BY DEF Outstanding
<1>4. /\ Joined(HeldMark, QueueAfterRefresh(pendingMark)) = Outstanding
      /\ HeldMark.kind # "none" => Outstanding # <<>> /\ HeldMark = Outstanding[1] /\ HeldMark \in MarkType
                                   /\ Tail(Outstanding) = QueueAfterRefresh(pendingMark)
  BY <1>1, OutstandingForm
<1>5. CASE RefreshPendingMark
  <2>1. pendingMark' = HeldMark /\ marks' = QueueAfterRefresh(pendingMark) /\ segStart' = segStart
    BY <1>5 DEF RefreshPendingMark, HeldMark
  <2>2. QED
    BY <1>3, <1>4, <2>1 DEF HeldSound
<1>6. CASE ResolveStreamMarks
  <2>1. /\ pc = "resolve" /\ marks' = QueueAfterRefresh(pendingMark) /\ segStart' = segStart /\ pos' = pos
        /\ drainFrom' = drainFrom
        /\ pendingMark' = IF ResolveOutcome(HeldMark) = "settle" THEN NoMark ELSE HeldMark
        /\ ResolveOutcome(HeldMark) = "settle" => pc' = pc
    BY <1>6 DEF ResolveStreamMarks
  <2>2. CASE ResolveOutcome(HeldMark) = "settle"
    <3>1. /\ HeldMark.kind # "none"
          /\ (HeldMark.kind = "rotate" /\ segStart = HeldMark.seq + 1) \/ (HeldMark.kind = "check" /\ ~diverged)
      BY <2>2 DEF ResolveOutcome, Adopted, ChainAgrees
    <3>2. Outstanding' = QueueAfterRefresh(pendingMark)
      BY <1>3, <2>1, <2>2, JoinedNone
    <3>3. HeldSound'
      BY <2>1, <2>2, JoinedNone DEF HeldSound
    <3>4. SettleMove
      BY <1>4, <2>1, <2>2, <3>1, <3>2 DEF SettleMove
    <3>5. QED
      BY <3>3, <3>4
  <2>3. CASE ResolveOutcome(HeldMark) # "settle"
    BY <1>3, <1>4, <2>1, <2>3 DEF HeldSound
  <2>4. QED
    BY <2>2, <2>3
<1>7. CASE RotationDone
  <2>1. /\ pc = "await" /\ segStart' = At + 1 /\ pos' = pos /\ drainFrom' = drainFrom
        /\ pendingMark' = IF from # "local" /\ marks # <<>> THEN Head(marks) ELSE NoMark
        /\ marks' = IF from # "local" /\ marks # <<>> THEN Tail(marks) ELSE marks
    BY <1>7 DEF RotationDone, SuccessorTaken
  <2>2. CASE role = "primary"
    <3>1. marks = <<>> /\ pendingMark.kind = "none"
      BY <1>1, <2>2 DEF FedInv
    <3>2. Outstanding = <<>> /\ Outstanding' = <<>> /\ HeldSound'
      BY <1>3, <2>1, <3>1, JoinedNone DEF Outstanding, Joined, HeldSound
    <3>3. QED
      BY <2>2, <3>2
  <2>3. CASE role = "replica"
    <3>1. pendingMark.kind = "rotate" /\ pendingMark.seq = At /\ from # "local" /\ ~diverged
      BY <1>1, <2>1, <2>3 DEF AdoptInv
    <3>2. pendingMark = Outstanding[1] /\ Outstanding # <<>> /\ Tail(Outstanding) = marks
      BY <1>1, <3>1, OutstandingForm
    <3>3. HeldSound' /\ Outstanding' = marks
      <4>1. CASE marks = <<>>
        BY <1>3, <2>1, <4>1, JoinedNone DEF HeldSound
      <4>2. CASE marks # <<>>
        <5>1. Head(marks) \in MarkType /\ Joined(Head(marks), Tail(marks)) = marks
          BY <1>2, <4>2, JoinedHead
        <5>2. QED
          BY <1>3, <2>1, <3>1, <4>2, <5>1 DEF HeldSound
      <4>3. QED
        BY <4>1, <4>2
    <3>4. AdoptMove
      BY <2>1, <2>3, <3>1, <3>2, <3>3 DEF AdoptMove
    <3>5. QED
      BY <3>3, <3>4
  <2>4. QED
    BY <2>2, <2>3, RoleKnown
<1>8. CASE ~(RefreshPendingMark \/ ResolveStreamMarks \/ RotationDone)
  <2>1. marks' = marks /\ pendingMark' = pendingMark /\ segStart' = segStart
    BY <1>8 DEF SequencerStep, Sequencing, SeesPoison, FailPoisoned, SeesShutdown, Read, Encode,
     EncodeFails, ClaimFails, BarrierSubmit, BarrierApply, BarrierPasses, SyncPoint, SubmitFails, SubmitBatch,
     Idle, TailSubmit, TailEnd, DrainSubmit, DrainRemaining, DrainDone, MaybeRotate,
     RequestRotation, RotationFailed, FinishDrained, FinishFails, Halt, Join, SyncDelayed,
     IdleApply, BackoffExpires, upstream
  <2>2. QED
    BY <1>1, <1>3, <2>1 DEF HeldSound, Outstanding
<1>9. QED
  BY <1>5, <1>6, <1>7, <1>8

\* Encode stops at the first mark outstanding, and at the sentinel.
LEMMA EncodeStops ==
  ASSUME Types, Window, ReplicaInv, Encode, role = "replica"
  PROVE  /\ ~Draining /\ \A i \in 1..pos' : slots[i] = "entry"
         /\ \A i \in 1..Len(Outstanding) : pos' <= Outstanding[i].seq
<1>1. DrainInv /\ FedInv /\ HeldSound /\ MarkInv /\ QueueInv
  BY DEF ReplicaInv
<1>2. pc = "encode" /\ ~Draining
  BY <1>1 DEF Encode, DrainInv, Finishing
<1>3. /\ readEnd' = readEnd /\ pos <= pos'
      /\ \/ ~sawShutdown' /\ pos' = readEnd /\ MarkSplit = readEnd
         \/ /\ sawShutdown' /\ readEnd = pos' + 1
            /\ slots[readEnd] = "shutdown" /\ MarkSplit = readEnd
         \/ ~sawShutdown' /\ pos' = MarkSplit /\ MarkSplit < readEnd
  BY EncodeEffect
<1>4. /\ pos \in Nat /\ readEnd \in Nat /\ Len(slots) \in Nat /\ pos <= readEnd /\ readEnd <= Len(slots) /\ pos' \in Nat
      /\ MarkSplit \in Nat /\ pos' <= MarkSplit /\ MarkSplit <= readEnd
  <2>1. pos' = SpanEnd(MarkSplit)
    BY DEF Encode
  <2>2. QED
    BY <2>1, SpanFacts DEF Types, SequencerType, UpstreamType
<1>5. At = pos
  BY <1>1, <1>2, AtIsPos
<1>6. \A i \in 1..pos' : slots[i] = "entry"
  <2>1. ASSUME NEW i \in 1..pos' PROVE slots[i] = "entry"
    <3>1. CASE i <= pos
      <4>1. i \in 1..pos
        BY <1>4, <3>1
      <4>2. QED
        BY <1>1, <1>2, <4>1 DEF FedInv
    <3>2. CASE ~(i <= pos)
      <4>1. i \in (pos + 1)..MarkSplit /\ i \in 1..Len(slots)
        BY <1>4, <3>2
      <4>2. slots[i] \in {"entry", "shutdown"}
        BY <1>1, <4>1 DEF FedInv
      <4>3. slots[i] # "shutdown"
        <5>1. SUFFICES ASSUME slots[i] = "shutdown" PROVE FALSE
          OBVIOUS
        <5>2. SpanEnd(MarkSplit) = MarkSplit - 1
          BY <4>1, <5>1 DEF SpanEnd
        <5>3. pos' = MarkSplit - 1
          BY <5>2 DEF Encode
        <5>4. i = Len(slots)
          BY <4>1, <5>1 DEF Window, SentinelLast
        <5>5. QED
          BY <1>4, <2>1, <5>3, <5>4
      <4>4. QED
        BY <4>2, <4>3
    <3>3. QED
      BY <3>1, <3>2
  <2>2. QED
    BY <2>1
<1>7. CASE pendingMark.kind = "none"
  <2>1. Outstanding = marks
    BY <1>7 DEF Outstanding, Joined
  <2>2. \A i \in 1..Len(marks) : marks[i].seq >= readEnd /\ marks[i].seq \in Nat
    <3>1. \A i \in 1..Len(marks) : marks[i] \in MarkType
      BY DEF Types, UpstreamType
    <3>2. \A m \in MarkType : m.seq \in Nat
      BY MarkTyped
    <3>3. QED
      BY <1>1, <1>2, <1>7, <3>1, <3>2 DEF QueueInv
  <2>3. \A i \in 1..Len(Outstanding) : pos' <= Outstanding[i].seq
    BY <1>4, <2>1, <2>2
  <2>4. QED
    BY <1>2, <1>6, <2>3
<1>8. CASE pendingMark.kind # "none"
  <2>1. /\ pendingMark = Outstanding[1] /\ 1 \in 1..Len(Outstanding) /\ Outstanding \in Seq(MarkType) /\ pendingMark \in MarkType
    BY <1>1, <1>8, OutstandingForm
  <2>2. pendingMark.seq \in Nat
    BY <2>1, MarkTyped
  <2>3. pos <= pendingMark.seq
    BY <1>1, <1>2, <1>5, <2>1 DEF MarkInv, Ahead
  <2> DEFINE past == {i \in (pos + 1)..readEnd : slots[i] = "entry" /\ i > pendingMark.seq}
  <2>4. pos' <= pendingMark.seq
    <3>1. SUFFICES ASSUME ~(pos' <= pendingMark.seq) PROVE FALSE
      OBVIOUS
    <3>2. pendingMark.seq + 1 \in 1..pos' /\ pendingMark.seq + 1 \in (pos + 1)..readEnd
      BY <1>4, <2>2, <2>3, <3>1
    <3>3. pendingMark.seq + 1 \in past
      BY <1>6, <2>2, <3>2
    <3>4. MarkSplit = Min(past) - 1
      BY <1>8, <3>3 DEF MarkSplit
    <3>5. past \in SUBSET Nat /\ past # {}
      BY <1>4, <3>3
    <3> HIDE DEF past
    <3>6. Min(past) \in past /\ Min(past) <= pendingMark.seq + 1
      BY <3>3, <3>5, MinOfSet
    <3>7. Min(past) \in Nat
      BY <3>5, <3>6
    <3>8. QED
      BY <1>4, <2>2, <3>1, <3>4, <3>6, <3>7
  <2>5. ASSUME NEW i \in 1..Len(Outstanding) PROVE pos' <= Outstanding[i].seq
    <3>1. Outstanding[1].seq <= Outstanding[i].seq
      <4>1. 1 <= i
        BY <2>1
      <4>2. QED
        BY <1>1, <2>1, <4>1 DEF MarkInv
    <3>2. Outstanding[i] \in MarkType
      BY <2>1
    <3>3. Outstanding[i].seq \in Nat
      BY <3>2, MarkTyped
    <3>4. QED
      BY <1>4, <2>1, <2>2, <2>4, <3>1, <3>3
  <2>6. QED
    BY <1>2, <1>6, <2>5
<1>9. QED
  BY <1>7, <1>8


\* When the writer moves, and when the drain begins.
LEMMA WriterMoves ==
  ASSUME SequencerStep
  PROVE  /\ Encode \/ DrainRemaining \/ pos' = pos
         /\ drainFrom' = drainFrom \/ (SeesShutdown /\ drainFrom' = At /\ pos' = pos)
         /\ pc \in {"drain"} \union Finishing => pc' \in {"drain"} \union Finishing
         /\ pc' = "drain" => pc = "drain" \/ SeesShutdown
         /\ rotateRequested' = rotateRequested \/ rotateRequested' = FALSE
<1>1. pc \in {"drain"} \union Finishing => pc' \in {"drain"} \union Finishing
  BY DEF SequencerStep, Sequencing, SeesPoison, FailPoisoned, SeesShutdown, Read, Encode, RefreshPendingMark,
     EncodeFails, ClaimFails, BarrierSubmit, BarrierApply, BarrierPasses, SyncPoint, SubmitFails, SubmitBatch,
     Idle, TailSubmit, TailEnd, DrainSubmit, DrainRemaining, DrainDone, MaybeRotate, ResolveStreamMarks,
     RequestRotation, RotationDone, RotationFailed, FinishDrained, FinishFails, Halt, Join, SyncDelayed,
     IdleApply, BackoffExpires, Leave, Finishing, TakePoison
<1>2. pc' = "drain" => pc = "drain" \/ SeesShutdown
  BY ReturnTyped DEF SequencerStep, Sequencing, SeesPoison, FailPoisoned, Read, Encode, RefreshPendingMark,
     EncodeFails, ClaimFails, BarrierSubmit, BarrierApply, BarrierPasses, SyncPoint, SubmitFails, SubmitBatch,
     Idle, TailSubmit, TailEnd, DrainSubmit, DrainRemaining, DrainDone, MaybeRotate, ResolveStreamMarks,
     RequestRotation, RotationDone, RotationFailed, FinishDrained, FinishFails, Halt, Join, SyncDelayed,
     IdleApply, BackoffExpires, Leave
<1>3. /\ Encode \/ DrainRemaining \/ pos' = pos
      /\ drainFrom' = drainFrom \/ (SeesShutdown /\ drainFrom' = At /\ pos' = pos)
      /\ rotateRequested' = rotateRequested \/ rotateRequested' = FALSE
  BY DEF SequencerStep, Sequencing, SeesPoison, FailPoisoned, SeesShutdown, Read, RefreshPendingMark, Encode,
     EncodeFails, ClaimFails, BarrierSubmit, BarrierApply, BarrierPasses, SyncPoint, SubmitFails, SubmitBatch,
     Idle, TailSubmit, TailEnd, DrainSubmit, DrainRemaining, DrainDone, MaybeRotate, ResolveStreamMarks,
     RequestRotation, RotationDone, RotationFailed, FinishDrained, FinishFails, Halt, Join, SyncDelayed,
     IdleApply, BackoffExpires, upstream
<1>4. QED
  BY <1>1, <1>2, <1>3

LEMMA AtMoves ==
  ASSUME Types, SequencerStep
  PROVE  /\ At \in Nat /\ At' \in Nat /\ At <= At' /\ At' <= pos' /\ (pos' = pos => At' = At)
<1>1. slots' = slots
  BY SequencerFootprint
<1>2. pos \in Nat /\ pos' \in Nat /\ pos <= pos'
  BY PositionsEffect, AtBound
<1>3. At' = Count(slots, pos') /\ At = Count(slots, pos)
  BY <1>1, AtCounts, NextAtCounts
<1>4. QED
  BY <1>2, <1>3, CountFinite, CountGrows

\* The drain, once begun, stays begun.
LEMMA DrainSequencing ==
  ASSUME Types, DrainInv, SequencerStep
  PROVE  /\ DrainInv'
         /\ ~Draining' => ~Draining
         /\ DrainRemaining => Draining /\ Draining'
         /\ drainFrom' = drainFrom \/ (~Draining /\ drainFrom' = At /\ pos' = pos)
<1>1. At \in Nat /\ At' \in Nat /\ At <= At' /\ (pos' = pos => At' = At)
  BY AtMoves
<1>2. drainFrom \in Nat /\ At <= MaxSlots /\ MaxSlots \in Nat
  BY AtBound DEF Types, SequencerType
<1>3. CASE drainFrom' = drainFrom
  <2>1. Draining' <=> Draining
    BY <1>3 DEF Draining
  <2>2. pc' = "drain" => Draining
    <3>1. SeesShutdown => drainFrom' = At
      BY DEF SeesShutdown
    <3>2. SeesShutdown => Draining
      BY <1>2, <1>3, <3>1 DEF Draining
    <3>3. QED
      BY <3>2, WriterMoves DEF DrainInv
  <2>3. Draining => pc' \in {"drain"} \union Finishing /\ drainFrom <= At
    BY WriterMoves DEF DrainInv
  <2>4. Draining => drainFrom' <= At'
    BY <1>1, <1>2, <1>3, <2>3
  <2>5. DrainRemaining => Draining
    BY DEF DrainRemaining, DrainInv
  <2>6. QED
    BY <1>3, <2>1, <2>2, <2>3, <2>4, <2>5 DEF DrainInv
<1>4. CASE drainFrom' # drainFrom
  <2>1. SeesShutdown /\ drainFrom' = At /\ pos' = pos
    BY <1>4, WriterMoves
  <2>2. pc = "top" /\ pc' = "drain"
    BY <2>1 DEF SeesShutdown
  <2>3. Draining' /\ ~Draining /\ drainFrom' <= At'
    BY <1>1, <1>2, <2>1, <2>2 DEF Draining, DrainInv, Finishing
  <2>4. ~DrainRemaining
    BY <2>2 DEF DrainRemaining
  <2>5. QED
    BY <2>1, <2>2, <2>3, <2>4 DEF DrainInv
<1>5. QED
  BY <1>3, <1>4

LEMMA JoinedEmpty ==
  ASSUME NEW p, p.kind # "none" => p \in MarkType, NEW q \in Seq(MarkType), Joined(p, q) = <<>>
  PROVE  p.kind = "none" /\ q = <<>>
<1>1. CASE p.kind = "none"
  BY <1>1 DEF Joined
<1>2. CASE p.kind # "none"
  BY <1>2, JoinedForm
<1>3. QED
  BY <1>1, <1>2

LEMMA FedSequencing ==
  ASSUME Types, Window, ReplicaInv, SequencerStep
  PROVE  FedInv'
<1>1. DrainInv /\ FedInv /\ HeldSound
  BY DEF ReplicaInv
<1>2. slots' = slots /\ role' = role /\ boundaries' = boundaries /\ diverged' = diverged
  BY SequencerFootprint DEF lineage
<1>3. ASSUME role = "primary" PROVE marks' = <<>> /\ pendingMark'.kind = "none"
  <2>1. Outstanding = <<>>
    BY <1>1, <1>3, OutstandingForm DEF FedInv
  <2>2. HeldSound' /\ Outstanding' = <<>>
    BY <2>1, MarkMoves DEF SettleMove, AdoptMove
  <2>3. marks' \in Seq(MarkType) /\ Joined(pendingMark', marks') = <<>> /\ (pendingMark'.kind # "none" => pendingMark' \in MarkType)
    BY <2>2, MarksEffect DEF Outstanding, HeldSound
  <2>4. QED
    BY <2>3, JoinedEmpty
<1>4. ASSUME role = "replica", ~Draining', NEW i \in 1..pos' PROVE slots'[i] = "entry"
  <2>1. ~Draining /\ ~DrainRemaining
    BY <1>1, <1>4, DrainSequencing
  <2>2. CASE Encode
    BY <1>2, <1>4, <2>2, EncodeStops
  <2>3. CASE pos' = pos
    BY <1>1, <1>2, <1>4, <2>1, <2>3 DEF FedInv
  <2>4. QED
    BY <2>1, <2>2, <2>3, WriterMoves
<1>5. role = "replica" => ~rotateRequested'
  BY <1>1, WriterMoves DEF FedInv
<1>6. QED
  BY <1>1, <1>2, <1>3, <1>4, <1>5 DEF FedInv

\* The writer, wherever a step takes it, stays at or before every mark.
LEMMA WriterBehindMarks ==
  ASSUME Types, Window, ReplicaInv, SequencerStep, ~Draining', NEW i \in 1..Len(Outstanding)
  PROVE  At' <= Outstanding[i].seq
<1>1. DrainInv /\ FedInv /\ HeldSound /\ MarkInv
  BY DEF ReplicaInv
<1>2. ~Draining /\ ~DrainRemaining
  BY <1>1, DrainSequencing
<1>3. role = "replica"
  <2>1. role = "primary" => Outstanding = <<>>
    BY <1>1, OutstandingForm DEF FedInv
  <2>2. Outstanding # <<>>
    OBVIOUS
  <2>3. QED
    BY <2>1, <2>2, RoleKnown
<1>4. At <= Outstanding[i].seq
  BY <1>1, <1>2 DEF MarkInv, Ahead
<1>5. CASE pos' = pos
  BY <1>4, <1>5, AtMoves
<1>6. CASE Encode
  <2>1. pos' <= Outstanding[i].seq /\ At' <= pos' /\ At' \in Nat /\ pos' \in Nat
    BY <1>3, <1>6, EncodeStops, AtMoves, PositionsEffect
  <2>2. Outstanding[i] \in MarkType
    BY <1>1, OutstandingForm
  <2>3. Outstanding[i].seq \in Nat
    BY <2>2, MarkTyped
  <2>4. QED
    BY <2>1, <2>3
<1>7. QED
  BY <1>2, <1>5, <1>6, WriterMoves

\* Dropping the first mark drops no other.
LEMMA TailIndex ==
  ASSUME NEW s \in Seq(MarkType), s # <<>>
  PROVE  /\ Len(Tail(s)) \in Nat /\ \A i \in 1..Len(Tail(s)) : i + 1 \in 1..Len(s) /\ Tail(s)[i] = s[i + 1]
         /\ \A i \in 1..Len(s) : i # 1 => i - 1 \in 1..Len(Tail(s)) /\ Tail(s)[i - 1] = s[i]
<1>1. /\ Tail(s) \in Seq(MarkType) /\ Len(Tail(s)) = Len(s) - 1
      /\ \A i \in 1 .. Len(Tail(s)) : Tail(s)[i] = s[i + 1]
  BY HeadTailProperties
<1>2. Len(s) \in Nat /\ Len(Tail(s)) \in Nat
  BY <1>1
<1>3. \A i \in 1..Len(s) : i # 1 => i - 1 \in 1..Len(Tail(s)) /\ i - 1 + 1 = i
  BY <1>1, <1>2
<1>4. \A i \in 1..Len(Tail(s)) : i + 1 \in 1..Len(s)
  BY <1>1, <1>2
<1>5. QED
  BY <1>1, <1>2, <1>3, <1>4

LEMMA MarkSequencing ==
  ASSUME Types, Window, ReplicaInv, SequencerStep
  PROVE  MarkInv'
<1>1. DrainInv /\ HeldSound /\ MarkInv
  BY DEF ReplicaInv
<1>2. slots' = slots /\ boundaries' = boundaries /\ (~Draining' => ~Draining)
  BY <1>1, SequencerFootprint, DrainSequencing DEF lineage
<1>3. Outstanding \in Seq(MarkType)
  BY <1>1, OutstandingForm
<1>4. ASSUME NEW i \in 1..Len(Outstanding)
      PROVE  /\ Outstanding[i].seq <= Len(slots')
             /\ Outstanding[i].kind = "rotate" => Outstanding[i].seq \in boundaries'
             /\ ~Draining' => At' <= Outstanding[i].seq
  BY <1>1, <1>2, <1>4, WriterBehindMarks DEF MarkInv, Ahead
<1>5. CASE Outstanding' = Outstanding
  <2>1. PICK out : out = Outstanding
    OBVIOUS
  <2>2. Outstanding' = out
    BY <1>5, <2>1
  <2>3. \A i, j \in 1..Len(out) : i <= j => out[i].seq <= out[j].seq
    BY <1>1, <2>1 DEF MarkInv
  <2>4. ASSUME NEW i \in 1..Len(Outstanding') PROVE Ahead(Outstanding[i])'
    <3>1. i \in 1..Len(Outstanding) /\ Outstanding'[i] = Outstanding[i]
      BY <1>5, <2>4
    <3>2. QED
      BY <1>4, <3>1 DEF Ahead
  <2>5. QED
    BY <2>2, <2>3, <2>4 DEF MarkInv
<1>6. CASE Outstanding # <<>> /\ Outstanding' = Tail(Outstanding)
  <2>1. /\ Len(Outstanding') \in Nat
        /\ \A i \in 1..Len(Outstanding') : i + 1 \in 1..Len(Outstanding) /\ Outstanding'[i] = Outstanding[i + 1]
    BY <1>3, <1>6, TailIndex
  <2>2. ASSUME NEW i \in 1..Len(Outstanding') PROVE Ahead(Outstanding[i])'
    BY <1>4, <2>1, <2>2 DEF Ahead
  <2>3. ASSUME NEW i \in 1..Len(Outstanding'), NEW j \in 1..Len(Outstanding'), i <= j
        PROVE  Outstanding'[i].seq <= Outstanding'[j].seq
    <3>1. i + 1 \in 1..Len(Outstanding) /\ j + 1 \in 1..Len(Outstanding) /\ i + 1 <= j + 1
      BY <2>1, <2>3
    <3>2. Outstanding[i + 1].seq <= Outstanding[j + 1].seq
      BY <1>1, <3>1 DEF MarkInv
    <3>3. QED
      BY <2>1, <3>2
  <2>4. QED
    BY <2>2, <2>3 DEF MarkInv
<1>7. QED
  BY <1>5, <1>6, MarkMoves DEF SettleMove, AdoptMove

LEMMA QueueSequencing ==
  ASSUME Types, Window, ReplicaInv, SequencerStep
  PROVE  QueueInv'
<1>1. FedInv /\ HeldSound /\ QueueInv /\ AdoptInv /\ CallKnown
  BY DEF ReplicaInv, Window
<1>2. marks \in Seq(MarkType) /\ pendingMark \in HeldType
  BY DEF Types, UpstreamType, SequencerType
<1>3. SUFFICES ASSUME pc' \in {"encode", "barrier"}, pendingMark'.kind = "none"
               PROVE  marks' = <<>> \/ (marks' = marks /\ readEnd' = readEnd /\ pendingMark.kind = "none"
                                        /\ pc \in {"encode", "barrier"})
  BY <1>1, <1>3 DEF QueueInv
<1>4. HeldMark.kind = "none" => marks = <<>> /\ pendingMark.kind = "none"
  <2>1. marks # <<>> => Head(marks) \in MarkType
    BY <1>2, HeadTailProperties
  <2>2. \A m \in MarkType : m.kind # "none"
    BY MarkTyped
  <2>3. QED
    BY <2>1, <2>2 DEF HeldMark, Refreshed
<1>5. marks = <<>> => QueueAfterRefresh(pendingMark) = <<>>
  BY DEF QueueAfterRefresh
<1>6. CASE RefreshPendingMark
  BY <1>3, <1>4, <1>5, <1>6 DEF RefreshPendingMark, HeldMark
<1>7. CASE ResolveStreamMarks
  <2>1. /\ pc = "resolve" /\ marks' = QueueAfterRefresh(pendingMark)
        /\ pendingMark' = IF ResolveOutcome(HeldMark) = "settle" THEN NoMark ELSE HeldMark
        /\ ResolveOutcome(HeldMark) = "settle" => pc' = pc
    BY <1>7 DEF ResolveStreamMarks
  <2>2. HeldMark.kind = "none"
    BY <1>3, <2>1
  <2>3. QED
    BY <1>4, <1>5, <2>1, <2>2
<1>8. CASE RotationDone
  <2>1. /\ pc = "await"
        /\ pendingMark' = IF from # "local" /\ marks # <<>> THEN Head(marks) ELSE NoMark
        /\ marks' = IF from # "local" /\ marks # <<>> THEN Tail(marks) ELSE marks
    BY <1>8 DEF RotationDone, SuccessorTaken
  <2>2. CASE role = "primary"
    BY <1>1, <2>1, <2>2 DEF FedInv
  <2>3. CASE role = "replica"
    <3>1. from # "local"
      BY <1>1, <2>1, <2>3 DEF AdoptInv
    <3>2. marks # <<>> => Head(marks) \in MarkType
      BY <1>2, HeadTailProperties
    <3>3. marks # <<>> => pendingMark'.kind # "none"
      BY <2>1, <3>1, <3>2, MarkTyped
    <3>4. QED
      BY <1>3, <2>1, <3>3
  <2>4. QED
    BY <2>2, <2>3, RoleKnown
<1>9. CASE RotationFailed
  <2>1. pc \in {"quiesce", "await"} /\ pendingMark' = pendingMark /\ marks' = marks
    BY <1>9 DEF RotationFailed, upstream
  <2>2. QED
    BY <1>1, <1>3, <2>1, RoleKnown DEF AdoptInv, FedInv
<1>10. CASE ~(RefreshPendingMark \/ ResolveStreamMarks \/ RotationDone \/ RotationFailed)
  BY <1>3, <1>10 DEF SequencerStep, Sequencing, SeesPoison, FailPoisoned, SeesShutdown, Read, Encode,
     EncodeFails, ClaimFails, BarrierSubmit, BarrierApply, BarrierPasses, SyncPoint, SubmitFails, SubmitBatch,
     Idle, TailSubmit, TailEnd, DrainSubmit, DrainRemaining, DrainDone, MaybeRotate, Leave,
     RequestRotation, FinishDrained, FinishFails, Halt, Join, SyncDelayed,
     IdleApply, BackoffExpires, upstream
<1>11. QED
  BY <1>6, <1>7, <1>8, <1>9, <1>10

\* The segment a step leaves starts no earlier.
LEMMA SegmentMoves ==
  ASSUME Types, RotationInv, SequencerStep
  PROVE  segStart \in Nat /\ segStart' \in Nat /\ segStart <= segStart'
<1>1. segStart \in Nat /\ At \in Nat
  BY AtBound DEF Types, SequencerType
<1>2. segStart <= At + 1
  BY AtCounts DEF RotationInv
<1>3. QED
  BY <1>1, <1>2, ControlEffect

LEMMA BoundarySequencing ==
  ASSUME Types, Window, RotationInv, ReplicaInv, SequencerStep
  PROVE  BoundaryInv'
<1>1. DrainInv /\ FedInv /\ HeldSound /\ MarkInv /\ BoundaryInv
  BY DEF ReplicaInv
<1>2. slots' = slots /\ boundaries' = boundaries /\ announced' = announced
  BY SequencerFootprint DEF lineage
<1>3. segStart \in Nat /\ segStart' \in Nat /\ segStart <= segStart'
  BY SegmentMoves
<1>4. /\ At \in Nat /\ At' \in Nat /\ At <= At' /\ At' <= pos' /\ (pos' = pos => At' = At) /\ pos' \in Nat
      /\ drainFrom \in Nat /\ MaxSlots \in Nat /\ boundaries \subseteq 1..MaxSlots
      /\ Len(slots) \in Nat /\ pos' <= Len(slots)
  <2>1. pos' <= readEnd' /\ readEnd' <= Len(slots)
    BY <1>2, TypesSequencing DEF Types, SequencerType
  <2>2. pos' \in Nat /\ readEnd' \in Nat
    BY TypesSequencing DEF Types, SequencerType
  <2>3. drainFrom \in Nat /\ boundaries \subseteq 1..MaxSlots
    BY AtBound DEF Types, SequencerType, FixedType
  <2>4. Len(slots) \in Nat /\ MaxSlots \in Nat
    BY AtBound
  <2>5. pos' <= Len(slots)
    BY <2>1, <2>2, <2>4
  <2>6. QED
    BY <2>2, <2>3, <2>4, <2>5, AtMoves
<1>5. Outstanding \in Seq(MarkType)
  BY <1>1, OutstandingForm
<1>6. ASSUME NEW b \in boundaries, b >= segStart' PROVE b >= At' \/ b >= drainFrom'
  <2>1. b \in Nat /\ b >= segStart /\ b <= MaxSlots /\ role = "replica"
    BY <1>1, <1>3, <1>4, <1>6, RoleKnown DEF FedInv
  <2>2. b >= At \/ b >= drainFrom
    BY <1>1, <2>1 DEF BoundaryInv
  <2>3. drainFrom' = drainFrom \/ (~Draining /\ drainFrom' = At /\ pos' = pos)
    BY <1>1, DrainSequencing
  <2>4. CASE pos' = pos
    <3>1. ~Draining => ~(b >= drainFrom)
      BY <1>4, <2>1 DEF Draining
    <3>2. QED
      BY <1>4, <2>2, <2>3, <2>4, <3>1
  <2>5. CASE DrainRemaining
    <3>1. Draining /\ drainFrom <= At
      BY <1>1, <2>5, DrainSequencing DEF DrainInv
    <3>2. QED
      BY <1>4, <2>1, <2>2, <2>3, <3>1
  <2>6. CASE Encode
    <3>1. CASE b >= pos'
      BY <1>4, <2>1, <3>1
    <3>2. CASE ~(b >= pos')
      <4>1. b + 1 \in 1..pos' /\ b < Len(slots)
        BY <1>4, <2>1, <3>2
      <4>2. slots[b + 1] = "entry"
        BY <2>1, <2>6, <4>1, EncodeStops
      <4>3. Shown(b)
        BY <4>1, <4>2 DEF Shown
      <4>4. PICK i \in 1..Len(Outstanding) : Outstanding[i] = Mark("rotate", b)
        BY <1>1, <2>1, <4>3 DEF BoundaryInv
      <4>5. Outstanding[i].seq = b
        BY <4>4 DEF Mark
      <4>6. pos' <= b
        BY <2>1, <2>6, <4>5, EncodeStops
      <4>7. QED
        BY <1>4, <2>1, <3>2, <4>6
    <3>3. QED
      BY <3>1, <3>2
  <2>7. QED
    BY <2>4, <2>5, <2>6, WriterMoves
<1>7. ASSUME NEW b \in boundaries, b >= segStart', Shown(b)'
      PROVE  \E i \in 1..Len(Outstanding') : Outstanding'[i] = Mark("rotate", b)
  <2>1. b \in Nat /\ b >= segStart /\ Shown(b)
    BY <1>2, <1>3, <1>4, <1>7 DEF Shown
  <2>2. PICK i \in 1..Len(Outstanding) : Outstanding[i] = Mark("rotate", b)
    BY <1>1, <2>1 DEF BoundaryInv
  <2>3. Outstanding[i].seq = b /\ Outstanding[i].kind = "rotate"
    BY <2>2 DEF Mark
  <2>4. CASE Outstanding' = Outstanding
    BY <2>2, <2>4
  <2>5. CASE SettleMove \/ AdoptMove
    <3>1. Outstanding # <<>> /\ Outstanding' = Tail(Outstanding)
      BY <2>5 DEF SettleMove, AdoptMove
    <3>2. i # 1
      <4>1. SUFFICES ASSUME i = 1 PROVE FALSE
        OBVIOUS
      <4>2. CASE SettleMove
        <5>1. segStart = b + 1
          BY <2>3, <4>1, <4>2 DEF SettleMove
        <5>2. QED
          BY <1>3, <2>1, <5>1
      <4>3. CASE AdoptMove
        <5>1. segStart' = b + 1
          BY <2>3, <4>1, <4>3 DEF AdoptMove
        <5>2. QED
          BY <1>3, <1>7, <2>1, <5>1
      <4>4. QED
        BY <2>5, <4>2, <4>3
    <3>3. i - 1 \in 1..Len(Outstanding') /\ Outstanding'[i - 1] = Outstanding[i]
      BY <1>5, <3>1, <3>2, TailIndex
    <3>4. QED
      BY <2>2, <3>3
  <2>6. QED
    BY <2>4, <2>5, MarkMoves
<1>8. QED
  BY <1>2, <1>6, <1>7 DEF BoundaryInv, Mark

LEMMA AdoptSequencing ==
  ASSUME Types, Window, ReplicaInv, SequencerStep
  PROVE  AdoptInv'
<1>1. DrainInv /\ FedInv /\ HeldSound /\ MarkInv /\ AdoptInv /\ CallKnown
  BY DEF ReplicaInv, Window
<1>2. role' = role /\ boundaries' = boundaries /\ diverged' = diverged
  BY SequencerFootprint DEF lineage
<1>3. At \in Nat /\ (pos' = pos => At' = At)
  BY AtMoves
<1>4. ASSUME HeldMark.kind # "none"
      PROVE  HeldMark \in MarkType /\ HeldMark.seq \in Nat /\ (pc = "resolve" => At <= HeldMark.seq)
  <2>1. HeldMark \in MarkType /\ HeldMark = Outstanding[1] /\ Outstanding # <<>> /\ Outstanding \in Seq(MarkType)
    BY <1>1, <1>4, OutstandingForm
  <2>2. 1 \in 1..Len(Outstanding)
    BY <2>1
  <2>3. pc = "resolve" => ~Draining
    BY <1>1 DEF DrainInv, Finishing
  <2>4. HeldMark.seq \in Nat
    BY <2>1, MarkTyped
  <2>5. QED
    BY <1>1, <2>1, <2>2, <2>3, <2>4 DEF MarkInv, Ahead
<1>5. role = "replica" => segStart' - 1 \in {0} \union boundaries
  <2>1. CASE segStart' = segStart
    BY <1>1, <2>1 DEF AdoptInv
  <2>2. CASE AdoptMove
    <3>1. 1 \in 1..Len(Outstanding) /\ Outstanding[1].kind = "rotate" /\ Outstanding[1].seq = At /\ segStart' = At + 1
      BY <1>1, <2>2, OutstandingForm DEF AdoptMove
    <3>2. At \in boundaries
      BY <1>1, <3>1 DEF MarkInv, Ahead
    <3>3. segStart' - 1 = At
      BY <1>3, <3>1
    <3>4. QED
      BY <3>2, <3>3
  <2>3. QED
    BY <2>1, <2>2, MarkMoves DEF SettleMove
<1>6. CASE ResolveStreamMarks
  <2>1. HeldMark \in HeldType
    BY HeldMarkTyped
  <2>2. /\ pc = "resolve" /\ pos' = pos
        /\ pendingMark' = IF ResolveOutcome(HeldMark) = "settle" THEN NoMark ELSE HeldMark
    BY <1>6 DEF ResolveStreamMarks
  <2>3. ResolveOutcome(HeldMark) # "ordering"
    <3>1. SUFFICES ASSUME ResolveOutcome(HeldMark) = "ordering" PROVE FALSE
      OBVIOUS
    <3>2. HeldMark.kind # "none" /\ At > HeldMark.seq
      BY <3>1 DEF ResolveOutcome
    <3>3. QED
      BY <1>3, <1>4, <2>2, <3>2
  <2>4. outcome' # "ordering"
    BY <1>1, <1>6, <2>1, <2>3, ResolveOutcomes DEF ResolveStreamMarks, Leave, AdoptInv
  <2>5. ASSUME pc' \in {"quiesce", "await"} PROVE ResolveOutcome(HeldMark) = "rotate" /\ from' = from
    BY <1>6, <2>1, <2>2, <2>5, ReturnTyped, ResolveOutcomes DEF ResolveStreamMarks, Leave
  <2>6. ASSUME pc' \in {"quiesce", "await"}
        PROVE  pendingMark'.kind = "rotate" /\ pendingMark'.seq = At' /\ from' # "local" /\ ~diverged
    <3>1. /\ HeldMark.kind = "rotate" /\ ~(At < HeldMark.seq) /\ ~(At > HeldMark.seq) /\ ~diverged
      BY <2>1, <2>5, <2>6, ResolveOutcomes
    <3>2. pendingMark' = HeldMark /\ from # "local"
      BY <1>1, <2>2, <2>5, <2>6 DEF CallKnown
    <3>3. At' = HeldMark.seq
      BY <1>3, <1>4, <2>2, <3>1
    <3>4. QED
      BY <2>5, <2>6, <3>1, <3>2, <3>3
  <2>7. QED
    BY <1>2, <1>5, <2>4, <2>6 DEF AdoptInv
<1>7. CASE MaybeRotate
  <2>1. role = "replica" => ~rotateRequested
    BY <1>1 DEF FedInv
  <2>2. role = "replica" => pc' = "resolve" /\ outcome' = outcome
    BY <1>7, <2>1 DEF MaybeRotate
  <2>3. outcome' = outcome
    BY <1>7 DEF MaybeRotate
  <2>4. QED
    BY <1>1, <1>2, <1>5, <2>2, <2>3 DEF AdoptInv
<1>8. CASE RotationDone \/ RotationFailed
  <2>1. pc' \notin {"quiesce", "await"} /\ outcome' = outcome
    BY <1>8, ReturnTyped DEF RotationDone, RotationFailed
  <2>2. QED
    BY <1>1, <1>2, <1>5, <2>1 DEF AdoptInv
<1>9. CASE ~(ResolveStreamMarks \/ MaybeRotate \/ RotationDone \/ RotationFailed)
  <2>1. outcome' # "ordering"
    BY <1>1, <1>9 DEF AdoptInv, SequencerStep, Sequencing, SeesPoison, FailPoisoned, SeesShutdown, Read, Encode,
     RefreshPendingMark, EncodeFails, ClaimFails, BarrierSubmit, BarrierApply, BarrierPasses, SyncPoint, SubmitFails,
     SubmitBatch, Idle, TailSubmit, TailEnd, DrainSubmit, DrainRemaining, DrainDone, Leave, TakePoison,
     RequestRotation, FinishDrained, FinishFails, Halt, Join, SyncDelayed, IdleApply, BackoffExpires
  <2>2. pc' \in {"quiesce", "await"} =>
          pc \in {"quiesce", "await"} /\ pendingMark' = pendingMark /\ pos' = pos /\ from' = from
    BY <1>9 DEF SequencerStep, Sequencing, SeesPoison, FailPoisoned, SeesShutdown, Read, Encode,
     RefreshPendingMark, EncodeFails, ClaimFails, BarrierSubmit, BarrierApply, BarrierPasses, SyncPoint, SubmitFails,
     SubmitBatch, Idle, TailSubmit, TailEnd, DrainSubmit, DrainRemaining, DrainDone, Leave, TakePoison,
     RequestRotation, FinishDrained, FinishFails, Halt, Join, SyncDelayed, IdleApply, BackoffExpires
  <2>3. QED
    BY <1>1, <1>2, <1>3, <1>5, <2>1, <2>2 DEF AdoptInv
<1>10. QED
  BY <1>6, <1>7, <1>8, <1>9

LEMMA DivergeSequencing ==
  ASSUME Types, ReplicaInv, SequencerStep
  PROVE  DivergeInv'
<1>1. DrainInv /\ FedInv /\ HeldSound /\ DivergeInv
  BY DEF ReplicaInv
<1>2. diverged' = diverged /\ firstMark' = firstMark /\ (~Draining' => ~Draining)
  BY <1>1, SequencerFootprint, DrainSequencing DEF lineage
<1>3. SUFFICES ASSUME diverged PROVE Outstanding' = Outstanding /\ segStart' = segStart
  <2>1. PICK out : out = Outstanding
    OBVIOUS
  <2>2. diverged => Outstanding' = out
    BY <1>3, <2>1
  <2>3. QED
    BY <1>1, <1>2, <1>3, <2>1, <2>2 DEF DivergeInv
<1>4. role # "primary" /\ segStart = 1
  BY <1>1, <1>3 DEF FedInv, DivergeInv
<1>5. ~AdoptMove
  BY <1>3 DEF AdoptMove
<1>6. ~SettleMove
  <2>1. SUFFICES ASSUME SettleMove PROVE FALSE
    OBVIOUS
  <2>2. Outstanding # <<>> /\ segStart = Outstanding[1].seq + 1
    BY <1>3, <2>1 DEF SettleMove
  <2>3. Outstanding[1] \in MarkType
    BY <1>1, <2>2, OutstandingForm
  <2>4. Outstanding[1].seq \in 1..MaxSlots
    BY <2>3 DEF MarkType
  <2>5. QED
    BY <1>4, <2>2, <2>4
<1>7. QED
  BY <1>4, <1>5, <1>6, MarkMoves

LEMMA ReplicaStep ==
  ASSUME StageInv, ReplicaInv, [Next]_vars
  PROVE  ReplicaInv'
<1>1. Types /\ Window /\ RotationInv
  BY DEF StageInv, HandOffInv
<1>2. CASE Upstream
  BY <1>1, <1>2, ReplicaUpstream
<1>3. CASE SequencerStep
  <2>1. DrainInv' /\ HeldSound'
    BY <1>1, <1>3, DrainSequencing, MarkMoves DEF ReplicaInv
  <2>2. QED
    BY <1>1, <1>3, <2>1, FedSequencing, MarkSequencing, QueueSequencing, BoundarySequencing, AdoptSequencing,
       DivergeSequencing DEF ReplicaInv
<1>4. CASE Disk
  <2>1. lineage' = lineage /\ upstream' = upstream /\ sequencer' = sequencer
    BY <1>4, DiskFootprint
  <2>2. QED
    BY <2>1, ReplicaFrame DEF upstream
<1>5. CASE UNCHANGED vars
  BY <1>5, ReplicaFrame DEF vars, upstream
<1>6. QED
  BY <1>2, <1>3, <1>4, <1>5 DEF Next, SequencerStep

-----------------------------------------------------------------------------
(* What the replica's journal holds *)

\* Every entry written before the drain lies in the primary's segment.
FramedInv ==
  role = "replica" => \A e \in 1..Len(placed) : e <= drainFrom => placed[e] = SegmentOf(e)

\* The segment of an entry past the last boundary adopted.
LEMMA SegmentIs ==
  ASSUME Types, NEW e \in Nat, NEW s \in Nat, s >= 1, s <= e, s - 1 \in {0} \union boundaries,
         \A b \in boundaries : b < e => b < s
  PROVE  SegmentOf(e) = s
<1>1. boundaries \subseteq 1..MaxSlots
  BY DEF Types, FixedType
<1> DEFINE S == {0} \union {b \in boundaries : b < e}
<1>2. S \in SUBSET Int
  <2>1. \A b \in boundaries : b \in Int
    BY <1>1
  <2>2. \A y \in S : y \in Int
    BY <2>1
  <2>3. QED
    BY <2>2
<1>3. s - 1 \in S
  BY <1>1
<1>4. \A y \in S : y <= s - 1
  BY <1>1
<1>5. SegmentOf(e) = 1 + Max(S)
  BY DEF SegmentOf
<1> HIDE DEF S
<1>6. Max(S) = s - 1
  BY <1>2, <1>3, <1>4, MaxIs
<1>7. QED
  BY <1>5, <1>6

LEMMA FramedWrite ==
  ASSUME StageInv, ReplicaInv, FramedInv, Write
  PROVE  FramedInv'
<1>1. Types /\ ChainInv /\ CursorInv /\ PlacedInv /\ RotationInv /\ BoundaryInv /\ AdoptInv
  BY DEF StageInv, HandOffInv, DurableInv, ReplicaInv
<1>2. dpc = "write" /\ role' = role /\ boundaries' = boundaries /\ drainFrom' = drainFrom
  BY DEF Write, lineage, sequencer
<1>3. staged \in 1..Len(batches)
  BY <1>1, <1>2, StagedBatch DEF Staging
<1>4. /\ batches # <<>> /\ Last.seq \in Nat /\ Last.ring \in Nat
      /\ Last.seq = Count(slots, Last.ring) /\ Last.ring <= handed
  BY <1>1, <1>3, LastFacts
<1>5. StagedLen = Last.seq - durable
  <2>1. StagedLen = Last.seq - batches[1].base
    BY <1>1, <1>3, StagedLength
  <2>2. batches[1].base = durable
    BY <1>1, <1>2, <1>4 DEF CursorInv
  <2>3. QED
    BY <2>1, <2>2
<1>6. Len(placed) = durable /\ durable \in Nat /\ placed \in Seq(Nat) /\ live \in Nat /\ live <= durable + 1
  BY <1>1, <1>2, RestFacts DEF Types, DiskType, PlacedInv
<1>7. Last.seq <= At /\ At \in Nat
  <2>1. handed \in Nat /\ Count(slots, handed) <= At /\ Count(slots, handed) \in Nat
    BY HandedEncoded
  <2>2. Count(slots, Last.ring) <= Count(slots, handed)
    BY <1>4, <2>1, CountGrows
  <2>3. QED
    BY <1>1, <1>4, <2>1, <2>2, AtBound
<1>8. PICK k \in 0..StagedLen : placed' = placed \o [i \in 1..k |-> live]
  BY DEF Write
<1>9. k \in Nat /\ k <= Last.seq - durable
  BY <1>4, <1>5, <1>6, <1>8
<1> DEFINE new == [i \in 1..k |-> live]
<1>10. new \in Seq(Nat) /\ Len(new) = k /\ \A i \in 1..k : new[i] = live
  BY <1>6, <1>9, IsASeq
<1>11. placed' = placed \o new
  BY <1>8
<1> HIDE DEF new
<1>12. /\ Len(placed') = durable + k
       /\ \A i \in 1..Len(placed) : placed'[i] = placed[i]
       /\ \A i \in 1..(durable + k) : i > durable => placed'[i] = live
  <2>1. /\ Len(placed \o new) = Len(placed) + Len(new)
        /\ \A i \in 1..(Len(placed) + Len(new)) :
             (placed \o new)[i] = IF i <= Len(placed) THEN placed[i] ELSE new[i - Len(placed)]
    BY <1>6, <1>10, ConcatProperties
  <2>2. \A i \in 1..(durable + k) : i > durable => i - durable \in 1..k
    BY <1>6, <1>9
  <2>3. \A i \in 1..Len(placed) : i \in 1..(durable + k) /\ i <= Len(placed)
    BY <1>6, <1>9
  <2>4. \A i \in 1..(durable + k) : i > durable => ~(i <= Len(placed))
    BY <1>6, <1>9
  <2>5. QED
    BY <1>6, <1>10, <1>11, <2>1, <2>2, <2>3, <2>4
<1>13. live = segStart /\ segStart \in Nat /\ segStart >= 1
  <2>1. rotation.kind = "idle"
    BY <1>1, <1>4 DEF RotationInv
  <2>2. QED
    BY <1>1, <1>6, <2>1 DEF RotationInv
<1>14. SUFFICES ASSUME role = "replica", NEW e \in 1..Len(placed'), e <= drainFrom
                PROVE  placed'[e] = SegmentOf(e)
  BY <1>2, <1>14 DEF FramedInv, SegmentOf
<1>15. CASE e <= Len(placed)
  <2>1. e \in 1..Len(placed)
    BY <1>6, <1>9, <1>12, <1>15
  <2>2. QED
    BY <1>12, <1>14, <2>1 DEF FramedInv
<1>16. CASE ~(e <= Len(placed))
  <2>1. e \in Nat /\ e > durable /\ e \in 1..(durable + k)
    BY <1>6, <1>9, <1>12, <1>16
  <2>2. placed'[e] = segStart
    BY <1>12, <1>13, <2>1
  <2>3. segStart <= e /\ e <= At
    BY <1>4, <1>6, <1>7, <1>9, <1>13, <2>1
  <2>4. drainFrom \in Nat /\ boundaries \subseteq 1..MaxSlots
    BY <1>1 DEF Types, SequencerType, FixedType
  <2>5. ASSUME NEW b \in boundaries, b < e PROVE b < segStart
    <3>1. b >= segStart => b >= At \/ b >= drainFrom
      BY <1>1 DEF BoundaryInv
    <3>2. b \in Nat
      BY <2>4
    <3>3. QED
      BY <1>7, <1>13, <1>14, <2>1, <2>3, <2>4, <2>5, <3>1, <3>2
  <2>6. segStart - 1 \in {0} \union boundaries
    BY <1>1, <1>14 DEF AdoptInv
  <2>7. SegmentOf(e) = segStart
    BY <1>1, <1>13, <2>1, <2>3, <2>5, <2>6, SegmentIs
  <2>8. QED
    BY <2>2, <2>7
<1>17. QED
  BY <1>15, <1>16

LEMMA FramedStep ==
  ASSUME StageInv, ReplicaInv, FramedInv, [Next]_vars
  PROVE  FramedInv'
<1>1. Types /\ DrainInv
  BY DEF StageInv, ReplicaInv
<1>2. ASSUME placed' = placed, role' = role, boundaries' = boundaries, drainFrom' <= drainFrom, drainFrom' \in Nat
      PROVE  FramedInv'
  <2>1. drainFrom \in Nat
    BY <1>1 DEF Types, SequencerType
  <2>2. \A e \in 1..Len(placed) : e <= drainFrom' => e <= drainFrom
    BY <1>2, <2>1
  <2>3. QED
    BY <1>2, <2>2 DEF FramedInv, SegmentOf
<1>3. drainFrom \in Nat /\ drainFrom <= drainFrom
  BY <1>1 DEF Types, SequencerType
<1>4. CASE Upstream
  <2>1. placed' = placed /\ role' = role /\ boundaries' = boundaries /\ drainFrom' = drainFrom
    BY <1>1, <1>4, UpstreamEffect DEF disk, lineage, sequencer
  <2>2. QED
    BY <1>2, <1>3, <2>1
<1>5. CASE SequencerStep
  <2>1. placed' = placed /\ role' = role /\ boundaries' = boundaries
    BY <1>5, SequencerFootprint DEF disk, lineage
  <2>2. drainFrom' = drainFrom \/ (~Draining /\ drainFrom' = At)
    BY <1>1, <1>5, DrainSequencing
  <2>3. At \in Nat /\ At <= MaxSlots /\ MaxSlots \in Nat
    BY <1>1, AtBound
  <2>4. drainFrom' \in Nat /\ drainFrom' <= drainFrom
    BY <1>3, <2>2, <2>3 DEF Draining
  <2>5. QED
    BY <1>2, <2>1, <2>4
<1>6. CASE Write
  BY <1>6, FramedWrite
<1>7. CASE Disk /\ ~Write
  <2>1. placed' = placed
    BY <1>7 DEF Disk, SampleStop, StageReady, Sync, PublishProgress, PublishFsyncState, PublishDurable,
         Release, StoreCause, LatchPoison, RotateSegment, NothingToDo
  <2>2. role' = role /\ boundaries' = boundaries /\ drainFrom' = drainFrom
    BY <1>7, DiskFootprint DEF lineage, sequencer
  <2>3. QED
    BY <1>2, <1>3, <2>1, <2>2
<1>8. CASE UNCHANGED vars
  BY <1>2, <1>3, <1>8 DEF vars, lineage, sequencer, disk
<1>9. QED
  BY <1>4, <1>5, <1>6, <1>7, <1>8 DEF Next, SequencerStep

\* A mark is never passed unresolved, and every entry written before the
\* shutdown drain lies in the segment that holds it on the primary
\* (MarkSplit, resolve_stream_marks, finish_adoption).
THEOREM FramingAlwaysFollowsPrimary == Spec => []FramingFollowsPrimary
<1> DEFINE Inv == StageInv /\ ReplicaInv /\ FramedInv
<1>1. ASSUME Init PROVE Inv
  <2>1. placed = <<>> /\ Len(<<>>) = 0
    BY <1>1 DEF Init
  <2>2. FramedInv
    BY <2>1 DEF FramedInv
  <2>3. QED
    BY <1>1, <2>2, StageInit, ReplicaInit
<1>2. ASSUME Inv, [Next]_vars PROVE Inv'
  BY <1>2, StageStep, ReplicaStep, FramedStep
<1>3. ASSUME Inv PROVE FramingFollowsPrimary
  <2>1. MarksNeverPassed
    BY <1>3 DEF MarksNeverPassed, ReplicaInv, AdoptInv
  <2>2. Len(placed) \in Nat /\ drainFrom \in Nat
    BY <1>3 DEF StageInv, Types, DiskType, SequencerType
  <2>3. ASSUME role = "replica", NEW e \in 1..Min({Len(placed), drainFrom}) PROVE placed[e] = SegmentOf(e)
    <3>1. Min({Len(placed), drainFrom}) = IF Len(placed) <= drainFrom THEN Len(placed) ELSE drainFrom
      BY <2>2, MinOfTwo
    <3>2. e \in 1..Len(placed) /\ e <= drainFrom
      BY <2>2, <2>3, <3>1
    <3>3. QED
      BY <1>3, <2>3, <3>2 DEF FramedInv
  <2>4. QED
    BY <2>1, <2>3 DEF FramingFollowsPrimary, MirrorFraming
<1>4. QED
  BY <1>1, <1>2, <1>3, PTL DEF Spec

\* A replica whose chain differs from the primary's stays in its first segment
\* and writes nothing past the first mark it is shown, unless it is shut down
\* (the comparison of resolve_stream_marks).
THEOREM DivergenceAlwaysStops == Spec => []DivergenceStops
<1> DEFINE Inv == StageInv /\ ReplicaInv
<1>1. ASSUME Init PROVE Inv
  BY <1>1, StageInit, ReplicaInit
<1>2. ASSUME Inv, [Next]_vars PROVE Inv'
  BY <1>2, StageStep, ReplicaStep
<1>3. ASSUME Inv PROVE DivergenceStops
  <2>1. Types /\ RotationInv /\ FedInv /\ HeldSound /\ MarkInv /\ AdoptInv /\ DivergeInv
    BY <1>3 DEF StageInv, HandOffInv, ReplicaInv
  <2>2. SUFFICES ASSUME diverged PROVE live = 1 /\ (firstMark > 0 => Len(placed) <= firstMark \/ drainFrom <= MaxSlots)
    BY <2>2 DEF DivergenceStops
  <2>3. role = "replica" /\ segStart = 1
    BY <2>1, <2>2, RoleKnown DEF FedInv, DivergeInv
  <2>4. live = 1
    <3>1. rotation.kind # "ok"
      BY <2>1, <2>2, <2>3 DEF RotationInv, AdoptInv
    <3>2. QED
      BY <2>1, <2>3, <3>1 DEF RotationInv
  <2>5. ASSUME firstMark > 0, ~Draining PROVE Len(placed) <= firstMark
    <3>1. Outstanding # <<>> /\ Outstanding[1].seq = firstMark
      BY <2>1, <2>2, <2>5 DEF DivergeInv
    <3>2. 1 \in 1..Len(Outstanding)
      BY <2>1, <3>1, OutstandingForm
    <3>3. At <= firstMark
      BY <2>1, <2>5, <3>1, <3>2 DEF MarkInv, Ahead
    <3>4. Len(placed) \in Nat /\ Len(placed) <= At /\ At \in Nat /\ firstMark \in Nat
      BY <1>3, <2>1, PlacedEncoded, AtBound DEF Types, UpstreamType
    <3>5. QED
      BY <3>3, <3>4
  <2>6. QED
    BY <2>4, <2>5 DEF Draining
<1>4. QED
  BY <1>1, <1>2, <1>3, PTL DEF Spec
=============================================================================
