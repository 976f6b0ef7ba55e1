----------------------- MODULE CatchupHandoff_proofs -----------------------
(***************************************************************************)
(* The handoff's safety, for a journal, a ring and segments of any size    *)
(* and any number of faults: the bound on a replica's acks, the order of   *)
(* its ring, the silence of the receiver's gate once the stream is         *)
(* bridged, and the announcement of every segment boundary.                *)
(*                                                                         *)
(* The invariant is built in layers, each proved over the one below:       *)
(* HandoffInv (types and the walk), SequencerInv (the sequencer's own      *)
(* positions), SlotInv (what the ring and the sender hold), OrderInv and   *)
(* Encoded (the ring's order), BridgeInv (the drain and the live loop),    *)
(* AnnounceInv (which boundaries a replica has been or will be told of).   *)
(***************************************************************************)
EXTENDS CatchupHandoff, TLAPS

AnyChunk == [kind : {"InputBatch", "Rotate"}, first : Nat, end : Nat]

\* The types the argument needs: positions are numbers, chunks end at one, and
\* there is always a segment.
HandoffType ==
  /\ enc \in Nat /\ submitted \in Nat /\ disk \in Nat /\ accum \in Nat
  /\ starts \in Seq(Nat) /\ Len(starts) >= 1
  /\ chunk \in AnyChunk /\ ring \in Seq(AnyChunk)
  /\ base \in Nat /\ sent \in Nat /\ end \in Nat
  /\ archives \in Nat /\ files \in Nat

\* A walk that is past the choice of its first file stands at a path, and what
\* it has open is a segment.
WalkInv ==
  /\ step \in {"header", "open", "read"} => file \in Nat \ {0}
  /\ step = "read" => fd \in 1..Len(starts)

\* Where the receiver stands against the handler's own position: never past
\* the handshake until the walks that send begin, then never past the end of
\* the walk in progress, then never past the sent high-water.
AckInv ==
  /\ (step = "validate" \/ (step \in {"list", "stat", "choose"} /\ pass = "probe"))
       => accum <= base
  /\ step \in PassSteps \union {"activate"} => accum <= end
  /\ step \in DrainSteps \union {"live"} => accum <= sent

HandoffInv == HandoffType /\ WalkInv /\ AckInv

-----------------------------------------------------------------------------
(* Lemmas *)

\* The larger of two positions, as SentHighWater and the receiver take it, is
\* one of the two and below neither.
LEMMA MaxOfTwo ==
  ASSUME NEW a \in Nat, NEW b \in Nat
  PROVE  /\ Max({a, b}) \in {a, b}
         /\ Max({a, b}) >= a /\ Max({a, b}) >= b
<1>1. \E x \in {a, b} : \A y \in {a, b} : x >= y
  OBVIOUS
<1> QED  BY <1>1 DEF Max

\* A frame takes the receiver no further than its own end
\* (process_streaming_frames, queue_stream_mark).
LEMMA ReceiveBounded ==
  ASSUME accum \in Nat, NEW c, c.end \in Nat, Receive(c)
  PROVE  /\ accum' \in Nat
         /\ accum' <= accum \/ accum' <= c.end
         /\ IsRotate(c) => accum' = accum
<1>1. CASE ~link
  BY <1>1 DEF Receive, replicaVars
<1>2. CASE link /\ IsRotate(c)
  BY <1>2 DEF Receive, TakeMark
<1>3. CASE link /\ ~IsRotate(c)
  BY <1>3, MaxOfTwo DEF Receive, TakeBatch
<1> QED  BY <1>1, <1>2, <1>3

\* A path that names a file names one of the segments (discover_journal_files).
LEMMA SegmentExists ==
  ASSUME HandoffType, NEW i \in Nat \ {0}, Segment(i) # 0
  PROVE  Segment(i) \in 1..Len(starts)
BY DEF HandoffType, Segment, Archives

\* A walk that ends leaves the high-water at or past its end
\* (SentHighWater::seed and advance).
LEMMA FinishPassAcks ==
  ASSUME HandoffType, accum <= end, FinishPass, accum' = accum
  PROVE  /\ base' \in Nat /\ sent' \in Nat /\ end' \in Nat
         /\ archives' \in Nat /\ files' \in Nat
         /\ WalkInv' /\ AckInv'
<1> USE DEF HandoffType, FinishPass, NoWalk
<1>1. base' = base /\ end' = end /\ archives' = 0 /\ files' = 0
  OBVIOUS
<1>2. CASE pass = "bulk" /\ step' = "activate" /\ UNCHANGED sent
  BY <1>1, <1>2 DEF WalkInv, AckInv, PassSteps, DrainSteps
<1>3. CASE step' = "drain" /\ sent' = seed(base, end)
  <2>1. sent' \in Nat /\ sent' >= end
    BY <1>3, MaxOfTwo DEF seed
  <2> QED  BY <1>1, <1>3, <2>1 DEF WalkInv, AckInv, PassSteps, DrainSteps
<1>4. CASE step' = "reclassify" /\ sent' = Max({sent, end})
  <2>1. sent' \in Nat /\ sent' >= end
    BY <1>4, MaxOfTwo
  <2> QED  BY <1>1, <1>4, <2>1 DEF WalkInv, AckInv, PassSteps, DrainSteps
<1> QED  BY <1>2, <1>3, <1>4

\* Starting a walk at or past the receiver keeps it there (stream_journal).
LEMMA StartPassAcks ==
  ASSUME HandoffType, NEW why, NEW from \in Nat, StartPass(why, from),
         accum' = accum, accum <= from, why = "probe" => accum <= base
  PROVE  /\ base' \in Nat /\ sent' \in Nat /\ end' \in Nat
         /\ archives' \in Nat /\ files' \in Nat
         /\ WalkInv' /\ AckInv'
BY DEF HandoffType, StartPass, NoWalk, WalkInv, AckInv, PassSteps, DrainSteps

\* A step to a place where no session is under way leaves nothing to compare.
LEMMA GotoAcks ==
  ASSUME HandoffType, NEW next \in {"exit", "snapshot", "clear", "idle"},
         Goto(next)
  PROVE  /\ base' \in Nat /\ sent' \in Nat /\ end' \in Nat
         /\ archives' \in Nat /\ files' \in Nat
         /\ WalkInv' /\ AckInv'
BY DEF HandoffType, Goto, localVars, walkVars, WalkInv, AckInv, PassSteps, DrainSteps

-----------------------------------------------------------------------------
(* The steps *)

\* The sequencer and the disk thread move neither the handler nor the replica:
\* a rotation only adds a segment.
LEMMA SequencerAcks ==
  ASSUME HandoffInv, Sequencer \/ DiskWrite
  PROVE  HandoffInv'
<1> USE DEF HandoffInv, HandoffType
<1>1. UNCHANGED <<slotVars, accum>>
  BY DEF Sequencer, Publishing, Rotating, Encode, LoadActive, LoadEvict, TryPublish,
         StoreEvict, Submit, ArmRotation, ArchiveLive, InstallLive, RestoreLive,
         DiskWrite, replicaVars
<1>2. enc' \in Nat /\ disk' \in Nat
  BY HandoffAssumption
     DEF Sequencer, Publishing, Rotating, Encode, LoadActive, LoadEvict, TryPublish,
         StoreEvict, Submit, ArmRotation, ArchiveLive, InstallLive, RestoreLive,
         DiskWrite, journalVars
<1>3. submitted' \in Nat
  <2>1. chunk.end \in Nat
    BY DEF AnyChunk
  <2> QED  BY <2>1
     DEF Sequencer, Publishing, Rotating, Encode, LoadActive, LoadEvict, TryPublish,
         StoreEvict, Submit, ArmRotation, ArchiveLive, InstallLive, RestoreLive,
         DiskWrite, journalVars
<1>4. starts' \in Seq(Nat) /\ Len(starts') >= Len(starts)
  <2>1. starts' = starts \/ starts' = Append(starts, enc + 1)
    BY DEF Sequencer, Publishing, Rotating, Encode, LoadActive, LoadEvict, TryPublish,
           StoreEvict, Submit, ArmRotation, ArchiveLive, InstallLive, RestoreLive,
           DiskWrite, journalVars
  <2>2. enc + 1 \in Nat /\ starts \in Seq(Nat) /\ Len(starts) \in Nat
    OBVIOUS
  <2>3. CASE starts' = starts
    BY <2>2, <2>3
  <2>4. CASE starts' = Append(starts, enc + 1)
    <3>1. Append(starts, enc + 1) \in Seq(Nat)
      BY <2>2
    <3>2. Len(Append(starts, enc + 1)) = Len(starts) + 1
      BY <2>2
    <3> QED  BY <2>2, <2>4, <3>1, <3>2
  <2> QED  BY <2>1, <2>3, <2>4
<1>5. ring' \in Seq(AnyChunk)
  BY DEF Sequencer, Publishing, Rotating, Encode, LoadActive, LoadEvict, TryPublish,
         StoreEvict, Submit, ArmRotation, ArchiveLive, InstallLive, RestoreLive,
         DiskWrite
<1>6. chunk' \in AnyChunk
  <2>1. CASE Encode
    BY <2>1, HandoffAssumption DEF Encode, Batch, AnyChunk
  <2>2. CASE Publishing
    BY <2>2 DEF Publishing, LoadActive, LoadEvict, TryPublish, StoreEvict, Submit,
                NoChunk, Rotate, AnyChunk
  <2>3. CASE ArmRotation \/ Rotating \/ RestoreLive
    BY <2>3 DEF ArmRotation, Rotating, ArchiveLive, InstallLive, RestoreLive,
                NoChunk, Rotate, AnyChunk
  <2>4. CASE DiskWrite
    BY <2>4 DEF DiskWrite, seqVars
  <2> QED  BY <2>1, <2>2, <2>3, <2>4 DEF Sequencer
<1>7. HandoffType'
  BY <1>1, <1>2, <1>3, <1>4, <1>5, <1>6 DEF slotVars, localVars, walkVars
<1>8. WalkInv'
  <2>1. step' = step /\ file' = file /\ fd' = fd
    BY <1>1 DEF slotVars, walkVars
  <2> QED  BY <1>4, <2>1 DEF WalkInv
<1>9. AckInv'
  <2>1. step' = step /\ pass' = pass /\ accum' = accum
    BY <1>1 DEF slotVars, localVars
  <2>2. base' = base /\ end' = end /\ sent' = sent
    BY <1>1 DEF slotVars, localVars
  <2> QED  BY <2>1, <2>2 DEF AckInv
<1> QED  BY <1>7, <1>8, <1>9

\* Accepting a replica takes the position of its handshake for the base
\* (handle_replica_connection).
LEMMA AcceptAcks ==
  ASSUME HandoffInv, Connect \/ Validate \/ ValidateExpires \/ Preflight
  PROVE  HandoffInv'
<1> USE DEF HandoffInv
<1>1. /\ UNCHANGED <<journalVars, chunk, ring, accum>>
  BY DEF Connect, Validate, ValidateExpires, Preflight, sideVars, seqVars, flagVars,
         replicaVars
<1>2. CASE Connect
  <2>1. /\ base' \in Nat /\ sent' \in Nat /\ end' \in Nat
        /\ archives' \in Nat /\ files' \in Nat
    BY <1>2 DEF Connect, HandoffType, walkVars
  <2>2. WalkInv' /\ AckInv'
    BY <1>1, <1>2 DEF Connect, HandoffType, WalkInv, AckInv, PassSteps, DrainSteps
  <2> QED  BY <1>1, <2>1, <2>2 DEF HandoffType, journalVars
<1>3. CASE Validate
  <2>1. base \in Nat /\ accum <= base /\ accum' = accum
    BY <1>1, <1>3 DEF Validate, HandoffType, AckInv
  <2> QED  BY <1>1, <1>3, <2>1, StartPassAcks DEF Validate, HandoffType, journalVars
<1>4. CASE ValidateExpires \/ Preflight
  BY <1>1, <1>4, GotoAcks DEF ValidateExpires, Preflight, Fail, HandoffType, journalVars
<1> QED  BY <1>2, <1>3, <1>4

\* A walk moves its end before, or together with, the receiver.
LEMMA WalkAcks ==
  ASSUME HandoffInv, Walk
  PROVE  HandoffInv'
<1> USE DEF HandoffInv
<1>1. UNCHANGED <<journalVars, chunk, ring>>
  BY DEF Walk, ListArchives, StatLive, Probe, ChooseStart, ReadHeader, OpenScanner,
         ReadBatch, EndOfFile, sideVars, seqVars, flagVars
<1> DEFINE Locals == /\ base' \in Nat /\ sent' \in Nat /\ end' \in Nat
                     /\ archives' \in Nat /\ files' \in Nat
<1>2. SUFFICES accum' \in Nat /\ Locals /\ WalkInv' /\ AckInv'
  BY <1>1 DEF HandoffType, journalVars
<1>3. CASE ListArchives
  <2>1. Archives \in Nat
    BY DEF HandoffType, Archives
  <2>2. accum' \in Nat /\ Locals
    BY <1>3, <2>1 DEF ListArchives, HandoffType, localVars, replicaVars
  <2> QED  BY <1>3, <2>2
       DEF ListArchives, localVars, replicaVars, WalkInv, AckInv, PassSteps, DrainSteps
<1>4. CASE StatLive
  <2>1. accum' \in Nat /\ Locals
    BY <1>4 DEF StatLive, HandoffType, localVars, replicaVars
  <2> QED  BY <1>4, <2>1
       DEF StatLive, localVars, replicaVars, WalkInv, AckInv, PassSteps, DrainSteps
<1>5. CASE Probe
  <2>1. base \in Nat /\ accum <= base /\ accum' = accum
    BY <1>5 DEF Probe, HandoffType, AckInv, replicaVars
  <2>2. CASE StartPass("bulk", base)
    BY <2>1, <2>2, StartPassAcks DEF HandoffType
  <2>3. CASE Fail \/ Goto("snapshot")
    BY <2>1, <2>3, GotoAcks DEF Fail, HandoffType
  <2> QED  BY <1>5, <2>2, <2>3 DEF Probe
<1>6. CASE ChooseStart
  <2>1. accum <= end /\ accum' = accum
    BY <1>6 DEF ChooseStart, AckInv, PassSteps, replicaVars
  <2>2. CASE FinishPass
    BY <2>1, <2>2, FinishPassAcks DEF HandoffType
  <2>3. CASE Fail
    BY <2>1, <2>3, GotoAcks DEF Fail, HandoffType
  <2>4. CASE \E i \in Files :
                /\ step' = "header" /\ file' = i
                /\ UNCHANGED <<localVars, archives, files, fd>>
    <3>1. accum' \in Nat /\ Locals
      BY <2>1, <2>4 DEF HandoffType, localVars
    <3>2. WalkInv'
      BY <2>4 DEF WalkInv, Files, HandoffType
    <3>3. AckInv'
      BY <2>1, <2>4 DEF AckInv, PassSteps, DrainSteps, localVars
    <3> QED  BY <3>1, <3>2, <3>3
  <2> QED  BY <1>6, <2>2, <2>3, <2>4 DEF ChooseStart
<1>7. CASE ReadHeader
  <2>1. accum <= end /\ file \in Nat \ {0}
    BY <1>7 DEF ReadHeader, AckInv, WalkInv, PassSteps
  <2>2. accum' = accum
    <3>1. CASE UNCHANGED replicaVars
      BY <3>1 DEF replicaVars
    <3>2. CASE Receive(Rotate(end))
      BY <3>2, ReceiveBounded DEF Rotate, IsRotate, HandoffType
    <3> QED  BY <1>7, <3>1, <3>2 DEF ReadHeader
  <2>3. CASE Fail
    BY <2>2, <2>3, GotoAcks DEF Fail, HandoffType
  <2>4. CASE step' = "open" /\ UNCHANGED <<localVars, archives, files, file, fd>>
    <3>1. accum' \in Nat /\ Locals
      BY <2>2, <2>4 DEF HandoffType, localVars
    <3> QED  BY <2>1, <2>2, <2>4, <3>1
         DEF WalkInv, AckInv, PassSteps, DrainSteps, localVars
  <2> QED  BY <1>7, <2>3, <2>4 DEF ReadHeader
<1>8. CASE OpenScanner
  <2>1. accum <= end /\ file \in Nat \ {0} /\ accum' = accum
    BY <1>8 DEF OpenScanner, AckInv, WalkInv, PassSteps, replicaVars
  <2>2. CASE Fail
    BY <2>1, <2>2, GotoAcks DEF Fail, HandoffType
  <2>3. CASE /\ Segment(file) # 0 /\ step' = "read" /\ fd' = Segment(file)
             /\ UNCHANGED <<localVars, archives, files, file, header>>
    <3>1. accum' \in Nat /\ Locals
      BY <2>1, <2>3 DEF HandoffType, localVars
    <3>2. fd' \in 1..Len(starts) /\ starts' = starts
      BY <1>1, <2>1, <2>3, SegmentExists DEF journalVars
    <3> QED  BY <2>1, <2>3, <3>1, <3>2
         DEF WalkInv, AckInv, PassSteps, DrainSteps, localVars
  <2> QED  BY <1>8, <2>2, <2>3 DEF OpenScanner
<1>9. CASE ReadBatch
  <2>1. PICK last \in Unread : Receive(Batch(Min(Unread), last)) /\ end' = last
    BY <1>9 DEF ReadBatch
  <2>2. accum <= end /\ file \in Nat \ {0} /\ fd \in 1..Len(starts)
    BY <1>9 DEF ReadBatch, AckInv, WalkInv, PassSteps
  <2>3. starts[fd] \in Nat /\ LastIn(fd) \in Int
    BY <2>2 DEF HandoffType, LastIn
  <2>4. last \in Nat /\ last > end
    BY <2>3 DEF Unread, HandoffType
  <2>5. accum' \in Nat /\ accum' <= last
    BY <2>1, <2>2, <2>4, ReceiveBounded DEF Batch, HandoffType
  <2>6. Locals
    BY <1>9, <2>1, <2>4 DEF ReadBatch, HandoffType, walkVars
  <2> QED  BY <1>1, <1>9, <2>1, <2>2, <2>5, <2>6
       DEF ReadBatch, WalkInv, AckInv, PassSteps, DrainSteps, walkVars, journalVars
<1>10. CASE EndOfFile
  <2>1. accum <= end /\ file \in Nat \ {0} /\ accum' = accum
    BY <1>10 DEF EndOfFile, AckInv, WalkInv, PassSteps, replicaVars
  <2>2. CASE FinishPass
    BY <2>1, <2>2, FinishPassAcks DEF HandoffType
  <2>3. CASE /\ step' = "header" /\ file' = file + 1
             /\ UNCHANGED <<localVars, archives, files>>
    <3>1. accum' \in Nat /\ Locals
      BY <2>1, <2>3 DEF HandoffType, localVars
    <3> QED  BY <2>1, <2>3, <3>1 DEF WalkInv, AckInv, PassSteps, DrainSteps, localVars
  <2> QED  BY <1>10, <2>2, <2>3 DEF EndOfFile
<1> QED  BY <1>3, <1>4, <1>5, <1>6, <1>7, <1>8, <1>9, <1>10 DEF Walk

\* The bridge and the live loop count what they send before the replica can
\* ack it (SentHighWater::advance).
LEMMA BridgeAcks ==
  ASSUME HandoffInv, Bridge \/ DrainExpires
  PROVE  HandoffInv'
<1> USE DEF HandoffInv
<1>1. UNCHANGED <<journalVars, chunk>>
  BY DEF Bridge, Activate, DrainEmpty, DrainCovered, DrainAhead, DrainForward,
         LiveForward, LiveEvicted, DrainExpires, sideVars, seqVars
<1>2. ring' \in Seq(AnyChunk)
  <2>1. ring' = ring \/ (ring # <<>> /\ ring' = Tail(ring))
    BY DEF Bridge, Activate, DrainEmpty, DrainCovered, DrainAhead, DrainForward,
           LiveForward, LiveEvicted, DrainExpires, flagVars, Commit
  <2> QED  BY <2>1 DEF HandoffType
<1> DEFINE Locals == /\ base' \in Nat /\ sent' \in Nat /\ end' \in Nat
                     /\ archives' \in Nat /\ files' \in Nat
<1>3. SUFFICES accum' \in Nat /\ Locals /\ WalkInv' /\ AckInv'
  BY <1>1, <1>2 DEF HandoffType, journalVars
<1>4. CASE Activate
  <2>1. accum <= end /\ accum' = accum
    BY <1>4 DEF Activate, AckInv, replicaVars
  <2> QED  BY <1>4, <2>1, StartPassAcks DEF Activate, HandoffType
<1>5. CASE DrainAhead
  <2>1. accum <= sent /\ accum' = accum
    BY <1>5 DEF DrainAhead, AckInv, replicaVars
  <2> QED  BY <1>5, <2>1, StartPassAcks DEF DrainAhead, HandoffType
<1>6. CASE LiveEvicted \/ DrainExpires
  BY <1>6, GotoAcks DEF LiveEvicted, DrainExpires, Fail, HandoffType, replicaVars
<1>7. CASE DrainEmpty \/ DrainCovered
  <2>1. accum <= sent /\ accum' = accum /\ step' \in {"drain", "live"}
    BY <1>7
       DEF DrainEmpty, DrainCovered, AckInv, DrainSteps, replicaVars, Goto, slotVars
  <2>2. Locals /\ sent' = sent
    BY <1>7
       DEF DrainEmpty, DrainCovered, HandoffType, Goto, slotVars, localVars, walkVars
  <2> QED  BY <2>1, <2>2 DEF HandoffType, WalkInv, AckInv, PassSteps, DrainSteps
<1>8. ring # <<>> => Head(ring).end \in Nat
  <2>1. ring # <<>> => Head(ring) \in AnyChunk
    BY DEF HandoffType
  <2> QED  BY <2>1 DEF AnyChunk
<1>9. CASE DrainForward
  <2>1. accum <= sent /\ ring # <<>> /\ step' \in {"drain", "live"}
    BY <1>9 DEF DrainForward, AckInv, DrainSteps
  <2>2. base' = base /\ end' = 0 /\ archives' = archives /\ files' = files
    BY <1>9 DEF DrainForward, walkVars
  <2>3. CASE IsRotate(Head(ring))
    <3>1. accum' = accum /\ sent' = sent
      BY <1>8, <1>9, <2>1, <2>3, ReceiveBounded DEF DrainForward, HandoffType
    <3> QED  BY <2>1, <2>2, <3>1 DEF HandoffType, WalkInv, AckInv, PassSteps, DrainSteps
  <2>4. CASE ~IsRotate(Head(ring))
    <3>1. sent' \in Nat /\ sent' >= sent /\ sent' >= Head(ring).end
      BY <1>8, <1>9, <2>1, <2>4, MaxOfTwo DEF DrainForward, HandoffType
    <3>2. accum' \in Nat /\ (accum' <= accum \/ accum' <= Head(ring).end)
      <4>1. CASE Receive(Head(ring))
        BY <1>8, <2>1, <4>1, ReceiveBounded DEF HandoffType
      <4>2. CASE UNCHANGED replicaVars
        BY <4>2 DEF HandoffType, replicaVars
      <4> QED  BY <1>9, <4>1, <4>2 DEF DrainForward
    <3>3. accum' <= sent'
      BY <1>8, <2>1, <3>1, <3>2 DEF HandoffType
    <3> QED  BY <2>1, <2>2, <3>1, <3>2, <3>3
         DEF HandoffType, WalkInv, AckInv, PassSteps, DrainSteps
  <2> QED  BY <2>3, <2>4
<1>10. CASE LiveForward
  <2>1. accum <= sent /\ ring # <<>> /\ step' = "live"
    BY <1>10 DEF LiveForward, AckInv
  <2>2. base' = base /\ end' = end /\ archives' = archives /\ files' = files
    BY <1>10 DEF LiveForward, walkVars
  <2>3. sent' \in Nat /\ sent' >= sent /\ sent' >= Head(ring).end
    BY <1>8, <1>10, <2>1, MaxOfTwo DEF LiveForward, HandoffType
  <2>4. accum' \in Nat /\ (accum' <= accum \/ accum' <= Head(ring).end)
    BY <1>8, <1>10, <2>1, ReceiveBounded DEF LiveForward, HandoffType
  <2>5. accum' <= sent'
    BY <1>8, <2>1, <2>3, <2>4 DEF HandoffType
  <2> QED  BY <2>1, <2>2, <2>3, <2>4, <2>5
       DEF HandoffType, WalkInv, AckInv, PassSteps, DrainSteps
<1> QED  BY <1>4, <1>5, <1>6, <1>7, <1>9, <1>10 DEF Bridge

\* Leaving a session forgets its positions; a broken link moves nothing.
LEMMA ReclaimAcks ==
  ASSUME HandoffInv,
         LinkError \/ SkipToProducer \/ Disengage \/ ClearEvict \/ Disconnect
  PROVE  HandoffInv'
<1> USE DEF HandoffInv
<1>1. UNCHANGED <<journalVars, chunk, accum>>
  BY DEF LinkError, SkipToProducer, Disengage, ClearEvict, Disconnect, sideVars,
         seqVars, replicaVars
<1>2. ring' \in Seq(AnyChunk)
  <2>1. ring' = ring \/ ring' = <<>>
    BY DEF LinkError, SkipToProducer, Disengage, ClearEvict, Disconnect, flagVars
  <2>2. <<>> \in Seq(AnyChunk)
    OBVIOUS
  <2>3. CASE ring' = ring
    BY <2>3 DEF HandoffType
  <2>4. CASE ring' = <<>>
    BY <2>2, <2>4
  <2> QED  BY <2>1, <2>3, <2>4
<1> DEFINE Locals == /\ base' \in Nat /\ sent' \in Nat /\ end' \in Nat
                     /\ archives' \in Nat /\ files' \in Nat
<1>3. SUFFICES Locals /\ WalkInv' /\ AckInv'
  BY <1>1, <1>2 DEF HandoffType, journalVars
<1>4. CASE LinkError \/ Disengage \/ ClearEvict
  BY <1>4, GotoAcks DEF LinkError, Disengage, ClearEvict, Fail
<1>5. CASE SkipToProducer
  BY <1>5 DEF SkipToProducer, Forget, NoWalk, WalkInv, AckInv, PassSteps, DrainSteps
<1>6. CASE Disconnect
  <2>1. UNCHANGED <<step, pass, base, sent, end, archives, files, file, fd,
                    accum, starts>>
    BY <1>1, <1>6 DEF Disconnect, slotVars, localVars, walkVars, journalVars
  <2> QED  BY <2>1 DEF HandoffType, WalkInv, AckInv
<1> QED  BY <1>4, <1>5, <1>6

-----------------------------------------------------------------------------

\* In every state, for every journal, ring and segment size and any number of
\* broken links, expired waits and failed rotations: once the sent high-water
\* is in force (the drain and the live loop) the replica's true position, hence
\* every truthful ack, is within it.
THEOREM AcksAlwaysWithinSent == Spec => []AcksWithinSent
<1>1. Init => HandoffInv
  BY DEF Init, HandoffInv, HandoffType, WalkInv, AckInv, AnyChunk, NoChunk, Rotate,
         PassSteps, DrainSteps
<1>2. HandoffInv /\ [Next]_vars => HandoffInv'
  <2> SUFFICES ASSUME HandoffInv, [Next]_vars
               PROVE  HandoffInv'
    OBVIOUS
  <2>1. CASE Sequencer \/ DiskWrite
    BY <2>1, SequencerAcks
  <2>2. CASE Connect \/ Validate \/ ValidateExpires \/ Preflight
    BY <2>2, AcceptAcks
  <2>3. CASE Walk
    BY <2>3, WalkAcks
  <2>4. CASE Bridge \/ DrainExpires
    BY <2>4, BridgeAcks
  <2>5. CASE LinkError \/ SkipToProducer \/ Disengage \/ ClearEvict \/ Disconnect
    BY <2>5, ReclaimAcks
  <2>6. CASE UNCHANGED vars
    <3>1. UNCHANGED <<enc, submitted, disk, starts, chunk, ring, accum>>
      BY <2>6 DEF vars, sideVars, journalVars, seqVars, flagVars, replicaVars
    <3>2. UNCHANGED <<step, pass, base, sent, end, archives, files, file, fd>>
      BY <2>6 DEF vars, slotVars, localVars, walkVars
    <3> QED  BY <3>1, <3>2 DEF HandoffInv, HandoffType, WalkInv, AckInv
  <2> QED  BY <2>1, <2>2, <2>3, <2>4, <2>5, <2>6 DEF Next, Slot
<1>3. HandoffInv => AcksWithinSent
  BY DEF HandoffInv, AckInv, AcksWithinSent
<1> QED  BY <1>1, <1>2, <1>3, PTL DEF Spec


-----------------------------------------------------------------------------
(* The stream the sequencer offers the ring, and what the handler makes of *)
(* it: the ring's order, the gate's silence and the boundaries announced.  *)

Jobs == {"idle", "active", "evicted", "publish", "full", "submit", "rotate", "install"}

\* A chunk is in hand, not yet published or skipped.
InFlight == job \in {"active", "evicted", "publish", "full"}

\* The stream position a chunk follows on from.
Pred(c) == IF IsRotate(c) THEN c.end ELSE c.first - 1

\* The position the next chunk to be offered follows on from.
Before == IF InFlight THEN Pred(chunk) ELSE enc

\* A chunk of at least one entry, or a boundary behind one.
Whole(c) ==
  /\ c \in AnyChunk /\ 1 <= c.end
  /\ ~IsRotate(c) => 1 <= c.first /\ c.first <= c.end

Positions == submitted <= enc /\ disk <= submitted /\ enc <= MaxSeq

\* Segments open in order, on what the disk holds.
Opened ==
  /\ Len(starts) <= MaxSegments /\ starts[1] = 1
  /\ \A k \in 1..Len(starts) : 1 <= starts[k] /\ starts[k] <= disk + 1
  /\ \A k, m \in 1..Len(starts) : k < m => starts[k] < starts[m]

\* What the sequencer has in hand is the newest of the stream, of one segment;
\* it rotates on a drained disk only, and offers nothing to an evicted replica.
InHand ==
  /\ job \in Jobs /\ missing \in BOOLEAN /\ evict \in BOOLEAN
  /\ InFlight \/ job = "submit" => Whole(chunk) /\ chunk.end = enc
  /\ job = "submit" => ~IsRotate(chunk)
  /\ job \in {"idle", "rotate", "install"} \/ (InFlight /\ IsRotate(chunk))
       => submitted = enc
  /\ job \in {"rotate", "install"}
       => starts[Len(starts)] <= enc /\ Len(starts) < MaxSegments
  /\ job = "install" => disk = enc
  /\ missing <=> job = "install"
  /\ evict => job \notin {"publish", "full"}
  /\ (InFlight \/ job = "submit") /\ ~IsRotate(chunk)
       => starts[Len(starts)] <= chunk.first

SequencerInv == Positions /\ Opened /\ InHand

\* Append and Tail, by position.
LEMMA AppendAt ==
  ASSUME NEW S, NEW s \in Seq(S), NEW e \in S
  PROVE  /\ Append(s, e) \in Seq(S) /\ Len(s) \in Nat
         /\ Len(Append(s, e)) = Len(s) + 1
         /\ \A i \in 1..Len(s) : Append(s, e)[i] = s[i]
         /\ Append(s, e)[Len(s) + 1] = e
OBVIOUS

LEMMA TailAt ==
  ASSUME NEW S, NEW s \in Seq(S), s # <<>>
  PROVE  /\ Tail(s) \in Seq(S) /\ Len(s) \in Nat /\ Len(s) >= 1
         /\ Len(Tail(s)) = Len(s) - 1 /\ Head(s) = s[1]
         /\ \A i \in 1..(Len(s) - 1) : Tail(s)[i] = s[i + 1]
OBVIOUS

\* Only the sequencer touches the journal's files and the chunk in hand, and
\* only it and the disk thread move the positions.
LEMMA SequencerSide ==
  ASSUME Sequencer \/ DiskWrite
  PROVE  UNCHANGED <<step, pass, base, sent, end, archives, files, file, header,
                     fd, link, accum, marks, active, stale, closed, skewed>>
BY DEF Sequencer, Publishing, Rotating, Encode, LoadActive, LoadEvict, TryPublish,
       StoreEvict, Submit, ArmRotation, ArchiveLive, InstallLive, RestoreLive,
       DiskWrite, slotVars, localVars, walkVars, replicaVars, ghostVars

LEMMA HandlerSide ==
  ASSUME Slot \/ ValidateExpires \/ DrainExpires \/ Disconnect
  PROVE  /\ UNCHANGED <<enc, submitted, disk, starts, missing, job, chunk>>
         /\ evict' \in {evict, FALSE}
  BY DEF Slot, Walk, Bridge, Connect, Validate, Preflight, LinkError, SkipToProducer,
         Disengage, ClearEvict, ValidateExpires, DrainExpires, Disconnect,
         ListArchives, StatLive, Probe, ChooseStart, ReadHeader, OpenScanner,
         ReadBatch, EndOfFile, Activate, DrainEmpty, DrainCovered, DrainAhead,
         DrainForward, LiveForward, LiveEvicted, sideVars, journalVars, seqVars,
         flagVars, Goto, Fail

LEMMA EncodeSequences ==
  ASSUME HandoffType, SequencerInv, Encode
  PROVE  SequencerInv'
<1> USE DEF Encode
<1>1. PICK n \in 1..MaxBatch :
        /\ enc + n <= MaxSeq /\ enc' = enc + n
        /\ chunk' = Batch(enc + 1, enc + n)
  OBVIOUS
<1>2. n \in Nat /\ n >= 1 /\ enc \in Nat /\ submitted \in Nat /\ disk \in Nat
      /\ MaxSeq \in Nat
  BY HandoffAssumption DEF HandoffType
<1>3. /\ chunk' \in AnyChunk /\ ~IsRotate(chunk)' /\ chunk'.first = enc + 1
      /\ chunk'.end = enc + n
  BY <1>1, <1>2 DEF Batch, AnyChunk, IsRotate
<1>4. Len(starts) \in 1..Len(starts) /\ starts[Len(starts)] \in Nat
  BY DEF HandoffType
<1>5. starts[Len(starts)] <= enc + 1
  BY <1>2, <1>4 DEF SequencerInv, Opened, InHand, Positions
<1>6. Positions' /\ Opened'
  BY <1>1, <1>2 DEF SequencerInv, Positions, Opened
<1>7. InHand'
  BY <1>1, <1>2, <1>3, <1>5 DEF SequencerInv, InHand, Jobs, InFlight, Whole
<1> QED
  BY <1>6, <1>7 DEF SequencerInv

LEMMA OfferSequences ==
  ASSUME HandoffType, SequencerInv, LoadActive \/ LoadEvict \/ TryPublish \/ StoreEvict
  PROVE  SequencerInv'
<1>1. UNCHANGED <<enc, submitted, disk, starts, missing, chunk>>
  BY DEF LoadActive, LoadEvict, TryPublish, StoreEvict, journalVars
<1>2. Positions' /\ Opened'
  BY <1>1 DEF SequencerInv, Positions, Opened
<1>3. InHand'
  <2>1. CASE LoadActive
    BY <1>1, <2>1
       DEF LoadActive, AfterPublish, IsRotate, SequencerInv, InHand, Jobs, InFlight, Whole
  <2>2. CASE LoadEvict
    BY <1>1, <2>2
       DEF LoadEvict, AfterPublish, IsRotate, SequencerInv, InHand, Jobs, InFlight, Whole
  <2>3. CASE TryPublish
    BY <1>1, <2>3
       DEF TryPublish, AfterPublish, IsRotate, SequencerInv, InHand, Jobs, InFlight, Whole
  <2>4. CASE StoreEvict
    BY <1>1, <2>4
       DEF StoreEvict, AfterPublish, IsRotate, SequencerInv, InHand, Jobs, InFlight, Whole
  <2> QED
    BY <2>1, <2>2, <2>3, <2>4
<1> QED
  BY <1>2, <1>3 DEF SequencerInv

LEMMA SubmitSequences ==
  ASSUME HandoffType, SequencerInv, Submit \/ DiskWrite \/ ArmRotation \/ ArchiveLive \/ RestoreLive
  PROVE  SequencerInv'
<1> USE DEF SequencerInv
<1>1. /\ enc \in Nat /\ submitted \in Nat /\ disk \in Nat /\ Len(starts) \in Nat
      /\ Len(starts) \in 1..Len(starts)
      /\ \A k \in 1..Len(starts) : starts[k] \in Nat
  BY DEF HandoffType
<1>2. enc' = enc /\ starts' = starts
  BY DEF Submit, DiskWrite, ArmRotation, ArchiveLive, RestoreLive, journalVars
<1>3. CASE Submit
  <2>1. submitted' = enc /\ disk' = disk
    BY <1>3 DEF Submit, InHand
  <2>2. Positions' /\ Opened'
    BY <1>1, <1>2, <2>1 DEF Positions, Opened
  <2>3. InHand'
    BY <1>1, <1>2, <1>3, <2>1 DEF Submit, InHand, Jobs, InFlight
  <2> QED
    BY <2>2, <2>3
<1>4. CASE DiskWrite
  <2>1. submitted' = submitted /\ disk' = disk + 1 /\ disk < submitted
    BY <1>4 DEF DiskWrite
  <2>2. Positions' /\ Opened'
    BY <1>1, <1>2, <2>1 DEF Positions, Opened
  <2>3. InHand'
    BY <1>1, <1>2, <1>4, <2>1 DEF DiskWrite, seqVars, InHand, Jobs, InFlight, Positions, Whole
  <2> QED
    BY <2>2, <2>3
<1>5. CASE ArmRotation
  <2>1. starts[Len(starts)] <= enc
    BY <1>1, <1>5 DEF ArmRotation, InHand, Opened, Positions
  <2>2. Positions' /\ Opened'
    BY <1>2, <1>5 DEF ArmRotation, journalVars, Positions, Opened
  <2>3. InHand'
    BY <1>2, <1>5, <2>1 DEF ArmRotation, journalVars, InHand, Jobs, InFlight
  <2> QED
    BY <2>2, <2>3
<1>6. CASE ArchiveLive \/ RestoreLive
  <2>1. Positions' /\ Opened'
    BY <1>2, <1>6 DEF ArchiveLive, RestoreLive, Positions, Opened
  <2>2. InHand'
    BY <1>2, <1>6 DEF ArchiveLive, RestoreLive, InHand, Jobs, InFlight
  <2> QED
    BY <2>1, <2>2
<1> QED
  BY <1>3, <1>4, <1>5, <1>6

LEMMA InstallSequences ==
  ASSUME HandoffType, SequencerInv, InstallLive
  PROVE  SequencerInv'
<1> DEFINE n == Len(starts)
<1>1. /\ enc \in Nat /\ submitted \in Nat /\ disk \in Nat /\ n \in Nat /\ n \in 1..n
      /\ starts \in Seq(Nat) /\ \A k \in 1..n : starts[k] \in Nat
  BY DEF HandoffType
<1>2. /\ starts' = Append(starts, enc + 1) /\ missing' = FALSE /\ job' = "active"
      /\ chunk' = Rotate(enc)
      /\ UNCHANGED <<enc, submitted, disk, evict>>
  BY DEF InstallLive
<1>3. /\ submitted = enc /\ disk = enc /\ starts[n] <= enc /\ n < MaxSegments
      /\ MaxSegments \in Nat
  BY HandoffAssumption DEF InstallLive, SequencerInv, InHand
<1>4. /\ Len(starts') = n + 1 /\ starts'[n + 1] = enc + 1
      /\ \A k \in 1..n : starts'[k] = starts[k]
  BY <1>1, <1>2, AppendAt
<1>5. /\ \A k \in 1..n : starts[k] <= starts[n] /\ 1 <= starts[k] /\ starts[k] <= disk + 1
      /\ \A k, m \in 1..n : k < m => starts[k] < starts[m]
      /\ starts[1] = 1
  BY <1>1 DEF SequencerInv, Opened
<1>6. \A k \in 1..(n + 1) : k \in 1..n \/ k = n + 1
  BY <1>1
<1> HIDE DEF n
<1>7. Positions'
  BY <1>2 DEF SequencerInv, Positions
<1>8. Opened'
  <2>1. n + 1 <= MaxSegments /\ 1 \in 1..n
    BY <1>1, <1>3
  <2>2. \A k \in 1..(n + 1) : 1 <= starts'[k] /\ starts'[k] <= disk + 1
    BY <1>1, <1>3, <1>4, <1>5, <1>6
  <2>3. ASSUME NEW k \in 1..(n + 1), NEW m \in 1..(n + 1), k < m
        PROVE  starts'[k] < starts'[m]
    <3>1. CASE m \in 1..n
      <4>1. k \in 1..n
        BY <1>1, <2>3, <3>1
      <4> QED
        BY <1>4, <1>5, <2>3, <3>1, <4>1
    <3>2. CASE m = n + 1
      <4>1. k \in 1..n
        BY <1>1, <2>3, <3>2
      <4>2. starts'[k] = starts[k] /\ starts[k] <= starts[n] /\ starts[k] \in Nat
            /\ starts[n] \in Nat
        BY <1>1, <1>4, <1>5, <4>1
      <4> QED
        BY <1>1, <1>3, <1>4, <3>2, <4>2
    <3> QED
      BY <1>6, <3>1, <3>2
  <2> QED
    BY <1>2, <1>4, <1>5, <2>1, <2>2, <2>3 DEF Opened
<1>9. InHand'
  <2>1. /\ chunk' \in AnyChunk /\ chunk'.end = enc /\ IsRotate(chunk)'
    BY <1>1, <1>2 DEF Rotate, AnyChunk, IsRotate
  <2>2. 1 <= enc
    BY <1>1, <1>3, <1>5
  <2>3. evict \in BOOLEAN
    BY DEF SequencerInv, InHand
  <2> QED
    BY <1>2, <1>3, <2>1, <2>2, <2>3 DEF InHand, Jobs, InFlight, Whole
<1> QED
  BY <1>7, <1>8, <1>9 DEF SequencerInv

\* The handler's side moves neither; a cleared flag blocks less.
LEMMA HandlerSequences ==
  ASSUME SequencerInv, UNCHANGED <<enc, submitted, disk, starts, missing, job, chunk>>,
         evict' \in {evict, FALSE}
  PROVE  SequencerInv'
<1>1. Positions' /\ Opened'
  BY DEF SequencerInv, Positions, Opened
<1>2. evict' \in BOOLEAN /\ (evict' => evict)
  <2>1. evict \in BOOLEAN
    BY DEF SequencerInv, InHand
  <2>2. CASE evict' = evict
    BY <2>1, <2>2
  <2>3. CASE evict' = FALSE
    BY <2>3
  <2> QED
    BY <2>2, <2>3
<1>3. InFlight' = InFlight /\ Whole(chunk)' = Whole(chunk)
      /\ IsRotate(chunk)' = IsRotate(chunk)
  BY Zenon DEF InFlight, Whole, IsRotate, AnyChunk
<1>4. InHand'
  BY Zenon, <1>2, <1>3 DEF SequencerInv, InHand, Jobs
<1> QED
  BY <1>1, <1>4 DEF SequencerInv


-----------------------------------------------------------------------------
(* The slot's own state *)

\* The ring holds chunks of what was encoded, within its capacity.
RingHolds ==
  /\ \A i \in 1..Len(ring) : Whole(ring[i]) /\ ring[i].end <= enc
  /\ Len(ring) <= RingCapacity /\ stale \in 0..Len(ring)

\* No position of the handler or the receiver passes the encoder's.
Reached ==
  /\ base <= enc /\ sent <= enc /\ end <= enc /\ accum <= enc
  /\ marks \subseteq 1..enc

\* Where a walk stands among the paths it listed and the segments there are.
Place ==
  /\ step \in Session \union Reclaim \union {"idle"} /\ pass \in Passes
  /\ archives <= Len(starts) /\ files <= archives + 1
  /\ file \in 0..files /\ header \in 0..(Len(starts) + 1) /\ fd \in 0..Len(starts)
  /\ step = "list" => files = 0 /\ file = 0
  /\ step = "stat" => file = 0
  /\ step \in {"header", "open", "read"} => file >= 1 /\ pass \notin {"none", "probe"}
  /\ step = "header" => header >= 1
  /\ step = "open" => header \in 1..Len(starts)
  /\ step = "read" => fd >= 1
  /\ step \in {"choose", "header", "open", "read"} => files >= archives
  /\ step \in PassSteps => pass # "none"

Flags ==
  /\ active \in BOOLEAN /\ link \in BOOLEAN
  /\ closed \in BOOLEAN /\ skewed \in BOOLEAN /\ faults \in 0..MaxFaults

SlotInv == RingHolds /\ Reached /\ Place /\ Flags

\* One frame leaves the receiver within what was encoded, and breaks a link
\* but never mends it.
LEMMA ReceiveReaches ==
  ASSUME HandoffType, Reached, link \in BOOLEAN, NEW c, Whole(c), c.end <= enc,
         Receive(c)
  PROVE  /\ accum' \in Nat /\ accum' <= enc /\ marks' \subseteq 1..enc
         /\ link' \in BOOLEAN /\ (link' => link)
<1>1. c.end \in Nat /\ enc \in Nat /\ accum \in Nat /\ accum <= enc
      /\ marks \subseteq 1..enc /\ 1 <= c.end
  BY DEF HandoffType, Reached, Whole, AnyChunk
<1>2. CASE ~link
  BY <1>1, <1>2 DEF Receive, replicaVars
<1>3. CASE link /\ IsRotate(c)
  <2>1. accum' = accum /\ link' = (c.end <= accum)
        /\ marks' = IF c.end = accum THEN marks \union {c.end} ELSE marks
    BY <1>3 DEF Receive, TakeMark
  <2>2. c.end \in 1..enc
    BY <1>1
  <2>3. marks' \subseteq 1..enc
    BY <1>1, <2>1, <2>2
  <2>4. link' \in BOOLEAN /\ (link' => link)
    BY <1>3, <2>1
  <2> QED
    BY <1>1, <2>1, <2>3, <2>4
<1>4. CASE link /\ ~IsRotate(c)
  <2>1. marks' = marks /\ link' = (c.first <= accum + 1)
        /\ accum' = IF c.first <= accum + 1 THEN Max({accum, c.end}) ELSE accum
    BY <1>4 DEF Receive, TakeBatch
  <2>2. Max({accum, c.end}) \in {accum, c.end}
    BY <1>1, MaxOfTwo
  <2> QED
    BY <1>1, <1>4, <2>1, <2>2
<1> QED
  BY <1>2, <1>3, <1>4

LEMMA SequencerSlot ==
  ASSUME HandoffInv, SequencerInv, SlotInv, Sequencer \/ DiskWrite
  PROVE  SlotInv'
<1>1. UNCHANGED <<step, pass, base, sent, end, archives, files, file, header,
                  fd, link, accum, marks, active, stale, closed, skewed>>
  BY SequencerSide
<1>2. /\ enc \in Nat /\ base \in Nat /\ sent \in Nat /\ end \in Nat /\ accum \in Nat
      /\ ring \in Seq(AnyChunk) /\ Len(ring) \in Nat /\ chunk \in AnyChunk
      /\ archives \in Nat /\ Len(starts) \in Nat /\ starts \in Seq(Nat)
  BY DEF HandoffInv, HandoffType
<1>3. enc' \in Nat /\ enc' >= enc
  <2>1. CASE Encode
    BY <1>2, <2>1, HandoffAssumption DEF Encode
  <2>2. CASE ~Encode
    BY <1>2, <2>2 DEF Sequencer, Publishing, Rotating, LoadActive, LoadEvict,
       TryPublish, StoreEvict, Submit, ArmRotation, ArchiveLive, InstallLive,
       RestoreLive, DiskWrite, journalVars
  <2> QED
    BY <2>1, <2>2
<1>4. Len(starts') \in Nat /\ Len(starts') >= Len(starts)
  <2>1. starts' = starts \/ starts' = Append(starts, enc + 1)
    BY DEF Sequencer, Publishing, Rotating, Encode, LoadActive, LoadEvict, TryPublish,
           StoreEvict, Submit, ArmRotation, ArchiveLive, InstallLive, RestoreLive,
           DiskWrite, journalVars
  <2>2. Len(Append(starts, enc + 1)) = Len(starts) + 1
    BY <1>2, AppendAt
  <2> QED
    BY <1>2, <2>1, <2>2
<1>5. RingHolds'
  <2>1. ring' = ring \/ /\ TryPublish /\ Len(ring) < RingCapacity
                        /\ ring' = Append(ring, chunk) /\ enc' = enc
    BY DEF Sequencer, Publishing, Rotating, Encode, LoadActive, LoadEvict, TryPublish,
           StoreEvict, Submit, ArmRotation, ArchiveLive, InstallLive, RestoreLive,
           DiskWrite, journalVars
  <2>2. \A i \in 1..Len(ring) : ring[i].end \in Nat
    BY DEF SlotInv, RingHolds, Whole, AnyChunk
  <2>3. CASE ring' = ring
    <3>1. \A i \in 1..Len(ring) : Whole(ring[i])' /\ ring[i].end <= enc'
      BY <1>2, <1>3, <2>2, <2>3 DEF SlotInv, RingHolds, Whole, AnyChunk, IsRotate
    <3> QED
      BY <1>1, <2>3, <3>1 DEF SlotInv, RingHolds
  <2>4. CASE /\ TryPublish /\ Len(ring) < RingCapacity
             /\ ring' = Append(ring, chunk) /\ enc' = enc
    <3>1. Whole(chunk) /\ chunk.end = enc
      BY <2>4 DEF TryPublish, SequencerInv, InHand, InFlight
    <3>2. /\ Len(ring') = Len(ring) + 1 /\ ring'[Len(ring) + 1] = chunk
          /\ \A i \in 1..Len(ring) : ring'[i] = ring[i]
      BY <1>2, <2>4, AppendAt
    <3>3. \A i \in 1..(Len(ring) + 1) : i \in 1..Len(ring) \/ i = Len(ring) + 1
      BY <1>2
    <3>4. ASSUME NEW i \in 1..(Len(ring) + 1)
          PROVE  Whole(ring'[i]) /\ ring'[i].end <= enc
      <4>1. CASE i \in 1..Len(ring)
        BY <3>2, <4>1 DEF SlotInv, RingHolds
      <4>2. CASE i = Len(ring) + 1
        BY <1>2, <3>1, <3>2, <4>2
      <4> QED
        BY <3>3, <4>1, <4>2
    <3>5. Len(ring) + 1 <= RingCapacity /\ stale \in 0..(Len(ring) + 1)
      BY <1>2, <2>4, HandoffAssumption DEF SlotInv, RingHolds
    <3> QED
      BY <1>1, <2>4, <3>2, <3>4, <3>5 DEF RingHolds
  <2> QED
    BY <2>1, <2>3, <2>4
<1>6. Reached'
  BY <1>1, <1>2, <1>3 DEF SlotInv, Reached
<1>7. Place'
  BY <1>1, <1>2, <1>4 DEF SlotInv, Place, Session, Reclaim, PassSteps, DrainSteps, Passes
<1>8. Flags'
  <2>1. faults' \in 0..MaxFaults
    BY HandoffAssumption
       DEF SlotInv, Flags, Sequencer, Publishing, Rotating, Encode, LoadActive,
           LoadEvict, TryPublish, StoreEvict, Submit, ArmRotation, ArchiveLive,
           InstallLive, RestoreLive, DiskWrite
  <2> QED
    BY <1>1, <2>1 DEF SlotInv, Flags
<1> QED
  BY <1>5, <1>6, <1>7, <1>8 DEF SlotInv


\* Giving the head of the ring back.
LEMMA CommitHolds ==
  ASSUME HandoffType, RingHolds, ring # <<>>, Commit, enc' = enc
  PROVE  RingHolds' /\ Whole(Head(ring)) /\ Head(ring).end <= enc
<1>1. /\ ring \in Seq(AnyChunk) /\ Len(ring) \in Nat /\ Len(ring) >= 1
      /\ Len(ring') = Len(ring) - 1 /\ Head(ring) = ring[1]
      /\ \A i \in 1..(Len(ring) - 1) : ring'[i] = ring[i + 1]
  BY TailAt DEF HandoffType, Commit
<1>2. 1 \in 1..Len(ring) /\ \A i \in 1..(Len(ring) - 1) : i + 1 \in 1..Len(ring)
  BY <1>1
<1>3. \A i \in 1..(Len(ring) - 1) : Whole(ring'[i]) /\ ring'[i].end <= enc
  BY <1>1, <1>2 DEF RingHolds
<1>4. stale' \in 0..(Len(ring) - 1) /\ Len(ring) - 1 <= RingCapacity
  BY <1>1, HandoffAssumption DEF RingHolds, Commit
<1> QED
  BY <1>1, <1>2, <1>3, <1>4 DEF RingHolds

LEMMA GotoPlace ==
  ASSUME HandoffType, Place, starts' = starts,
         NEW next \in {"exit", "snapshot", "live", "clear", "idle"}, Goto(next)
  PROVE  Place'
BY DEF Place, Goto, Session, Reclaim, PassSteps, DrainSteps, localVars, walkVars, Passes,
       HandoffType

LEMMA StartPassPlace ==
  ASSUME HandoffType, starts' = starts, NEW why \in {"probe", "bulk", "residual", "refill"},
         NEW from, StartPass(why, from)
  PROVE  Place'
BY DEF Place, StartPass, NoWalk, Session, Reclaim, PassSteps, DrainSteps, Passes,
       HandoffType

LEMMA FinishPassPlace ==
  ASSUME HandoffType, Place, starts' = starts, FinishPass
  PROVE  Place'
BY DEF Place, FinishPass, NoWalk, Session, Reclaim, PassSteps, DrainSteps, Passes,
       HandoffType

LEMMA FinishPassReached ==
  ASSUME HandoffType, Reached, enc' = enc, FinishPass, UNCHANGED <<accum, marks>>
  PROVE  Reached'
<1>1. /\ base \in Nat /\ end \in Nat /\ sent \in Nat
      /\ base <= enc /\ end <= enc /\ sent <= enc
  BY DEF HandoffType, Reached
<1>2. sent' <= enc
  BY <1>1, MaxOfTwo DEF FinishPass, seed
<1> QED
  BY <1>2 DEF FinishPass, Reached

LEMMA AcceptSlot ==
  ASSUME HandoffInv, SlotInv, Connect \/ Validate \/ ValidateExpires \/ Preflight
  PROVE  SlotInv'
<1> USE DEF HandoffInv
<1>1. UNCHANGED <<enc, starts, ring, stale, accum, marks, active, skewed>>
  BY DEF Connect, Validate, ValidateExpires, Preflight, sideVars, journalVars, flagVars,
         replicaVars, ghostVars
<1>2. RingHolds'
  BY <1>1 DEF SlotInv, RingHolds, Whole, AnyChunk, IsRotate
<1>3. Flags'
  <2>1. link' \in BOOLEAN /\ closed' \in BOOLEAN
    BY DEF Connect, Validate, ValidateExpires, Preflight, replicaVars, ghostVars,
           SlotInv, Flags
  <2>2. faults' \in 0..MaxFaults
    BY HandoffAssumption DEF Connect, Validate, ValidateExpires, Preflight, sideVars,
           SlotInv, Flags
  <2> QED
    BY <1>1, <2>1, <2>2 DEF SlotInv, Flags
<1>4. CASE Connect
  <2>1. Reached'
    BY <1>1, <1>4 DEF Connect, SlotInv, Reached
  <2>2. Place'
    BY <1>1, <1>4
       DEF Connect, SlotInv, Place, Session, Reclaim, PassSteps, DrainSteps, walkVars, Passes
  <2> QED
    BY <1>2, <1>3, <2>1, <2>2 DEF SlotInv
<1>5. CASE Validate
  <2>1. Reached'
    BY <1>1, <1>5 DEF Validate, StartPass, SlotInv, Reached
  <2>2. Place'
    BY <1>1, <1>5, StartPassPlace DEF Validate
  <2> QED
    BY <1>2, <1>3, <2>1, <2>2 DEF SlotInv
<1>6. CASE ValidateExpires \/ Preflight
  <2>1. Reached'
    BY <1>1, <1>6 DEF ValidateExpires, Preflight, Fail, Goto, localVars, SlotInv, Reached
  <2>2. Place'
    BY <1>1, <1>6, GotoPlace DEF ValidateExpires, Preflight, Fail, SlotInv
  <2> QED
    BY <1>2, <1>3, <2>1, <2>2 DEF SlotInv
<1> QED
  BY <1>4, <1>5, <1>6

\* The entries of the open file that a scan can see: of one segment, past the
\* position, and encoded.
LEMMA UnreadKnown ==
  ASSUME HandoffInv, SequencerInv, SlotInv, step = "read", NEW e \in Unread
  PROVE  /\ e \in Nat /\ 1 <= e /\ e <= enc /\ end < e /\ starts[fd] <= e
         /\ e <= LastIn(fd) /\ LastIn(fd) <= disk
<1>1. /\ fd \in 1..Len(starts) /\ Len(starts) \in Nat /\ enc \in Nat /\ disk \in Nat
      /\ end \in Nat /\ submitted \in Nat
      /\ \A k \in 1..Len(starts) : starts[k] \in Nat
  BY DEF HandoffInv, HandoffType, WalkInv
<1>2. fd < Len(starts) => fd + 1 \in 1..Len(starts)
  BY <1>1
<1>3. LastIn(fd) <= disk /\ LastIn(fd) \in Int /\ 1 <= starts[fd]
  BY <1>1, <1>2 DEF LastIn, SequencerInv, Opened
<1>4. e \in starts[fd]..LastIn(fd) /\ e > end
  BY DEF Unread
<1> QED
  BY <1>1, <1>3, <1>4 DEF SequencerInv, Positions

LEMMA FirstUnread ==
  ASSUME HandoffInv, SequencerInv, SlotInv, step = "read", Unread # {}
  PROVE  Min(Unread) \in Unread /\ \A e \in Unread : Min(Unread) <= e
<1>1. fd \in 1..Len(starts) /\ starts[fd] \in Nat /\ end \in Nat /\ LastIn(fd) \in Int
  BY DEF HandoffInv, HandoffType, WalkInv, LastIn
<1>2. PICK e \in Unread : TRUE
  OBVIOUS
<1> DEFINE lo == IF starts[fd] <= end THEN end + 1 ELSE starts[fd]
<1>3. lo \in Unread /\ \A f \in Unread : lo <= f
  <2>1. e \in starts[fd]..LastIn(fd) /\ e > end
    BY DEF Unread
  <2>2. \A f \in Unread : f \in starts[fd]..LastIn(fd) /\ f > end
    BY DEF Unread
  <2>3. \A f \in Unread : lo <= f
    BY <1>1, <2>2
  <2>4. lo \in starts[fd]..LastIn(fd) /\ lo > end
    BY <1>1, <2>1, <2>3
  <2> QED
    BY <2>3, <2>4 DEF Unread
<1>4. \E x \in Unread : \A y \in Unread : x <= y
  BY <1>3
<1> QED
  BY <1>4 DEF Min

LEMMA WalkSlot ==
  ASSUME HandoffInv, SequencerInv, SlotInv, Walk
  PROVE  SlotInv'
<1>0. HandoffType /\ Reached /\ Place /\ Flags /\ RingHolds
  BY DEF HandoffInv, SlotInv
<1>1. UNCHANGED <<enc, starts, missing, ring, stale, active, closed, faults>>
  BY DEF Walk, ListArchives, StatLive, Probe, ChooseStart, ReadHeader, OpenScanner,
         ReadBatch, EndOfFile, sideVars, journalVars, flagVars, ghostVars
<1>2. RingHolds'
  BY <1>0, <1>1 DEF RingHolds, Whole, AnyChunk, IsRotate
<1>3. /\ Len(starts) \in Nat /\ Len(starts) >= 1 /\ archives \in Nat /\ files \in Nat
      /\ enc \in Nat
  BY <1>0 DEF HandoffType
<1>4. skewed' \in BOOLEAN
  BY <1>0 DEF Flags, Walk, ListArchives, StatLive, Probe, ChooseStart, ReadHeader,
              OpenScanner, ReadBatch, EndOfFile, ghostVars
<1>5. SUFFICES Reached' /\ Place' /\ link' \in BOOLEAN
  BY <1>0, <1>1, <1>2, <1>4 DEF SlotInv, Flags
<1>6. CASE ListArchives
  <2>1. Archives \in 0..Len(starts)
    BY <1>3 DEF Archives
  <2>2. Reached' /\ link' \in BOOLEAN
    BY <1>0, <1>1, <1>6 DEF ListArchives, localVars, replicaVars, Reached, Flags
  <2>3. Place'
    BY <1>0, <1>1, <1>3, <1>6, <2>1
       DEF ListArchives, localVars, Place, Session, Reclaim, PassSteps, DrainSteps, Passes
  <2> QED
    BY <2>2, <2>3
<1>7. CASE StatLive
  <2>1. Reached' /\ link' \in BOOLEAN
    BY <1>0, <1>1, <1>7 DEF StatLive, localVars, replicaVars, Reached, Flags
  <2>2. Place'
    BY <1>0, <1>1, <1>3, <1>7
       DEF StatLive, localVars, Place, Session, Reclaim, PassSteps, DrainSteps, Passes
  <2> QED
    BY <2>1, <2>2
<1>8. CASE Probe
  <2>1. Reached' /\ link' \in BOOLEAN
    BY <1>0, <1>1, <1>8
       DEF Probe, StartPass, Fail, Goto, localVars, replicaVars, Reached, Flags
  <2>2. Place'
    BY <1>0, <1>1, <1>8, StartPassPlace, GotoPlace DEF Probe, Fail
  <2> QED
    BY <2>1, <2>2
<1>9. CASE ChooseStart
  <2>1. link' \in BOOLEAN /\ UNCHANGED <<accum, marks>>
    BY <1>0, <1>9 DEF ChooseStart, replicaVars, Flags
  <2>2. CASE FinishPass
    BY <1>0, <1>1, <2>1, <2>2, FinishPassPlace, FinishPassReached
  <2>3. CASE Fail
    <3>1. Reached'
      BY <1>0, <1>1, <2>1, <2>3 DEF Fail, Goto, localVars, Reached
    <3> QED
      BY <1>0, <1>1, <2>1, <2>3, <3>1, GotoPlace DEF Fail
  <2>4. CASE \E i \in Files :
                /\ Containing(i) /\ step' = "header" /\ file' = i /\ header' = Segment(i)
                /\ UNCHANGED <<localVars, archives, files, fd>>
    <3>1. PICK i \in Files :
                /\ Containing(i) /\ step' = "header" /\ file' = i /\ header' = Segment(i)
                /\ UNCHANGED <<localVars, archives, files, fd>>
      BY <2>4
    <3>2. i \in Nat \ {0} /\ i \in 1..files /\ Segment(i) # 0
      BY <1>3, <3>1 DEF Files, Containing, Readable
    <3>3. Segment(i) \in 1..Len(starts)
      BY <1>0, <3>2, SegmentExists
    <3>4. pass # "probe" /\ step = "choose"
      BY <1>9 DEF ChooseStart
    <3>5. Place'
      BY <1>0, <1>1, <1>3, <3>1, <3>2, <3>3, <3>4
         DEF localVars, Place, Session, Reclaim, PassSteps, DrainSteps, Passes
    <3>6. Reached'
      BY <1>0, <1>1, <2>1, <3>1 DEF localVars, Reached
    <3> QED
      BY <2>1, <3>5, <3>6
  <2> QED
    BY <1>9, <2>2, <2>3, <2>4 DEF ChooseStart
<1>10. CASE ReadHeader
  <2>1. file \in Nat \ {0} /\ file \in 0..files /\ step = "header"
    BY <1>0, <1>3, <1>10 DEF ReadHeader, Place
  <2>2. accum' <= enc /\ marks' \subseteq 1..enc /\ link' \in BOOLEAN
    <3>1. CASE UNCHANGED replicaVars
      BY <1>0, <3>1 DEF replicaVars, Reached, Flags
    <3>2. CASE Segment(file) # 0 /\ starts[Segment(file)] > 1 
               /\ end = starts[Segment(file)] - 1 /\ Receive(Rotate(end))
      <4>1. Segment(file) \in 1..Len(starts) /\ starts[Segment(file)] \in Nat /\ end \in Nat
        BY <1>0, <2>1, <3>2, SegmentExists DEF HandoffType
      <4>2. 1 <= end /\ end <= enc
        BY <1>0, <3>2, <4>1 DEF Reached
      <4>3. Whole(Rotate(end)) /\ Rotate(end).end <= enc
        BY <4>1, <4>2 DEF Whole, Rotate, AnyChunk, IsRotate
      <4>4. link \in BOOLEAN /\ Receive(Rotate(end))
        BY <1>0, <3>2 DEF Flags
      <4> QED
        BY <1>0, <4>3, <4>4, ReceiveReaches
    <3> QED
      BY <1>10, <3>1, <3>2 DEF ReadHeader
  <2>3. UNCHANGED <<base, sent, end>>
    BY <1>10 DEF ReadHeader, Fail, Goto, localVars
  <2>4. Reached'
    BY <1>0, <1>1, <2>2, <2>3 DEF Reached
  <2>5. CASE Fail
    BY <1>0, <1>1, <2>2, <2>4, <2>5, GotoPlace DEF Fail
  <2>6. CASE /\ Segment(file) # 0 /\ step' = "open" /\ header' = Segment(file)
             /\ UNCHANGED <<localVars, archives, files, file, fd>>
    <3>1. Segment(file) \in 1..Len(starts)
      BY <1>0, <2>1, <2>6, SegmentExists
    <3>2. Place'
      BY <1>0, <1>1, <1>3, <2>1, <2>6, <3>1
         DEF localVars, Place, Session, Reclaim, PassSteps, DrainSteps, Passes
    <3> QED
      BY <2>2, <2>4, <3>2
  <2> QED
    BY <1>10, <2>5, <2>6 DEF ReadHeader
<1>11. CASE OpenScanner
  <2>1. file \in Nat \ {0} /\ file \in 0..files /\ step = "open"
    BY <1>0, <1>3, <1>11 DEF OpenScanner, Place
  <2>2. link' \in BOOLEAN /\ Reached'
    BY <1>0, <1>1, <1>11 DEF OpenScanner, Fail, Goto, localVars, replicaVars, Flags, Reached
  <2>3. CASE Fail
    BY <1>0, <1>1, <2>2, <2>3, GotoPlace DEF Fail
  <2>4. CASE /\ Segment(file) # 0 /\ step' = "read" /\ fd' = Segment(file)
             /\ UNCHANGED <<localVars, archives, files, file, header>>
    <3>1. Segment(file) \in 1..Len(starts)
      BY <1>0, <2>1, <2>4, SegmentExists
    <3>2. Place'
      BY <1>0, <1>1, <1>3, <2>1, <2>4, <3>1
         DEF localVars, Place, Session, Reclaim, PassSteps, DrainSteps, Passes
    <3> QED
      BY <2>2, <3>2
  <2> QED
    BY <1>11, <2>3, <2>4 DEF OpenScanner
<1>12. CASE ReadBatch
  <2>1. PICK last \in Unread : Receive(Batch(Min(Unread), last)) /\ end' = last
    BY <1>12 DEF ReadBatch
  <2>2. step = "read"
    BY <1>12 DEF ReadBatch
  <2>3. Min(Unread) \in Unread /\ Min(Unread) <= last
    BY <2>1, <2>2, FirstUnread
  <2>4. last \in Nat /\ last <= enc /\ 1 <= last /\ Min(Unread) \in Nat /\ 1 <= Min(Unread)
    BY <2>1, <2>2, <2>3, UnreadKnown
  <2>5. Whole(Batch(Min(Unread), last)) /\ Batch(Min(Unread), last).end <= enc
    BY <2>3, <2>4 DEF Whole, Batch, AnyChunk, IsRotate
  <2>6. accum' <= enc /\ marks' \subseteq 1..enc /\ link' \in BOOLEAN
    <3>1. link \in BOOLEAN
      BY <1>0 DEF Flags
    <3> QED
      BY <1>0, <2>1, <2>5, <3>1, ReceiveReaches
  <2>7. Reached'
    BY <1>0, <1>1, <1>12, <2>1, <2>4, <2>6 DEF ReadBatch, Reached
  <2>8. Place'
    BY <1>0, <1>1, <1>12
       DEF ReadBatch, walkVars, Place, Session, Reclaim, PassSteps, DrainSteps, Passes
  <2> QED
    BY <2>6, <2>7, <2>8
<1>13. CASE EndOfFile
  <2>1. link' \in BOOLEAN /\ UNCHANGED <<accum, marks>>
    BY <1>0, <1>13 DEF EndOfFile, replicaVars, Flags
  <2>2. CASE FinishPass
    BY <1>0, <1>1, <2>1, <2>2, FinishPassPlace, FinishPassReached
  <2>3. CASE /\ file + 1 \in Files /\ step = "read"
             /\ step' = "header" /\ file' = file + 1 /\ header' = fd + 1 /\ fd' = 0
             /\ UNCHANGED <<localVars, archives, files>>
    <3>1. Place'
      BY <1>0, <1>1, <1>3, <2>3
         DEF localVars, Files, Place, Session, Reclaim, PassSteps, DrainSteps, Passes
    <3>2. Reached'
      BY <1>0, <1>1, <2>1, <2>3 DEF localVars, Reached
    <3> QED
      BY <2>1, <3>1, <3>2
  <2> QED
    BY <1>13, <2>2, <2>3 DEF EndOfFile
<1> QED
  BY <1>6, <1>7, <1>8, <1>9, <1>10, <1>11, <1>12, <1>13 DEF Walk


LEMMA BridgeSlot ==
  ASSUME HandoffInv, SlotInv, Bridge \/ DrainExpires
  PROVE  SlotInv'
<1>0. HandoffType /\ Reached /\ Place /\ Flags /\ RingHolds
  BY DEF HandoffInv, SlotInv
<1>1. UNCHANGED <<enc, starts, skewed>>
  BY DEF Bridge, Activate, DrainEmpty, DrainCovered, DrainAhead, DrainForward,
         LiveForward, LiveEvicted, DrainExpires, sideVars, journalVars, ghostVars
<1>2. active' \in BOOLEAN /\ closed' \in BOOLEAN
  BY <1>0 DEF Flags, Bridge, Activate, DrainEmpty, DrainCovered, DrainAhead, DrainForward,
         LiveForward, LiveEvicted, DrainExpires, flagVars, ghostVars
<1>3. faults' \in 0..MaxFaults
  BY <1>0, HandoffAssumption
     DEF Flags, Bridge, Activate, DrainEmpty, DrainCovered, DrainAhead, DrainForward,
         LiveForward, LiveEvicted, DrainExpires, sideVars
<1>4. /\ Len(ring) \in Nat /\ sent \in Nat /\ enc \in Nat /\ accum \in Nat
  BY <1>0 DEF HandoffType
<1>5. SUFFICES RingHolds' /\ Reached' /\ Place' /\ link' \in BOOLEAN
  BY <1>1, <1>2, <1>3, <1>0 DEF SlotInv, Flags
<1>6. CASE Activate
  <2>1. RingHolds'
    BY <1>0, <1>1, <1>4, <1>6 DEF Activate, RingHolds, Whole, AnyChunk, IsRotate
  <2>2. Reached' /\ link' \in BOOLEAN
    BY <1>0, <1>1, <1>6 DEF Activate, StartPass, replicaVars, Reached, Flags
  <2>3. Place'
    BY <1>0, <1>1, <1>6, StartPassPlace DEF Activate
  <2> QED
    BY <2>1, <2>2, <2>3
<1>7. CASE DrainEmpty \/ DrainAhead \/ LiveEvicted \/ DrainExpires
  <2>1. RingHolds'
    BY <1>0, <1>1, <1>7
       DEF DrainEmpty, DrainAhead, LiveEvicted, DrainExpires, flagVars, ghostVars,
           RingHolds, Whole, AnyChunk, IsRotate
  <2>2. Reached' /\ link' \in BOOLEAN
    BY <1>0, <1>1, <1>7
       DEF DrainEmpty, DrainAhead, LiveEvicted, DrainExpires, StartPass, Fail, Goto,
           localVars, replicaVars, Reached, Flags
  <2>3. Place'
    BY <1>0, <1>1, <1>7, StartPassPlace, GotoPlace
       DEF DrainEmpty, DrainAhead, LiveEvicted, DrainExpires, Fail
  <2> QED
    BY <2>1, <2>2, <2>3
<1>8. CASE DrainCovered
  <2>1. RingHolds'
    BY <1>0, <1>1, <1>8, CommitHolds DEF DrainCovered
  <2>2. Reached' /\ link' \in BOOLEAN
    BY <1>0, <1>1, <1>8 DEF DrainCovered, slotVars, localVars, replicaVars, Reached, Flags
  <2>3. Place'
    BY <1>0, <1>1, <1>8
       DEF DrainCovered, slotVars, localVars, walkVars, Place, Session, Reclaim, PassSteps,
           DrainSteps, Passes
  <2> QED
    BY <2>1, <2>2, <2>3
<1>9. CASE DrainForward \/ LiveForward
  <2>1. ring # <<>> /\ Commit
    BY <1>9 DEF DrainForward, LiveForward
  <2>2. RingHolds' /\ Whole(Head(ring)) /\ Head(ring).end <= enc
    BY <1>0, <1>1, <2>1, CommitHolds
  <2>3. accum' <= enc /\ marks' \subseteq 1..enc /\ link' \in BOOLEAN
    <3>1. CASE UNCHANGED replicaVars
      BY <1>0, <3>1 DEF replicaVars, Reached, Flags
    <3>2. CASE Receive(Head(ring))
      <4>1. link \in BOOLEAN
        BY <1>0 DEF Flags
      <4> QED
        BY <1>0, <2>2, <3>2, <4>1, ReceiveReaches
    <3> QED
      BY <1>9, <3>1, <3>2 DEF DrainForward, LiveForward
  <2>4. Head(ring).end \in Nat
    BY <2>2 DEF Whole, AnyChunk
  <2>5. Max({sent, Head(ring).end}) <= enc
    BY <1>0, <1>4, <2>2, <2>4, MaxOfTwo DEF Reached
  <2>6. base' = base /\ end' \in {0, end} /\ sent' \in {sent, Max({sent, Head(ring).end})}
    BY <1>9 DEF DrainForward, LiveForward
  <2>7. Reached'
    BY <1>0, <1>1, <1>4, <2>3, <2>5, <2>6 DEF Reached
  <2>8. Place'
    BY <1>0, <1>1, <1>9
       DEF DrainForward, LiveForward, walkVars, Place, Session, Reclaim, PassSteps,
           DrainSteps, Passes
  <2> QED
    BY <2>2, <2>3, <2>7, <2>8
<1> QED
  BY <1>6, <1>7, <1>8, <1>9 DEF Bridge

LEMMA ReclaimSlot ==
  ASSUME HandoffInv, SlotInv,
         LinkError \/ SkipToProducer \/ Disengage \/ ClearEvict \/ Disconnect
  PROVE  SlotInv'
<1>0. HandoffType /\ Reached /\ Place /\ Flags /\ RingHolds
  BY DEF HandoffInv, SlotInv
<1>1. UNCHANGED <<enc, starts, skewed, closed, accum, marks>>
  BY DEF LinkError, SkipToProducer, Disengage, ClearEvict, Disconnect, sideVars,
         journalVars, ghostVars, replicaVars
<1>2. Flags'
  <2>1. active' \in BOOLEAN /\ link' \in BOOLEAN
    BY <1>0 DEF Flags, LinkError, SkipToProducer, Disengage, ClearEvict, Disconnect,
                flagVars, replicaVars
  <2>2. faults' \in 0..MaxFaults
    BY <1>0, HandoffAssumption
       DEF Flags, LinkError, SkipToProducer, Disengage, ClearEvict, Disconnect, sideVars
  <2> QED
    BY <1>0, <1>1, <2>1, <2>2 DEF Flags
<1>3. CASE LinkError \/ Disengage \/ ClearEvict
  <2>1. UNCHANGED <<ring, stale>>
    BY <1>3 DEF LinkError, Disengage, ClearEvict, flagVars, ghostVars
  <2>2. RingHolds'
    BY <1>0, <1>1, <2>1 DEF RingHolds, Whole, AnyChunk, IsRotate
  <2>3. Reached'
    BY <1>0, <1>1, <1>3 DEF LinkError, Disengage, ClearEvict, Fail, Goto, localVars, Reached
  <2>4. Place'
    BY <1>0, <1>1, <1>3, GotoPlace DEF LinkError, Disengage, ClearEvict, Fail
  <2> QED
    BY <1>2, <2>2, <2>3, <2>4 DEF SlotInv
<1>4. CASE SkipToProducer
  <2>1. RingHolds'
    <3>1. ring' = <<>> /\ stale' = 0 /\ Len(ring') = 0
      BY <1>4 DEF SkipToProducer
    <3> QED
      BY <3>1, HandoffAssumption DEF RingHolds
  <2>2. Reached'
    BY <1>0, <1>1, <1>4 DEF SkipToProducer, Forget, Reached, HandoffType
  <2>3. Place'
    BY <1>0, <1>1, <1>4
       DEF SkipToProducer, Forget, NoWalk, Place, Session, Reclaim, PassSteps, DrainSteps,
           Passes, HandoffType
  <2> QED
    BY <1>2, <2>1, <2>2, <2>3 DEF SlotInv
<1>5. CASE Disconnect
  <2>1. UNCHANGED <<ring, stale, step, pass, base, sent, end, archives, files, file,
                    header, fd>>
    BY <1>5 DEF Disconnect, flagVars, ghostVars, slotVars, localVars, walkVars
  <2>2. RingHolds'
    BY <1>0, <1>1, <2>1 DEF RingHolds, Whole, AnyChunk, IsRotate
  <2>3. Reached'
    BY <1>0, <1>1, <2>1 DEF Reached
  <2>4. Place'
    BY <1>0, <1>1, <2>1 DEF Place, Session, Reclaim, PassSteps, DrainSteps, Passes
  <2> QED
    BY <1>2, <2>2, <2>3, <2>4 DEF SlotInv
<1> QED
  BY <1>3, <1>4, <1>5

-----------------------------------------------------------------------------
(* The order of the ring *)

\* The handler consumes nothing: it is not past the activation.
Quiet ==
  \/ step \in {"idle", "validate", "snapshot", "activate"} \union Reclaim
  \/ step \in PassSteps /\ pass \in {"probe", "bulk"}

\* Nothing is published until the ring is given up or taken for stale: the
\* replica is evicted; or the slot is not active and nobody is past the look at
\* that; or the ring is full and nobody consumes it.
Blocked ==
  \/ evict
  \/ ~active /\ job \notin {"evicted", "publish", "full"}
  \/ Quiet /\ Len(ring) = RingCapacity

\* The chunks are in stream order, and what is fresh follows on without a hole
\* up to the next chunk offered, unless that one is not to be published.
RingOrder ==
  /\ \A i, j \in 1..Len(ring) : i < j => ring[i].end <= Pred(ring[j])
  /\ \A i \in 1..Len(ring) : ring[i].end <= Before
  /\ FreshChunksDense
  /\ Len(ring) > stale /\ ~Blocked => ring[Len(ring)].end = Before

\* A slot whose ring has been emptied and is evicted again was full again.
EvictedFull ==
  step \in {"disengage", "clear"} /\ (evict \/ job = "full")
    => ring = <<>> \/ Len(ring) = RingCapacity

\* Past its activation a session's slot is active.
SessionActive == Quiet \/ active

OrderInv == RingOrder /\ EvictedFull /\ SessionActive


\* Every chunk ends at or past what it follows on from, and so does the next.
LEMMA PredOfWhole ==
  ASSUME NEW c, Whole(c)
  PROVE  Pred(c) \in Int /\ c.end \in Nat /\ Pred(c) <= c.end
         /\ (~IsRotate(c) => Pred(c) < c.end)
BY DEF Whole, AnyChunk, Pred

LEMMA BeforeType ==
  ASSUME HandoffType, SequencerInv
  PROVE  Before \in Int /\ Before <= enc /\ enc \in Nat
<1>1. enc \in Nat
  BY DEF HandoffType
<1>2. CASE InFlight
  <2>1. Whole(chunk) /\ chunk.end = enc
    BY <1>2 DEF SequencerInv, InHand
  <2> QED
    BY <1>1, <1>2, <2>1, PredOfWhole DEF Before
<1>3. CASE ~InFlight
  BY <1>1, <1>3 DEF Before
<1> QED
  BY <1>2, <1>3

\* A step that leaves the ring alone and keeps blocked what is.
LEMMA RingKept ==
  ASSUME HandoffType, SequencerInv, SlotInv, RingOrder, UNCHANGED <<ring, stale>>,
         Before' \in Int, Before <= Before', ~Blocked' => ~Blocked /\ Before' = Before
  PROVE  RingOrder'
<1>1. Before \in Int
  BY BeforeType
<1>2. \A i \in 1..Len(ring) : ring[i].end \in Nat
  BY DEF SlotInv, RingHolds, Whole, AnyChunk
<1>3. \A i \in 1..Len(ring) : ring[i].end <= Before'
  BY <1>1, <1>2 DEF RingOrder
<1>4. FreshChunksDense'
  BY DEF RingOrder, FreshChunksDense, Follows, IsRotate
<1>5. \A i, j \in 1..Len(ring) : i < j => ring[i].end <= Pred(ring[j])'
  BY DEF RingOrder, Pred, IsRotate
<1> QED
  BY <1>3, <1>4, <1>5 DEF RingOrder

\* The chunk published follows on from the freshest of the ring.
LEMMA PublishOrders ==
  ASSUME HandoffInv, SequencerInv, SlotInv, OrderInv, TryPublish, Len(ring) < RingCapacity
  PROVE  OrderInv'
<1> DEFINE n == Len(ring)
<1>1. /\ ring' = Append(ring, chunk) /\ job' = AfterPublish
      /\ UNCHANGED <<chunk, enc, stale, evict, active, step, pass>>
  BY SequencerSide DEF TryPublish, Sequencer, Publishing, journalVars
<1>2. ring \in Seq(AnyChunk) /\ n \in Nat /\ chunk \in AnyChunk /\ enc \in Nat
  BY DEF HandoffInv, HandoffType
<1>3. /\ Len(ring') = n + 1 /\ ring'[n + 1] = chunk
      /\ \A i \in 1..n : ring'[i] = ring[i]
  BY <1>1, <1>2, AppendAt
<1>4. Whole(chunk) /\ chunk.end = enc /\ ~evict /\ job = "publish"
  BY DEF TryPublish, SequencerInv, InHand, InFlight
<1>5. Before = Pred(chunk) /\ Pred(chunk) \in Int /\ Pred(chunk) <= enc
  BY <1>4, PredOfWhole DEF Before, InFlight
<1>6. ~Blocked
  BY <1>2, <1>4, HandoffAssumption DEF Blocked
<1>7. Before' = enc
  BY <1>1, <1>4 DEF Before, InFlight, AfterPublish
<1>8. \A i \in 1..(n + 1) : i \in 1..n \/ i = n + 1
  BY <1>2
<1>9. \A i \in 1..n : ring[i].end \in Nat /\ ring[i].end <= Pred(chunk)
  BY <1>5 DEF OrderInv, RingOrder, SlotInv, RingHolds, Whole, AnyChunk
<1>10. stale \in 0..n
  BY DEF SlotInv, RingHolds
<1> HIDE DEF n
<1>11. ASSUME NEW i \in 1..(n + 1), NEW j \in 1..(n + 1), i < j
       PROVE  ring'[i].end <= Pred(ring'[j])
  <2>1. i \in 1..n
    BY <1>2, <1>11
  <2>2. CASE j \in 1..n
    BY <1>3, <1>11, <2>1, <2>2 DEF OrderInv, RingOrder, n
  <2>3. CASE j = n + 1
    BY <1>3, <1>9, <2>1, <2>3
  <2> QED
    BY <1>8, <2>2, <2>3
<1>12. ASSUME NEW i \in 1..(n + 1) PROVE ring'[i].end <= enc
  <2>1. CASE i \in 1..n
    BY <1>2, <1>3, <1>5, <1>9, <2>1
  <2>2. CASE i = n + 1
    BY <1>2, <1>3, <1>4, <2>2
  <2> QED
    BY <1>8, <2>1, <2>2
<1>13. ASSUME NEW i \in (stale + 1)..(n + 1 - 1)
       PROVE  Follows(ring'[i].end, ring'[i + 1])
  <2>1. i \in 1..n /\ i \in (stale + 1)..n
    BY <1>2, <1>10
  <2>2. CASE i < n
    <3>1. i \in (stale + 1)..(n - 1) /\ i + 1 \in 1..n
      BY <1>2, <1>10, <2>1, <2>2
    <3>2. Follows(ring[i].end, ring[i + 1])
      BY <3>1 DEF OrderInv, RingOrder, FreshChunksDense, n
    <3> QED
      BY <1>3, <2>1, <3>1, <3>2
  <2>3. CASE i = n
    <3>1. n > stale
      BY <1>2, <1>10, <2>1, <2>3
    <3>2. ring[n].end = Pred(chunk)
      BY <1>5, <1>6, <3>1 DEF OrderInv, RingOrder, n
    <3>3. ring'[i].end = Pred(chunk) /\ ring'[i + 1] = chunk
      BY <1>3, <2>1, <2>3, <3>2
    <3>4. Follows(Pred(chunk), chunk)
      BY <1>2 DEF Follows, Pred, AnyChunk
    <3> QED
      BY <3>3, <3>4
  <2> QED
    BY <1>2, <2>1, <2>2, <2>3
<1>14. FreshChunksDense'
  <2>1. \A i \in (stale' + 1)..(Len(ring') - 1) :
          IF ring'[i + 1].kind = "Rotate" THEN ring'[i + 1].end = ring'[i].end
          ELSE ring'[i + 1].first = ring'[i].end + 1
    <3>1. stale' = stale /\ Len(ring') = n + 1
      BY <1>1, <1>3
    <3>2. ASSUME NEW i \in (stale + 1)..(n + 1 - 1)
          PROVE  IF ring'[i + 1].kind = "Rotate" THEN ring'[i + 1].end = ring'[i].end
                 ELSE ring'[i + 1].first = ring'[i].end + 1
      BY <1>13 DEF Follows, IsRotate
    <3>3. (stale' + 1)..(Len(ring') - 1) = (stale + 1)..(n + 1 - 1)
      BY <1>2, <1>10, <3>1
    <3> QED
      BY <3>2, <3>3
  <2> QED
    BY <2>1 DEF FreshChunksDense, Follows, IsRotate
<1>15. ring'[n + 1].end = enc
  BY <1>3, <1>4
<1>16. \A i, j \in 1..Len(ring') : i < j => ring'[i].end <= Pred(ring'[j])
  BY <1>3, <1>11
<1>17. RingOrder'
  BY <1>3, <1>7, <1>12, <1>14, <1>15, <1>16 DEF RingOrder, Pred, IsRotate
<1>18. EvictedFull' /\ SessionActive'
  <2>1. job' # "full" /\ ~evict'
    BY <1>1, <1>4 DEF AfterPublish
  <2> QED
    BY <1>1, <2>1 DEF OrderInv, EvictedFull, SessionActive, Quiet, Reclaim, PassSteps
<1> QED
  BY <1>17, <1>18 DEF OrderInv

\* Whatever else the sequencer does, the next chunk follows on from where the
\* last one did unless nothing is to be published.
LEMMA SequencerBefore ==
  ASSUME HandoffInv, SequencerInv, SlotInv, OrderInv, Sequencer \/ DiskWrite,
         ~(TryPublish /\ Len(ring) < RingCapacity)
  PROVE  /\ UNCHANGED ring
         /\ Before' \in Int /\ Before <= Before'
         /\ ~Blocked' => ~Blocked /\ Before' = Before
         /\ EvictedFull'
<1>1. UNCHANGED <<step, pass, active, stale>>
  BY SequencerSide
<1>2. ring' = ring
  BY DEF Sequencer, Publishing, Rotating, Encode, LoadActive, LoadEvict, TryPublish,
         StoreEvict, Submit, ArmRotation, ArchiveLive, InstallLive, RestoreLive,
         DiskWrite
<1>3. Before \in Int /\ Before <= enc /\ enc \in Nat /\ Len(ring) \in Nat
      /\ Len(ring) <= RingCapacity
  BY BeforeType DEF HandoffInv, HandoffType, SlotInv, RingHolds
<1>4. SUFFICES /\ Before' \in Int /\ Before <= Before'
               /\ ~Blocked' => ~Blocked /\ Before' = Before
               /\ EvictedFull'
  BY <1>2
<1>5. Quiet' = Quiet
  BY <1>1 DEF Quiet, Reclaim, PassSteps
<1>6. CASE Encode
  <2>1. job = "idle" /\ job' = "active" /\ evict' = evict
    BY <1>6 DEF Encode
  <2>2. Before' = enc /\ Before = enc
    <3>1. ~IsRotate(chunk') /\ chunk'.first = enc + 1
      BY <1>6 DEF Encode, Batch, IsRotate
    <3> QED
      BY <1>3, <2>1, <3>1 DEF Before, InFlight, Pred, IsRotate
  <2>3. Blocked' <=> Blocked
    BY <1>1, <1>2, <1>5, <2>1 DEF Blocked
  <2> QED
    BY <1>1, <1>2, <1>3, <2>1, <2>2, <2>3 DEF OrderInv, EvictedFull
<1>7. CASE LoadActive \/ LoadEvict \/ TryPublish \/ StoreEvict
  <2>1. UNCHANGED <<chunk, enc>> /\ InFlight
    BY <1>7 DEF LoadActive, LoadEvict, TryPublish, StoreEvict, journalVars, InFlight
  <2>2. Before = Pred(chunk)
    BY <2>1 DEF Before
  <2>3. job' \in {"evicted", "publish", "full"} => Before' = Before
    BY <2>1, <2>2 DEF Before, InFlight, Pred, IsRotate
  <2>4. job' = AfterPublish => Before' = enc
    BY <2>1 DEF AfterPublish, Before, InFlight
  <2>5. CASE LoadActive
    <3>1. evict' = evict /\ job = "active"
          /\ job' = IF active THEN "evicted" ELSE AfterPublish
      BY <2>5 DEF LoadActive
    <3>2. ~Blocked' => ~Blocked /\ job' = "evicted"
      BY <1>1, <1>2, <1>5, <3>1 DEF Blocked, AfterPublish
    <3> QED
      BY <1>1, <1>2, <1>3, <2>3, <2>4, <3>1, <3>2 DEF OrderInv, EvictedFull, AfterPublish
  <2>6. CASE LoadEvict
    <3>1. evict' = evict /\ job = "evicted"
          /\ job' = IF evict THEN AfterPublish ELSE "publish"
      BY <2>6 DEF LoadEvict
    <3>2. ~Blocked' => ~Blocked /\ job' = "publish"
      BY <1>1, <1>2, <1>5, <3>1 DEF Blocked, AfterPublish
    <3> QED
      BY <1>1, <1>2, <1>3, <2>3, <2>4, <3>1, <3>2 DEF OrderInv, EvictedFull, AfterPublish
  <2>7. CASE TryPublish
    <3>1. evict' = evict /\ job = "publish" /\ job' = "full" /\ ~(Len(ring) < RingCapacity)
      BY <2>7 DEF TryPublish
    <3>2. Len(ring) = RingCapacity
      BY <1>3, <3>1, HandoffAssumption
    <3>3. ~Blocked' => ~Blocked
      BY <1>1, <1>2, <1>5, <3>1 DEF Blocked
    <3> QED
      BY <1>1, <1>2, <1>3, <2>3, <3>1, <3>2, <3>3 DEF EvictedFull
  <2>8. CASE StoreEvict
    <3>1. evict' = TRUE /\ job = "full" /\ job' = AfterPublish
      BY <2>8 DEF StoreEvict
    <3> QED
      BY <1>1, <1>2, <1>3, <2>4, <3>1 DEF Blocked, OrderInv, EvictedFull
  <2> QED
    BY <1>7, <2>5, <2>6, <2>7, <2>8
<1>8. CASE Submit \/ DiskWrite \/ ArmRotation \/ ArchiveLive \/ RestoreLive
  <2>1. enc' = enc /\ evict' = evict
    BY <1>8 DEF Submit, DiskWrite, ArmRotation, ArchiveLive, RestoreLive, journalVars
  <2>2. \/ job' = job /\ chunk' = chunk
        \/ job \in {"idle", "submit", "rotate", "install"}
           /\ job' \in {"idle", "rotate", "install"}
    BY <1>8 DEF Submit, DiskWrite, ArmRotation, ArchiveLive, RestoreLive, seqVars
  <2>3. Before' = Before
    BY <2>1, <2>2 DEF Before, InFlight, Pred, IsRotate
  <2>4. Blocked' <=> Blocked
    BY <1>1, <1>2, <1>5, <2>1, <2>2 DEF Blocked
  <2> QED
    BY <1>1, <1>2, <1>3, <2>1, <2>2, <2>3, <2>4 DEF OrderInv, EvictedFull
<1>9. CASE InstallLive
  <2>1. job = "install" /\ job' = "active" /\ evict' = evict /\ enc' = enc
        /\ chunk' = Rotate(enc)
    BY <1>9 DEF InstallLive
  <2>2. Before' = enc /\ Before = enc
    BY <2>1 DEF Before, InFlight, Pred, IsRotate, Rotate
  <2>3. Blocked' <=> Blocked
    BY <1>1, <1>2, <1>5, <2>1 DEF Blocked
  <2> QED
    BY <1>1, <1>2, <1>3, <2>1, <2>2, <2>3 DEF OrderInv, EvictedFull
<1> QED
  BY <1>6, <1>7, <1>8, <1>9 DEF Sequencer, Publishing, Rotating

LEMMA SequencerOrders ==
  ASSUME HandoffInv, SequencerInv, SlotInv, OrderInv, Sequencer \/ DiskWrite
  PROVE  OrderInv'
<1>1. CASE TryPublish /\ Len(ring) < RingCapacity
  BY <1>1, PublishOrders
<1>2. CASE ~(TryPublish /\ Len(ring) < RingCapacity)
  <2>1. UNCHANGED <<step, pass, active, stale>>
    BY SequencerSide
  <2>2. RingOrder' /\ EvictedFull'
    BY <1>2, <2>1, SequencerBefore, RingKept DEF HandoffInv, OrderInv
  <2>3. SessionActive'
    BY <2>1 DEF OrderInv, SessionActive, Quiet, Reclaim, PassSteps
  <2> QED
    BY <2>2, <2>3 DEF OrderInv
<1> QED
  BY <1>1, <1>2

\* A handler that consumes nothing goes on so until it activates the ring.
LEMMA StaysQuiet ==
  ASSUME Place, Quiet,
         \/ Connect \/ Validate \/ ValidateExpires \/ Preflight \/ Walk \/ LinkError
         \/ DrainEmpty \/ DrainAhead \/ DrainExpires \/ LiveEvicted \/ Disconnect
  PROVE  Quiet'
<1> USE DEF Quiet, PassSteps, DrainSteps, Reclaim
<1>1. CASE Connect \/ Validate \/ ValidateExpires \/ Preflight \/ LinkError
  BY <1>1 DEF Connect, Validate, ValidateExpires, Preflight, LinkError, StartPass, Fail, Goto
<1>2. CASE DrainEmpty \/ DrainAhead \/ DrainExpires \/ LiveEvicted
  BY <1>2 DEF DrainEmpty, DrainAhead, DrainExpires, LiveEvicted, Fail, Goto
<1>3. CASE Disconnect
  BY <1>3 DEF Disconnect, slotVars, localVars
<1>4. CASE ListArchives \/ StatLive \/ ReadHeader \/ OpenScanner \/ ReadBatch
  BY <1>4 DEF ListArchives, StatLive, ReadHeader, OpenScanner, ReadBatch, Fail, Goto,
              localVars
<1>5. CASE Probe
  BY <1>5 DEF Probe, StartPass, Fail, Goto
<1>6. CASE ChooseStart
  BY <1>6 DEF ChooseStart, FinishPass, Fail, Goto, localVars
<1>7. CASE EndOfFile
  BY <1>7 DEF EndOfFile, FinishPass, localVars
<1> QED
  BY <1>1, <1>2, <1>3, <1>4, <1>5, <1>6, <1>7 DEF Walk

\* Consuming the head of the ring leaves the rest in order.
LEMMA CommitOrders ==
  ASSUME HandoffInv, SequencerInv, SlotInv, OrderInv, ~Quiet, ring # <<>>, Commit,
         UNCHANGED <<enc, job, chunk, active, evict>>, ~Quiet'
  PROVE  RingOrder'
<1> DEFINE n == Len(ring)
<1>1. /\ ring \in Seq(AnyChunk) /\ n \in Nat /\ n >= 1
      /\ Len(ring') = n - 1
      /\ \A i \in 1..(n - 1) : ring'[i] = ring[i + 1]
  BY TailAt DEF HandoffInv, HandoffType, Commit
<1>2. stale \in 0..n /\ stale' = IF stale = 0 THEN 0 ELSE stale - 1
  BY DEF SlotInv, RingHolds, Commit
<1>3. Before' = Before
  BY DEF Before, InFlight, Pred, IsRotate
<1>4. Blocked' <=> Blocked
  BY DEF Blocked, OrderInv, SessionActive
<1>5. /\ \A i, j \in 1..n : i < j => ring[i].end <= Pred(ring[j])
      /\ \A i \in 1..n : ring[i].end <= Before
      /\ \A i \in (stale + 1)..(n - 1) : Follows(ring[i].end, ring[i + 1])
      /\ n > stale /\ ~Blocked => ring[n].end = Before
  BY DEF OrderInv, RingOrder, FreshChunksDense
<1> HIDE DEF n
<1>6. \A i \in 1..(n - 1) : i + 1 \in 1..n
  BY <1>1
<1>7. \A i, j \in 1..(n - 1) : i < j => ring'[i].end <= Pred(ring'[j])
  <2> TAKE i, j \in 1..(n - 1)
  <2>1. HAVE i < j
  <2>2. i + 1 < j + 1 /\ i + 1 \in 1..n /\ j + 1 \in 1..n
    BY <1>1, <2>1
  <2>3. ring[i + 1].end <= Pred(ring[j + 1])
    BY <1>5, <2>2
  <2> QED
    BY <1>1, <2>3
<1>8. \A i \in 1..(n - 1) : ring'[i].end <= Before'
  BY <1>1, <1>3, <1>5, <1>6
<1>9. ASSUME NEW i \in (stale' + 1)..(n - 1 - 1)
      PROVE  Follows(ring'[i].end, ring'[i + 1])
  <2>1. i + 1 \in (stale + 1)..(n - 1) /\ i \in 1..(n - 1) /\ i + 1 \in 1..(n - 1)
    BY <1>1, <1>2
  <2>2. Follows(ring[i + 1].end, ring[(i + 1) + 1])
    BY <1>5, <2>1
  <2>3. ring'[i] = ring[i + 1] /\ ring'[i + 1] = ring[(i + 1) + 1]
    BY <1>1, <2>1
  <2> QED
    BY <2>2, <2>3
<1>10. FreshChunksDense'
  <2>1. \A i \in (stale' + 1)..(Len(ring') - 1) :
          IF ring'[i + 1].kind = "Rotate" THEN ring'[i + 1].end = ring'[i].end
          ELSE ring'[i + 1].first = ring'[i].end + 1
    <3>1. ASSUME NEW i \in (stale' + 1)..(n - 1 - 1)
          PROVE  IF ring'[i + 1].kind = "Rotate" THEN ring'[i + 1].end = ring'[i].end
                 ELSE ring'[i + 1].first = ring'[i].end + 1
      BY <1>9 DEF Follows, IsRotate
    <3> QED
      BY <1>1, <3>1
  <2> QED
    BY <2>1 DEF FreshChunksDense, Follows, IsRotate
<1>11. Len(ring') > stale' /\ ~Blocked' => ring'[Len(ring')].end = Before'
  <2> SUFFICES ASSUME n - 1 > stale', ~Blocked'
               PROVE  ring'[n - 1].end = Before'
    BY <1>1
  <2>1. n > stale /\ n - 1 \in 1..(n - 1) /\ (n - 1) + 1 = n
    BY <1>1, <1>2
  <2>2. ring'[n - 1] = ring[n]
    BY <1>1, <2>1
  <2> QED
    BY <1>3, <1>4, <1>5, <2>1, <2>2
<1>12. \A i, j \in 1..Len(ring') : i < j => ring'[i].end <= Pred(ring'[j])
  BY <1>1, <1>7
<1> QED
  BY <1>1, <1>8, <1>10, <1>11, <1>12 DEF RingOrder, Pred, IsRotate

\* The handler's steps: only the activation, which takes what the ring holds for
\* stale, and the supervisor's end what was blocked.
LEMMA HandlerOrders ==
  ASSUME HandoffInv, SequencerInv, SlotInv, OrderInv,
         Slot \/ ValidateExpires \/ DrainExpires \/ Disconnect
  PROVE  OrderInv'
<1>0. HandoffType /\ Place /\ RingOrder /\ EvictedFull /\ SessionActive
  BY DEF HandoffInv, SlotInv, OrderInv
<1>1. UNCHANGED <<enc, submitted, disk, starts, missing, job, chunk>>
  BY HandlerSide
<1>2. Before' = Before /\ Before \in Int
  BY <1>0, <1>1, BeforeType DEF Before, InFlight, Pred, IsRotate
<1>3. CASE \/ Connect \/ Validate \/ ValidateExpires \/ Preflight \/ Walk \/ LinkError
           \/ DrainEmpty \/ DrainAhead \/ DrainExpires \/ LiveEvicted \/ Disconnect
  <2>1. UNCHANGED <<ring, stale, active, evict>>
    BY <1>3 DEF Connect, Validate, ValidateExpires, Preflight, Walk, LinkError, DrainEmpty,
           DrainAhead, DrainExpires, LiveEvicted, Disconnect, ListArchives, StatLive, Probe,
           ChooseStart, ReadHeader, OpenScanner, ReadBatch, EndOfFile, flagVars, ghostVars
  <2>2. Quiet => Quiet'
    BY <1>0, <1>3, StaysQuiet
  <2>3. Blocked => Blocked'
    BY <1>1, <2>1, <2>2 DEF Blocked
  <2>4. RingOrder'
    BY <1>0, <1>2, <2>1, <2>3, RingKept
  <2>5. step' = step \/ step' \notin {"disengage", "clear"}
    BY <1>3 DEF Connect, Validate, ValidateExpires, Preflight, Walk, LinkError, DrainEmpty,
           DrainAhead, DrainExpires, LiveEvicted, Disconnect, ListArchives, StatLive, Probe,
           ChooseStart, ReadHeader, OpenScanner, ReadBatch, EndOfFile, StartPass, FinishPass,
           Fail, Goto, slotVars
  <2>6. EvictedFull'
    BY <1>0, <1>1, <2>1, <2>5 DEF EvictedFull
  <2>7. SessionActive'
    BY <1>0, <2>1, <2>2 DEF SessionActive
  <2> QED
    BY <2>4, <2>6, <2>7 DEF OrderInv
<1>4. CASE Activate
  <2>1. ring' = ring /\ stale' = Len(ring) /\ active' = TRUE /\ step' = "list"
    BY <1>4 DEF Activate, StartPass
  <2>2. Len(ring) \in Nat
    BY <1>0 DEF HandoffType
  <2>3. (stale' + 1)..(Len(ring') - 1) = {}
    BY <2>1, <2>2
  <2>4. FreshChunksDense'
    BY <2>3 DEF FreshChunksDense
  <2>5. RingOrder'
    BY <1>0, <1>2, <2>1, <2>2, <2>4 DEF RingOrder, Pred, IsRotate
  <2>6. EvictedFull' /\ SessionActive'
    BY <2>1 DEF EvictedFull, SessionActive
  <2> QED
    BY <2>5, <2>6 DEF OrderInv
<1>5. CASE DrainCovered \/ DrainForward \/ LiveForward
  <2>1. ring # <<>> /\ Commit /\ UNCHANGED <<active, evict>>
    BY <1>5 DEF DrainCovered, DrainForward, LiveForward
  <2>2. step \in DrainSteps \union {"live"} /\ step' \in DrainSteps \union {"live"}
    BY <1>5 DEF DrainCovered, DrainForward, LiveForward, slotVars, DrainSteps
  <2>3. ~Quiet /\ ~Quiet'
    BY <2>2 DEF Quiet, DrainSteps, PassSteps, Reclaim
  <2>4. RingOrder'
    BY <1>1, <2>1, <2>3, CommitOrders
  <2>5. EvictedFull'
    BY <2>2 DEF EvictedFull, DrainSteps
  <2>6. SessionActive'
    BY <1>0, <2>1, <2>3 DEF SessionActive
  <2> QED
    BY <2>4, <2>5, <2>6 DEF OrderInv
<1>6. CASE SkipToProducer
  <2>1. ring' = <<>> /\ step' = "disengage"
    BY <1>6 DEF SkipToProducer, Forget
  <2>2. Len(ring') = 0 /\ stale' = 0
    BY <1>6, <2>1 DEF SkipToProducer
  <2>3. RingOrder'
    BY <2>2 DEF RingOrder, FreshChunksDense
  <2>4. EvictedFull' /\ SessionActive'
    BY <2>1 DEF EvictedFull, SessionActive, Quiet, Reclaim
  <2> QED
    BY <2>3, <2>4 DEF OrderInv
<1>7. CASE Disengage
  <2>1. /\ UNCHANGED <<ring, stale, evict>> /\ active' = FALSE
        /\ step = "disengage" /\ step' = "clear"
    BY <1>7 DEF Disengage, Goto, ghostVars
  <2>2. Quiet'
    BY <2>1 DEF Quiet, Reclaim
  <2>3. Blocked => Blocked'
    BY <1>1, <2>1, <2>2 DEF Blocked
  <2>4. RingOrder'
    BY <1>0, <1>2, <2>1, <2>3, RingKept
  <2> QED
    BY <1>0, <1>1, <2>1, <2>2, <2>4 DEF OrderInv, EvictedFull, SessionActive
<1>8. CASE ClearEvict
  <2>1. /\ UNCHANGED <<ring, stale, active>> /\ evict' = FALSE
        /\ step = "clear" /\ step' = "idle"
    BY <1>8 DEF ClearEvict, Goto, ghostVars
  <2>2. Quiet' /\ Quiet
    BY <2>1 DEF Quiet, Reclaim
  <2>3. EvictedFull' /\ SessionActive'
    BY <2>1, <2>2 DEF EvictedFull, SessionActive
  <2>4. CASE ring = <<>>
    <3>1. Len(ring') = 0 /\ stale' = stale /\ stale \in Nat
      BY <2>1, <2>4 DEF SlotInv, RingHolds
    <3>2. \A i \in (stale' + 1)..(Len(ring') - 1) : FALSE
      BY <3>1
    <3>3. FreshChunksDense'
      BY <3>1, <3>2 DEF FreshChunksDense
    <3>4. RingOrder'
      BY <3>1, <3>2, <3>3 DEF RingOrder
    <3> QED
      BY <2>3, <3>4 DEF OrderInv
  <2>5. CASE ring # <<>>
    <3>1. Blocked => Blocked'
      BY <1>0, <1>1, <2>1, <2>2, <2>5 DEF Blocked, EvictedFull
    <3>2. RingOrder'
      BY <1>0, <1>2, <2>1, <3>1, RingKept
    <3> QED
      BY <2>3, <3>2 DEF OrderInv
  <2> QED
    BY <2>4, <2>5
<1> QED
  BY <1>3, <1>4, <1>5, <1>6, <1>7, <1>8 DEF Slot, Bridge


-----------------------------------------------------------------------------
(* Every chunk, in hand or in the ring, is one of what was encoded. *)

Encoded ==
  /\ chunk.first <= enc /\ chunk.end <= enc
  /\ \A i \in 1..Len(ring) : ring[i].first <= enc

LEMMA SequencerEncoded ==
  ASSUME HandoffInv, Encoded, Sequencer \/ DiskWrite
  PROVE  Encoded'
<1>1. /\ enc \in Nat /\ ring \in Seq(AnyChunk) /\ Len(ring) \in Nat /\ chunk \in AnyChunk
      /\ chunk.first \in Nat /\ chunk.end \in Nat
      /\ \A i \in 1..Len(ring) : ring[i].first \in Nat
  <2>1. /\ enc \in Nat /\ ring \in Seq(AnyChunk) /\ Len(ring) \in Nat /\ chunk \in AnyChunk
        /\ \A i \in 1..Len(ring) : ring[i] \in AnyChunk
    BY DEF HandoffInv, HandoffType
  <2> QED
    BY <2>1 DEF AnyChunk
<1>2. CASE Encode
  <2>1. PICK m \in 1..MaxBatch : enc' = enc + m /\ chunk' = Batch(enc + 1, enc + m)
    BY <1>2 DEF Encode
  <2>2. m \in Nat /\ m >= 1 /\ ring' = ring
    BY <1>2, HandoffAssumption DEF Encode
  <2> QED
    BY <1>1, <2>1, <2>2 DEF Encoded, Batch
<1>3. CASE TryPublish
  <2>1. CASE ring' = Append(ring, chunk)
    <3>1. chunk' = chunk /\ enc' = enc
      BY <1>3 DEF TryPublish, journalVars
    <3>2. /\ Len(ring') = Len(ring) + 1 /\ ring'[Len(ring) + 1] = chunk
          /\ \A i \in 1..Len(ring) : ring'[i] = ring[i]
      BY <1>1, <2>1, AppendAt
    <3>3. \A i \in 1..(Len(ring) + 1) : i \in 1..Len(ring) \/ i = Len(ring) + 1
      BY <1>1
    <3> QED
      BY <3>1, <3>2, <3>3 DEF Encoded
  <2>2. CASE ring' = ring
    BY <1>3, <2>2 DEF TryPublish, journalVars, Encoded
  <2> QED
    BY <1>3, <2>1, <2>2 DEF TryPublish
<1>4. CASE ~Encode /\ ~TryPublish
  <2>1. enc' = enc /\ ring' = ring
    BY <1>4 DEF Sequencer, Publishing, Rotating, LoadActive, LoadEvict, StoreEvict, Submit,
           ArmRotation, ArchiveLive, InstallLive, RestoreLive, DiskWrite, journalVars
  <2>2. chunk' = chunk \/ chunk' = NoChunk \/ chunk' = Rotate(enc)
    BY <1>4 DEF Sequencer, Publishing, Rotating, LoadActive, LoadEvict, StoreEvict, Submit,
           ArmRotation, ArchiveLive, InstallLive, RestoreLive, DiskWrite, seqVars
  <2> QED
    BY <1>1, <2>1, <2>2 DEF Encoded, NoChunk, Rotate
<1> QED
  BY <1>2, <1>3, <1>4

LEMMA HandlerEncoded ==
  ASSUME HandoffInv, Encoded, Slot \/ ValidateExpires \/ DrainExpires \/ Disconnect
  PROVE  Encoded'
<1>1. UNCHANGED <<enc, chunk>>
  BY HandlerSide
<1>2. ring' = ring \/ ring' = <<>> \/ (ring # <<>> /\ ring' = Tail(ring))
  BY DEF Slot, Walk, Bridge, Connect, Validate, Preflight, LinkError, SkipToProducer,
         Disengage, ClearEvict, ValidateExpires, DrainExpires, Disconnect,
         ListArchives, StatLive, Probe, ChooseStart, ReadHeader, OpenScanner,
         ReadBatch, EndOfFile, Activate, DrainEmpty, DrainCovered, DrainAhead,
         DrainForward, LiveForward, LiveEvicted, flagVars, Commit
<1>3. CASE ring' = ring
  BY <1>1, <1>3 DEF Encoded
<1>4. CASE ring' = <<>>
  BY <1>1, <1>4 DEF Encoded
<1>5. CASE ring # <<>> /\ ring' = Tail(ring)
  <2>1. /\ Len(ring) \in Nat /\ Len(ring') = Len(ring) - 1
        /\ \A i \in 1..(Len(ring) - 1) : ring'[i] = ring[i + 1]
    BY <1>5, TailAt DEF HandoffInv, HandoffType
  <2>2. \A i \in 1..(Len(ring) - 1) : i + 1 \in 1..Len(ring)
    BY <2>1
  <2> QED
    BY <1>1, <2>1, <2>2 DEF Encoded
<1> QED
  BY <1>2, <1>3, <1>4, <1>5

\* The layers of the argument so far, and that every step keeps them.
StreamInv == HandoffInv /\ SequencerInv /\ SlotInv /\ OrderInv /\ Encoded

LEMMA StreamInit == Init => StreamInv
<1> SUFFICES ASSUME Init PROVE StreamInv
  OBVIOUS
<1>1. HandoffInv
  BY DEF Init, HandoffInv, HandoffType, WalkInv, AckInv, AnyChunk, NoChunk, Rotate,
         PassSteps, DrainSteps
<1>2. Len(ring) = 0 /\ Len(starts) = 1 /\ starts[1] = 1
  BY DEF Init
<1>3. SequencerInv
  <2>1. Positions
    BY HandoffAssumption DEF Init, Positions
  <2>2. Opened
    BY <1>2, HandoffAssumption DEF Init, Opened
  <2>3. InHand
    BY <1>2 DEF Init, InHand, Jobs, InFlight
  <2> QED
    BY <2>1, <2>2, <2>3 DEF SequencerInv
<1>4. SlotInv
  <2>1. RingHolds
    BY <1>2, HandoffAssumption DEF Init, RingHolds
  <2>2. Reached
    BY DEF Init, Reached
  <2>3. Place
    BY <1>2 DEF Init, Place, Session, Reclaim, PassSteps, DrainSteps, Passes
  <2>4. Flags
    <3>1. faults \in 0..MaxFaults
      BY HandoffAssumption DEF Init
    <3> QED
      BY Zenon, <3>1 DEF Init, Flags
  <2> QED
    BY <2>1, <2>2, <2>3, <2>4 DEF SlotInv
<1>5. OrderInv
  BY <1>2 DEF Init, OrderInv, RingOrder, FreshChunksDense, EvictedFull, SessionActive, Quiet
<1>6. Encoded
  BY <1>2 DEF Init, Encoded, NoChunk, Rotate
<1> QED
  BY <1>1, <1>3, <1>4, <1>5, <1>6 DEF StreamInv

LEMMA StreamNext == StreamInv /\ [Next]_vars => StreamInv'
<1> SUFFICES ASSUME StreamInv, [Next]_vars
             PROVE  StreamInv'
  OBVIOUS
<1> USE DEF StreamInv
<1>1. CASE Sequencer \/ DiskWrite
  <2>1. HandoffInv' /\ SlotInv' /\ OrderInv' /\ Encoded'
    BY <1>1, SequencerAcks, SequencerSlot, SequencerOrders, SequencerEncoded
  <2>2. SequencerInv'
    BY <1>1, EncodeSequences, OfferSequences, SubmitSequences, InstallSequences
       DEF Sequencer, Publishing, Rotating, HandoffInv
  <2> QED
    BY <2>1, <2>2
<1>2. CASE Slot \/ ValidateExpires \/ DrainExpires \/ Disconnect
  <2>1. HandoffInv'
    BY <1>2, AcceptAcks, WalkAcks, BridgeAcks, ReclaimAcks DEF Slot
  <2>2. SlotInv'
    BY <1>2, AcceptSlot, WalkSlot, BridgeSlot, ReclaimSlot DEF Slot
  <2>3. SequencerInv'
    BY <1>2, HandlerSide, HandlerSequences
  <2>4. OrderInv' /\ Encoded'
    BY <1>2, HandlerOrders, HandlerEncoded
  <2> QED
    BY <2>1, <2>2, <2>3, <2>4
<1>3. CASE UNCHANGED vars
  <2>1. UNCHANGED <<enc, submitted, disk, starts, missing, job, chunk, ring, active, evict,
                    link, accum, marks, faults, stale, closed, skewed>>
    BY <1>3 DEF vars, sideVars, journalVars, seqVars, flagVars, replicaVars, ghostVars
  <2>2. UNCHANGED <<step, pass, base, sent, end, archives, files, file, header, fd>>
    BY <1>3 DEF vars, slotVars, localVars, walkVars
  <2>3. HandoffInv'
    BY <2>1, <2>2 DEF HandoffInv, HandoffType, WalkInv, AckInv
  <2>4. SequencerInv'
    BY <2>1, HandlerSequences
  <2>5. SlotInv'
    <3>1. RingHolds' /\ Reached' /\ Flags'
      BY <2>1, <2>2 DEF SlotInv, RingHolds, Reached, Flags, Whole, AnyChunk, IsRotate
    <3>2. Place'
      BY <2>1, <2>2 DEF SlotInv, Place, Session, Reclaim, PassSteps, DrainSteps, Passes
    <3> QED
      BY <3>1, <3>2 DEF SlotInv
  <2>6. OrderInv'
    <3>1. Before' = Before /\ Before \in Int
      BY <2>1, BeforeType DEF Before, InFlight, Pred, IsRotate, HandoffInv
    <3>2. Quiet' = Quiet
      BY <2>2 DEF Quiet, Reclaim, PassSteps
    <3>3. Blocked => Blocked'
      BY <2>1, <3>2 DEF Blocked
    <3>4. RingOrder'
      BY <2>1, <3>1, <3>3, RingKept DEF HandoffInv, OrderInv
    <3> QED
      BY <2>1, <2>2, <3>2, <3>4 DEF OrderInv, EvictedFull, SessionActive
  <2>7. Encoded'
    BY <2>1 DEF Encoded
  <2> QED
    BY <2>3, <2>4, <2>5, <2>6, <2>7
<1> QED
  BY <1>1, <1>2, <1>3 DEF Next


\* A sequence is over whatever holds its elements.
LEMMA SeqOver ==
  ASSUME NEW S, NEW T, NEW s \in Seq(S), \A i \in 1..Len(s) : s[i] \in T
  PROVE  s \in Seq(T)
OBVIOUS

LEMMA StreamTypes == StreamInv => TypeOK
<1> SUFFICES ASSUME StreamInv PROVE TypeOK
  OBVIOUS
<1>0. HandoffType /\ Positions /\ Opened /\ InHand /\ RingHolds /\ Reached /\ Place /\ Flags
      /\ Encoded
  BY DEF StreamInv, HandoffInv, SequencerInv, SlotInv
<1>1. /\ enc \in Nat /\ submitted \in Nat /\ disk \in Nat /\ accum \in Nat
      /\ base \in Nat /\ sent \in Nat /\ end \in Nat /\ archives \in Nat /\ files \in Nat
      /\ Len(starts) \in Nat /\ Len(ring) \in Nat /\ MaxSeq \in Nat /\ MaxSegments \in Nat
      /\ enc <= MaxSeq /\ Len(starts) <= MaxSegments /\ Len(starts) >= 1
      /\ archives <= Len(starts) /\ files <= archives + 1
  BY <1>0, HandoffAssumption DEF HandoffType, Positions, Opened, Place
<1>2. enc \in 0..MaxSeq /\ submitted \in 0..enc /\ disk \in 0..submitted /\ accum \in 0..enc
  BY <1>0, <1>1 DEF Positions, Reached
<1>3. starts \in Seq(1..(MaxSeq + 1)) /\ Len(starts) \in 1..MaxSegments
  <2>1. \A k \in 1..Len(starts) : starts[k] \in Nat
    BY <1>0 DEF HandoffType
  <2>2. disk + 1 <= MaxSeq + 1
    BY <1>0, <1>1 DEF Positions
  <2>3. \A k \in 1..Len(starts) : starts[k] \in 1..(MaxSeq + 1)
    BY <1>0, <1>1, <2>1, <2>2 DEF Opened
  <2> DEFINE Open == 1..(MaxSeq + 1)
  <2>4. starts \in Seq(Nat) /\ \A k \in 1..Len(starts) : starts[k] \in Open
    BY <1>0, <2>3 DEF HandoffType
  <2> HIDE DEF Open
  <2>5. starts \in Seq(Open)
    BY <2>4, SeqOver
  <2>6. Len(starts) \in 1..MaxSegments
    BY <1>1
  <2> QED
    BY <2>5, <2>6 DEF Open
<1>4. chunk \in Chunks
  <2>1. chunk \in AnyChunk /\ chunk.first <= MaxSeq /\ chunk.end <= MaxSeq
    BY <1>0, <1>1 DEF HandoffType, Encoded, AnyChunk
  <2> QED
    BY <1>1, <2>1 DEF AnyChunk, Chunks
<1>5. ring \in Seq(Chunks) /\ Len(ring) <= RingCapacity
  <2>1. \A i \in 1..Len(ring) : ring[i] \in AnyChunk /\ ring[i].end <= enc /\ ring[i].first <= enc
    BY <1>0 DEF RingHolds, Whole, Encoded
  <2>2. \A i \in 1..Len(ring) : ring[i] \in Chunks
    <3> TAKE i \in 1..Len(ring)
    <3>1. ring[i] \in AnyChunk /\ ring[i].end <= MaxSeq /\ ring[i].first <= MaxSeq
      BY <1>1, <2>1 DEF AnyChunk
    <3> QED
      BY <1>1, <3>1 DEF AnyChunk, Chunks
  <2> QED
    BY <1>0, <2>2, SeqOver DEF HandoffType, RingHolds
<1>6. {base, sent, end} \subseteq 0..MaxSeq /\ marks \subseteq 1..MaxSeq
  BY <1>0, <1>1 DEF Reached
<1>7. {archives, files, file, header, fd} \subseteq 0..(MaxSegments + 1)
  <2>1. file \in 0..files /\ header \in 0..(Len(starts) + 1) /\ fd \in 0..Len(starts)
    BY <1>0 DEF Place
  <2> QED
    BY <1>1, <2>1
<1>8. step \in Session \union Reclaim \union {"idle"} /\ pass \in Passes /\ job \in Jobs
  BY <1>0 DEF Place, InHand
<1>9. stale \in 0..Len(ring) /\ faults \in 0..MaxFaults
  BY <1>0 DEF RingHolds, Flags
<1>10. missing \in BOOLEAN /\ active \in BOOLEAN /\ evict \in BOOLEAN /\ link \in BOOLEAN
  BY Zenon, <1>0 DEF InHand, Flags
<1> QED
  BY <1>2, <1>3, <1>4, <1>5, <1>6, <1>7, <1>8, <1>9, <1>10 DEF TypeOK, Jobs

-----------------------------------------------------------------------------

\* For every journal, ring and segment size and any number of faults: every
\* variable keeps its type, the ring its capacity, and the chunks published
\* since the activation follow on from one another - whatever the sequencer had
\* looked at when the slot was reclaimed and activated again, and however full
\* the ring was (publish_to_replication_rings, disengage_slot).
THEOREM RingAlwaysInOrder == Spec => []RingInOrder
<1>1. StreamInv => RingInOrder
  BY StreamTypes DEF StreamInv, OrderInv, RingOrder, RingInOrder
<1> QED
  BY StreamInit, StreamNext, <1>1, PTL DEF Spec


-----------------------------------------------------------------------------
(* The bridge *)

\* No pass ends before it began: the handshake, and for a refill the sent
\* high-water, are behind it.
Ahead ==
  /\ step \in PassSteps \union {"activate"} => base <= end
  /\ step \in DrainSteps \union {"live"} => base <= sent
  /\ step \in PassSteps /\ pass = "refill" => sent <= end

\* While the receiver takes frames it stands exactly where the handler counts
\* itself to be.
InStep ==
  link => /\ step = "validate" => accum = base
          /\ step \in PassSteps /\ pass = "probe" => accum = base
          /\ step \in PassSteps \union {"activate"} => accum = end
          /\ step \in DrainSteps \union {"live"} => accum = sent

\* Once the drain has met a chunk of its session, the next chunk is within what
\* was sent, be it in the ring or still to be offered to it.
Closed ==
  closed /\ step \in Session =>
    /\ step = "live" /\ stale = 0
    /\ ring # <<>> => Pred(ring[1]) <= sent
    /\ ring = <<>> => Before <= sent \/ evict

BridgeInv == Ahead /\ InStep /\ Closed

LEMMA SequencerBridges ==
  ASSUME StreamInv, BridgeInv, Sequencer \/ DiskWrite
  PROVE  BridgeInv'
<1>1. UNCHANGED <<step, pass, base, sent, end, link, accum, active, stale, closed>>
  BY SequencerSide
<1>2. Ahead' /\ InStep'
  BY <1>1 DEF BridgeInv, Ahead, InStep, PassSteps, DrainSteps
<1>3. ASSUME closed, step \in Session
      PROVE  (ring' # <<>> => Pred(ring'[1]) <= sent) /\ (ring' = <<>> => Before' <= sent \/ evict')
  <2>1. /\ step = "live" /\ stale = 0
        /\ ring # <<>> => Pred(ring[1]) <= sent
        /\ ring = <<>> => Before <= sent \/ evict
    BY <1>3 DEF BridgeInv, Closed
  <2>2. ring \in Seq(AnyChunk) /\ chunk \in AnyChunk /\ Len(ring) \in Nat
    BY DEF StreamInv, HandoffInv, HandoffType
  <2>3. CASE TryPublish /\ Len(ring) < RingCapacity
    <3>1. ring' = Append(ring, chunk) /\ job = "publish" /\ ~evict
      BY <2>3 DEF TryPublish, StreamInv, SequencerInv, InHand
    <3>2. /\ Len(ring') = Len(ring) + 1 /\ ring'[Len(ring) + 1] = chunk
          /\ \A i \in 1..Len(ring) : ring'[i] = ring[i]
      BY <2>2, <3>1, AppendAt
    <3>3. CASE ring = <<>>
      <4>1. ring'[1] = chunk /\ ring' # <<>>
        BY <3>2, <3>3
      <4>2. Before = Pred(chunk)
        BY <3>1 DEF Before, InFlight
      <4> QED
        BY <2>1, <3>1, <3>3, <4>1, <4>2
    <3>4. CASE ring # <<>>
      <4>1. 1 \in 1..Len(ring)
        BY <2>2, <3>4
      <4>2. ring'[1] = ring[1] /\ ring' # <<>>
        BY <2>2, <3>2, <4>1
      <4> QED
        BY <2>1, <3>4, <4>2
    <3> QED
      BY <3>3, <3>4
  <2>4. CASE ~(TryPublish /\ Len(ring) < RingCapacity)
    <3>1. ring' = ring /\ (~Blocked' => ~Blocked /\ Before' = Before)
      BY <2>4, SequencerBefore DEF StreamInv
    <3>2. ~Quiet /\ ~Quiet'
      BY <1>1, <2>1 DEF Quiet, PassSteps, Reclaim
    <3>3. active'
      BY <1>1, <3>2 DEF StreamInv, OrderInv, SessionActive
    <3>4. Blocked' => evict'
      BY <3>2, <3>3 DEF Blocked
    <3>5. evict => evict'
      <4>1. evict' = evict \/ evict' = TRUE
        BY DEF Sequencer, Publishing, Rotating, Encode, LoadActive, LoadEvict, TryPublish,
           StoreEvict, Submit, ArmRotation, ArchiveLive, InstallLive, RestoreLive, DiskWrite
      <4> QED
        BY <4>1
    <3> QED
      BY <2>1, <3>1, <3>4, <3>5
  <2> QED
    BY <2>3, <2>4
<1>4. Closed'
  <2>1. ASSUME closed', step' \in Session
        PROVE  step' = "live" /\ stale' = 0
    BY <1>1, <2>1 DEF BridgeInv, Closed
  <2> QED
    BY <1>1, <1>3, <2>1 DEF Closed, Session, PassSteps, DrainSteps, Pred, IsRotate
<1> QED
  BY <1>2, <1>4 DEF BridgeInv

\* Starting and ending a pass keep the two in step.
LEMMA StartPassInStep ==
  ASSUME HandoffType, NEW why \in {"probe", "bulk", "residual", "refill"},
         NEW from \in Nat, StartPass(why, from), UNCHANGED <<link, accum>>,
         base <= from, why = "refill" => sent <= from,
         link => accum = from /\ (why = "probe" => accum = base)
  PROVE  Ahead' /\ InStep'
BY DEF HandoffType, StartPass, Ahead, InStep, PassSteps, DrainSteps

LEMMA FinishPassInStep ==
  ASSUME HandoffType, Ahead, InStep, step \in PassSteps, FinishPass, UNCHANGED <<link, accum>>
  PROVE  Ahead' /\ InStep'
<1>1. /\ base \in Nat /\ sent \in Nat /\ end \in Nat /\ base <= end
      /\ (pass = "refill" => sent <= end) /\ (link => accum = end)
  BY DEF HandoffType, Ahead, InStep
<1>2. base' = base /\ end' = end
  BY DEF FinishPass
<1>3. CASE step' = "activate"
  BY <1>1, <1>2, <1>3 DEF Ahead, InStep, PassSteps, DrainSteps
<1>4. CASE pass = "residual" /\ step' = "drain" /\ sent' = seed(base, end)
  <2>1. sent' = end
    BY <1>1, <1>4, MaxOfTwo DEF seed
  <2> QED
    BY <1>1, <1>2, <1>4, <2>1 DEF Ahead, InStep, PassSteps, DrainSteps
<1>5. CASE pass = "refill" /\ step' = "reclassify" /\ sent' = Max({sent, end})
  <2>1. sent' = end
    BY <1>1, <1>5, MaxOfTwo
  <2> QED
    BY <1>1, <1>2, <1>5, <2>1 DEF Ahead, InStep, PassSteps, DrainSteps
<1> QED
  BY <1>3, <1>4, <1>5 DEF FinishPass

LEMMA GotoInStep ==
  ASSUME NEW next \in {"exit", "snapshot", "clear", "idle"}, Goto(next)
  PROVE  Ahead' /\ InStep'
BY DEF Goto, Ahead, InStep, PassSteps, DrainSteps


\* A frame that follows on from the receiver's position, or repeats what it has,
\* is taken; any frame it takes leaves it at the larger of the two positions.
LEMMA ReceiveInStep ==
  ASSUME accum \in Nat, NEW c, Whole(c), Receive(c), link
  PROVE  /\ Pred(c) <= accum => link'
         /\ link' => accum' = Max({accum, c.end})
         /\ link' => Pred(c) <= accum
<1>1. c.end \in Nat /\ c.first \in Nat /\ 1 <= c.end
  BY DEF Whole, AnyChunk
<1>2. /\ Max({accum, c.end}) \in {accum, c.end}
      /\ Max({accum, c.end}) >= accum /\ Max({accum, c.end}) >= c.end
  BY <1>1, MaxOfTwo
<1>3. CASE IsRotate(c)
  <2>1. accum' = accum /\ (link' <=> c.end <= accum) /\ Pred(c) = c.end
    BY <1>3 DEF Receive, TakeMark, Pred
  <2>2. c.end <= accum => Max({accum, c.end}) = accum
    BY <1>1, <1>2
  <2> QED
    BY <2>1, <2>2
<1>4. CASE ~IsRotate(c)
  <2>1. /\ accum' = IF c.first <= accum + 1 THEN Max({accum, c.end}) ELSE accum
        /\ (link' <=> c.first <= accum + 1) /\ Pred(c) = c.first - 1
    BY <1>4 DEF Receive, TakeBatch, Pred
  <2>2. c.first <= accum + 1 <=> c.first - 1 <= accum
    BY <1>1
  <2> QED
    BY <2>1, <2>2
<1> QED
  BY <1>3, <1>4

\* A walk of the files and the receiver move together, or part for good.
LEMMA WalkBridges ==
  ASSUME StreamInv, BridgeInv, Walk
  PROVE  BridgeInv'
<1>0. HandoffInv /\ SequencerInv /\ SlotInv /\ HandoffType /\ Place /\ Ahead /\ InStep
  BY DEF StreamInv, HandoffInv, SlotInv, BridgeInv
<1>1. step \in PassSteps /\ closed' = closed
  BY DEF Walk, ListArchives, StatLive, Probe, ChooseStart, ReadHeader, OpenScanner,
         ReadBatch, EndOfFile, PassSteps, ghostVars
<1>2. Closed'
  <2>1. ~closed'
    BY <1>1 DEF BridgeInv, Closed, Session, PassSteps
  <2> QED
    BY <2>1 DEF Closed
<1>3. /\ base \in Nat /\ end \in Nat /\ sent \in Nat /\ accum \in Nat /\ base <= end
      /\ (pass = "refill" => sent <= end)
      /\ (link => accum = end /\ (pass = "probe" => accum = base))
  BY <1>0, <1>1 DEF HandoffType, Ahead, InStep
<1>4. SUFFICES Ahead' /\ InStep'
  BY <1>2 DEF BridgeInv
<1>5. CASE ListArchives \/ StatLive \/ OpenScanner
  <2>1. UNCHANGED <<link, accum, base, sent, end, pass>> /\ step' \in PassSteps \union {"exit"}
    BY <1>5 DEF ListArchives, StatLive, OpenScanner, Fail, Goto, localVars, replicaVars,
                PassSteps
  <2> QED
    BY <1>3, <2>1 DEF Ahead, InStep, PassSteps, DrainSteps
<1>6. CASE Probe
  <2>1. UNCHANGED <<link, accum>> /\ pass = "probe"
    BY <1>6 DEF Probe, replicaVars
  <2>2. CASE StartPass("bulk", base)
    BY <1>0, <1>3, <2>1, <2>2, StartPassInStep
  <2>3. CASE Fail \/ Goto("snapshot")
    BY <2>3, GotoInStep DEF Fail
  <2> QED
    BY <1>6, <2>2, <2>3 DEF Probe
<1>7. CASE ChooseStart \/ EndOfFile
  <2>1. UNCHANGED <<link, accum>>
    BY <1>7 DEF ChooseStart, EndOfFile, replicaVars
  <2>2. CASE FinishPass
    BY <1>0, <1>1, <2>1, <2>2, FinishPassInStep
  <2>3. CASE Fail
    BY <2>3, GotoInStep DEF Fail
  <2>4. CASE step' = "header" /\ UNCHANGED localVars
    BY <1>3, <2>1, <2>4 DEF Ahead, InStep, PassSteps, DrainSteps, localVars
  <2> QED
    BY <1>7, <2>2, <2>3, <2>4 DEF ChooseStart, EndOfFile
<1>8. CASE ReadHeader
  <2>1. UNCHANGED <<base, sent, end, pass>> /\ step' \in {"open", "exit"}
    BY <1>8 DEF ReadHeader, Fail, Goto, localVars
  <2>2. accum' = accum /\ (link' => link)
    <3>1. CASE UNCHANGED replicaVars
      BY <3>1 DEF replicaVars
    <3>2. CASE Receive(Rotate(end))
      BY <1>3, <3>2 DEF Receive, TakeMark, Rotate, IsRotate, replicaVars
    <3> QED
      BY <1>8, <3>1, <3>2 DEF ReadHeader
  <2> QED
    BY <1>3, <2>1, <2>2 DEF Ahead, InStep, PassSteps, DrainSteps
<1>9. CASE ReadBatch
  <2>1. PICK last \in Unread : Receive(Batch(Min(Unread), last)) /\ end' = last
    BY <1>9 DEF ReadBatch
  <2>2. step = "read" /\ UNCHANGED <<step, pass, base, sent>>
    BY <1>9 DEF ReadBatch
  <2>3. Min(Unread) \in Unread /\ Min(Unread) <= last
    BY <1>0, <2>1, <2>2, FirstUnread
  <2>4. last \in Nat /\ end < last /\ Min(Unread) \in Nat /\ 1 <= Min(Unread) /\ 1 <= last
    BY <1>0, <2>1, <2>2, <2>3, UnreadKnown
  <2>5. Whole(Batch(Min(Unread), last)) /\ Batch(Min(Unread), last).end = last
    BY <2>3, <2>4 DEF Whole, Batch, AnyChunk, IsRotate
  <2>6. link' => accum' = last
    <3>1. CASE link
      <4>1. link' => accum' = Max({accum, last})
        BY <1>3, <2>1, <2>5, <3>1, ReceiveInStep
      <4>2. accum < last /\ Max({accum, last}) = last
        BY <1>3, <2>4, <3>1, MaxOfTwo
      <4> QED
        BY <4>1, <4>2
    <3>2. CASE ~link
      BY <2>1, <3>2 DEF Receive, replicaVars
    <3> QED
      BY <3>1, <3>2
  <2>7. pass # "probe"
    BY <1>0, <2>2 DEF Place
  <2> QED
    BY <1>3, <2>1, <2>2, <2>4, <2>6, <2>7 DEF Ahead, InStep, PassSteps, DrainSteps
<1> QED
  BY <1>5, <1>6, <1>7, <1>8, <1>9 DEF Walk

\* What the head of the ring says once it is given up: the next one follows on
\* from it, in the ring or still to be offered.
LEMMA HeadFollowed ==
  ASSUME StreamInv, ring # <<>>, stale = 0, ~Quiet, Commit, UNCHANGED <<enc, job, chunk>>,
         ~Quiet'
  PROVE  /\ stale' = 0
         /\ ring' # <<>> => Pred(ring'[1]) <= ring[1].end
         /\ ring' = <<>> => Before' <= ring[1].end \/ evict
<1>1. /\ ring \in Seq(AnyChunk) /\ Len(ring) \in Nat /\ Len(ring) >= 1
      /\ Len(ring') = Len(ring) - 1
      /\ \A i \in 1..(Len(ring) - 1) : ring'[i] = ring[i + 1]
  BY TailAt DEF StreamInv, HandoffInv, HandoffType, Commit
<1>2. stale' = 0
  BY DEF Commit
<1>3. CASE ring' # <<>>
  <2>1. Len(ring) >= 2 /\ 1 \in (0 + 1)..(Len(ring) - 1) /\ 1 \in 1..(Len(ring) - 1)
    <3>1. ring' \in Seq(AnyChunk)
      BY <1>1, TailAt DEF Commit
    <3>2. Len(ring') # 0
      BY <1>3, <3>1
    <3> QED
      BY <1>1, <3>2
  <2>2. Follows(ring[1].end, ring[2]) /\ ring'[1] = ring[2]
    <3>1. Follows(ring[1].end, ring[1 + 1])
      BY <2>1 DEF StreamInv, OrderInv, RingOrder, FreshChunksDense
    <3>2. ring'[1] = ring[1 + 1]
      BY <1>1, <2>1
    <3> QED
      BY <3>1, <3>2
  <2>3. ring[1].end \in Nat
    BY <1>1 DEF StreamInv, SlotInv, RingHolds, Whole, AnyChunk
  <2>4. Pred(ring[2]) = ring[1].end
    BY <2>2, <2>3 DEF Follows, Pred
  <2> QED
    BY <1>2, <1>3, <2>2, <2>3, <2>4
<1>4. CASE ring' = <<>>
  <2>1. Len(ring) = 1
    BY <1>1, <1>4
  <2>2. Before' = Before /\ Before \in Int
    BY BeforeType DEF StreamInv, HandoffInv, Before, InFlight, Pred, IsRotate
  <2>3. Blocked => evict
    BY DEF Blocked, StreamInv, OrderInv, SessionActive
  <2>4. Len(ring) > stale /\ ~Blocked => ring[Len(ring)].end = Before
    BY DEF StreamInv, OrderInv, RingOrder
  <2> QED
    BY <1>2, <1>4, <2>1, <2>2, <2>3, <2>4
<1> QED
  BY <1>3, <1>4


\* The drain forwards only what follows on from the receiver: a forwarded chunk
\* never ends the session.
LEMMA DrainTaken ==
  ASSUME StreamInv, BridgeInv, DrainForward, link
  PROVE  link' /\ accum' = sent'
<1> DEFINE c == Head(ring)
<1>1. ring # <<>> /\ step \in DrainSteps
  BY DEF DrainForward, DrainSteps
<1>2. accum = sent /\ accum \in Nat /\ sent \in Nat
  BY <1>1 DEF BridgeInv, InStep, StreamInv, HandoffInv, HandoffType
<1>3. Whole(c)
  <2>1. c = ring[1] /\ 1 \in 1..Len(ring)
    BY <1>1 DEF StreamInv, HandoffInv, HandoffType
  <2> QED
    BY <2>1 DEF StreamInv, SlotInv, RingHolds
<1>4. c.end \in Nat /\ c.first \in Nat
  BY <1>3 DEF Whole, AnyChunk
<1>5. /\ classify(c, sent) # "Ahead"
      /\ step = "drain" => classify(c, sent) = "Next"
      /\ IF IsRotate(c) \/ c.end > sent THEN Receive(c) ELSE UNCHANGED replicaVars
      /\ sent' = IF IsRotate(c) THEN sent ELSE Max({sent, c.end})
  BY DEF DrainForward
<1> HIDE DEF c
<1>6. CASE IsRotate(c)
  <2>1. c.end <= sent /\ Pred(c) <= accum
    BY <1>2, <1>4, <1>5, <1>6 DEF classify, Pred
  <2>2. Max({accum, c.end}) = accum
    BY <1>2, <1>4, <2>1, MaxOfTwo
  <2> QED
    BY <1>2, <1>3, <1>5, <1>6, <2>1, <2>2, ReceiveInStep
<1>7. CASE ~IsRotate(c) /\ c.end > sent
  <2>1. Pred(c) <= accum
    BY <1>2, <1>4, <1>5, <1>7 DEF classify, Pred
  <2> QED
    BY <1>2, <1>3, <1>5, <1>7, <2>1, ReceiveInStep
<1>8. CASE ~IsRotate(c) /\ ~(c.end > sent)
  <2>1. Max({sent, c.end}) = sent
    BY <1>2, <1>4, <1>8, MaxOfTwo
  <2> QED
    BY <1>2, <1>5, <1>8, <2>1 DEF replicaVars
<1> QED
  BY <1>6, <1>7, <1>8

LEMMA BridgeBridges ==
  ASSUME StreamInv, BridgeInv, Bridge \/ DrainExpires
  PROVE  BridgeInv'
<1>0. HandoffType /\ Ahead /\ InStep /\ Closed
  BY DEF StreamInv, HandoffInv, BridgeInv
<1>1. /\ base \in Nat /\ end \in Nat /\ sent \in Nat /\ accum \in Nat
      /\ UNCHANGED <<enc, job, chunk>>
  BY <1>0 DEF HandoffType, Bridge, Activate, DrainEmpty, DrainCovered, DrainAhead, DrainForward,
         LiveForward, LiveEvicted, DrainExpires, sideVars, journalVars, seqVars
<1>2. CASE Activate
  <2>1. /\ step = "activate" /\ StartPass("residual", end) /\ UNCHANGED <<link, accum, closed>>
        /\ step' = "list"
    BY <1>2 DEF Activate, replicaVars, StartPass
  <2>2. base <= end /\ (link => accum = end) /\ ~closed'
    BY <1>0, <2>1 DEF Ahead, InStep, Closed, Session
  <2>3. Ahead' /\ InStep'
    BY <1>0, <1>1, <2>1, <2>2, StartPassInStep
  <2> QED
    BY <2>2, <2>3 DEF BridgeInv, Closed
<1>3. CASE DrainAhead
  <2>1. step \in DrainSteps /\ StartPass("refill", sent) /\ UNCHANGED <<link, accum, closed>>
    BY <1>3 DEF DrainAhead, replicaVars, ghostVars
  <2>2. base <= sent /\ (link => accum = sent) /\ ~closed'
    BY <1>0, <2>1 DEF Ahead, InStep, Closed, Session, DrainSteps
  <2>3. Ahead' /\ InStep'
    BY <1>0, <1>1, <2>1, <2>2, StartPassInStep
  <2> QED
    BY <2>2, <2>3 DEF BridgeInv, Closed
<1>4. CASE LiveEvicted \/ DrainExpires
  <2>1. Goto("exit") /\ step' = "exit"
    BY <1>4 DEF LiveEvicted, DrainExpires, Fail, Goto
  <2>2. Ahead' /\ InStep'
    BY <2>1, GotoInStep
  <2> QED
    BY <2>1, <2>2 DEF BridgeInv, Closed, Session, PassSteps, DrainSteps
<1>5. CASE DrainEmpty \/ DrainCovered
  <2>1. /\ step = "drain" /\ step' \in {"drain", "live"}
        /\ UNCHANGED <<link, accum, closed, base, sent>>
    BY <1>5 DEF DrainEmpty, DrainCovered, Goto, slotVars, localVars, replicaVars, ghostVars
  <2>2. base <= sent /\ (link => accum = sent) /\ ~closed'
    BY <1>0, <2>1 DEF Ahead, InStep, Closed, Session, DrainSteps
  <2> QED
    BY <2>1, <2>2 DEF BridgeInv, Ahead, InStep, Closed, PassSteps, DrainSteps
<1>6. CASE DrainForward \/ LiveForward
  <2> DEFINE c == ring[1]
  <2>1. ring # <<>> /\ Commit /\ UNCHANGED <<base, evict>>
    BY <1>6 DEF DrainForward, LiveForward
  <2>2. step \in DrainSteps \union {"live"} /\ step' \in {"drain", "live"}
    BY <1>6 DEF DrainForward, LiveForward, DrainSteps
  <2>3. ~Quiet /\ ~Quiet'
    BY <2>2 DEF Quiet, DrainSteps, PassSteps, Reclaim
  <2>4. c = Head(ring) /\ Whole(c)
    <3>1. Head(ring) = ring[1] /\ 1 \in 1..Len(ring)
      BY <1>0, <2>1 DEF HandoffType
    <3> QED
      BY <3>1 DEF StreamInv, SlotInv, RingHolds
  <2>5. c.end \in Nat
    BY <2>4 DEF Whole, AnyChunk
  <2>6. base <= sent /\ (link => accum = sent)
    BY <1>0, <2>2 DEF Ahead, InStep
  <2>7. /\ Max({sent, c.end}) \in Nat /\ Max({sent, c.end}) >= sent
        /\ Max({sent, c.end}) >= c.end
    BY <1>1, <2>5, MaxOfTwo
  <2>8. sent' \in {sent, Max({sent, c.end})} /\ (~IsRotate(c) \/ LiveForward => sent' >= c.end)
    BY <1>6, <2>4, <2>7 DEF DrainForward, LiveForward
  <2>9. link' => accum' = sent'
    <3>1. CASE ~link
      BY <1>6, <3>1 DEF DrainForward, LiveForward, Receive, replicaVars
    <3>2. CASE link /\ DrainForward
      BY <3>2, DrainTaken
    <3>3. CASE link /\ LiveForward
      <4>1. Receive(c) /\ sent' = Max({sent, c.end})
        BY <2>4, <3>3 DEF LiveForward
      <4> QED
        BY <1>1, <2>4, <2>6, <3>3, <4>1, ReceiveInStep
    <3> QED
      BY <1>6, <3>1, <3>2, <3>3
  <2>10. Ahead' /\ InStep'
    <3>1. base' <= sent'
      BY <1>1, <2>1, <2>6, <2>7, <2>8
    <3> QED
      BY <2>2, <2>9, <3>1 DEF Ahead, InStep, PassSteps, DrainSteps
  <2>11. ASSUME closed'
         PROVE  step' = "live" /\ stale = 0 /\ sent' >= c.end
    <3>1. CASE DrainForward
      <4>1. ~IsRotate(c) /\ stale = 0 /\ step' = "live"
        BY <2>4, <2>11, <3>1 DEF DrainForward
      <4> QED
        BY <2>8, <4>1
    <3>2. CASE LiveForward
      <4>1. closed /\ step = "live" /\ step' = "live"
        BY <2>11, <3>2 DEF LiveForward
      <4> QED
        BY <1>0, <2>8, <3>2, <4>1 DEF Closed, Session
    <3> QED
      BY <1>6, <3>1, <3>2
  <2>12. Closed'
    <3> SUFFICES ASSUME closed'
                 PROVE  /\ step' = "live" /\ stale' = 0
                        /\ ring' # <<>> => Pred(ring'[1]) <= sent'
                        /\ ring' = <<>> => Before' <= sent' \/ evict'
      BY DEF Closed, Pred, IsRotate
    <3>1. step' = "live" /\ stale = 0 /\ sent' >= c.end
      BY <2>11
    <3>2. /\ stale' = 0
          /\ ring' # <<>> => Pred(ring'[1]) <= c.end
          /\ ring' = <<>> => Before' <= c.end \/ evict
      BY <1>1, <2>1, <2>3, <3>1, HeadFollowed
    <3>3. sent' \in Nat
      BY <1>1, <2>7, <2>8
    <3>4. CASE ring' = <<>>
      <4>1. Before' = Before /\ Before \in Int
        BY <1>1, BeforeType DEF StreamInv, HandoffInv, Before, InFlight, Pred, IsRotate
      <4> QED
        BY <2>1, <2>5, <3>1, <3>2, <3>3, <3>4, <4>1
    <3>5. CASE ring' # <<>>
      <4>1. ring' \in Seq(AnyChunk)
        BY <1>0, <2>1, TailAt DEF HandoffType, Commit
      <4>2. ring'[1] \in AnyChunk
        BY <3>5, <4>1
      <4>3. Pred(ring'[1]) \in Int
        BY <4>2 DEF Pred, AnyChunk
      <4> QED
        BY <2>5, <3>1, <3>2, <3>3, <3>5, <4>3
    <3> QED
      BY <3>4, <3>5
  <2> QED
    BY <2>10, <2>12 DEF BridgeInv
<1> QED
  BY <1>2, <1>3, <1>4, <1>5, <1>6 DEF Bridge

LEMMA OtherBridges ==
  ASSUME StreamInv, BridgeInv,
         \/ Connect \/ Validate \/ ValidateExpires \/ Preflight \/ LinkError
         \/ SkipToProducer \/ Disengage \/ ClearEvict \/ Disconnect
  PROVE  BridgeInv'
<1>0. HandoffType /\ Ahead /\ InStep /\ Closed
  BY DEF StreamInv, HandoffInv, BridgeInv
<1>1. base \in Nat /\ accum \in Nat
  BY <1>0 DEF HandoffType
<1>2. CASE Connect
  BY <1>1, <1>2 DEF Connect, BridgeInv, Ahead, InStep, Closed, PassSteps, DrainSteps
<1>3. CASE Validate
  <2>1. step = "validate" /\ StartPass("probe", base) /\ UNCHANGED <<link, accum, closed>>
    BY <1>3 DEF Validate, replicaVars, ghostVars
  <2>2. (link => accum = base) /\ ~closed'
    BY <1>0, <2>1 DEF InStep, Closed, Session
  <2>3. Ahead' /\ InStep'
    BY <1>0, <1>1, <2>1, <2>2, StartPassInStep
  <2> QED
    BY <2>2, <2>3 DEF BridgeInv, Closed
<1>4. CASE ValidateExpires
  <2>1. step = "validate" /\ Goto("snapshot") /\ UNCHANGED closed
    BY <1>4 DEF ValidateExpires, ghostVars
  <2>2. ~closed'
    BY <1>0, <2>1 DEF Closed, Session
  <2> QED
    BY <2>1, <2>2, GotoInStep DEF BridgeInv, Closed
<1>5. CASE Preflight \/ LinkError \/ Disengage \/ ClearEvict
  <2>1. \E next \in {"exit", "clear", "idle"} : Goto(next)
    BY <1>5 DEF Preflight, LinkError, Disengage, ClearEvict, Fail
  <2>2. step' \in {"exit", "clear", "idle"} /\ Ahead' /\ InStep'
    BY <2>1, GotoInStep DEF Goto
  <2> QED
    BY <2>2 DEF BridgeInv, Closed, Session, PassSteps, DrainSteps
<1>6. CASE SkipToProducer
  BY <1>6 DEF SkipToProducer, Forget, BridgeInv, Ahead, InStep, Closed, Session, PassSteps,
              DrainSteps
<1>7. CASE Disconnect
  <2>1. UNCHANGED <<step, pass, base, sent, end, ring, stale, closed, evict, accum,
                    enc, job, chunk>> /\ ~link'
    BY <1>7 DEF Disconnect, slotVars, localVars, flagVars, ghostVars, journalVars, seqVars
  <2> QED
    BY <1>0, <2>1 DEF BridgeInv, Ahead, InStep, Closed, Session, PassSteps, DrainSteps, Before,
                      InFlight, Pred, IsRotate
<1> QED
  BY <1>2, <1>3, <1>4, <1>5, <1>6, <1>7


LEMMA BridgeInit == Init => BridgeInv
BY DEF Init, BridgeInv, Ahead, InStep, Closed, PassSteps, DrainSteps

LEMMA BridgeNext == StreamInv /\ BridgeInv /\ [Next]_vars => BridgeInv'
<1> SUFFICES ASSUME StreamInv, BridgeInv, [Next]_vars
             PROVE  BridgeInv'
  OBVIOUS
<1>1. CASE Next
  BY <1>1, SequencerBridges, WalkBridges, BridgeBridges, OtherBridges DEF Next, Slot
<1>2. CASE UNCHANGED vars
  <2>1. UNCHANGED <<step, pass, base, sent, end, ring, stale, closed, evict, accum, link,
                    enc, job, chunk>>
    BY <1>2 DEF vars, slotVars, localVars, sideVars, journalVars, seqVars, flagVars,
                ghostVars, replicaVars
  <2> QED
    BY <2>1 DEF BridgeInv, Ahead, InStep, Closed, Session, PassSteps, DrainSteps, Before,
                InFlight, Pred, IsRotate
<1> QED
  BY <1>1, <1>2

-----------------------------------------------------------------------------

\* For every journal, ring and segment size and any number of faults: once the
\* drain has met a chunk of its own session, no chunk it or the live loop
\* forwards makes the receiver's contiguity gate end the session
\* (bridge_catchup_to_live, live_stream_uring).
THEOREM GateAlwaysSilent == Spec => GateSilentOnceBridged
<1> DEFINE Inv == StreamInv /\ BridgeInv
<1>1. Init => Inv
  BY StreamInit, BridgeInit
<1>2. Inv /\ [Next]_vars => Inv'
  BY StreamNext, BridgeNext
<1>3. Inv /\ [Next]_vars
        => [(step \in DrainSteps \union {"live"} /\ link /\ ~link' /\ faults' = faults)
              => ~closed']_vars
  <2> SUFFICES ASSUME Inv, Next, step \in DrainSteps \union {"live"}, link, ~link',
                      faults' = faults
               PROVE  ~closed'
    BY DEF vars, replicaVars
  <2>1. HandoffType /\ accum = sent /\ accum \in Nat
    BY DEF BridgeInv, InStep, StreamInv, HandoffInv, HandoffType
  <2>2. CASE LiveForward
    <3> SUFFICES ASSUME closed
                 PROVE  FALSE
      BY <2>2 DEF LiveForward
    <3>1. ring # <<>> /\ Receive(Head(ring)) /\ step = "live"
      BY <2>2 DEF LiveForward
    <3>2. Head(ring) = ring[1] /\ 1 \in 1..Len(ring)
      BY <2>1, <3>1 DEF HandoffType
    <3>3. Whole(ring[1]) /\ Pred(ring[1]) <= accum
      BY <2>1, <3>1, <3>2 DEF StreamInv, SlotInv, RingHolds, BridgeInv, Closed, Session
    <3> QED
      BY <2>1, <3>1, <3>2, <3>3, ReceiveInStep
  <2>3. CASE DrainForward
    BY <2>3, DrainTaken
  <2>4. CASE Disconnect
    <3>1. faults \in 0..MaxFaults
      BY DEF StreamInv, SlotInv, Flags
    <3> QED
      BY <2>4, <3>1, HandoffAssumption DEF Disconnect
  <2>5. CASE ~LiveForward /\ ~DrainForward /\ ~Disconnect
    <3>1. CASE Sequencer \/ DiskWrite
      BY <3>1, SequencerSide
    <3>2. CASE ~(Sequencer \/ DiskWrite)
      <4>1. step \notin PassSteps \union Reclaim \union {"idle", "validate", "snapshot"}
        BY DEF DrainSteps, PassSteps, Reclaim
      <4> QED
        BY <2>5, <3>2, <4>1
           DEF Next, Slot, Walk, Bridge, Connect, Validate, Preflight, LinkError,
               SkipToProducer, Disengage, ClearEvict, ValidateExpires, DrainExpires,
               ListArchives, StatLive, Probe, ChooseStart, ReadHeader, OpenScanner, ReadBatch,
               EndOfFile, Activate, DrainEmpty, DrainCovered, DrainAhead, LiveEvicted,
               replicaVars, PassSteps, Reclaim
    <3> QED
      BY <3>1, <3>2
  <2> QED
    BY <2>2, <2>3, <2>4, <2>5
<1>4. Spec => [][(step \in DrainSteps \union {"live"} /\ link /\ ~link' /\ faults' = faults)
                   => ~closed']_vars
  <2> HIDE DEF Inv
  <2> QED
    BY <1>1, <1>2, <1>3, PTL DEF Spec
<1> QED
  BY <1>4 DEF GateSilentOnceBridged


-----------------------------------------------------------------------------
(* The boundaries *)

\* The receiver has queued the boundary at b, or it is on its way: in the
\* sequencer's hands or in the ring; or the replica is evicted before it.
OnItsWay(b) ==
  \/ b \in marks
  \/ InFlight /\ IsRotate(chunk) /\ chunk.end = b
  \/ \E i \in 1..Len(ring) : IsRotate(ring[i]) /\ ring[i].end = b
  \/ evict /\ \A i \in 1..Len(ring) : ring[i].end <= b

Told(m) == OnItsWay(starts[m] - 1)
Upto(h) == \A m \in 2..Len(starts) : m <= h => Told(m)

\* The segment behind the archives a walk has listed.
Late == Len(starts) > archives => Told(archives + 1)

\* Every boundary the receiver has passed it has queued.
Taken == \A m \in 2..Len(starts) : starts[m] - 1 < accum => starts[m] - 1 \in marks

\* A walk that stands on the opening of the segment it has read the header of
\* has announced it.
AtOpening ==
  /\ step = "open" /\ header > 1 /\ end = starts[header] - 1 => end \in marks
  /\ step = "read" /\ fd > 1 /\ end = starts[fd] - 1 => end \in marks

\* A walk behind the activation announces what it comes to, and the ring what
\* opens after the walk has listed the archives; together they miss nothing.
Engaged == step \in PassSteps /\ pass \in {"residual", "refill"}
Covered ==
  /\ Engaged /\ step # "list" => \A m \in 2..Len(starts) : m > archives + 1 => Told(m)
  /\ Engaged /\ step \notin {"list", "stat"} /\ files = archives => archives >= 1 /\ Late
  /\ Engaged /\ step = "header" =>
       /\ Upto(header - 1)
       /\ header \in 2..Len(starts) /\ end < starts[header] - 1 => Told(header)
  /\ Engaged /\ step = "open" => Upto(header)
  /\ Engaged /\ step = "read" =>
       /\ Upto(fd)
       /\ file <= archives => fd = file
       /\ file = archives + 1 => fd > archives \/ (fd = archives /\ Late)
  /\ step \in DrainSteps \union {"live"} => Upto(Len(starts))

AnnounceInv == ~skewed => Taken /\ (link => AtOpening /\ Covered)

\* Where nothing is consumed nothing is yet owed.
LEMMA QuietCovered ==
  ASSUME Quiet
  PROVE  Covered
<1>1. ~Engaged /\ step \notin DrainSteps \union {"live"}
  BY DEF Quiet, Engaged, DrainSteps, PassSteps, Reclaim
<1> QED
  BY <1>1 DEF Covered

\* While the slot is active the sequencer loses no boundary: what it does not
\* publish it evicts the replica for.
LEMMA SequencerTells ==
  ASSUME StreamInv, active, Sequencer \/ DiskWrite, NEW b, OnItsWay(b)
  PROVE  OnItsWay(b)'
<1>1. marks' = marks /\ stale' = stale
  BY SequencerSide
<1>2. ring \in Seq(AnyChunk) /\ chunk \in AnyChunk /\ Len(ring) \in Nat
  BY DEF StreamInv, HandoffInv, HandoffType
<1>3. /\ \A i \in 1..Len(ring) : ring[i].end <= enc
      /\ InFlight => chunk.end = enc
      /\ evict => job \notin {"publish", "full"}
  BY DEF StreamInv, SlotInv, RingHolds, SequencerInv, InHand
<1>4. CASE TryPublish /\ Len(ring) < RingCapacity
  <2>1. ring' = Append(ring, chunk) /\ ~evict /\ job = "publish"
    BY <1>3, <1>4 DEF TryPublish
  <2>2. /\ Len(ring') = Len(ring) + 1 /\ ring'[Len(ring) + 1] = chunk
        /\ \A i \in 1..Len(ring) : ring'[i] = ring[i]
    BY <1>2, <2>1, AppendAt
  <2>3. Len(ring) + 1 \in 1..Len(ring') /\ \A i \in 1..Len(ring) : i \in 1..Len(ring')
    BY <1>2, <2>2
  <2>4. CASE b \in marks
    BY <1>1, <2>4 DEF OnItsWay
  <2>5. CASE IsRotate(chunk) /\ chunk.end = b
    BY <2>2, <2>3, <2>5 DEF OnItsWay, IsRotate
  <2>6. CASE \E i \in 1..Len(ring) : IsRotate(ring[i]) /\ ring[i].end = b
    BY <2>2, <2>3, <2>6 DEF OnItsWay, IsRotate
  <2> QED
    BY <2>1, <2>4, <2>5, <2>6 DEF OnItsWay
<1>5. CASE ~(TryPublish /\ Len(ring) < RingCapacity)
  <2>1. ring' = ring
    BY <1>5 DEF Sequencer, Publishing, Rotating, Encode, LoadActive, LoadEvict, TryPublish,
           StoreEvict, Submit, ArmRotation, ArchiveLive, InstallLive, RestoreLive, DiskWrite
  <2>2. evict => evict'
    <3>1. evict' = evict \/ evict' = TRUE
      BY DEF Sequencer, Publishing, Rotating, Encode, LoadActive, LoadEvict, TryPublish,
           StoreEvict, Submit, ArmRotation, ArchiveLive, InstallLive, RestoreLive, DiskWrite
    <3> QED
      BY <3>1
  <2>3. CASE ~InFlight
    BY <1>1, <2>1, <2>2, <2>3 DEF OnItsWay, IsRotate
  <2>4. CASE InFlight
    <3>1. chunk' = chunk /\ (InFlight' \/ evict')
      <4>1. CASE DiskWrite
        BY <2>4, <4>1 DEF DiskWrite, seqVars, InFlight
      <4>2. CASE LoadActive
        BY <4>2 DEF LoadActive, InFlight
      <4>3. CASE LoadEvict
        BY <4>3 DEF LoadEvict, InFlight
      <4>4. CASE TryPublish
        BY <1>5, <4>4 DEF TryPublish, InFlight
      <4>5. CASE StoreEvict
        BY <4>5 DEF StoreEvict
      <4> QED
        BY <2>4, <4>1, <4>2, <4>3, <4>4, <4>5
           DEF Sequencer, Publishing, Rotating, Encode, Submit, ArmRotation, ArchiveLive,
               InstallLive, RestoreLive, InFlight
    <3>2. CASE IsRotate(chunk) /\ chunk.end = b
      BY <1>3, <2>1, <2>4, <3>1, <3>2 DEF OnItsWay, IsRotate
    <3>3. CASE ~(IsRotate(chunk) /\ chunk.end = b)
      BY <1>1, <2>1, <2>2, <3>3 DEF OnItsWay, IsRotate
    <3> QED
      BY <3>2, <3>3
  <2> QED
    BY <2>3, <2>4
<1> QED
  BY <1>4, <1>5


\* What opens a segment puts its boundary in the sequencer's hands.
LEMMA SegmentsGrow ==
  ASSUME StreamInv, Sequencer \/ DiskWrite
  PROVE  /\ Len(starts) \in Nat /\ Len(starts') \in {Len(starts), Len(starts) + 1}
         /\ \A k \in 1..Len(starts) : starts[k] \in Nat /\ starts'[k] = starts[k]
         /\ Len(starts') = Len(starts) + 1 =>
              /\ starts'[Len(starts) + 1] = enc + 1 /\ ring' = ring /\ enc' = enc
              /\ \A k \in Nat : k = Len(starts) + 1 => Told(k)'
<1>1. starts \in Seq(Nat) /\ enc \in Nat
  BY DEF StreamInv, HandoffInv, HandoffType
<1>2. CASE InstallLive
  <2>1. starts' = Append(starts, enc + 1) /\ chunk' = Rotate(enc) /\ job' = "active"
        /\ ring' = ring /\ enc' = enc
    BY <1>2 DEF InstallLive
  <2>2. /\ Len(starts) \in Nat /\ Len(starts') = Len(starts) + 1
        /\ starts'[Len(starts) + 1] = enc + 1
        /\ \A k \in 1..Len(starts) : starts[k] \in Nat /\ starts'[k] = starts[k]
    BY <1>1, <2>1, AppendAt
  <2>3. InFlight' /\ IsRotate(chunk)' /\ chunk'.end = enc
    BY <2>1 DEF InFlight, Rotate, IsRotate
  <2>4. chunk'.end = starts'[Len(starts) + 1] - 1
    BY <1>1, <2>2, <2>3
  <2>5. ASSUME NEW k \in Nat, k = Len(starts) + 1
        PROVE  Told(k)'
    BY <2>3, <2>4, <2>5 DEF Told, OnItsWay
  <2> QED
    BY <2>1, <2>2, <2>5
<1>3. CASE ~InstallLive
  <2>1. starts' = starts
    BY <1>3 DEF Sequencer, Publishing, Rotating, Encode, LoadActive, LoadEvict, TryPublish,
           StoreEvict, Submit, ArmRotation, ArchiveLive, RestoreLive, DiskWrite, journalVars
  <2> QED
    BY <1>1, <2>1
<1> QED
  BY <1>2, <1>3


LEMMA SequencerAnnounces ==
  ASSUME StreamInv, AnnounceInv, Sequencer \/ DiskWrite
  PROVE  AnnounceInv'
<1> DEFINE n == Len(starts)
<1>1. UNCHANGED <<step, pass, base, sent, end, archives, files, file, header,
                  fd, link, accum, marks, active, stale, skewed>>
  BY SequencerSide
<1>2. /\ n \in Nat /\ Len(starts') \in {n, n + 1}
      /\ \A k \in 1..n : starts[k] \in Nat /\ starts'[k] = starts[k]
      /\ Len(starts') = n + 1 => starts'[n + 1] = enc + 1
      /\ Len(starts') = n + 1 => \A k \in Nat : k = n + 1 => Told(k)'
  BY SegmentsGrow
<1>3. enc \in Nat /\ accum \in Nat /\ accum <= enc /\ archives \in Nat /\ Place
  BY DEF StreamInv, HandoffInv, HandoffType, SlotInv, Reached
<1>4. SUFFICES ASSUME ~skewed
               PROVE  Taken' /\ (link => AtOpening' /\ Covered')
  BY <1>1, <1>4 DEF AnnounceInv
<1> HIDE DEF n
<1>5. \A m \in 2..Len(starts') : m \in 2..n \/ (m = n + 1 /\ Len(starts') = n + 1)
  BY <1>2
<1>6. \A m \in 2..n : m \in 1..n
  BY <1>2
<1>7. Taken'
  <2>1. ASSUME NEW m \in 2..Len(starts'), starts'[m] - 1 < accum
        PROVE  starts'[m] - 1 \in marks
    <3>1. CASE m \in 2..n
      BY <1>2, <1>4, <1>6, <2>1, <3>1 DEF AnnounceInv, Taken, n
    <3>2. CASE m = n + 1 /\ Len(starts') = n + 1
      BY <1>2, <1>3, <2>1, <3>2
    <3> QED
      BY <1>5, <3>1, <3>2
  <2> QED
    BY <1>1, <2>1 DEF Taken
<1>8. ASSUME link PROVE AtOpening'
  <2>1. AtOpening /\ (step = "open" => header \in 1..n) /\ (step = "read" => fd \in 1..n)
    BY <1>3, <1>4, <1>8 DEF AnnounceInv, Place, n
  <2> QED
    BY <1>1, <1>2, <2>1 DEF AtOpening
<1>9. ASSUME link PROVE Covered'
  <2>1. CASE Quiet
    <3>1. ~Engaged' /\ step' \notin DrainSteps \union {"live"}
      BY <1>1, <2>1 DEF Quiet, Engaged, DrainSteps, PassSteps, Reclaim
    <3> QED
      BY <3>1 DEF Covered, DrainSteps
  <2>2. CASE ~Quiet
    <3>1. active
      BY <2>2 DEF StreamInv, OrderInv, SessionActive
    <3>2. \A m \in 1..n : Told(m) => Told(m)'
      <4> SUFFICES ASSUME NEW m \in 1..n, Told(m)
                   PROVE  Told(m)'
        OBVIOUS
      <4>1. PICK b : b = starts[m] - 1
        OBVIOUS
      <4>2. OnItsWay(b)
        BY <4>1 DEF Told
      <4>3. OnItsWay(b)'
        BY <3>1, <4>2, SequencerTells
      <4>4. b = starts'[m] - 1
        BY <1>2, <4>1
      <4> QED
        BY <4>3, <4>4 DEF Told, OnItsWay
    <3>3. \A m \in 2..Len(starts') : (m \in 2..n => Told(m)) => Told(m)'
      BY <1>2, <1>5, <1>6, <3>2
    <3>4. \A h \in Int : Upto(h) => Upto(h)'
      <4> SUFFICES ASSUME NEW h \in Int, Upto(h)
                   PROVE  \A m \in 2..Len(starts') : m <= h => Told(m)'
        BY DEF Upto
      <4> QED
        BY <3>3 DEF Upto, n
    <3>5. Late => Late'
      <4> SUFFICES ASSUME Late, Len(starts') > archives'
                   PROVE  Told(archives + 1)'
        BY DEF Late
      <4>1. PICK a \in Nat : a = archives + 1
        BY <1>3
      <4>2. Told(a)'
        <5>1. CASE a \in 1..n
          <6>1. n > archives
            BY <1>2, <1>3, <4>1, <5>1
          <6> QED
            BY <3>2, <4>1, <5>1, <6>1 DEF Late, n
        <5>2. CASE a = n + 1 /\ Len(starts') = n + 1
          BY <1>2, <5>2
        <5> QED
          BY <1>1, <1>2, <1>3, <4>1, <5>1, <5>2
      <4> QED
        BY <1>1, <4>1, <4>2 DEF Told, OnItsWay
    <3>6. Covered
      BY <1>4, <1>9 DEF AnnounceInv
    <3>7. /\ Engaged' = Engaged
          /\ header \in Int /\ header - 1 \in Int /\ fd \in Int /\ n \in Int
      BY <1>1, <1>2, <1>3 DEF Engaged, PassSteps, Place, n
    <3>8. Engaged' /\ step' # "list" => \A m \in 2..Len(starts') : m > archives' + 1 => Told(m)'
      BY <1>1, <3>3, <3>6, <3>7 DEF Covered, n
    <3>9. Engaged' /\ step' \notin {"list", "stat"} /\ files' = archives' => archives' >= 1 /\ Late'
      BY <1>1, <3>5, <3>6, <3>7 DEF Covered
    <3>10. Engaged' /\ step' = "header" =>
             /\ Upto(header - 1)'
             /\ header' \in 2..Len(starts') /\ end' < starts'[header'] - 1 => Told(header)'
      <4> SUFFICES ASSUME Engaged', step' = "header"
                   PROVE  /\ Upto(header - 1)'
                          /\ header' \in 2..Len(starts') /\ end' < starts'[header'] - 1
                               => Told(header)'
        OBVIOUS
      <4>1. PICK h \in Int : h = header
        BY <3>7
      <4>2. Upto(h - 1) /\ (h \in 2..n /\ end < starts[h] - 1 => Told(h))
        BY <1>1, <3>6, <3>7, <4>1 DEF Covered, n
      <4>3. Upto(h - 1)'
        BY <3>4, <4>2
      <4>4. h \in 2..Len(starts') /\ end < starts'[h] - 1 => Told(h)'
        BY <1>2, <1>6, <3>3, <4>2
      <4> QED
        BY <1>1, <4>1, <4>3, <4>4 DEF Upto, Told, OnItsWay
    <3>11. Engaged' /\ step' = "open" => Upto(header)'
      <4>1. PICK h \in Int : h = header
        BY <3>7
      <4>2. Engaged' /\ step' = "open" => Upto(h)'
        BY <1>1, <3>4, <3>6, <3>7, <4>1 DEF Covered
      <4> QED
        BY <1>1, <4>1, <4>2 DEF Upto
    <3>12. Engaged' /\ step' = "read" =>
             /\ Upto(fd)'
             /\ file' <= archives' => fd' = file'
             /\ file' = archives' + 1 => fd' > archives' \/ (fd' = archives' /\ Late')
      <4>1. PICK h \in Int : h = fd
        BY <3>7
      <4>2. Engaged' /\ step' = "read" => Upto(h)'
        BY <1>1, <3>4, <3>6, <3>7, <4>1 DEF Covered
      <4>3. Engaged' /\ step' = "read" => Upto(fd)'
        BY <1>1, <4>1, <4>2 DEF Upto
      <4> QED
        BY <1>1, <3>5, <3>6, <3>7, <4>3 DEF Covered
    <3>13. step' \in DrainSteps \union {"live"} => Upto(Len(starts))'
      <4> SUFFICES ASSUME step' \in DrainSteps \union {"live"}
                   PROVE  \A m \in 2..Len(starts') : m <= Len(starts') => Told(m)'
        BY DEF Upto
      <4>1. \A m \in 2..n : Told(m)
        BY <1>1, <1>2, <3>6 DEF Covered, Upto, n
      <4> QED
        BY <3>3, <4>1
    <3> QED
      BY <3>8, <3>9, <3>10, <3>11, <3>12, <3>13 DEF Covered, DrainSteps
  <2> QED
    BY <2>1, <2>2
<1> QED
  BY <1>7, <1>8, <1>9


\* A step of the handler that leaves the ring alone loses no boundary.
LEMMA HandlerTells ==
  ASSUME UNCHANGED <<starts, ring, job, chunk, evict>>, marks \subseteq marks'
  PROVE  /\ \A m : Told(m) => Told(m)'
         /\ \A h : Upto(h) => Upto(h)'
         /\ Taken /\ accum' = accum => Taken'
         /\ Late /\ archives' = archives => Late'
<1>1. \A m : Told(m) => Told(m)'
  BY DEF Told, OnItsWay, InFlight, IsRotate
<1>2. \A h : Upto(h) => Upto(h)'
  BY <1>1 DEF Upto
<1>3. Taken /\ accum' = accum => Taken'
  BY DEF Taken
<1>4. Late /\ archives' = archives => Late'
  <2>1. PICK a : a = archives + 1
    OBVIOUS
  <2>2. archives' = archives => Told(a)' = Told(archives + 1)'
    BY <2>1 DEF Told, OnItsWay
  <2> QED
    BY <1>1, <2>1, <2>2 DEF Late
<1> QED
  BY <1>1, <1>2, <1>3, <1>4

\* Outside a walk and a drain nothing is owed.
LEMMA NothingOwed ==
  ASSUME step' \notin {"stat", "choose", "header", "open", "read", "live"} \union DrainSteps
  PROVE  AtOpening' /\ Covered'
<1>1. /\ step' \notin DrainSteps \union {"live"}
      /\ Engaged' => step' = "list"
  BY DEF Engaged, PassSteps
<1> QED
  BY <1>1 DEF AtOpening, Covered, DrainSteps

\* A walk that ends well leaves nothing behind it: the ring has announced, or
\* will, whatever opened after it listed the archives.
LEMMA FinishAnnounced ==
  ASSUME StreamInv, AnnounceInv, ~skewed, link, step \in {"choose", "read"},
         step = "choose" => files = 0,
         step = "read" => file + 1 \notin Files,
         pass \in {"residual", "refill"}
  PROVE  Upto(Len(starts))
<1>0. Place /\ HandoffType /\ Covered
  BY DEF StreamInv, SlotInv, HandoffInv, AnnounceInv
<1>1. Engaged /\ Len(starts) \in Nat /\ archives \in Nat /\ files \in Nat
  BY <1>0 DEF Engaged, PassSteps, HandoffType
<1>2. /\ \A m \in 2..Len(starts) : m > archives + 1 => Told(m)
      /\ files = archives => archives >= 1 /\ Late
      /\ files >= archives /\ files <= archives + 1
  BY <1>0, <1>1 DEF Covered, Place
<1>3. CASE step = "choose"
  BY <1>1, <1>2, <1>3
<1>4. CASE step = "read"
  <2>1. /\ file \in 0..files /\ file >= 1 /\ fd \in 0..Len(starts)
        /\ Upto(fd)
        /\ file <= archives => fd = file
        /\ file = archives + 1 => fd > archives \/ (fd = archives /\ Late)
    BY <1>0, <1>1, <1>4 DEF Covered, Place
  <2>2. file = files
    BY <1>1, <1>4, <2>1 DEF Files
  <2>3. fd > archives \/ (fd = archives /\ Late)
    BY <1>1, <1>2, <2>1, <2>2
  <2>4. ASSUME NEW m \in 2..Len(starts) PROVE Told(m)
    <3>1. CASE m <= fd
      BY <2>1, <3>1 DEF Upto
    <3>2. CASE m > archives + 1
      BY <1>2, <3>2
    <3>3. CASE m > fd /\ m <= archives + 1
      <4>1. fd = archives /\ Late /\ m = archives + 1 /\ Len(starts) > archives
        BY <1>1, <2>1, <2>3, <3>3
      <4> QED
        BY <4>1 DEF Late
    <3> QED
      BY <1>1, <2>1, <3>1, <3>2, <3>3
  <2> QED
    BY <2>4 DEF Upto
<1> QED
  BY <1>3, <1>4

LEMMA FinishAnnounces ==
  ASSUME StreamInv, AnnounceInv, ~skewed, link, step \in {"choose", "read"},
         step = "choose" => files = 0,
         step = "read" => file + 1 \notin Files,
         FinishPass, UNCHANGED <<starts, ring, job, chunk, evict, marks>>
  PROVE  AtOpening' /\ Covered'
<1>1. CASE pass = "bulk" /\ step' = "activate"
  BY <1>1, NothingOwed DEF DrainSteps
<1>2. CASE pass \in {"residual", "refill"} /\ step' \in DrainSteps
  <2>1. Upto(Len(starts))
    BY <1>2, FinishAnnounced
  <2>2. Upto(Len(starts))'
    <3>1. \A m \in 2..Len(starts) : m <= Len(starts) => Told(m)'
      BY <2>1, HandlerTells DEF Upto
    <3> QED
      BY <3>1 DEF Upto
  <2>3. ~Engaged' /\ step' \notin {"open", "read"}
    BY <1>2 DEF Engaged, PassSteps, DrainSteps
  <2> QED
    BY <2>2, <2>3 DEF AtOpening, Covered, DrainSteps
<1> QED
  BY <1>1, <1>2 DEF FinishPass, DrainSteps


\* A batch read from a file crosses no boundary but the opening of its own
\* segment, which was announced.
LEMMA ReadTakes ==
  ASSUME StreamInv, BridgeInv, AnnounceInv, ~skewed, ReadBatch
  PROVE  Taken' /\ (link' => AtOpening')
<1> DEFINE n == Len(starts)
<1>0. HandoffInv /\ SequencerInv /\ SlotInv /\ Taken
  BY DEF StreamInv, AnnounceInv
<1>1. PICK last \in Unread : Receive(Batch(Min(Unread), last)) /\ end' = last
  BY DEF ReadBatch
<1>2. step = "read" /\ UNCHANGED <<step, header, fd, starts>>
  BY DEF ReadBatch, walkVars, sideVars, journalVars
<1>3. Min(Unread) \in Unread /\ Min(Unread) <= last
  BY <1>0, <1>1, <1>2, FirstUnread
<1>4. /\ last \in Nat /\ end < last /\ starts[fd] <= last /\ last <= LastIn(fd)
      /\ Min(Unread) \in Nat /\ 1 <= Min(Unread) /\ 1 <= last /\ starts[fd] <= Min(Unread)
  BY <1>0, <1>1, <1>2, <1>3, UnreadKnown
<1>5. /\ n \in Nat /\ fd \in 1..n /\ end \in Nat /\ accum \in Nat /\ disk \in Nat
      /\ \A k \in 1..n : starts[k] \in Nat
  BY <1>0, <1>2 DEF HandoffInv, HandoffType, WalkInv
<1>6. \A k, m \in 1..n : k < m => starts[k] < starts[m]
  BY <1>0 DEF SequencerInv, Opened
<1>7. CASE ~link
  BY <1>0, <1>1, <1>2, <1>7 DEF Receive, replicaVars, Taken
<1>8. CASE link
  <2>1. accum = end /\ (fd > 1 /\ end = starts[fd] - 1 => end \in marks)
    BY <1>2, <1>8 DEF BridgeInv, InStep, PassSteps, AnnounceInv, AtOpening
  <2>2. /\ Batch(Min(Unread), last).first = Min(Unread) /\ Batch(Min(Unread), last).end = last
        /\ ~IsRotate(Batch(Min(Unread), last))
    BY DEF Batch, IsRotate
  <2>3. /\ marks' = marks /\ (link' <=> Min(Unread) <= accum + 1)
        /\ accum' = IF Min(Unread) <= accum + 1 THEN Max({accum, last}) ELSE accum
    BY <1>1, <1>8, <2>2 DEF Receive, TakeBatch
  <2>4. Max({accum, last}) = last
    BY <1>4, <1>5, <2>1, MaxOfTwo
  <2>5. CASE ~link'
    BY <1>0, <1>2, <2>3, <2>5 DEF Taken
  <2>6. CASE link'
    <3>1. accum' = last /\ starts[fd] <= end + 1
      BY <1>4, <1>5, <2>1, <2>3, <2>4, <2>6
    <3>2. ASSUME NEW m \in 2..n, starts[m] - 1 < last
          PROVE  starts[m] - 1 \in marks
      <4>1. m \in 1..n /\ starts[m] \in Nat
        BY <1>5
      <4>2. CASE starts[m] - 1 < accum
        BY <1>0, <4>2 DEF Taken
      <4>3. CASE starts[m] - 1 >= accum
        <5>1. ~(fd < m)
          <6> SUFFICES ASSUME fd < m
                       PROVE  FALSE
            OBVIOUS
          <6>1. fd + 1 \in 1..n /\ fd < n /\ (fd + 1 < m => starts[fd + 1] < starts[m])
            BY <1>5, <1>6, <4>1
          <6>2. starts[fd + 1] <= starts[m] /\ starts[fd + 1] \in Nat
            BY <1>5, <4>1, <6>1
          <6>3. last <= starts[fd + 1] - 1
            BY <1>4, <6>1 DEF LastIn
          <6> QED
            BY <1>4, <3>2, <4>1, <6>2, <6>3
        <5>2. m < fd => starts[m] < starts[fd]
          BY <1>5, <1>6, <4>1
        <5>3. starts[fd] \in Nat
          BY <1>5
        <5>4. m = fd /\ end = starts[fd] - 1
          BY <1>5, <2>1, <3>1, <4>1, <4>3, <5>1, <5>2, <5>3
        <5> QED
          BY <1>5, <2>1, <5>4
      <4> QED
        BY <1>5, <4>1, <4>2, <4>3
    <3>3. Taken'
      BY <1>2, <2>3, <3>1, <3>2 DEF Taken
    <3>4. AtOpening'
      <4>1. end' # starts[fd] - 1
        BY <1>1, <1>4, <1>5
      <4> QED
        BY <1>2, <4>1 DEF AtOpening
    <3> QED
      BY <3>3, <3>4
  <2> QED
    BY <2>5, <2>6
<1> QED
  BY <1>7, <1>8

\* The header of a segment on whose opening the walk stands is announced before
\* the file is opened.
LEMMA HeaderAnnounces ==
  ASSUME StreamInv, BridgeInv, AnnounceInv, ReadHeader, ~skewed'
  PROVE  Taken' /\ (link' => AtOpening' /\ Covered')
<1> DEFINE n == Len(starts)
<1>0. HandoffInv /\ HandoffType /\ SequencerInv /\ SlotInv /\ Place
  BY DEF StreamInv, HandoffInv, SlotInv
<1>1. /\ step = "header" /\ UNCHANGED <<starts, ring, job, chunk, evict, end, pass, archives,
                                        files>>
      /\ skewed' = (skewed \/ Segment(file) \notin {0, header})
  BY DEF ReadHeader, Fail, Goto, localVars, walkVars, sideVars, journalVars, seqVars, flagVars
<1>2. ~skewed /\ Segment(file) \in {0, header} /\ Taken
  BY <1>1 DEF AnnounceInv
<1>3. CASE Segment(file) = 0
  <2>1. step' = "exit" /\ UNCHANGED replicaVars
    BY <1>3 DEF ReadHeader, Fail, Goto
  <2>2. Taken'
    BY <1>1, <1>2, <2>1 DEF Taken, replicaVars
  <2> QED
    BY <2>1, <2>2, NothingOwed DEF DrainSteps
<1>4. CASE Segment(file) # 0
  <2>1. PICK h : h = header
    OBVIOUS
  <2>2. /\ step' = "open" /\ header' = h /\ UNCHANGED file
        /\ IF starts[h] > 1 /\ end = starts[h] - 1
           THEN Receive(Rotate(end)) ELSE UNCHANGED replicaVars
    BY <1>2, <1>4, <2>1 DEF ReadHeader
  <2>3. file \in Nat \ {0}
    BY <1>0, <1>1 DEF HandoffInv, WalkInv
  <2>4. h \in 1..n /\ n \in Nat /\ starts[h] \in Nat /\ end \in Nat
    BY <1>0, <1>2, <1>4, <2>1, <2>3, SegmentExists DEF HandoffType
  <2>5. Rotate(end).end = end /\ IsRotate(Rotate(end))
    BY DEF Rotate, IsRotate
  <2>6. CASE ~link
    <3>1. UNCHANGED replicaVars
      BY <2>2, <2>6 DEF Receive
    <3> QED
      BY <1>1, <1>2, <2>6, <3>1 DEF Taken, replicaVars
  <2>7. CASE link
    <3>1. accum = end
      BY <1>1, <2>7 DEF BridgeInv, InStep, PassSteps
    <3>2. /\ accum' = accum /\ marks \subseteq marks'
          /\ starts[h] > 1 /\ end = starts[h] - 1 => end \in marks'
      BY <2>2, <2>5, <3>1, <2>7 DEF Receive, TakeMark, replicaVars
    <3>3. /\ \A m : Told(m) => Told(m)'
          /\ \A k : Upto(k) => Upto(k)'
          /\ Taken'
      BY <1>1, <1>2, <3>2, HandlerTells
    <3>4. h > 1 => starts[h] > 1
      <4>1. 1 \in 1..n /\ starts[1] = 1
        BY <1>0, <2>4 DEF SequencerInv, Opened
      <4>2. h > 1 => starts[1] < starts[h]
        BY <1>0, <2>4, <4>1 DEF SequencerInv, Opened
      <4> QED
        BY <2>4, <4>1, <4>2
    <3>5. AtOpening'
      BY <1>1, <2>2, <3>2, <3>4 DEF AtOpening
    <3>6. Covered'
      <4>1. Covered
        BY <1>2, <2>7 DEF AnnounceInv
      <4>2. CASE ~Engaged
        <5>1. ~Engaged' /\ step' \notin DrainSteps \union {"live"}
          BY <1>1, <2>2, <4>2 DEF Engaged, PassSteps, DrainSteps
        <5> QED
          BY <5>1 DEF Covered, DrainSteps
      <4>3. CASE Engaged
        <5>1. /\ \A m \in 2..n : m > archives + 1 => Told(m)
              /\ files = archives => archives >= 1 /\ Late
              /\ Upto(h - 1)
              /\ h \in 2..n /\ end < starts[h] - 1 => Told(h)
          BY <1>1, <2>1, <4>1, <4>3 DEF Covered
        <5>2. \A m \in 2..n : m <= h => Told(m)'
          <6> SUFFICES ASSUME NEW m \in 2..n, m <= h
                       PROVE  Told(m)'
            OBVIOUS
          <6>1. CASE m <= h - 1
            BY <3>3, <5>1, <6>1 DEF Upto
          <6>2. CASE m = h
            <7>1. CASE end < starts[h] - 1
              BY <3>3, <5>1, <6>2, <7>1
            <7>2. CASE end = starts[h] - 1
              <8>1. starts'[h] - 1 \in marks'
                BY <1>1, <2>4, <3>2, <3>4, <6>2, <7>2
              <8> QED
                BY <6>2, <8>1 DEF Told, OnItsWay
            <7>3. CASE end > starts[h] - 1
              <8>1. starts[h] - 1 \in marks
                BY <1>2, <3>1, <6>2, <7>3 DEF Taken
              <8>2. Told(h)
                BY <8>1 DEF Told, OnItsWay
              <8> QED
                BY <3>3, <6>2, <8>2
            <7> QED
              BY <2>4, <7>1, <7>2, <7>3
          <6> QED
            BY <2>4, <6>1, <6>2
        <5>3. Upto(header)'
          BY <1>1, <2>2, <5>2 DEF Upto
        <5>4. files' = archives' => archives' >= 1 /\ Late'
          <6>1. Late => Late'
            BY <1>1, <3>2, HandlerTells
          <6> QED
            BY <1>1, <5>1, <6>1
        <5>5. \A m \in 2..Len(starts') : m > archives' + 1 => Told(m)'
          BY <1>1, <3>3, <5>1
        <5> QED
          BY <2>2, <5>3, <5>4, <5>5 DEF Covered, DrainSteps
      <4> QED
        BY <4>2, <4>3
    <3> QED
      BY <3>3, <3>5, <3>6
  <2> QED
    BY <2>6, <2>7
<1> QED
  BY <1>3, <1>4


LEMMA WalkAnnounces ==
  ASSUME StreamInv, BridgeInv, AnnounceInv, Walk
  PROVE  AnnounceInv'
<1> DEFINE n == Len(starts)
<1>0. HandoffInv /\ HandoffType /\ SequencerInv /\ SlotInv /\ Place
  BY DEF StreamInv, HandoffInv, SlotInv
<1>1. UNCHANGED <<enc, starts, ring, job, chunk, evict>>
  BY DEF Walk, ListArchives, StatLive, Probe, ChooseStart, ReadHeader, OpenScanner,
         ReadBatch, EndOfFile, sideVars, journalVars, seqVars, flagVars
<1>2. n \in Nat /\ n >= 1 /\ archives \in Nat /\ files \in Nat /\ end \in Nat
      /\ \A k \in 1..n : starts[k] \in Nat
  BY <1>0 DEF HandoffType
<1>4. skewed => skewed'
  BY DEF Walk, ListArchives, StatLive, Probe, ChooseStart, ReadHeader, OpenScanner,
         ReadBatch, EndOfFile, ghostVars
<1>5. SUFFICES ASSUME ~skewed, ~skewed'
               PROVE  Taken' /\ (link' => AtOpening' /\ Covered')
  BY <1>4 DEF AnnounceInv
<1>6. Taken /\ (link => AtOpening /\ Covered)
  BY <1>5 DEF AnnounceInv
<1>7. CASE ReadHeader
  BY <1>5, <1>7, HeaderAnnounces
<1>8. CASE UNCHANGED replicaVars /\ ~ReadHeader /\ ~ReadBatch
  <2>1. link' = link /\ accum' = accum /\ marks' = marks
    BY <1>8 DEF replicaVars
  <2>2. /\ \A m : Told(m) => Told(m)'
        /\ \A h : Upto(h) => Upto(h)'
        /\ Late /\ archives' = archives => Late'
        /\ Taken'
    BY <1>1, <1>6, <2>1, HandlerTells
  <2>3. SUFFICES ASSUME link
                 PROVE  AtOpening' /\ Covered'
    BY <2>1, <2>2
  <2>4. CASE ListArchives
    <3>1. step' = "stat" /\ archives' = Archives
      BY <2>4 DEF ListArchives
    <3>2. archives' \in Nat /\ archives' + 1 >= n
      BY <1>2, <3>1 DEF Archives
    <3>3. \A m \in 2..Len(starts') : m > archives' + 1 => FALSE
      BY <1>1, <1>2, <3>1 DEF Archives
    <3>4. step' \notin DrainSteps \union {"live"}
      BY <3>1 DEF DrainSteps
    <3> QED
      BY <3>1, <3>3, <3>4 DEF AtOpening, Covered, DrainSteps
  <2>5. CASE StatLive
    <3>1. /\ step = "stat" /\ step' = "choose" /\ UNCHANGED <<archives, pass>>
          /\ files' = IF missing THEN archives ELSE archives + 1
          /\ missing => archives >= n
      <4>1. /\ step = "stat" /\ step' = "choose" /\ UNCHANGED <<archives, pass>>
            /\ files' = IF missing THEN archives ELSE archives + 1
            /\ skewed' = (skewed \/ (missing /\ archives < Len(starts)))
        BY <2>5 DEF StatLive, localVars
      <4>2. missing => ~(archives < Len(starts))
        BY Zenon, <1>5, <4>1
      <4> QED
        BY <1>2, <4>1, <4>2
    <3>2. Engaged' => Engaged
      BY <3>1 DEF Engaged, PassSteps
    <3>3. Engaged' => \A m \in 2..Len(starts') : m > archives' + 1 => Told(m)'
      BY <1>1, <1>6, <2>2, <2>3, <3>1, <3>2 DEF Covered
    <3>4. files' = archives' => archives' >= 1 /\ Late'
      <4>1. files' = archives' => archives >= n
        BY <1>2, <3>1
      <4>2. archives >= n => Late'
        BY <1>1, <1>2, <3>1 DEF Late
      <4> QED
        BY <1>2, <3>1, <4>1, <4>2
    <3>5. step' \notin DrainSteps \union {"live"}
      BY <3>1 DEF DrainSteps
    <3> QED
      BY <3>1, <3>3, <3>4, <3>5 DEF AtOpening, Covered, DrainSteps
  <2>6. CASE Probe
    <3>1. step' \in {"list", "exit", "snapshot"}
      BY <2>6 DEF Probe, StartPass, Fail, Goto
    <3> QED
      BY <3>1, NothingOwed DEF DrainSteps
  <2>7. CASE OpenScanner
    <3>1. CASE Segment(file) = 0
      <4>1. step' = "exit"
        BY <2>7, <3>1 DEF OpenScanner, Fail, Goto
      <4> QED
        BY <4>1, NothingOwed DEF DrainSteps
    <3>2. CASE Segment(file) # 0
      <4>1. /\ step = "open" /\ step' = "read" /\ fd' = Segment(file) /\ Segment(file) = header
            /\ UNCHANGED <<end, pass, archives, files, file, header>>
        BY <1>5, <2>7, <3>2 DEF OpenScanner, localVars
      <4>2. AtOpening'
        BY <1>1, <1>6, <2>1, <2>3, <4>1 DEF AtOpening
      <4>3. file \in 0..files /\ file >= 1 /\ files <= archives + 1 /\ files >= archives
            /\ archives <= n
        BY <1>0, <4>1 DEF Place
      <4>4. Engaged' => Engaged
        BY <4>1 DEF Engaged, PassSteps
      <4>5. Engaged' => Upto(fd)'
        <5>1. PICK h : h = header
          OBVIOUS
        <5>2. Engaged' => Upto(h)'
          BY <1>6, <2>2, <2>3, <4>1, <4>4, <5>1 DEF Covered
        <5> QED
          BY <1>1, <4>1, <5>1, <5>2 DEF Upto
      <4>6. file <= archives => Segment(file) = file
        BY <3>2 DEF Segment
      <4>7. file = archives + 1 => Segment(file) = n
        BY <1>2, <3>2 DEF Segment
      <4>8. file' = archives' + 1 => fd' > archives' \/ (fd' = archives' /\ Late')
        <5>1. archives = n => Late'
          BY <1>1, <1>2, <4>1 DEF Late
        <5> QED
          BY <1>2, <4>1, <4>3, <4>7, <5>1
      <4>9. Engaged' => \A m \in 2..Len(starts') : m > archives' + 1 => Told(m)'
        BY <1>1, <1>6, <2>2, <2>3, <4>1, <4>4 DEF Covered
      <4>10. Engaged' /\ files' = archives' => archives' >= 1 /\ Late'
        BY <1>6, <2>2, <2>3, <4>1, <4>4 DEF Covered
      <4>11. step' \notin DrainSteps \union {"live"}
        BY <4>1 DEF DrainSteps
      <4> QED
        BY <4>1, <4>2, <4>5, <4>6, <4>8, <4>9, <4>10, <4>11 DEF Covered, DrainSteps
    <3> QED
      BY <3>1, <3>2
  <2>8. CASE ChooseStart
    <3>1. step = "choose"
      BY <2>8 DEF ChooseStart
    <3>2. CASE Files = {} /\ FinishPass
      <4>1. files = 0
        <5>1. ~(files >= 1)
          BY <1>2, <3>2 DEF Files
        <5> QED
          BY <1>2, <5>1
      <4> QED
        BY <1>1, <1>5, <2>1, <2>3, <3>1, <3>2, <4>1, FinishAnnounces
    <3>3. CASE Fail
      <4>1. step' = "exit"
        BY <3>3 DEF Fail, Goto
      <4> QED
        BY <4>1, NothingOwed DEF DrainSteps
    <3>4. CASE \E i \in Files :
                /\ Containing(i) /\ step' = "header" /\ file' = i /\ header' = Segment(i)
                /\ UNCHANGED <<localVars, archives, files, fd>>
      <4>1. PICK i \in Files :
                /\ Containing(i) /\ step' = "header" /\ file' = i /\ header' = Segment(i)
                /\ UNCHANGED <<localVars, archives, files, fd>>
        BY <3>4
      <4>2. i \in Nat \ {0} /\ Segment(i) # 0 /\ starts[Segment(i)] <= end + 1
        BY <1>2, <4>1 DEF Files, Containing, Readable
      <4>3. PICK h \in 1..n : h = Segment(i)
        BY <1>0, <4>2, SegmentExists
      <4>4. starts[h] <= end + 1 /\ accum = end
        BY <2>3, <3>1, <4>2, <4>3 DEF BridgeInv, InStep, PassSteps
      <4>5. UNCHANGED <<end, pass, archives, files>> /\ step' = "header" /\ header' = h
        BY <4>1, <4>3 DEF localVars
      <4>6. \A m \in 2..n : m <= h - 1 => Told(m)
        <5> SUFFICES ASSUME NEW m \in 2..n, m <= h - 1
                     PROVE  Told(m)
          OBVIOUS
        <5>1. m \in 1..n /\ starts[m] \in Nat /\ starts[h] \in Nat /\ m < h
          BY <1>2
        <5>2. starts[m] < starts[h]
          BY <1>0, <5>1 DEF SequencerInv, Opened
        <5>3. starts[m] - 1 < accum
          BY <1>2, <4>4, <5>1, <5>2
        <5> QED
          BY <1>6, <5>3 DEF Taken, Told, OnItsWay
      <4>7. Upto(header - 1)'
        BY <1>1, <2>2, <4>5, <4>6 DEF Upto
      <4>8. ~(end' < starts'[header'] - 1)
        BY <1>1, <1>2, <4>4, <4>5
      <4>9. Engaged' => Engaged
        BY <3>1, <4>5 DEF Engaged, PassSteps
      <4>10. Engaged' => \A m \in 2..Len(starts') : m > archives' + 1 => Told(m)'
        BY <1>1, <1>6, <2>2, <2>3, <3>1, <4>5, <4>9 DEF Covered
      <4>11. Engaged' /\ files' = archives' => archives' >= 1 /\ Late'
        BY <1>6, <2>2, <2>3, <3>1, <4>5, <4>9 DEF Covered
      <4>12. step' \notin DrainSteps \union {"live"}
        BY <4>5 DEF DrainSteps
      <4> QED
        BY <4>5, <4>7, <4>8, <4>10, <4>11, <4>12 DEF AtOpening, Covered, DrainSteps
    <3> QED
      BY <2>8, <3>2, <3>3, <3>4 DEF ChooseStart
  <2>9. CASE EndOfFile
    <3>1. step = "read" /\ Unread = {}
      BY <2>9 DEF EndOfFile
    <3>2. CASE file + 1 \notin Files /\ FinishPass
      BY <1>1, <1>5, <2>1, <2>3, <3>1, <3>2, FinishAnnounces
    <3>3. CASE /\ step' = "header" /\ file' = file + 1 /\ header' = fd + 1
               /\ UNCHANGED <<localVars, archives, files>>
      <4>1. PICK h \in 1..n : h = fd
        BY <1>0, <3>1 DEF HandoffInv, WalkInv
      <4>2. UNCHANGED <<end, pass, archives, files>> /\ header' = h + 1
        BY <3>3, <4>1 DEF localVars
      <4>3. Engaged' => Engaged
        BY <3>1, <4>2 DEF Engaged, PassSteps
      <4>4. Engaged' => Upto(h)'
        BY <1>6, <2>2, <2>3, <3>1, <4>1, <4>3 DEF Covered
      <4>5. Engaged' => Upto(header - 1)'
        <5>1. h + 1 - 1 = h
          BY <1>2
        <5> QED
          BY <1>1, <4>2, <4>4, <5>1 DEF Upto
      <4>6. h + 1 \in 2..n => ~(end < starts[h + 1] - 1)
        <5> SUFFICES ASSUME h + 1 \in 2..n, end < starts[h + 1] - 1
                     PROVE  FALSE
          OBVIOUS
        <5>1. h < n /\ h + 1 \in 1..n /\ starts[h] \in Nat /\ starts[h + 1] \in Nat
          BY <1>2
        <5>2. starts[h] < starts[h + 1]
          BY <1>0, <5>1 DEF SequencerInv, Opened
        <5>3. starts[h + 1] - 1 \in starts[h]..(starts[h + 1] - 1)
          BY <5>1, <5>2
        <5>4. LastIn(fd) = starts[h + 1] - 1
          BY <4>1, <5>1 DEF LastIn
        <5>5. starts[h + 1] - 1 \in Unread
          BY <1>2, <4>1, <5>1, <5>3, <5>4 DEF Unread
        <5> QED
          BY <3>1, <5>5
      <4>7. header' \in 2..Len(starts') => ~(end' < starts'[header'] - 1)
        BY <1>1, <4>2, <4>6
      <4>8. Engaged' => \A m \in 2..Len(starts') : m > archives' + 1 => Told(m)'
        BY <1>1, <1>6, <2>2, <2>3, <3>1, <4>2, <4>3 DEF Covered
      <4>9. Engaged' /\ files' = archives' => archives' >= 1 /\ Late'
        BY <1>6, <2>2, <2>3, <3>1, <4>2, <4>3 DEF Covered
      <4>10. step' \notin DrainSteps \union {"live"}
        BY <3>3 DEF DrainSteps
      <4> QED
        BY <3>3, <4>5, <4>7, <4>8, <4>9, <4>10 DEF AtOpening, Covered, DrainSteps
    <3> QED
      BY <2>9, <3>2, <3>3 DEF EndOfFile
  <2> QED
    BY <1>8, <2>4, <2>5, <2>6, <2>7, <2>8, <2>9 DEF Walk
<1>9. CASE ReadBatch
  <2>1. Taken' /\ (link' => AtOpening')
    BY <1>5, <1>9, ReadTakes
  <2>2. /\ step = "read" /\ marks' = marks /\ (link' => link)
        /\ UNCHANGED <<step, pass, archives, files, file, header, fd>>
    BY <1>9 DEF ReadBatch, walkVars, Receive, TakeBatch, Batch, IsRotate, replicaVars
  <2>3. ASSUME link'
        PROVE  Covered'
    <3>1. Covered
      BY <1>6, <2>2, <2>3
    <3>2. /\ \A m : Told(m) => Told(m)'
          /\ \A h : Upto(h) => Upto(h)'
          /\ Late => Late'
      BY <1>1, <2>2, HandlerTells
    <3>3. Engaged' = Engaged
      BY <2>2 DEF Engaged, PassSteps
    <3>4. PICK f : f = fd
      OBVIOUS
    <3>5. Engaged => Upto(f)'
      BY <2>2, <3>1, <3>2, <3>4 DEF Covered
    <3>6. Engaged => Upto(fd)'
      BY <2>2, <3>4, <3>5 DEF Upto
    <3>7. Engaged => \A m \in 2..Len(starts') : m > archives' + 1 => Told(m)'
      BY <1>1, <2>2, <3>1, <3>2 DEF Covered
    <3>8. step' = "read" /\ step' \notin DrainSteps \union {"live"}
      BY <2>2 DEF DrainSteps
    <3> QED
      BY <2>2, <3>1, <3>2, <3>3, <3>6, <3>7, <3>8 DEF Covered, DrainSteps
  <2> QED
    BY <2>1, <2>3
<1> QED
  BY <1>7, <1>8, <1>9 DEF Walk, ListArchives, StatLive, Probe, ChooseStart, OpenScanner, EndOfFile


\* Giving the head of the ring back loses no boundary that a segment opens at:
\* the receiver has it, or was past it.
LEMMA CommitTells ==
  ASSUME StreamInv, Taken, ring # <<>>, Commit, UNCHANGED <<starts, job, chunk, evict>>,
         marks \subseteq marks', IsRotate(Head(ring)) => Head(ring).end \in marks'
                                                         \/ Head(ring).end < accum,
         NEW m \in 2..Len(starts), Told(m)
  PROVE  Told(m)'
<1>1. /\ ring \in Seq(AnyChunk) /\ Len(ring) \in Nat /\ Len(ring) >= 1
      /\ Len(ring') = Len(ring) - 1 /\ Head(ring) = ring[1]
      /\ \A i \in 1..(Len(ring) - 1) : ring'[i] = ring[i + 1]
  BY TailAt DEF StreamInv, HandoffInv, HandoffType, Commit
<1>2. PICK b : b = starts[m] - 1
  OBVIOUS
<1>3. SUFFICES OnItsWay(b)'
  BY <1>2, <1>3 DEF Told, OnItsWay
<1>4. OnItsWay(b)
  BY <1>2 DEF Told
<1>5. CASE b \in marks
  BY <1>5 DEF OnItsWay
<1>6. CASE InFlight /\ IsRotate(chunk) /\ chunk.end = b
  BY <1>6 DEF OnItsWay, InFlight, IsRotate
<1>7. CASE \E i \in 1..Len(ring) : IsRotate(ring[i]) /\ ring[i].end = b
  <2>1. PICK i \in 1..Len(ring) : IsRotate(ring[i]) /\ ring[i].end = b
    BY <1>7
  <2>2. CASE i = 1
    <3>1. b \in marks' \/ b < accum
      BY <1>1, <2>1, <2>2
    <3>2. b < accum => b \in marks
      BY <1>2 DEF Taken
    <3> QED
      BY <3>1, <3>2 DEF OnItsWay
  <2>3. CASE i # 1
    <3>1. i - 1 \in 1..Len(ring') /\ ring'[i - 1] = ring[i]
      <4>1. i - 1 \in 1..(Len(ring) - 1) /\ (i - 1) + 1 = i
        BY <1>1, <2>3
      <4> QED
        BY <1>1, <4>1
    <3> QED
      BY <2>1, <3>1 DEF OnItsWay, IsRotate
  <2> QED
    BY <2>2, <2>3
<1>8. CASE evict /\ \A i \in 1..Len(ring) : ring[i].end <= b
  <2>1. \A i \in 1..(Len(ring) - 1) : ring'[i].end <= b
    <3>1. \A i \in 1..(Len(ring) - 1) : i + 1 \in 1..Len(ring)
      BY <1>1
    <3> QED
      BY <1>1, <1>8, <3>1
  <2> QED
    BY <1>1, <1>8, <2>1 DEF OnItsWay
<1> QED
  BY <1>4, <1>5, <1>6, <1>7, <1>8 DEF OnItsWay

\* A batch of the ring that the receiver takes crosses no boundary it has not
\* queued: whatever is still on its way is behind the batch.
LEMMA ForwardTakes ==
  ASSUME StreamInv, AnnounceInv, ~skewed, link, link', ring # <<>>, Upto(Len(starts)),
         Receive(ring[1]), Whole(ring[1]), starts' = starts
  PROVE  Taken'
<1> DEFINE c == ring[1]
           n == Len(starts)
<1>0. Taken
  BY DEF AnnounceInv
<1>1. /\ n \in Nat /\ accum \in Nat /\ enc \in Nat /\ c.end \in Nat /\ c.first \in Nat
      /\ \A k \in 1..n : starts[k] \in Nat
      /\ ring \in Seq(AnyChunk) /\ Len(ring) \in Nat /\ 1 \in 1..Len(ring)
  <2>1. ring \in Seq(AnyChunk) /\ starts \in Seq(Nat) /\ accum \in Nat /\ enc \in Nat
    BY DEF StreamInv, HandoffInv, HandoffType
  <2>2. c.end \in Nat /\ c.first \in Nat
    BY DEF Whole, AnyChunk
  <2> QED
    BY <2>1, <2>2
<1>2. CASE IsRotate(c)
  BY <1>0, <1>2 DEF Receive, TakeMark, Taken
<1>3. CASE ~IsRotate(c)
  <2>1. marks' = marks /\ c.first <= accum + 1 /\ accum' = Max({accum, c.end})
    BY <1>3 DEF Receive, TakeBatch
  <2>2. accum' = accum \/ (accum' = c.end /\ accum <= c.end)
    BY <1>1, <2>1, MaxOfTwo
  <2>3. ASSUME NEW m \in 2..n, starts[m] - 1 < accum', starts[m] - 1 >= accum
        PROVE  starts[m] - 1 \in marks
    <3>1. m \in 1..n /\ starts[m] \in Nat /\ starts[m] - 1 < c.end
      BY <1>1, <2>2, <2>3
    <3>3. Told(m)
      BY <3>1 DEF Upto
    <3>4. ~(InFlight /\ IsRotate(chunk) /\ chunk.end = starts[m] - 1)
      <4> SUFFICES ASSUME InFlight, chunk.end = starts[m] - 1
                   PROVE  FALSE
        OBVIOUS
      <4>1. chunk.end = enc /\ c.end <= enc
        BY <1>1 DEF StreamInv, SequencerInv, InHand, SlotInv, RingHolds
      <4> QED
        BY <1>1, <3>1, <4>1
    <3>5. ~\E i \in 1..Len(ring) : IsRotate(ring[i]) /\ ring[i].end = starts[m] - 1
      <4> SUFFICES ASSUME NEW i \in 1..Len(ring), IsRotate(ring[i]), ring[i].end = starts[m] - 1
                   PROVE  FALSE
        OBVIOUS
      <4>1. i # 1
        BY <1>3
      <4>2. c.end <= Pred(ring[i])
        BY <1>1, <4>1 DEF StreamInv, OrderInv, RingOrder
      <4>3. Pred(ring[i]) = starts[m] - 1
        BY DEF Pred
      <4> QED
        BY <1>1, <3>1, <4>2, <4>3
    <3>6. ~(\A i \in 1..Len(ring) : ring[i].end <= starts[m] - 1)
      BY <1>1, <3>1
    <3> QED
      BY <3>3, <3>4, <3>5, <3>6 DEF Told, OnItsWay
  <2>4. ASSUME NEW m \in 2..n, starts[m] - 1 < accum'
        PROVE  starts[m] - 1 \in marks
    <3>1. m \in 1..n /\ starts[m] \in Nat
      BY <1>1
    <3>2. CASE starts[m] - 1 < accum
      BY <1>0, <3>2 DEF Taken
    <3>3. CASE starts[m] - 1 >= accum
      BY <2>3, <2>4, <3>3
    <3> QED
      BY <1>1, <3>1, <3>2, <3>3
  <2> QED
    BY <2>1, <2>4 DEF Taken
<1> QED
  BY <1>2, <1>3


LEMMA BridgeAnnounces ==
  ASSUME StreamInv, BridgeInv, AnnounceInv, Bridge \/ DrainExpires
  PROVE  AnnounceInv'
<1>0. HandoffType
  BY DEF StreamInv, HandoffInv
<1>1. UNCHANGED <<enc, starts, job, chunk, evict, skewed>>
  BY DEF Bridge, Activate, DrainEmpty, DrainCovered, DrainAhead, DrainForward,
         LiveForward, LiveEvicted, DrainExpires, sideVars, journalVars, seqVars, flagVars,
         ghostVars
<1>2. SUFFICES ASSUME ~skewed
               PROVE  Taken' /\ (link' => AtOpening' /\ Covered')
  BY <1>1 DEF AnnounceInv
<1>3. Taken /\ (link => AtOpening /\ Covered)
  BY <1>2 DEF AnnounceInv
<1>4. CASE Activate \/ DrainAhead \/ LiveEvicted \/ DrainExpires
  <2>1. step' \in {"list", "exit"} /\ UNCHANGED <<ring, accum, marks>>
    BY <1>4 DEF Activate, DrainAhead, LiveEvicted, DrainExpires, StartPass, Fail, Goto,
                flagVars, replicaVars
  <2>2. Taken'
    BY <1>1, <1>3, <2>1, HandlerTells
  <2> QED
    BY <2>1, <2>2, NothingOwed DEF DrainSteps
<1>5. CASE DrainEmpty
  <2>1. step = "drain" /\ step' = "live" /\ UNCHANGED <<ring, accum, marks, link>>
    BY <1>5 DEF DrainEmpty, Goto, flagVars, replicaVars
  <2>2. Taken' /\ \A m : Told(m) => Told(m)'
    BY <1>1, <1>3, <2>1, HandlerTells
  <2>3. link => Upto(Len(starts))'
    BY <1>1, <1>3, <2>1, <2>2 DEF Covered, DrainSteps, Upto
  <2>4. ~Engaged'
    BY <2>1 DEF Engaged, PassSteps
  <2> QED
    BY <2>1, <2>2, <2>3, <2>4 DEF AtOpening, Covered
<1>6. CASE DrainCovered \/ DrainForward \/ LiveForward
  <2> DEFINE c == ring[1]
  <2>1. ring # <<>> /\ Commit
    BY <1>6 DEF DrainCovered, DrainForward, LiveForward
  <2>2. step \in DrainSteps \union {"live"} /\ step' \in {"drain", "reclassify", "live"}
    BY <1>6 DEF DrainCovered, DrainForward, LiveForward, DrainSteps, slotVars
  <2>3. c = Head(ring) /\ Whole(c)
    <3>1. Head(ring) = ring[1] /\ 1 \in 1..Len(ring)
      BY <1>0, <2>1 DEF HandoffType
    <3> QED
      BY <3>1 DEF StreamInv, SlotInv, RingHolds
  <2>4. c.end \in Nat /\ accum \in Nat /\ sent \in Nat
    BY <1>0, <2>3 DEF Whole, AnyChunk, HandoffType
  <2>5. Receive(c) \/ UNCHANGED replicaVars
    BY <1>6, <2>3 DEF DrainCovered, DrainForward, LiveForward
  <2>6. CASE ~link
    <3>1. UNCHANGED replicaVars
      BY <2>5, <2>6 DEF Receive
    <3> QED
      BY <1>1, <1>3, <2>6, <3>1 DEF Taken, replicaVars
  <2>7. CASE link
    <3>1. accum = sent /\ Upto(Len(starts))
      BY <1>3, <2>2, <2>7 DEF BridgeInv, InStep, Covered
    <3>2. /\ marks \subseteq marks'
          /\ link' /\ IsRotate(c) => c.end \in marks' \/ c.end < accum
      <4>1. CASE Receive(c)
        <5>1. CASE IsRotate(c)
          <6>1. /\ marks' = IF c.end = accum THEN marks \union {c.end} ELSE marks
                /\ link' <=> c.end <= accum
            BY <2>7, <4>1, <5>1 DEF Receive, TakeMark
          <6> QED
            BY <2>4, <6>1
        <5>2. CASE ~IsRotate(c)
          BY <2>7, <4>1, <5>2 DEF Receive, TakeBatch
        <5> QED
          BY <5>1, <5>2
      <4>2. CASE UNCHANGED replicaVars /\ ~Receive(c)
        <5>1. IsRotate(c) => c.end < sent
          BY <1>6, <2>3, <2>4, <4>2 DEF DrainCovered, DrainForward, LiveForward, classify
        <5> QED
          BY <3>1, <4>2, <5>1 DEF replicaVars
      <4> QED
        BY <2>5, <4>1, <4>2
    <3>3. Taken'
      <4>1. CASE UNCHANGED replicaVars
        BY <1>1, <1>3, <4>1 DEF Taken, replicaVars
      <4>2. CASE Receive(c) /\ link'
        BY <1>1, <1>2, <2>1, <2>3, <2>7, <3>1, <4>2, ForwardTakes
      <4>3. CASE Receive(c) /\ ~link'
        <5>1. accum' = accum /\ marks \subseteq marks'
          BY <2>7, <4>3 DEF Receive, TakeMark, TakeBatch
        <5> QED
          BY <1>1, <1>3, <5>1 DEF Taken
      <4> QED
        BY <2>5, <4>1, <4>2, <4>3
    <3>4. ASSUME link'
          PROVE  AtOpening' /\ Covered'
      <4>1. \A m \in 2..Len(starts) : Told(m)'
        <5> SUFFICES ASSUME NEW m \in 2..Len(starts)
                     PROVE  Told(m)'
          OBVIOUS
        <5>1. Told(m)
          BY <1>0, <3>1 DEF Upto, HandoffType
        <5>2. IsRotate(Head(ring)) => Head(ring).end \in marks' \/ Head(ring).end < accum
          BY <2>3, <3>2, <3>4
        <5>3. Taken /\ marks \subseteq marks' /\ UNCHANGED <<starts, job, chunk, evict>>
          BY <1>1, <1>3, <3>2
        <5> QED
          BY <2>1, <5>1, <5>2, <5>3, CommitTells
      <4>2. Upto(Len(starts))'
        BY <1>1, <4>1 DEF Upto
      <4>3. ~Engaged' /\ step' \notin {"open", "read"}
        BY <2>2 DEF Engaged, PassSteps
      <4> QED
        BY <4>2, <4>3 DEF AtOpening, Covered
    <3> QED
      BY <3>3, <3>4
  <2> QED
    BY <2>6, <2>7
<1> QED
  BY <1>4, <1>5, <1>6 DEF Bridge

LEMMA OtherAnnounces ==
  ASSUME StreamInv, AnnounceInv,
         \/ Connect \/ Validate \/ ValidateExpires \/ Preflight \/ LinkError
         \/ SkipToProducer \/ Disengage \/ ClearEvict \/ Disconnect
  PROVE  AnnounceInv'
<1>1. UNCHANGED <<starts, accum, marks, skewed>>
  BY DEF Connect, Validate, ValidateExpires, Preflight, LinkError, SkipToProducer, Disengage,
         ClearEvict, Disconnect, sideVars, journalVars, replicaVars, ghostVars
<1>2. ~skewed => Taken'
  BY <1>1 DEF AnnounceInv, Taken
<1>3. CASE Disconnect
  BY <1>1, <1>2, <1>3 DEF Disconnect, AnnounceInv
<1>4. CASE ~Disconnect
  <2>1. step' \in {"validate", "list", "snapshot", "exit", "disengage", "clear", "idle"}
    BY <1>4 DEF Connect, Validate, ValidateExpires, Preflight, LinkError, SkipToProducer,
                Disengage, ClearEvict, StartPass, Fail, Goto, Forget
  <2>2. AtOpening' /\ Covered'
    BY <2>1, NothingOwed DEF DrainSteps
  <2> QED
    BY <1>1, <1>2, <2>2 DEF AnnounceInv
<1> QED
  BY <1>3, <1>4

-----------------------------------------------------------------------------

\* For every journal, ring and segment size and any number of faults: unless a
\* rotation has moved the files under a walk, a replica that has taken an entry
\* past a rotation has been told of it at its exact position - from the files
\* (stream_journal), from the ring (publish_rotate_to_rings) or in an earlier
\* session, whatever raced in between.
THEOREM BoundariesAlwaysAnnounced == Spec => []BoundaryAnnounced
<1> DEFINE Inv == StreamInv /\ BridgeInv /\ AnnounceInv
<1>1. Init => Inv
  <2>1. Init => AnnounceInv
    <3> SUFFICES ASSUME Init PROVE AnnounceInv
      OBVIOUS
    <3>1. Len(starts) = 1 /\ step = "idle"
      BY DEF Init
    <3>2. Taken
      BY <3>1 DEF Taken
    <3> QED
      BY <3>2 DEF Init, AnnounceInv
  <2> QED
    BY <2>1, StreamInit, BridgeInit
<1>2. Inv /\ [Next]_vars => Inv'
  <2> SUFFICES ASSUME Inv, [Next]_vars
               PROVE  AnnounceInv'
    BY StreamNext, BridgeNext
  <2>1. CASE Next
    BY <2>1, SequencerAnnounces, WalkAnnounces, BridgeAnnounces, OtherAnnounces DEF Next, Slot
  <2>2. CASE UNCHANGED vars
    <3>1. UNCHANGED <<starts, ring, job, chunk, evict, marks, accum, link, skewed>>
      BY <2>2 DEF vars, sideVars, journalVars, seqVars, flagVars, ghostVars, replicaVars
    <3>2. UNCHANGED <<step, pass, end, archives, files, file, header, fd>>
      BY <2>2 DEF vars, slotVars, localVars, walkVars
    <3> QED
      BY <3>1, <3>2 DEF AnnounceInv, Taken, AtOpening, Covered, Engaged, Upto, Late, Told,
                        OnItsWay, InFlight, IsRotate, PassSteps, DrainSteps
  <2> QED
    BY <2>1, <2>2
<1>3. Inv => BoundaryAnnounced
  BY DEF AnnounceInv, Taken, BoundaryAnnounced, Boundaries
<1> QED
  <2> HIDE DEF Inv
  <2> QED
    BY <1>1, <1>2, <1>3, PTL DEF Spec
=============================================================================
