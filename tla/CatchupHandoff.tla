--------------------------- MODULE CatchupHandoff ---------------------------
(***************************************************************************)
(* One replica slot of the primary: how a replica that reconnects is       *)
(* brought from journal files on disk to the live replication ring         *)
(* (transport-core/src/replication/catchup.rs, sent.rs; the slot's         *)
(* supervisor and live loop in server-runtime/src/replication/             *)
(* tcp_sender.rs).  Four parties run concurrently:                         *)
(*                                                                         *)
(*   - the sequencer (transport-core/src/pipeline.rs) encodes a batch,     *)
(*     offers it to the ring, hands it to the disk thread, and rotates the *)
(*     live segment, announcing the boundary on the ring afterwards;       *)
(*   - the disk thread makes submitted entries readable, one at a time;    *)
(*   - the slot's handler thread walks the segments, activates the ring,   *)
(*     walks them again, drains the ring and streams live; the supervisor  *)
(*     reclaims the slot once the handler is done;                         *)
(*   - the replica's receiver takes entries in sequence only and queues a  *)
(*     boundary only at its exact position (receiver_transport.rs).        *)
(*                                                                         *)
(* Every file-system call and every atomic flag access that another party  *)
(* can interleave with is a step of its own.  The wire delivers a frame as *)
(* it is written; a link may break between any two frames, and a handler   *)
(* whose link is broken goes on until a write fails.  A segment is its     *)
(* number: path k of the archives names segment k, the live path names the *)
(* newest segment, or nothing while a rotation has renamed it away.        *)
(* Nothing is pruned and no snapshot exists.                               *)
(***************************************************************************)
EXTENDS Integers, Sequences, FiniteSetsExt

CONSTANTS
  MaxSeq,       \* bound on the sequences encoded
  MaxBatch,     \* bound on the entries of one batch
  MaxSegments,  \* bound on the segments, hence on the rotations
  RingCapacity, \* chunks the replication ring holds
  MaxFaults     \* bound on broken links, expired waits and failed rotations

ASSUME HandoffAssumption ==
  /\ MaxSeq \in Nat /\ MaxFaults \in Nat
  /\ MaxBatch \in Nat \ {0} /\ MaxSegments \in Nat \ {0}
  /\ RingCapacity \in Nat \ {0}

VARIABLES
  enc,        \* last sequence the encoder has assigned
  submitted,  \* last sequence handed to the disk thread
  disk,       \* last sequence a scan of the files can see
  starts,     \* starting_sequence in the header of each segment
  missing,    \* the live path is renamed away, its successor not installed
  job,        \* what the sequencer is about to do
  chunk,      \* the chunk it is publishing
  ring,       \* the slot's replication ring
  active,     \* the slot's active flag
  evict,      \* the slot's evict flag
  step,       \* what the slot's handler or its supervisor is about to do
  pass,       \* whose walk of the journal is in progress
  base,       \* the replica's handshake position
  sent,       \* SentHighWater
  end,        \* end_sequence of the walk
  archives,   \* archives the walk has listed
  files,      \* paths it has discovered, the live one included
  file,       \* the path it is at
  header,     \* the segment it has read the header of or comes to next
  fd,         \* the segment it has open
  link,       \* the receiver still takes frames of this session
  accum,      \* the receiver's accum_end_sequence
  marks,      \* boundaries the receiver has queued for its journal stage
  faults,     \* faults so far (bounded)
  \* history
  stale,      \* leading ring chunks published before this session's activation
  closed,     \* the drain of this session ended on a chunk of this session
  skewed      \* a rotation has moved files under a walk of the segments

journalVars == <<enc, submitted, disk, starts, missing>>
replicaVars == <<link, accum, marks>>
ghostVars == <<stale, closed, skewed>>
seqVars == <<job, chunk>>
flagVars == <<ring, active, evict>>
walkVars == <<archives, files, file, header, fd>>
localVars == <<pass, base, sent, end>>
slotVars == <<step, localVars, walkVars>>
sideVars == <<journalVars, seqVars, faults>>
vars == <<sideVars, flagVars, slotVars, replicaVars, ghostVars>>

-----------------------------------------------------------------------------
(* Values *)

Chunks == [kind : {"InputBatch", "Rotate"}, first : 0..MaxSeq, end : 0..MaxSeq]
Batch(first, last) == [kind |-> "InputBatch", first |-> first, end |-> last]
Rotate(boundary) == [kind |-> "Rotate", first |-> 0, end |-> boundary]
NoChunk == Rotate(0)
IsRotate(c) == c.kind = "Rotate"

Passes == {"probe", "bulk", "residual", "refill", "none"}
PassSteps == {"list", "stat", "choose", "header", "open", "read"}
DrainSteps == {"drain", "reclassify"}
Session == PassSteps \union DrainSteps
             \union {"validate", "snapshot", "activate", "live"}
Reclaim == {"exit", "disengage", "clear"}

Init ==
  /\ enc = 0 /\ submitted = 0 /\ disk = 0
  /\ starts = <<1>> /\ missing = FALSE
  /\ job = "idle" /\ chunk = NoChunk
  /\ ring = <<>> /\ active = FALSE /\ evict = FALSE
  /\ step = "idle" /\ pass = "none" /\ base = 0 /\ sent = 0 /\ end = 0
  /\ archives = 0 /\ files = 0 /\ file = 0 /\ header = 0 /\ fd = 0
  /\ link = FALSE /\ accum = 0 /\ marks = {}
  /\ faults = 0
  /\ stale = 0 /\ closed = FALSE /\ skewed = FALSE

-----------------------------------------------------------------------------
(* The receiver: one frame *)

\* A slot at or below the position is a duplicate, the next one is taken, any
\* other ends the session.
TakeBatch(c) ==
  /\ accum' = IF c.first <= accum + 1 THEN Max({accum, c.end}) ELSE accum
  /\ link' = (c.first <= accum + 1)
  /\ UNCHANGED marks

\* queue_stream_mark: exactly at the position, else stale or a gap.
TakeMark(c) ==
  /\ marks' = IF c.end = accum THEN marks \union {c.end} ELSE marks
  /\ link' = (c.end <= accum)
  /\ UNCHANGED accum

Receive(c) ==
  IF ~link THEN UNCHANGED replicaVars
  ELSE IF IsRotate(c) THEN TakeMark(c) ELSE TakeBatch(c)

-----------------------------------------------------------------------------
(* The sequencer and the disk thread *)

\* A batch is encoded; the sequencer is about to offer it to the ring.
Encode ==
  /\ job = "idle"
  /\ \E n \in 1..MaxBatch :
       /\ enc + n <= MaxSeq
       /\ enc' = enc + n
       /\ job' = "active" /\ chunk' = Batch(enc + 1, enc + n)
  /\ UNCHANGED <<submitted, disk, starts, missing, ring, active, evict,
                 slotVars, replicaVars, faults, ghostVars>>

\* Where the sequencer goes once the chunk in hand is published or skipped: a
\* batch is handed to the disk thread, a boundary is done.
AfterPublish == IF IsRotate(chunk) THEN "idle" ELSE "submit"

LoadActive ==
  /\ job = "active"
  /\ job' = IF active THEN "evicted" ELSE AfterPublish
  /\ UNCHANGED chunk
  /\ UNCHANGED <<journalVars, ring, active, evict, slotVars, replicaVars,
                 faults, ghostVars>>

LoadEvict ==
  /\ job = "evicted"
  /\ job' = IF evict THEN AfterPublish ELSE "publish"
  /\ UNCHANGED chunk
  /\ UNCHANGED <<journalVars, ring, active, evict, slotVars, replicaVars,
                 faults, ghostVars>>

\* Faulty variant: a chunk that finds the ring full is skipped in silence.
SkipWhenFull ==
  /\ job = "publish"
  /\ ring' = IF Len(ring) < RingCapacity THEN Append(ring, chunk) ELSE ring
  /\ job' = AfterPublish /\ UNCHANGED chunk
  /\ UNCHANGED <<journalVars, active, evict, slotVars, replicaVars, faults,
                 ghostVars>>

\* One try_publish, never a wait: a full ring evicts the replica.
TryPublish ==
  /\ job = "publish"
  /\ IF Len(ring) < RingCapacity
     THEN /\ ring' = Append(ring, chunk)
          /\ job' = AfterPublish /\ UNCHANGED chunk
     ELSE /\ job' = "full" /\ UNCHANGED chunk
          /\ UNCHANGED ring
  /\ UNCHANGED <<journalVars, active, evict, slotVars, replicaVars, faults,
                 ghostVars>>

StoreEvict ==
  /\ job = "full"
  /\ evict' = TRUE
  /\ job' = AfterPublish /\ UNCHANGED chunk
  /\ UNCHANGED <<journalVars, ring, active, slotVars, replicaVars, faults,
                 ghostVars>>

\* The batch reaches the disk thread only after it was offered to the ring.
Submit ==
  /\ job = "submit"
  /\ submitted' = chunk.end
  /\ job' = "idle" /\ chunk' = NoChunk
  /\ UNCHANGED <<enc, disk, starts, missing, ring, active, evict, slotVars, replicaVars, faults, ghostVars>>

DiskWrite ==
  /\ disk < submitted
  /\ disk' = disk + 1
  /\ UNCHANGED <<enc, submitted, starts, missing, seqVars, ring, active, evict,
                 slotVars, replicaVars, faults, ghostVars>>

\* local_rotation_armed: never over an empty live segment.
ArmRotation ==
  /\ job = "idle"
  /\ Len(starts) < MaxSegments
  /\ enc + 1 # starts[Len(starts)]
  /\ job' = "rotate" /\ chunk' = NoChunk
  /\ UNCHANGED <<journalVars, ring, active, evict, slotVars, replicaVars,
                 faults, ghostVars>>

\* The rendezvous: the disk is drained, then the live file is renamed.
ArchiveLive ==
  /\ job = "rotate"
  /\ disk = submitted
  /\ missing' = TRUE
  /\ job' = "install" /\ UNCHANGED chunk
  /\ UNCHANGED <<enc, submitted, disk, starts, ring, active, evict, slotVars, replicaVars, faults, ghostVars>>

\* The next segment takes the live path; its boundary is then announced.
InstallLive ==
  /\ job = "install"
  /\ starts' = Append(starts, enc + 1)
  /\ missing' = FALSE
  /\ job' = "active" /\ chunk' = Rotate(enc)
  /\ UNCHANGED <<enc, submitted, disk, ring, active, evict, slotVars, replicaVars, faults, ghostVars>>

\* The installation fails: the archive is renamed back and nothing announced.
RestoreLive ==
  /\ job = "install"
  /\ faults < MaxFaults
  /\ faults' = faults + 1
  /\ missing' = FALSE
  /\ job' = "idle" /\ UNCHANGED chunk
  /\ UNCHANGED <<enc, submitted, disk, starts, ring, active, evict, slotVars,
                 replicaVars, ghostVars>>

-----------------------------------------------------------------------------
(* The handler: accepting a replica *)

NoWalk == archives' = 0 /\ files' = 0 /\ file' = 0 /\ header' = 0 /\ fd' = 0

\* Start a walk of the journal from position from.
StartPass(why, from) ==
  /\ step' = "list" /\ pass' = why /\ end' = from
  /\ NoWalk
  /\ UNCHANGED <<base, sent>>

Goto(next) == step' = next /\ UNCHANGED <<localVars, walkVars>>
Fail == Goto("exit")

\* The slot's locals outside a session.
Forget(next) ==
  /\ step' = next /\ pass' = "none" /\ base' = 0 /\ sent' = 0 /\ end' = 0
  /\ NoWalk

\* The replica reconnects into the free slot; its handshake is its position.
Connect ==
  /\ step = "idle"
  /\ link' = TRUE
  /\ step' = "validate" /\ base' = accum
  /\ closed' = FALSE
  /\ UNCHANGED <<sideVars, flagVars, pass, sent, end, walkVars, accum, marks,
                 stale, skewed>>

\* The replica's position must be on this node's disk before it is believed.
Validate ==
  /\ step = "validate"
  /\ base <= disk
  /\ StartPass("probe", base)
  /\ UNCHANGED <<sideVars, flagVars, replicaVars, ghostVars>>

\* The retries run out while the position is still ahead of the disk.
ValidateExpires ==
  /\ step = "validate"
  /\ base > disk
  /\ faults < MaxFaults
  /\ faults' = faults + 1
  /\ Goto("snapshot")
  /\ UNCHANGED <<journalVars, seqVars, flagVars, replicaVars, ghostVars>>

\* preflight_snapshot_transfer: no snapshot to send, so no verdict goes out.
Preflight ==
  /\ step = "snapshot"
  /\ Fail
  /\ UNCHANGED <<sideVars, flagVars, replicaVars, ghostVars>>

-----------------------------------------------------------------------------
(* The handler: a walk of the journal *)

Archives == IF missing THEN Len(starts) ELSE Len(starts) - 1

\* list_archives, the first half of discover_journal_files.
ListArchives ==
  /\ step = "list"
  /\ step' = "stat" /\ archives' = Archives
  /\ UNCHANGED <<localVars, files, file, header, fd, sideVars, flagVars,
                 replicaVars, ghostVars>>

\* journal_path.exists(), the second half.
StatLive ==
  /\ step = "stat"
  /\ step' = "choose"
  /\ files' = IF missing THEN archives ELSE archives + 1
  /\ skewed' = (skewed \/ (missing /\ archives < Len(starts)))
  /\ UNCHANGED <<localVars, archives, file, header, fd, sideVars, flagVars,
                 replicaVars, stale, closed>>

\* The paths discovered, oldest first, and the segment a path names now
\* (0: no such file).
Files == 1..files
Segment(i) ==
  IF i <= archives
  THEN IF i <= Archives THEN i ELSE 0
  ELSE IF missing THEN 0 ELSE Len(starts)

\* can_catch_up_from_journal, by the oldest header alone.
Probe ==
  /\ step = "choose" /\ pass = "probe"
  /\ IF Files = {} THEN StartPass("bulk", base)
     ELSE IF Segment(1) = 0 THEN Fail
     ELSE IF starts[Segment(1)] <= base + 1 THEN StartPass("bulk", base)
     ELSE Goto("snapshot")
  /\ UNCHANGED <<sideVars, flagVars, replicaVars, ghostVars>>

\* Faulty variant: the bound starts from the handshake alone.
SeedFromHandshake(handshake, last) == handshake

\* SentHighWater::seed.
seed(handshake, last) == Max({handshake, last})

\* What the caller of a pass does with its end.
FinishPass ==
  /\ \/ pass = "bulk" /\ step' = "activate" /\ UNCHANGED sent
     \/ pass = "residual" /\ step' = "drain" /\ sent' = seed(base, end)
     \/ pass = "refill" /\ step' = "reclassify" /\ sent' = Max({sent, end})
  /\ NoWalk
  /\ UNCHANGED <<pass, base, end>>

\* containing_segment: headers are read from the newest path down to the first
\* that starts at or before the next sequence needed.
Readable(i) == i \in Files /\ Segment(i) # 0
Containing(i) ==
  /\ Readable(i) /\ starts[Segment(i)] <= end + 1
  /\ \A j \in Files : j > i => Readable(j) /\ starts[Segment(j)] > end + 1

ChooseStart ==
  /\ step = "choose" /\ pass # "probe"
  /\ \/ Files = {} /\ FinishPass
     \/ \E i \in Files :
          /\ Containing(i)
          /\ step' = "header" /\ file' = i /\ header' = Segment(i)
          /\ UNCHANGED <<localVars, archives, files, fd>>
     \/ Files # {} /\ (\A i \in Files : ~Containing(i)) /\ Fail
  /\ UNCHANGED <<sideVars, flagVars, replicaVars, ghostVars>>

\* Read the next file's header: a stream that stands exactly on the opening of
\* a later segment announces the boundary.
ReadHeader ==
  LET s == Segment(file)
  IN /\ step = "header"
     /\ IF s = 0
        THEN Fail /\ UNCHANGED replicaVars
        ELSE /\ step' = "open" /\ header' = s
             /\ UNCHANGED <<localVars, archives, files, file, fd>>
             /\ IF starts[s] > 1 /\ end = starts[s] - 1
                THEN Receive(Rotate(end))
                ELSE UNCHANGED replicaVars
     /\ skewed' = (skewed \/ s \notin {0, header})
     /\ UNCHANGED <<sideVars, flagVars, stale, closed>>

\* Open the same path a second time, for its entries.
OpenScanner ==
  LET s == Segment(file)
  IN /\ step = "open"
     /\ IF s = 0
        THEN Fail
        ELSE /\ step' = "read" /\ fd' = s
             /\ UNCHANGED <<localVars, archives, files, file, header>>
     /\ skewed' = (skewed \/ s \notin {0, header})
     /\ UNCHANGED <<sideVars, flagVars, replicaVars, stale, closed>>

\* The entries of the open file that a scan can see past the position.
LastIn(k) == IF k < Len(starts) THEN starts[k + 1] - 1 ELSE disk
Unread == {e \in starts[fd]..LastIn(fd) : e > end}

ReadBatch ==
  /\ step = "read"
  /\ \E last \in Unread :
       /\ Receive(Batch(Min(Unread), last))
       /\ end' = last
  /\ UNCHANGED <<step, pass, base, sent, walkVars, sideVars, flagVars,
                 ghostVars>>

EndOfFile ==
  /\ step = "read"
  /\ Unread = {}
  /\ IF file + 1 \notin Files
     THEN FinishPass
     ELSE /\ step' = "header" /\ file' = file + 1 /\ header' = fd + 1 /\ fd' = 0
          /\ UNCHANGED <<localVars, archives, files>>
  /\ UNCHANGED <<sideVars, flagVars, replicaVars, ghostVars>>

-----------------------------------------------------------------------------
(* The handler: the bridge to the live ring *)

\* bridge_catchup_to_live: the ring is activated before the residual pass.
Activate ==
  /\ step = "activate"
  /\ active' = TRUE
  /\ StartPass("residual", end)
  /\ stale' = Len(ring)
  /\ UNCHANGED <<sideVars, ring, evict, replicaVars, closed, skewed>>

\* Faulty variant: a boundary at the position counts as streamed.
CoverBoundary(c, at) ==
  IF c.end <= at THEN "Covered"
  ELSE IF IsRotate(c) \/ c.first > at + 1 THEN "Ahead" ELSE "Next"

\* Faulty variant: no chunk is ever ahead.
NeverAhead(c, at) == IF c.end < at THEN "Covered" ELSE "Next"

\* RingChunk::classify: where a chunk stands against the stream position.
classify(c, at) ==
  IF IsRotate(c)
  THEN IF c.end < at THEN "Covered" ELSE IF c.end > at THEN "Ahead" ELSE "Next"
  ELSE IF c.end <= at THEN "Covered"
       ELSE IF c.first > at + 1 THEN "Ahead" ELSE "Next"

Commit ==
  /\ ring' = Tail(ring)
  /\ stale' = IF stale = 0 THEN 0 ELSE stale - 1

DrainEmpty ==
  /\ step = "drain"
  /\ ring = <<>>
  /\ Goto("live")
  /\ UNCHANGED <<sideVars, flagVars, replicaVars, ghostVars>>

DrainCovered ==
  /\ step = "drain"
  /\ ring # <<>> /\ classify(Head(ring), sent) = "Covered"
  /\ Commit
  /\ UNCHANGED <<sideVars, active, evict, slotVars, replicaVars, closed,
                 skewed>>

\* The first chunk is past the position: hold it and read the disk again.
DrainAhead ==
  /\ step \in DrainSteps
  /\ ring # <<>> /\ classify(Head(ring), sent) = "Ahead"
  /\ StartPass("refill", sent)
  /\ UNCHANGED <<sideVars, flagVars, replicaVars, ghostVars>>

\* The bridge's deadline passes with the chunk still ahead.
DrainExpires ==
  /\ step = "reclassify"
  /\ classify(Head(ring), sent) = "Ahead"
  /\ faults < MaxFaults
  /\ faults' = faults + 1
  /\ Fail
  /\ UNCHANGED <<journalVars, seqVars, flagVars, replicaVars, ghostVars>>

\* The held chunk is forwarded, a batch only if it still holds something new;
\* the first batch ends the drain.
DrainForward ==
  /\ ring # <<>>
  /\ LET c == Head(ring)
         fate == classify(c, sent)
     IN /\ \/ step = "drain" /\ fate = "Next"
           \/ step = "reclassify" /\ fate # "Ahead"
        /\ IF IsRotate(c) \/ c.end > sent
           THEN Receive(c) ELSE UNCHANGED replicaVars
        /\ step' = IF IsRotate(c) THEN "drain" ELSE "live"
        /\ sent' = IF IsRotate(c) THEN sent ELSE Max({sent, c.end})
        /\ end' = 0 /\ pass' = "none"
        /\ closed' = (~IsRotate(c) /\ stale = 0)
  /\ Commit
  /\ UNCHANGED <<base, walkVars, sideVars, active, evict, skewed>>

\* live_stream_uring: whatever the ring holds goes out as it is.
LiveForward ==
  /\ step = "live"
  /\ ring # <<>>
  /\ Receive(Head(ring))
  /\ sent' = Max({sent, Head(ring).end})
  /\ Commit
  /\ UNCHANGED <<step, pass, base, end, walkVars, sideVars, active, evict,
                 closed, skewed>>

\* Faulty variant: the flag is looked at only when there is a chunk to forward.
EvictedWithChunk ==
  /\ step = "live"
  /\ evict
  /\ ring # <<>>
  /\ Fail
  /\ UNCHANGED <<sideVars, flagVars, replicaVars, ghostVars>>

LiveEvicted ==
  /\ step = "live"
  /\ evict
  /\ Fail
  /\ UNCHANGED <<sideVars, flagVars, replicaVars, ghostVars>>

\* A write to a link the receiver has left fails, sooner or later.
LinkError ==
  /\ ~link
  /\ step \in Session
  /\ Fail
  /\ UNCHANGED <<sideVars, flagVars, replicaVars, ghostVars>>

-----------------------------------------------------------------------------
(* The supervisor and the network *)

\* The joined handler's consumer drops what it had not read.
SkipToProducer ==
  /\ step = "exit"
  /\ ring' = <<>> /\ stale' = 0
  /\ link' = FALSE
  /\ Forget("disengage")
  /\ UNCHANGED <<sideVars, active, evict, accum, marks, closed, skewed>>

\* disengage_slot: the sequencer stops publishing from here on.
Disengage ==
  /\ step = "disengage"
  /\ active' = FALSE
  /\ Goto("clear")
  /\ UNCHANGED <<sideVars, ring, evict, replicaVars, ghostVars>>

ClearEvict ==
  /\ step = "clear"
  /\ evict' = FALSE
  /\ Goto("idle")
  /\ UNCHANGED <<sideVars, ring, active, replicaVars, ghostVars>>

\* The link breaks, for whatever reason.
Disconnect ==
  /\ link
  /\ faults < MaxFaults
  /\ faults' = faults + 1
  /\ link' = FALSE
  /\ UNCHANGED <<journalVars, seqVars, flagVars, slotVars, accum, marks,
                 ghostVars>>

-----------------------------------------------------------------------------

Publishing == LoadActive \/ LoadEvict \/ TryPublish \/ StoreEvict \/ Submit
Rotating == ArchiveLive \/ InstallLive
Sequencer == Encode \/ Publishing \/ ArmRotation \/ Rotating \/ RestoreLive

Walk == \/ ListArchives \/ StatLive \/ Probe \/ ChooseStart
        \/ ReadHeader \/ OpenScanner \/ ReadBatch \/ EndOfFile

Bridge == \/ Activate \/ DrainEmpty \/ DrainCovered \/ DrainAhead \/ DrainForward
          \/ LiveForward \/ LiveEvicted

Slot == \/ Connect \/ Validate \/ Preflight \/ Walk \/ Bridge \/ LinkError
        \/ SkipToProducer \/ Disengage \/ ClearEvict

Next == \/ Sequencer \/ DiskWrite \/ Slot
        \/ ValidateExpires \/ DrainExpires \/ Disconnect

Spec == Init /\ [][Next]_vars

\* Every thread runs: a publication and a rotation under way are finished, the
\* disk thread writes, the handler and the supervisor step, and the replica
\* reconnects.  Nothing obliges a client to send or a link to break.
FairSpec == Spec /\ WF_vars(Publishing) /\ WF_vars(Rotating)
                 /\ WF_vars(DiskWrite) /\ WF_vars(Slot)

-----------------------------------------------------------------------------
(* Properties *)

\* Every variable keeps its type: the flags and cursors of the slot, the
\* handler's locals, and a ring within its capacity.
TypeOK ==
  /\ enc \in 0..MaxSeq /\ submitted \in 0..enc /\ disk \in 0..submitted
  /\ starts \in Seq(1..(MaxSeq + 1)) /\ Len(starts) \in 1..MaxSegments
  /\ missing \in BOOLEAN /\ active \in BOOLEAN /\ evict \in BOOLEAN
  /\ job \in {"idle", "active", "evicted", "publish", "full", "submit",
                 "rotate", "install"}
  /\ chunk \in Chunks
  /\ ring \in Seq(Chunks) /\ Len(ring) <= RingCapacity
  /\ step \in Session \union Reclaim \union {"idle"}
  /\ pass \in Passes
  /\ {base, sent, end} \subseteq 0..MaxSeq
  /\ {archives, files, file, header, fd} \subseteq 0..(MaxSegments + 1)
  /\ link \in BOOLEAN /\ accum \in 0..enc /\ marks \subseteq 1..MaxSeq
  /\ stale \in 0..Len(ring) /\ faults \in 0..MaxFaults

Boundaries == {starts[k] - 1 : k \in 2..Len(starts)}

\* A chunk follows on from stream position p.
Follows(p, c) == IF IsRotate(c) THEN c.end = p ELSE c.first = p + 1

\* A truthful ack is never beyond what the primary counts as sent
\* (SentHighWater): with the bound ReplicaCursors::record_ack checks acks
\* against, no order of catch-up, back-fill and ring evicts a healthy replica.
AcksWithinSent ==
  step \in DrainSteps \union {"live"} => accum <= sent

\* A replica that has taken an entry past a rotation of the primary has been
\* told of the boundary at its exact position, from the ring or from a walk of
\* the files, in this session or an earlier one - unless a rotation once moved
\* the files under a walk: it listed them before and read them after.
BoundaryAnnounced ==
  ~skewed => \A b \in Boundaries : b < accum => b \in marks

\* The chunks published since the slot was activated follow on from one another
\* (publish_to_replication_rings): one that does not fit evicts the replica,
\* and nothing is published again before the slot is reclaimed.
FreshChunksDense ==
  \A i \in (stale + 1)..(Len(ring) - 1) : Follows(ring[i].end, ring[i + 1])

\* The slot's ring never exceeds its capacity and, behind what an earlier
\* session left, holds a stream without a hole (try_publish, evict).
RingInOrder == TypeOK /\ FreshChunksDense

\* Once the drain has met a chunk of its own session the gap is closed for
\* good (bridge_catchup_to_live): neither that chunk nor any the live loop
\* forwards after it makes the receiver's contiguity gate end the session.
GateSilentOnceBridged ==
  [][(step \in DrainSteps \union {"live"} /\ link /\ ~link' /\ faults' = faults)
       => ~closed']_vars

\* Whatever breaks on the way, the replica ends up holding everything the
\* primary has submitted, or live on an empty ring that the drain could not
\* prove contiguous - the corner that bridge_catchup_to_live leaves to the next
\* entry and the receiver's gate.
CaughtUpOrStranded ==
  <>[](accum = submitted \/ (step = "live" /\ ring = <<>> /\ ~closed))
=============================================================================
