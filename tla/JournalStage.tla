----------------------------- MODULE JournalStage -----------------------------
(***************************************************************************)
(* The journal stage: the sequencing thread that encodes the input ring    *)
(* into batches, and the disk thread that writes, syncs and publishes      *)
(* them (transport-core/src/pipeline.rs, journal_disk.rs; the hand-off     *)
(* ring of journal/src/write_ring.rs).  On a replica the receiver feeds    *)
(* the stage slots stamped with the primary's sequences and, on a second   *)
(* queue, marks: a rotation to adopt or a chain value to compare, each at  *)
(* an exact sequence.                                                      *)
(*                                                                         *)
(* An entry is its sequence; a segment is its starting sequence; a chain   *)
(* value is whether it agrees with the primary's (diverged).  A ring       *)
(* position is the number of slots before it.  Not here: the bytes, the    *)
(* group-commit clock (a sync may be delayed or not), the replication      *)
(* rings (CatchupHandoff), the segment preparer, the advertised tip (a     *)
(* monotone copy of durable), and the input ring's own limits (Ring).      *)
(***************************************************************************)
EXTENDS Integers, Sequences, FiniteSetsExt

CONSTANTS
  Roles,       \* the roles a behaviour may have: "primary", "replica"
  MaxSlots,    \* bound on the slots published to the input ring
  MaxBatch,    \* slots encoded under one hand-off batch (MAX_BATCH)
  RingDepth,   \* hand-off batches in the write ring (DEFAULT_CAPACITY)
  MaxFail      \* bound on the rotations that fail

ASSUME JournalStageBounds ==
  /\ Roles \subseteq {"primary", "replica"}
  /\ MaxSlots \in Nat /\ MaxFail \in Nat
  /\ MaxBatch \in Nat \ {0} /\ RingDepth \in Nat \ {0}

VARIABLES
  role, boundaries, diverged,                            \* fixed at the start
  slots, announced, compared, marks, shutdown, rotateRequested,  \* upstream
  firstMark,             \* history: the first mark a diverged replica is shown
  pc, from, pos, readEnd, handed, segStart, pendingMark, claim,  \* sequencer
  backoff, sawShutdown, drainFrom, outcome,
  batches, stop, rotation, poisoned, cause,                 \* the hand-off
  dpc, stopSampled, staged, placed, synced, live, failures,      \* disk thread
  progress, fsync, durable                        \* the durability cursors

lineage == <<role, boundaries, diverged>>
upstream == <<slots, announced, compared, marks, shutdown, rotateRequested,
              firstMark>>
sequencer == <<pc, from, pos, readEnd, handed, segStart, pendingMark, claim,
               backoff, sawShutdown, drainFrom, outcome>>
handOff == <<batches, stop, rotation, poisoned, cause>>
cursors == <<progress, fsync, durable>>
disk == <<dpc, stopSampled, staged, placed, synced, live, failures, cursors>>
vars == <<lineage, upstream, sequencer, handOff, disk>>

NoMark == [kind |-> "none", seq |-> 0]
Mark(kind, seq) == [kind |-> kind, seq |-> seq]
RotateSlot(kind, start) == [kind |-> kind, start |-> start]

\* Entries among the first p slots: queries and the sentinel take no sequence.
SeqAt(p) == Cardinality({i \in 1..p : slots[i] = "entry"})

\* The last sequence encoded: next_sequence - 1.
At == SeqAt(pos)
Pending == pos - handed
Ended == pc \in {"done", "failed"}

Init ==
  /\ role \in Roles
  /\ boundaries \in SUBSET (IF role = "replica" THEN 1..(MaxSlots - 1) ELSE {})
  /\ diverged \in (IF role = "replica" THEN BOOLEAN ELSE {FALSE})
  /\ slots = <<>> /\ announced = 0 /\ compared = FALSE /\ marks = <<>>
  /\ firstMark = 0
  /\ shutdown = FALSE /\ rotateRequested = FALSE
  /\ pc = "top" /\ from = "none" /\ pos = 0 /\ readEnd = 0 /\ handed = 0
  /\ segStart = 1 /\ pendingMark = NoMark /\ claim = FALSE
  /\ backoff = "none" /\ sawShutdown = FALSE /\ drainFrom = MaxSlots + 1
  /\ outcome = "none"
  /\ batches = <<>> /\ stop = FALSE /\ rotation = RotateSlot("idle", 0)
  /\ poisoned = FALSE /\ cause = FALSE
  /\ dpc = "loop" /\ stopSampled = FALSE /\ staged = 0
  /\ placed = <<>> /\ synced = 0 /\ live = 1 /\ failures = 0
  /\ progress = 0 /\ fsync = [seq |-> 0, ring |-> 0] /\ durable = 0

-----------------------------------------------------------------------------
(***************************************************************************)
(* Upstream: the readers of a primary, or the replication receiver.  The   *)
(* receiver queues a mark when the stream stands exactly on it, before it  *)
(* commits any slot past it; a boundary may be announced twice.            *)
(***************************************************************************)
Feeding == ~Ended /\ ~(\E i \in 1..Len(slots) : slots[i] = "shutdown")

Publish(kind) ==
  /\ Feeding /\ Len(slots) < MaxSlots
  /\ slots' = Append(slots, kind)
  /\ announced' = 0 /\ compared' = FALSE
  /\ UNCHANGED <<lineage, marks, firstMark, shutdown, rotateRequested, sequencer,
                 handOff,
                 disk>>

PublishEntry ==
  /\ Len(slots) \in boundaries => announced > 0
  /\ Publish("entry")

PublishQuery == role = "primary" /\ Publish("query")

PublishSentinel == Publish("shutdown")

QueueStreamMark(mark) ==
  /\ marks' = Append(marks, mark)
  /\ firstMark' = IF diverged /\ firstMark = 0 THEN mark.seq ELSE firstMark
  /\ UNCHANGED <<lineage, slots, shutdown, rotateRequested, sequencer, handOff,
                 disk>>

QueueRotate ==
  /\ Feeding /\ Len(slots) \in boundaries /\ announced < 2
  /\ announced' = announced + 1 /\ UNCHANGED compared
  /\ QueueStreamMark(Mark("rotate", Len(slots)))

QueueChainCheck ==
  /\ Feeding /\ role = "replica" /\ Len(slots) > 0 /\ ~compared
  /\ compared' = TRUE /\ UNCHANGED announced
  /\ QueueStreamMark(Mark("check", Len(slots)))

AskRotation ==
  /\ role = "primary" /\ ~Ended /\ ~rotateRequested
  /\ rotateRequested' = TRUE
  /\ UNCHANGED <<lineage, slots, announced, compared, marks, firstMark, shutdown,
                 sequencer, handOff, disk>>

RaiseShutdown ==
  /\ ~shutdown /\ ~Ended
  /\ shutdown' = TRUE
  /\ UNCHANGED <<lineage, slots, announced, compared, marks, firstMark,
                 rotateRequested, sequencer, handOff, disk>>

Upstream ==
  \/ PublishEntry \/ PublishQuery \/ PublishSentinel
  \/ QueueRotate \/ QueueChainCheck \/ AskRotation \/ RaiseShutdown

-----------------------------------------------------------------------------
(***************************************************************************)
(* The sequencing thread.  pc names the place in Sequencer::sequence; from *)
(* is the call of apply_stream_marks or maybe_rotate under way.            *)
(***************************************************************************)

\* Leave the loop: halt_disk_thread, or finish once outcome is "ok".
Leave(why) ==
  /\ outcome' = why
  /\ pc' = IF why = "ok" THEN "finish" ELSE "halt"

\* take_poison: the cause is handed out once.
TakePoison == IF cause THEN "poison" ELSE "poison, no cause"

FailPoisoned ==
  /\ poisoned
  /\ Leave(TakePoison) /\ cause' = FALSE
  /\ UNCHANGED <<lineage, upstream, from, pos, readEnd, handed, segStart,
                 pendingMark, claim, backoff, sawShutdown, drainFrom, batches,
                 stop, rotation, poisoned, disk>>

SeesPoison == pc = "top" /\ FailPoisoned

SeesShutdown ==
  /\ pc = "top" /\ ~poisoned /\ shutdown
  /\ pc' = "drain" /\ drainFrom' = At
  /\ UNCHANGED <<lineage, upstream, from, pos, readEnd, handed, segStart,
                 pendingMark, claim, backoff, sawShutdown, outcome, handOff,
                 disk>>

\* read_contiguous: some of what is published, never nothing when there is some.
Readable(room) ==
  LET ready == Min({Len(slots) - pos, room})
  IN IF ready = 0 THEN {pos} ELSE (pos + 1)..(pos + ready)

Read ==
  /\ pc = "top" /\ ~poisoned /\ ~shutdown
  /\ readEnd' \in Readable(MaxBatch - Pending)
  /\ pc' = IF readEnd' > pos THEN "refresh" ELSE "sync"
  /\ UNCHANGED <<lineage, upstream, from, pos, handed, segStart, pendingMark,
                 claim, backoff, sawShutdown, drainFrom, outcome, handOff, disk>>

\* refresh_pending_mark: what it leaves in pendingMark and in the queue.
Refreshed(held) ==
  IF held.kind = "none" /\ marks # <<>> THEN Head(marks) ELSE held
QueueAfterRefresh(held) ==
  IF held.kind = "none" /\ marks # <<>> THEN Tail(marks) ELSE marks

RefreshPendingMark ==
  /\ pc = "refresh" /\ pc' = "encode"
  /\ pendingMark' = Refreshed(pendingMark)
  /\ marks' = QueueAfterRefresh(pendingMark)
  /\ UNCHANGED <<lineage, slots, announced, compared, firstMark, shutdown,
                 rotateRequested,
                 from, pos, readEnd, handed, segStart, claim, backoff,
                 sawShutdown, drainFrom, outcome, handOff, disk>>

\* The first entry past the pending mark ends the span (slot i of a replica
\* holds sequence i; the sentinel carries none).
MarkSplit ==
  LET past == {i \in (pos + 1)..readEnd :
                 slots[i] = "entry" /\ i > pendingMark.seq}
  IN IF pendingMark.kind = "none" \/ past = {} THEN readEnd ELSE Min(past) - 1

\* The span stops short of the sentinel.
SpanEnd(end) ==
  IF \E i \in (pos + 1)..end : slots[i] = "shutdown" THEN end - 1 ELSE end

\* try_claim: a slot is held already, or the write ring has room.
CanClaim == claim \/ Len(batches) < RingDepth

\* A full write ring: the sequencer waits, or fails with the disk thread.
ClaimFails == ~CanClaim /\ FailPoisoned

Encode ==
  /\ pc = "encode"
  /\ LET end == SpanEnd(MarkSplit) IN
     /\ SeqAt(end) > At => CanClaim
     /\ claim' = (claim \/ SeqAt(end) > At)
     /\ pos' = end
     /\ sawShutdown' = (end < MarkSplit)
     /\ pc' = IF MarkSplit = readEnd THEN "sync" ELSE "resolve"
     /\ from' = IF MarkSplit = readEnd THEN from ELSE "inline"
  /\ UNCHANGED <<lineage, upstream, readEnd, handed, segStart, pendingMark,
                 backoff, drainFrom, outcome, handOff, disk>>

EncodeFails == pc = "encode" /\ SeqAt(MarkSplit) > At /\ ClaimFails

\* submit_batch: the slot carries the entries after base up to seq, and the
\* ring position that their durability makes true.
SubmitBatch(target) ==
  /\ CanClaim
  /\ batches' = Append(batches, [base |-> SeqAt(handed), seq |-> At, ring |-> target])
  /\ claim' = FALSE /\ handed' = target
  /\ UNCHANGED <<stop, rotation, poisoned, cause>>

\* The read cursor, which covers slots not encoded yet.
BarrierTargetReadCursor == readEnd

\* The ring position of the boundary slot.
BarrierTarget == pos

\* The barrier in the middle of a batch, once the inline checks have run.
BarrierSubmit ==
  /\ pc = "barrier" /\ pendingMark.kind = "rotate" /\ Pending > 0
  /\ SubmitBatch(BarrierTarget)
  /\ UNCHANGED <<lineage, upstream, pc, from, pos, readEnd, segStart,
                 pendingMark, backoff, sawShutdown, drainFrom, outcome, disk>>

BarrierApply ==
  /\ pc = "barrier" /\ pendingMark.kind = "rotate" /\ Pending = 0
  /\ pc' = "resolve" /\ from' = "barrier"
  /\ UNCHANGED <<lineage, upstream, pos, readEnd, handed, segStart, pendingMark,
                 claim, backoff, sawShutdown, drainFrom, outcome, handOff, disk>>

BarrierPasses ==
  /\ pc = "barrier" /\ pendingMark.kind # "rotate" /\ pc' = "encode"
  /\ UNCHANGED <<lineage, upstream, from, pos, readEnd, handed, segStart,
                 pendingMark, claim, backoff, sawShutdown, drainFrom, outcome,
                 handOff, disk>>

\* The sync point: hand the batch over, or let the group-commit delay run.
SyncPoint ==
  /\ pc = "sync" /\ Pending > 0
  /\ SubmitBatch(readEnd)
  /\ pc' = "rotate?"
  /\ UNCHANGED <<lineage, upstream, from, pos, readEnd, segStart, pendingMark,
                 backoff, sawShutdown, drainFrom, outcome, disk>>

SyncDelayed ==
  /\ pc = "sync" /\ Pending \in 1..(MaxBatch - 1)
  /\ pc' = "tail"
  /\ UNCHANGED <<lineage, upstream, from, pos, readEnd, handed, segStart,
                 pendingMark, claim, backoff, sawShutdown, drainFrom, outcome,
                 handOff, disk>>

SubmitFails ==
  /\ \/ pc = "barrier" /\ pendingMark.kind = "rotate" /\ Pending > 0
     \/ pc = "sync" /\ Pending > 0
     \/ pc = "tail" /\ sawShutdown /\ Pending > 0
     \/ pc = "drain" /\ (Pending > 0 \/ pos < Len(slots))
  /\ ClaimFails

\* Nothing pending: a queued mark is applied at once, unless a failed rotation
\* left a backoff; that retry is the amortized one.
MarksOutstanding == pendingMark.kind # "none" \/ marks # <<>>

\* No retry of a rotation that failed.
IdleApplyOnce ==
  /\ pc = "sync" /\ Pending = 0 /\ MarksOutstanding /\ backoff = "none"
  /\ pc' = "resolve" /\ from' = "idle"
  /\ UNCHANGED <<lineage, upstream, pos, readEnd, handed, segStart, pendingMark,
                 claim, backoff, sawShutdown, drainFrom, outcome, handOff, disk>>

IdleApply ==
  /\ pc = "sync" /\ Pending = 0 /\ MarksOutstanding
  /\ pc' = "resolve" /\ from' = "idle"
  /\ UNCHANGED <<lineage, upstream, pos, readEnd, handed, segStart, pendingMark,
                 claim, backoff, sawShutdown, drainFrom, outcome, handOff, disk>>

Idle ==
  /\ pc = "sync" /\ Pending = 0
  /\ MarksOutstanding => backoff # "none"
  /\ pc' = "tail"
  /\ UNCHANGED <<lineage, upstream, from, pos, readEnd, handed, segStart,
                 pendingMark, claim, backoff, sawShutdown, drainFrom, outcome,
                 handOff, disk>>

\* The end of an iteration: the sentinel ends the loop, its last batch handed
\* over first.
TailSubmit ==
  /\ pc = "tail" /\ sawShutdown /\ Pending > 0
  /\ SubmitBatch(readEnd)
  /\ UNCHANGED <<lineage, upstream, pc, from, pos, readEnd, segStart,
                 pendingMark, backoff, sawShutdown, drainFrom, outcome, disk>>

TailEnd ==
  /\ pc = "tail" /\ (sawShutdown => Pending <= 0)
  /\ IF sawShutdown THEN Leave("ok") ELSE pc' = "top" /\ UNCHANGED outcome
  /\ UNCHANGED <<lineage, upstream, from, pos, readEnd, handed, segStart,
                 pendingMark, claim, backoff, sawShutdown, drainFrom, handOff,
                 disk>>

\* The shutdown flag: everything published is encoded, marks are ignored.
DrainSubmit ==
  /\ pc = "drain" /\ Pending > 0
  /\ SubmitBatch(readEnd)
  /\ UNCHANGED <<lineage, upstream, pc, from, pos, readEnd, segStart,
                 pendingMark, backoff, sawShutdown, drainFrom, outcome, disk>>

DrainRemaining ==
  /\ pc = "drain" /\ Pending = 0 /\ pos < Len(slots)
  /\ \E end \in Readable(MaxBatch) :
       /\ SeqAt(end) > At => CanClaim
       /\ claim' = (claim \/ SeqAt(end) > At)
       /\ pos' = end /\ readEnd' = end
  /\ UNCHANGED <<lineage, upstream, pc, from, handed, segStart, pendingMark,
                 backoff, sawShutdown, drainFrom, outcome, handOff, disk>>

DrainDone ==
  /\ pc = "drain" /\ Pending = 0 /\ pos = Len(slots)
  /\ Leave("ok")
  /\ UNCHANGED <<lineage, upstream, from, pos, readEnd, handed, segStart,
                 pendingMark, claim, backoff, sawShutdown, drainFrom, handOff,
                 disk>>

-----------------------------------------------------------------------------
(***************************************************************************)
(* apply_stream_marks: resolve_stream_marks takes one mark per step; a     *)
(* rotation due at the writer's position goes on to the rendezvous with    *)
(* the disk thread, when the caller has quiesced the writer.               *)
(***************************************************************************)
Quiesced == from # "inline"

Return == CASE from = "inline"  -> "barrier"
            [] from = "barrier" -> "encode"
            [] from = "local"   -> "resolve"
            [] OTHER            -> "tail"

\* After maybe_rotate the sync point applies the marks.
ReturnFrom == IF from = "local" THEN "sync" ELSE from

HeldMark == Refreshed(pendingMark)

\* A mark already adopted (the live segment starts right past it).
Adopted(mark) == mark.kind = "rotate" /\ segStart = mark.seq + 1

\* The comparison with the primary's value left out.
ChainUnchecked == TRUE

\* The local chain value is the one the mark carries.
ChainAgrees == ~diverged

\* The arms of resolve_stream_marks, in the order they are tried.
ResolveOutcome(mark) ==
  IF      mark.kind = "none" \/ At < mark.seq     THEN "return"
  ELSE IF Adopted(mark)                           THEN "settle"
  ELSE IF At > mark.seq                           THEN "ordering"
  ELSE IF mark.kind = "rotate" /\ ~Quiesced       THEN "return"
  ELSE IF ~ChainAgrees                            THEN "divergence"
  ELSE IF mark.kind = "check"                     THEN "settle"
  ELSE IF backoff = "open"                        THEN "return"
  ELSE "rotate"

ResolveStreamMarks ==
  LET mark == HeldMark
      what == ResolveOutcome(mark)
  IN
  /\ pc = "resolve"
  /\ marks' = QueueAfterRefresh(pendingMark)
  /\ pendingMark' = IF what = "settle" THEN NoMark ELSE mark
  /\ backoff' = IF what = "rotate" THEN "none" ELSE backoff
  /\ \/ what = "settle" /\ UNCHANGED <<pc, from, outcome>>
     \/ what = "return" /\ pc' = Return /\ from' = ReturnFrom /\ UNCHANGED outcome
     \/ what = "rotate" /\ pc' = "quiesce" /\ UNCHANGED <<from, outcome>>
     \/ what \in {"ordering", "divergence"} /\ Leave(what) /\ UNCHANGED from
  /\ UNCHANGED <<lineage, slots, announced, compared, firstMark, shutdown,
                 rotateRequested,
                 pos, readEnd, handed, segStart, claim, sawShutdown, drainFrom,
                 handOff, disk>>

\* local_rotation_armed: the manual flag is consumed whatever follows; the size
\* trigger waits out a backoff; an empty live segment is never rotated.
MaybeRotate ==
  /\ pc = "rotate?"
  /\ rotateRequested' = FALSE
  /\ \E size \in (IF role = "primary" THEN BOOLEAN ELSE {FALSE}) :
       LET armed == /\ rotateRequested \/ (size /\ backoff # "open")
                    /\ At + 1 # segStart
       IN /\ pc' = IF armed THEN "quiesce" ELSE "resolve"
          /\ from' = IF armed THEN "local" ELSE "sync"
  /\ UNCHANGED <<lineage, slots, announced, compared, marks, firstMark, shutdown,
                 pos,
                 readEnd, handed, segStart, pendingMark, claim, backoff,
                 sawShutdown, drainFrom, outcome, handOff, disk>>

\* drain_disk: the disk thread has released every batch.
Drained == batches = <<>>

\* rotate_taking_prepared: drain, then ask; a poisoned disk fails the rotation.
RequestRotation ==
  /\ pc = "quiesce" /\ Drained
  /\ rotation' = RotateSlot("requested", At + 1)
  /\ pc' = "await"
  /\ UNCHANGED <<lineage, upstream, from, pos, readEnd, handed, segStart,
                 pendingMark, claim, backoff, sawShutdown, drainFrom, outcome,
                 batches, stop, poisoned, cause, disk>>

\* The successor left in the queue.
SuccessorLeft == FALSE

\* finish_adoption takes the successor mark at once: it may fall inside the
\* batch already read.
SuccessorTaken == from # "local" /\ marks # <<>>

\* finish_adoption or finish_local_rotation.
RotationDone ==
  /\ pc = "await" /\ rotation.kind = "ok"
  /\ rotation' = RotateSlot("idle", 0)
  /\ segStart' = At + 1
  /\ backoff' = "none"
  /\ pc' = Return /\ from' = ReturnFrom
  /\ pendingMark' = IF SuccessorTaken THEN Head(marks) ELSE NoMark
  /\ marks' = IF SuccessorTaken THEN Tail(marks) ELSE marks
  /\ UNCHANGED <<lineage, slots, announced, compared, firstMark, shutdown,
                 rotateRequested,
                 pos, readEnd, handed, claim, sawShutdown, drainFrom, outcome,
                 batches, stop, poisoned, cause, disk>>

\* fail_adoption: the mark stays, a backoff opens.  Of a poisoned disk thread
\* only the cause is taken: the failure is treated as one of the rotation.  (The
\* wait for the outcome cannot meet a poison: the ring was drained before it.)
RotationFailed ==
  /\ \/ pc = "await" /\ rotation.kind = "failed"
        /\ rotation' = RotateSlot("idle", 0) /\ UNCHANGED cause
     \/ pc = "quiesce" /\ ~Drained /\ poisoned
        /\ cause' = FALSE /\ UNCHANGED rotation
  /\ backoff' = "open"
  /\ pc' = Return /\ from' = ReturnFrom
  /\ UNCHANGED <<lineage, upstream, pos, readEnd, handed, segStart, pendingMark,
                 claim, sawShutdown, drainFrom, outcome, batches, stop, poisoned,
                 disk>>

\* The clock passes rotation_backoff_until.
BackoffExpires ==
  /\ backoff = "open" /\ backoff' = "expired"
  /\ UNCHANGED <<lineage, upstream, pc, from, pos, readEnd, handed, segStart,
                 pendingMark, claim, sawShutdown, drainFrom, outcome, handOff,
                 disk>>

\* A join that forgets the flag.
StopFlagForgotten == stop

\* DiskThread::join stores the stop flag before it waits.
StopFlag == TRUE

\* finish: wait for the disk, then stop and join its thread.
FinishDrained ==
  /\ pc = "finish" /\ Drained
  /\ stop' = StopFlag /\ pc' = "join"
  /\ UNCHANGED <<lineage, upstream, from, pos, readEnd, handed, segStart,
                 pendingMark, claim, backoff, sawShutdown, drainFrom, outcome,
                 batches, rotation, poisoned, cause, disk>>

FinishFails == pc = "finish" /\ ~Drained /\ FailPoisoned

Halt ==
  /\ pc = "halt" /\ stop' = StopFlag /\ pc' = "join"
  /\ UNCHANGED <<lineage, upstream, from, pos, readEnd, handed, segStart,
                 pendingMark, claim, backoff, sawShutdown, drainFrom, outcome,
                 batches, rotation, poisoned, cause, disk>>

Join ==
  /\ pc = "join" /\ dpc = "exited"
  /\ outcome' = IF outcome = "ok" /\ poisoned THEN TakePoison ELSE outcome
  /\ cause' = (cause /\ ~(outcome = "ok" /\ poisoned))
  /\ pc' = IF outcome' = "ok" THEN "done" ELSE "failed"
  /\ UNCHANGED <<lineage, upstream, from, pos, readEnd, handed, segStart,
                 pendingMark, claim, backoff, sawShutdown, drainFrom, batches,
                 stop, rotation, poisoned, disk>>

Sequencing ==
  \/ SeesPoison \/ SeesShutdown \/ Read \/ RefreshPendingMark
  \/ Encode \/ EncodeFails \/ BarrierSubmit \/ BarrierApply \/ BarrierPasses
  \/ SyncPoint \/ SubmitFails \/ Idle \/ TailSubmit \/ TailEnd
  \/ DrainSubmit \/ DrainRemaining \/ DrainDone
  \/ ResolveStreamMarks \/ MaybeRotate \/ RequestRotation \/ RotationDone
  \/ RotationFailed \/ FinishDrained \/ FinishFails \/ Halt \/ Join

-----------------------------------------------------------------------------
(***************************************************************************)
(* The disk thread: JournalDisk::run_loop.                                 *)
(***************************************************************************)

\* stop is sampled before the drain it lets the thread leave after.
SampleStop ==
  /\ dpc = "loop" /\ dpc' = "stage" /\ stopSampled' = stop
  /\ UNCHANGED <<lineage, upstream, sequencer, handOff, staged, placed, synced,
                 live, failures, cursors>>

\* The last staged batch is the one whose cursors are published.
Last == batches[staged]
EntriesOf(batch) == (batch.base + 1)..batch.seq
StagedLen == Cardinality(UNION {EntriesOf(batches[i]) : i \in 1..staged})

StageReady ==
  /\ dpc = "stage"
  /\ staged' = Len(batches)
  /\ dpc' = IF batches = <<>> THEN "rendezvous"
            ELSE IF \E i \in 1..Len(batches) : EntriesOf(batches[i]) # {} THEN "write"
            ELSE "progress"
  /\ UNCHANGED <<lineage, upstream, sequencer, handOff, stopSampled, placed,
                 synced, live, failures, cursors>>

\* One vectored write into the live segment, whole or cut short by an error.
Write ==
  /\ dpc = "write"
  /\ \E n \in 0..StagedLen :
       /\ placed' = placed \o [i \in 1..n |-> live]
       /\ dpc' \in (IF n = StagedLen THEN {"sync", "poison"} ELSE {"poison"})
  /\ UNCHANGED <<lineage, upstream, sequencer, handOff, stopSampled, staged,
                 synced, live, failures, cursors>>

\* A sync error leaves drain_and_sync before anything is published.
AfterSyncError == "poison"

Sync ==
  /\ dpc = "sync"
  /\ \/ dpc' = "progress" /\ synced' = Len(placed)
     \/ dpc' = AfterSyncError /\ UNCHANGED synced
  /\ UNCHANGED <<lineage, upstream, sequencer, handOff, stopSampled, staged,
                 placed, live, failures, cursors>>

\* DurabilityCursors::publish, one store after the other.
PublishProgress ==
  /\ dpc = "progress" /\ dpc' = "fsync state"
  /\ progress' = Last.ring
  /\ UNCHANGED <<lineage, upstream, sequencer, handOff, stopSampled, staged,
                 placed, synced, live, failures, fsync, durable>>

PublishFsyncState ==
  /\ dpc = "fsync state" /\ dpc' = "durable"
  /\ fsync' = [seq |-> Last.seq, ring |-> Last.ring]
  /\ UNCHANGED <<lineage, upstream, sequencer, handOff, stopSampled, staged,
                 placed, synced, live, failures, progress, durable>>

PublishDurable ==
  /\ dpc = "durable" /\ dpc' = "release"
  /\ durable' = Last.seq
  /\ UNCHANGED <<lineage, upstream, sequencer, handOff, stopSampled, staged,
                 placed, synced, live, failures, progress, fsync>>

\* commit: the slots go back to the sequencer last.
Release ==
  /\ dpc = "release" /\ dpc' = "loop"
  /\ batches' = SubSeq(batches, staged + 1, Len(batches)) /\ staged' = 0
  /\ UNCHANGED <<lineage, upstream, sequencer, stop, rotation, poisoned, cause,
                 stopSampled, placed, synced, live, failures, cursors>>

\* The cause is stored before the flag.
StoreCause ==
  /\ dpc = "poison" /\ dpc' = "latch" /\ cause' = TRUE
  /\ UNCHANGED <<lineage, upstream, sequencer, batches, stop, rotation, poisoned,
                 stopSampled, staged, placed, synced, live, failures, cursors>>

\* The loop goes on past the error.
AfterPoisonContinue == "progress"

\* run_loop returns once the error is latched.
AfterPoison == "exited"

LatchPoison ==
  /\ dpc = "latch" /\ dpc' = AfterPoison /\ poisoned' = TRUE
  /\ UNCHANGED <<lineage, upstream, sequencer, batches, stop, rotation, cause,
                 stopSampled, staged, placed, synced, live, failures, cursors>>

\* SegmentFile::rotate, or its failure with the live segment restored.
RotateSegment ==
  /\ dpc = "rendezvous" /\ rotation.kind = "requested" /\ dpc' = "loop"
  /\ \/ /\ live' = rotation.start
        /\ rotation' = RotateSlot("ok", 0) /\ UNCHANGED failures
     \/ /\ failures < MaxFail /\ failures' = failures + 1
        /\ rotation' = RotateSlot("failed", 0) /\ UNCHANGED live
  /\ UNCHANGED <<lineage, upstream, sequencer, batches, stop, poisoned, cause,
                 stopSampled, staged, placed, synced, cursors>>

\* The flag as it is after the drain.
MayLeaveLate == stop

\* The flag as it was before the drain.
MayLeave == stopSampled

NothingToDo ==
  /\ dpc = "rendezvous" /\ rotation.kind # "requested"
  /\ dpc' = IF MayLeave THEN "exited" ELSE "loop"
  /\ UNCHANGED <<lineage, upstream, sequencer, handOff, stopSampled, staged,
                 placed, synced, live, failures, cursors>>

Disk ==
  \/ SampleStop \/ StageReady \/ Write \/ Sync \/ PublishProgress
  \/ PublishFsyncState \/ PublishDurable \/ Release \/ StoreCause \/ LatchPoison
  \/ RotateSegment \/ NothingToDo

Next ==
  \/ Upstream \/ Sequencing \/ SyncDelayed \/ IdleApply \/ BackoffExpires \/ Disk

Spec == Init /\ [][Next]_vars

\* Both threads run, a backoff ends, the group-commit delay ends, and the
\* amortized retry comes round.
FairSpec ==
  /\ Spec
  /\ WF_vars(Sequencing) /\ WF_vars(Disk) /\ WF_vars(BackoffExpires)
  /\ SF_vars(SyncPoint) /\ SF_vars(IdleApply)

-----------------------------------------------------------------------------
TypeOK ==
  /\ role \in Roles /\ boundaries \subseteq 1..MaxSlots /\ diverged \in BOOLEAN
  /\ slots \in Seq({"entry", "query", "shutdown"}) /\ Len(slots) <= MaxSlots
  /\ announced \in 0..2 /\ {compared, shutdown, rotateRequested} \subseteq BOOLEAN
  /\ \A i \in 1..Len(marks) : marks[i] \in [kind : {"rotate", "check"}, seq : 1..MaxSlots]
  /\ pendingMark \in [kind : {"none", "rotate", "check"}, seq : 0..MaxSlots]
  /\ pos \in 0..Len(slots) /\ readEnd \in pos..Len(slots) /\ handed \in 0..readEnd
  /\ segStart \in 1..(At + 1) /\ live \in 1..(At + 1)
  /\ backoff \in {"none", "open", "expired"} /\ drainFrom \in 0..(MaxSlots + 1)
  /\ {claim, sawShutdown, stop, poisoned, cause, stopSampled} \subseteq BOOLEAN
  /\ Len(batches) + (IF claim THEN 1 ELSE 0) <= RingDepth /\ staged \in 0..Len(batches)
  /\ rotation \in [kind : {"idle", "requested", "ok", "failed"}, start : 0..(MaxSlots + 1)]
  /\ synced \in 0..Len(placed) /\ Len(placed) <= At

\* The segment the primary's journal holds entry e in.
SegmentOf(e) == 1 + Max({0} \union {b \in boundaries : b < e})

\* A replica's journal is the primary's, segment by segment: every entry is
\* written into the segment that starts where the primary's does, whichever of
\* the two queues the sequencer looked at first.  Only the shutdown drain, which
\* ignores marks by design, may misframe what it writes.
MirrorFraming ==
  role = "replica" =>
    \A e \in 1..Min({Len(placed), drainFrom}) : placed[e] = SegmentOf(e)

\* The writer never passes a mark before it has resolved it: the error arms of
\* resolve_stream_marks that call it an ordering bug are unreachable.
MarksNeverPassed == outcome # "ordering"

\* A replica rotates where the primary did: no mark is passed unresolved, and
\* every entry lies in the segment it lies in on the primary (MarkSplit,
\* resolve_stream_marks).
FramingFollowsPrimary == MirrorFraming /\ MarksNeverPassed

\* A replica whose chain differs from the primary's writes nothing past the
\* first mark it is shown, and adopts no boundary.
DivergenceStops ==
  diverged =>
    /\ live = 1
    /\ firstMark > 0 => Len(placed) <= firstMark \/ drainFrom <= MaxSlots

\* Every published cursor names entries that are on disk: what a replica acks as
\* persisted, what a response is released for, what a shadow snapshot is tagged
\* with.
CursorsDurable ==
  /\ SeqAt(progress) <= synced /\ fsync.seq <= synced /\ durable <= synced
  /\ durable <= fsync.seq /\ fsync.seq <= SeqAt(progress)

\* The pair handed to the shadow stage describes one prefix of the input ring.
FsyncStateAligned == fsync.seq = SeqAt(fsync.ring)

\* The positions the two threads publish keep their order and their meaning:
\* all of them on disk, the shadow's pair aligned, the write ring never
\* overfull (JournalDisk::publish, WriteRing::try_claim).
CursorsTruthful == TypeOK /\ CursorsDurable /\ FsyncStateAligned

\* A disk thread that leaves without poison leaves nothing behind: every batch
\* handed over before the stop was written, synced and published.
NothingDroppedOnStop ==
  dpc = "exited" /\ ~poisoned =>
    /\ batches = <<>>
    /\ durable = SeqAt(handed) /\ synced = durable /\ progress = handed

\* What the disk thread may never do: call anything durable once the poison is
\* latched, or swap segments before the outgoing one holds, durably, exactly the
\* entries before the boundary (the poison flag, the rotation rendezvous).
DiskThreadSteps ==
  [][/\ poisoned => UNCHANGED <<cursors, synced, placed, live>>
     /\ live' # live => synced = live' - 1 /\ Len(placed) = synced]_vars

\* Every mark queued to a healthy stage is settled, a failing rotation's retries
\* included: it cannot be left waiting for traffic.
MarksSettle == MarksOutstanding ~> (~MarksOutstanding \/ poisoned \/ shutdown \/ Ended)

\* A healthy stage told to shut down ends.
ShutdownCompletes == shutdown ~> (Ended \/ poisoned)

\* journal_disk.rs says a write or sync error is fatal: the sequencer notices
\* the poison flag and surfaces the error through the shutdown path.
PoisonIsFatal == poisoned ~> Ended
=============================================================================
