------------------------------- MODULE Recovery -------------------------------
(***************************************************************************)
(* One node's disk: the journal segments, their rotation, the snapshots of *)
(* the shadow stage, and what recovery makes of whatever a process kill or *)
(* a power loss leaves of them (journal/src/segment_file.rs, segment.rs,   *)
(* reader.rs; transport-core/src/journaled_app.rs, snapshot.rs, shadow.rs; *)
(* the bootstrap of server-runtime/src/server.rs).                         *)
(*                                                                         *)
(* A file is its header's anchor and a run of cells, one per entry; its    *)
(* chain value is the history the anchor and the cells spell, and its      *)
(* starting sequence is one past the anchor's length.  A kill leaves the   *)
(* page cache; a power loss leaves any mix of the unsynced cells, each     *)
(* whole, torn or zeros, and the directory as of any operation since its   *)
(* last fsync (the filesystems the code supports log directory operations  *)
(* in order).  Not here: byte sizes (a cell is an entry wide), the staging *)
(* names, which recovery sweeps unread, `.prev` and `.tmp`, which it never *)
(* reads, the archives an operator moves away, and a failed rename-back.   *)
(***************************************************************************)
EXTENDS Integers, Sequences, SequencesExt, FiniteSetsExt

CONSTANTS
  Genesis,      \* entries of the genesis (genesis_entries)
  MaxUnsynced,  \* cells one unsynced drain can hold (MAX_UNSYNCED_BYTES)
  MaxEntries,   \* bound on the entries ever written
  MaxFiles,     \* bound on the segment files ever created
  MaxOps        \* directory operations outstanding when more are begun

ASSUME RecoveryBounds ==
  /\ Genesis \in Nat /\ MaxEntries \in Nat /\ Genesis <= MaxEntries
  /\ MaxUnsynced \in Nat \ {0} /\ MaxFiles \in Nat \ {0} /\ MaxOps \in Nat

VARIABLES
  dirs,      \* the journal directory: as last fsynced, then after each operation
  snaps,     \* the snapshot path, likewise: {} or the one snapshot there
  anchor, headed, cache, disk,    \* files: header, cells cached, cells on disk
  wire,      \* the sequence each entry was written under, by entry
  phase, app, pending,            \* the running node; its dir_fsync_retry
  shadow, hasEvents, saving, taken,   \* the shadow stage and its save
  acked,     \* the entries last reported durable
  exposed,   \* history: it serves over directory operations not fsynced
  excused,   \* history: a power loss undid such operations
  dropped    \* history: entries some recovery discarded

directory == <<dirs, snaps>>
files == <<anchor, headed, cache, disk, wire>>
save == <<saving, taken>>
follower == <<shadow, hasEvents, save>>
history == <<exposed, excused, dropped>>
vars == <<directory, files, phase, app, pending, follower, acked, history>>

Zeros == 0
Torn == -1
NoFile == 0
Layout(archives, live) == [archives |-> archives, live |-> live]
Dir == Last(dirs)
Snapshot == Last(snaps)
NewFile == Len(cache) + 1
Entries == 1..Len(wire)

Init ==
  /\ dirs = <<Layout(<<>>, NoFile)>> /\ snaps = <<{}>>
  /\ anchor = <<>> /\ headed = <<>> /\ cache = <<>> /\ disk = <<>> /\ wire = <<>>
  /\ phase = "down" /\ app = <<>> /\ pending = FALSE
  /\ shadow = 0 /\ hasEvents = FALSE /\ saving = "no" /\ taken = {}
  /\ acked = <<>>
  /\ exposed = FALSE /\ excused = FALSE /\ dropped = {}

-----------------------------------------------------------------------------
(* Reading a segment: where its entries end, and whether what follows may   *)
(* follow.                                                                 *)

\* The whole entries before the first cell that is not one.
ValidEnd(f) == Max({n \in 0..Len(cache[f]) : \A i \in 1..n : cache[f][i] > 0})
Whole(f) == SubSeq(cache[f], 1, ValidEnd(f))
Chain(f) == anchor[f] \o Whole(f)

InSequence(f) == \A i \in 1..ValidEnd(f) : wire[cache[f][i]] = Len(anchor[f]) + i

\* Only a live segment may end in a torn write, no wider than one drain; an
\* archive was synced before it was archived.
TailReachShort(f, live) == ValidEnd(f) + (IF live THEN MaxUnsynced - 1 ELSE 0)
TailReach(f, live) == ValidEnd(f) + (IF live THEN MaxUnsynced ELSE 0)

Readable(f, live) ==
  /\ headed[f]
  /\ InSequence(f)
  /\ \A i \in 1..Len(cache[f]) : i > TailReach(f, live) => cache[f][i] = Zeros

-----------------------------------------------------------------------------
(* The walk: every archive in order, then the live segment.                *)

Segments == Dir.archives \o (IF Dir.live = NoFile THEN <<>> ELSE <<Dir.live>>)
Journal == Chain(Last(Segments))

Linked ==
  /\ \A s \in Snapshot : Len(anchor[Segments[1]]) <= Len(s.chain)
  /\ Snapshot = {} => anchor[Segments[1]] = <<>>
  /\ \A k \in 2..Len(Segments) : anchor[Segments[k]] = Chain(Segments[k - 1])

\* The snapshot's anchor is in the journal, under the chain it recorded.
Anchored == \A s \in Snapshot : IsPrefix(s.chain, Journal)

Accepts ==
  /\ \A k \in 1..Len(Segments) : Readable(Segments[k], Segments[k] = Dir.live)
  /\ Linked
  /\ Anchored

\* Replay restores the snapshot and applies the entries strictly after it.
Replayed ==
  IF Snapshot = {} THEN Journal
  ELSE LET s == CHOOSE s \in Snapshot : TRUE
       IN  s.app \o SubSeq(Journal, Len(s.chain) + 1, Len(Journal))

\* open_append cuts the file at the last whole entry and syncs it, before
\* anything is written after it.
Uncut(f) == cache[f]
Kept(f) == Whole(f)

-----------------------------------------------------------------------------
(* Boot.                                                                   *)

Fresh == Segments = <<>> /\ Snapshot = {}

\* A file with header h (its anchor) and the given cells, all synced.
AddFile(h, cells, isHeaded) ==
  /\ anchor' = Append(anchor, h)
  /\ headed' = Append(headed, isHeaded)
  /\ cache' = Append(cache, cells)
  /\ disk' = Append(disk, cells)

\* write_genesis_journal: the journal appears under its name with the whole
\* genesis in it and synced; the directory sync follows.
WriteGenesis ==
  /\ phase = "down" /\ Fresh /\ NewFile <= MaxFiles
  /\ Len(wire) + Genesis <= MaxEntries
  /\ LET ids == [i \in 1..Genesis |-> Len(wire) + i]
     IN  /\ AddFile(<<>>, ids, TRUE)
         /\ wire' = wire \o [i \in 1..Genesis |-> i]
  /\ dirs' = Append(dirs, Layout(<<>>, NewFile))
  /\ phase' = "genesis"
  /\ UNCHANGED <<snaps, app, pending, follower, acked, history>>

\* A failed sync fails the boot; the next one recovers what is there.
SyncGenesis ==
  /\ phase = "genesis"
  /\ dirs' \in {<<Dir>>, dirs}
  /\ phase' = "down"
  /\ UNCHANGED <<snaps, files, app, pending, follower, acked, history>>

\* The node takes up the history it recovered: all of it is on disk.
Serve(state) ==
  /\ phase' = "run" /\ app' = state /\ acked' = state
  /\ pending' = FALSE
  /\ shadow' = Len(state) /\ hasEvents' = FALSE /\ saving' = "no" /\ taken' = {}
  /\ dropped' = dropped \cup (Entries \ Range(state))
  /\ UNCHANGED excused

Recover ==
  /\ phase = "down" /\ Dir.live # NoFile /\ Accepts
  /\ cache' = [cache EXCEPT ![Dir.live] = Kept(Dir.live)]
  /\ disk' = [disk EXCEPT ![Dir.live] = Kept(Dir.live)]
  /\ Serve(Replayed)
  /\ exposed' = (Len(dirs) > 1)
  /\ UNCHANGED <<directory, anchor, headed, wire>>

\* Archives and no live segment (a rotation cut short): create_continuing
\* opens one after the last archive, first without its header.
SynthesizeLive ==
  /\ phase = "down" /\ Dir.live = NoFile /\ Dir.archives # <<>> /\ Accepts
  /\ NewFile <= MaxFiles
  /\ AddFile(Journal, <<>>, FALSE)
  /\ dirs' = Append(dirs, Layout(Dir.archives, NewFile))
  /\ phase' = "synthesizing"
  /\ UNCHANGED <<snaps, wire, app, pending, follower, acked, history>>

\* The new segment's header is written and synced; its name is not.
HeadSynthesized ==
  /\ phase = "synthesizing"
  /\ headed' = [headed EXCEPT ![Dir.live] = TRUE]
  /\ Serve(Replayed)
  /\ exposed' = TRUE
  /\ UNCHANGED <<directory, anchor, cache, disk, wire>>

\* Recovery refuses what it cannot explain, and touches nothing.
Refuse ==
  /\ phase = "down" /\ Segments # <<>> /\ ~Accepts
  /\ phase' = "refused"
  /\ UNCHANGED <<directory, files, app, pending, follower, acked, history>>

-----------------------------------------------------------------------------
(* The disk thread.                                                        *)

\* Each drain also polls a pending retry of the directory fsync, which is
\* paced and may fail again.
PollRetry ==
  \/ pending /\ dirs' = <<Dir>> /\ pending' = FALSE /\ exposed' = FALSE
  \/ UNCHANGED <<dirs, pending, exposed>>

\* The cells go where the last ones ended, over whatever lies there.
WritePos == Len(app) - Len(anchor[Dir.live])
Written(ids) ==
  SubSeq(cache[Dir.live], 1, WritePos) \o ids
    \o SubSeq(cache[Dir.live], WritePos + Len(ids) + 1, Len(cache[Dir.live]))

\* Nothing is written before the sync of the last drain has returned.
MayDrain == phase = "run"

Drain ==
  /\ MayDrain
  /\ \E n \in 1..MaxUnsynced :
       /\ Len(wire) + n <= MaxEntries
       /\ LET ids == [i \in 1..n |-> Len(wire) + i]
          IN  /\ cache' = [cache EXCEPT ![Dir.live] = Written(ids)]
              /\ wire' = wire \o [i \in 1..n |-> Len(app) + i]
              /\ app' = app \o ids
  /\ PollRetry
  /\ phase' = "drain"
  /\ UNCHANGED <<snaps, anchor, headed, disk, follower, acked, excused, dropped>>

Sync ==
  /\ phase = "drain"
  /\ disk' = [disk EXCEPT ![Dir.live] = cache[Dir.live]]
  /\ acked' = app
  /\ phase' = "run"
  /\ UNCHANGED <<directory, anchor, headed, cache, wire, app, pending, follower,
                 history>>

\* archive_live, on a drained journal.
Drained == phase = "run"

ArchiveLive ==
  /\ Drained
  /\ NewFile <= MaxFiles /\ Len(dirs) <= MaxOps + 1
  /\ dirs' = Append(dirs, Layout(Append(Dir.archives, Dir.live), NoFile))
  /\ phase' = "archived"
  /\ UNCHANGED <<snaps, files, app, pending, follower, acked, history>>

\* A prepared segment has its header, synced, before it gets the live name.
InstallPrepared ==
  /\ phase = "archived"
  /\ AddFile(app, <<>>, TRUE)
  /\ dirs' = Append(dirs, Layout(Dir.archives, NewFile))
  /\ phase' = "installed"
  /\ UNCHANGED <<snaps, wire, app, pending, follower, acked, history>>

\* A fresh one is created under the live name, then allocated and headed.
InstallFresh ==
  \/ /\ phase = "archived"
     /\ AddFile(app, <<>>, FALSE)
     /\ dirs' = Append(dirs, Layout(Dir.archives, NewFile))
     /\ phase' = "created"
     /\ UNCHANGED <<snaps, wire, app, pending, follower, acked, history>>
  \/ /\ phase = "created"
     /\ headed' = [headed EXCEPT ![Dir.live] = TRUE]
     /\ phase' = "installed"
     /\ UNCHANGED <<directory, anchor, cache, disk, wire, app, pending, follower,
                    acked, history>>

\* The rotation is committed: one directory fsync covers both names, and a
\* failure is retried from the drains (DirFsyncRetry::after_rotation).
AfterRotationUnsynced == UNCHANGED <<dirs, pending, exposed>>
AfterRotation ==
  \/ dirs' = <<Dir>> /\ pending' = FALSE /\ exposed' = FALSE
  \/ pending' = TRUE /\ exposed' = TRUE /\ UNCHANGED dirs

FinishRotation ==
  /\ phase = "installed"
  /\ AfterRotation
  /\ phase' = "run"
  /\ UNCHANGED <<snaps, files, app, follower, acked, excused, dropped>>

\* The install failed: rename back, fsync the directory as best one can.
RollBack ==
  /\ phase \in {"archived", "created"}
  /\ LET back == Layout(Front(Dir.archives), Last(Dir.archives))
     IN  \/ dirs' = <<back>> /\ exposed' = FALSE
         \/ dirs' = Append(dirs, back) /\ exposed' = TRUE
  /\ phase' = "run"
  /\ UNCHANGED <<snaps, files, app, pending, follower, acked, excused, dropped>>

-----------------------------------------------------------------------------
(* The shadow stage, gated on the journal's fsync, and its snapshots.      *)

Up == phase \notin {"down", "genesis", "synthesizing", "refused"}

ShadowConsume ==
  /\ Up /\ shadow < Len(acked) /\ saving = "no"
  /\ shadow' \in (shadow + 1)..Len(acked)
  /\ hasEvents' = TRUE
  /\ UNCHANGED <<directory, files, phase, app, pending, save, acked, history>>

\* A save waits until the shadow is at the last fsync boundary, whose
\* sequence and chain value it records.
AtBoundary == shadow = Len(acked)

\* The snapshot is complete and synced under `.tmp`; the previous one makes
\* way (or there is none, or it cannot be moved).
StartSave ==
  /\ Up /\ saving = "no" /\ hasEvents /\ AtBoundary
  /\ Len(snaps) <= MaxOps + 1
  /\ taken' = {[app |-> SubSeq(app, 1, shadow), chain |-> acked]}
  /\ \/ Snapshot # {} /\ snaps' = Append(snaps, {}) /\ saving' = "rotated"
     \/ saving' = "ready" /\ UNCHANGED snaps
  /\ UNCHANGED <<dirs, files, phase, app, pending, shadow, hasEvents, acked, history>>

\* A failed fsync fails the save until the next interval.
SyncRotated ==
  /\ Up /\ saving = "rotated"
  /\ \/ snaps' = <<Snapshot>> /\ saving' = "ready" /\ UNCHANGED taken
     \/ saving' = "no" /\ taken' = {} /\ UNCHANGED snaps
  /\ UNCHANGED <<dirs, files, phase, app, pending, shadow, hasEvents, acked, history>>

Publish ==
  /\ Up /\ saving = "ready"
  /\ snaps' = Append(snaps, taken)
  /\ saving' = "published" /\ taken' = {}
  /\ UNCHANGED <<dirs, files, phase, app, pending, shadow, hasEvents, acked, history>>

SyncPublished ==
  /\ Up /\ saving = "published"
  /\ snaps' \in {<<Snapshot>>, snaps}
  /\ saving' = "no"
  /\ UNCHANGED <<dirs, files, phase, app, pending, shadow, hasEvents, taken, acked,
                 history>>

Shadow == ShadowConsume \/ StartSave \/ SyncRotated \/ Publish \/ SyncPublished

-----------------------------------------------------------------------------
(* The environment: the process dies, or the machine does.                 *)

Forget ==
  /\ app' = <<>> /\ pending' = FALSE
  /\ shadow' = 0 /\ hasEvents' = FALSE /\ saving' = "no" /\ taken' = {}
  /\ phase' = "down"

Kill ==
  /\ phase \notin {"down", "refused"}
  /\ Forget
  /\ UNCHANGED <<directory, files, acked, history>>

\* What a power loss may leave of the segment being written: its synced
\* cells, then any mix of the others.  Every other file is synced.
Remains(f) ==
  LET unsynced == SubSeq(cache[f], Len(disk[f]) + 1, Len(cache[f]))
      scattered == [1..Len(unsynced) -> {Zeros, Torn} \cup Range(unsynced)]
  IN  {disk[f] \o g : g \in {h \in scattered :
         \A i \in 1..Len(unsynced) : h[i] \in {Zeros, Torn, unsynced[i]}}}

Survivors ==
  IF Dir.live = NoFile THEN {cache}
  ELSE {[cache EXCEPT ![Dir.live] = g] : g \in Remains(Dir.live)}

PowerLoss ==
  /\ phase # "refused"
  /\ \E k \in 1..Len(dirs) :
       /\ dirs' = <<dirs[k]>>
       /\ excused' = (excused \/ (exposed /\ k < Len(dirs)))
  /\ \E k \in 1..Len(snaps) : snaps' = <<snaps[k]>>
  /\ cache' \in Survivors /\ disk' = cache'
  /\ Forget
  /\ exposed' = FALSE
  /\ UNCHANGED <<anchor, headed, wire, acked, dropped>>

Boot ==
  WriteGenesis \/ SyncGenesis \/ Recover \/ SynthesizeLive \/ HeadSynthesized \/ Refuse
Disk ==
  Drain \/ Sync \/ ArchiveLive \/ InstallPrepared \/ InstallFresh \/ FinishRotation
  \/ RollBack

Next == Boot \/ Disk \/ Shadow \/ Kill \/ PowerLoss
Spec == Init /\ [][Next]_vars

-----------------------------------------------------------------------------
(* Properties.                                                             *)

Cells == {Zeros, Torn} \cup Entries

\* A layout never names a file twice, an unsynced tail is never wider than one
\* drain, and the cursors stay inside what they count.
TypeOK ==
  /\ dirs # <<>> /\ snaps # <<>>
  /\ \A k \in 1..Len(dirs) :
       LET names == dirs[k].archives \o <<dirs[k].live>>
       IN  IsInjective(names) /\ Range(names) \subseteq 0..Len(cache)
  /\ \A f \in 1..Len(cache) :
       /\ Range(cache[f]) \subseteq Cells /\ Range(disk[f]) \subseteq Cells
       /\ Len(cache[f]) - Len(disk[f]) \in 0..MaxUnsynced
  /\ Range(app) \subseteq Entries /\ Range(acked) \subseteq Entries
  /\ phase \in {"down", "genesis", "synthesizing", "refused", "run", "drain", "archived",
                "created", "installed"}
  /\ shadow \in 0..Len(wire)
  /\ saving \in {"no", "rotated", "ready", "published"}

\* Whatever kills, power losses and rotations a node has been through, its
\* recovery refuses the journal in one case only: a live segment that was
\* created in place and never got its header (rotation's fallback, or a
\* synthesis), or a directory rolled back under a serving node.
RefusedOnlyUnheaded ==
  phase = "refused" => excused \/ (Dir.live # NoFile /\ ~headed[Dir.live])

\* No crash takes back an entry reported durable: every later report extends
\* the earlier ones, unless power failed while the node served over directory
\* operations it had not fsynced.
DurableForGood == [][IsPrefix(acked, acked') \/ excused']_acked

\* What a running node has applied is what its journal holds, entry for entry,
\* whether it came there by replay alone or from a snapshot and the rest.
ReplayIsJournal == phase \in {"run", "drain"} => app = Journal

\* An entry some recovery discarded never comes back in a later one, though the
\* bytes it left lie where the next entries are written.
DiscardedForGood == phase \in {"run", "drain"} => Range(app) \cap dropped = {}

\* A running node stands on its journal and on nothing else: all of it, and no
\* entry that an earlier recovery had cut off (recover_inner, open_append).
ReplayFaithful == TypeOK /\ ReplayIsJournal /\ DiscardedForGood
=============================================================================
