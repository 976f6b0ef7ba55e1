# Melin: TLA+ models and proofs

Melin is a replicated, LMAX-style sequencing engine: one primary orders client
requests in a journal, applies them to an application, streams the journal to
up to two replicas, and holds every reply until the copies its *ack policy*
asks for exist. This directory models the parts of it whose correctness rests
on the order of steps taken by different threads and nodes, checks them with
TLC on small instances, and proves what matters most with TLAPS.

All paths below are relative to `crates/core/` unless they say otherwise.

## The system

```
 clients ──> reader ──> input ring ──> journal stage ──> journal-disk thread ──> disk
               │             └───────> matching stage ──> output ring ──> response stage ──> clients
               │                                                             (durability gate)
               └ halt gate        journal stage ──> replication rings ──> senders ──> replicas
```

| Part | State it keeps | Operations | Talks to |
|---|---|---|---|
| Reader and accept loop (`server-runtime/src/reader.rs`, `client_frames.rs`, `server.rs`) | connections, the input ring's producer end | admit a write or refuse it (halt gate), publish, ticks, policy changes | input ring, halt gate, policy control |
| Rings (`pipeline/src/ring.rs`, `spsc.rs`, `seqlock.rs`) | slots, cursors, cached cursors | publish, consume, gate on consumers | every stage |
| Journal stage and disk thread (`transport-core/src/pipeline.rs`, `journal_disk.rs`, `journal/`) | the live segment, encoded batches, durable cursors | encode, hand over, write and sync, rotate | replication rings, response stage, shadow |
| Matching stage (`transport-core/src/pipeline.rs`) | the application, the forced-policy cell | dispatch entries in order | output ring, durability gate |
| Response stage and durability gate (`server-runtime/src/response.rs`, `durability_gate.rs`) | the policy in force, the cached durable position, pending changes | admit a slot, wait, settle and apply changes, idle recheck | all cursors, replica presence |
| Replica presence and halt gate (`transport-core/src/replica_presence.rs`, `server-runtime/src/halt.rs`) | replica count, first-ack generation, override, loss stamp | lift, lower, first ack, journal a change, verdict on a write | senders, reader, gate |
| Replication sender (`server-runtime/src/replication/`, `transport-core/src/replication/`) | slots, cursors, sent high water, evict flags | handshake, catch-up, handoff to live, ack, teardown | replicas, journal files, rings |
| Replication receiver (`receiver_transport.rs`, `tcp_receiver.rs`) | accepted position, ack queue, stream marks | accept entries in sequence, ack, apply marks, resync | the replica's own pipeline |
| Policy control and lineage (`policy_control.rs`, `transport-core/src/lineage.rs`) | a one-request mailbox, the lineage's newest change | request, stage, publish, withdraw | admin, reader, gate |
| Failover (`fence.rs`, `promotion.rs`, `raft*.rs`, `raft/`) | epochs, fence latch, raft log | fence, promote, refuse a stale primary | handshake, shutdown |
| Recovery, snapshots, shadow stage (`journaled_app.rs`, `snapshot.rs`, `shadow.rs`) | snapshot files, journal chain | recover, snapshot, prune | journal |
| Client library (`client/`) | outstanding requests | send, match replies, reconnect | server |

`PROJECT.json` lists every part with its sources, and the hazards of the code
at the line where each one bites.

What is hard: cursors are read one atomic load at a time while other threads
move them; a slot's cursors outlive one replica and are reused for the next;
policy changes travel through the log they govern and may be overtaken by a
forced one; a halted primary waits inside a single slot; a replica may vanish
and return anywhere in the catch-up; files are renamed while another thread
reads them; a crash falls between any two of a rotation's directory operations;
a leader decides on tips its peers advertised a moment ago; a connection ends
while the kernel still owes it a completion.

## Modules

| Module | Models |
|---|---|
| `AckPolicy` | `transport-core/src/ack_policy.rs`, `server-runtime/src/ack_policy.rs`: policies as clauses, their evaluation over a view of cursors, blame |
| `PolicySet` | the policies as the next two tell them apart |
| `ReplicaPresence` | replica count, override and loss stamp with senders, producer, response stage |
| `PolicyControl` | `policy_control.rs`, `lineage.rs`: the mailbox between admin thread and producer, claims and boot entries, the lineage's policy |
| `DurabilityGate` | the gate, with the pipeline, the replicas and their slots around it; EXTENDS `AckPolicy` |
| `ClientPath` | a request from accept loop and io_uring reader through the rings to the response loop and the client's own table |
| `CatchupHandoff` | one replica slot from handshake through catch-up to the live ring, against a running and rotating sequencer |
| `JournalStage` | sequencer and journal-disk thread, stream marks, rotation rendezvous, poison and shutdown |
| `BroadcastLog` | what a queue of the pipeline crate promises |
| `Ring`, `Spsc`, `SeqLock` | `pipeline/src/`: the lock-free structures; the first two implement `BroadcastLog` |
| `Failover` | elections, tips, promotion, fencing, handshake and resync of three nodes |
| `Recovery` | one node's files through rotations, snapshots, kills and power losses |
| `PolicyViews` | every policy over every view and what one ack, fsync or joining replica makes of it; the code's selection loop as reference; EXTENDS `AckPolicy` |
| `MCPolicyPresence` | `PolicyViews`, `ReplicaPresence` (its two halves) and `PolicyControl` for TLC |
| `MCResponse` | `DurabilityGate` and `ClientPath` for TLC |
| `MCPipeline` | `Ring`, `Spsc` and `SeqLock` for TLC |
| `MCCatchupHandoff`, `MCJournalStage`, `MCFailover`, `MCRecovery` | instantiate the module of that name |
| `DurabilityGate_proofs`, `ClientPath_proofs`, `PolicyPresence_proofs`, `CatchupHandoff_proofs`, `JournalStage_proofs`, `Pipeline_proofs`, `Failover_proofs`, `Recovery_proofs` | theorems about the components (see Proofs) |

An MC module that joins several components picks one of them in its initial
state and leaves the others' variables alone: their state spaces are added, not
multiplied, and nothing of one component is checked through another.

Next to a definition that decides something a reader may find its *faulty
variant*, the form a slip in the code would give it. No specification uses one:
`PROJECT.json` ("mutants") names, for every property, a variant under which TLC
finds it violated.

### AckPolicy

A view is a function from node numbers (0 the primary) to `[mem, disk]`.
`nth_largest_with_node` is the code's selection by rank; `PolicyViews` compares it
with the repeated running maximum of the code, ties included. `durable_pos`
and `degraded` are `evaluate_with_status`, `attribute_blocker` the attribution.
`Satisfied` is the meaning of a policy: each clause's count of nodes hold the
sequence at the clause's level.

### ReplicaPresence

One action per atomic access. A slot goes `idle → lifting → live → acked →
lowering → idle`; the producer's `journal` is `DecideGeneration`,
`DecideCount`, `Publish` (or `PublishRefused`), `RecordJournaled`, its `verdict`
is `VerdictCount`, `VerdictOverride`, `VerdictGeneration`; the response stage's
`degraded_release_open` is `LossCount`, `LossStamp`, `LossAge`. History variables
record whether a first ack happened since the producer's loads and when the
loss that emptied the count began.

### DurabilityGate

The log is a sequence of entries, each a write or a change to a policy
(witnessed or not); an entry's wire sequence is its position. `Publish`, `Match`
and `Persist` are the pipeline; `Lift`, `Seed`, `Activate`, `RecordAck`, `Lower`,
`ClearCursors`, `Deactivate` a slot's life in the order of the handler and of
`disengage_slot`. The gate's control is `pc`:

```
idle ─Admit→ pending ─NothingPending→ slot ─SlotCovered→ idle
                │ WaitPending           │ WaitSlot
                └──────→ check → journal → settle → active/mem/acked (per slot) → Evaluate
                                                        │ covered: back to the caller
                                                        └ verdict: OpenDegraded…, or check again
idle ─IdleRecheck→ active … Evaluate → settle → idle
```

Every load of `with_cursor_view` is its own step, so a slot can be torn down and
reused between two of them. A write's and a replica's data are not modelled:
only positions matter to the gate. `held` and `disk` are what a replica *really*
has; the slot's `mem` and `acked` are what the primary has heard of it, and the
properties are stated about the former.

Slots and replicas are different things: a free slot takes whichever replica
dials, so a slot can pass from one replica to another between two loads of one
evaluation, and a replica that reconnects while its older connection lingers sits
in two slots. The history variables `from` and `backers` record whose cursors each
place of a view was loaded from. `VouchedFor` is what an evaluation can promise on
that ground: each clause has its count of places read from a node that really holds
the sequence, and its count of nodes unless one node was behind two of the places
(`Twice`).

Simplifications: atomics interleave sequentially (the code's Release/Acquire
pairs justify that for the pairs it orders; reorderings of Relaxed accesses to
different locations are not modelled); whether the grace period has elapsed is
left open in `DurabilityGate` whenever no replica is counted (`ReplicaPresence`
ages it); policy bytes a node does not know (`refuse_unknown`) are left out; a
slot counts as free until the handshake of the connection it was given to is
accepted, so connections are counted in any order of the slots.

### CatchupHandoff

Entries are their sequences, `starts` the headers of the segments (path *k* of
the archives is segment *k*), `disk` how far a scan can see. The parties:

- the *sequencer* (`job`): `Encode`, then `publish_to_replication_rings` one
  atomic access at a time (`LoadActive`, `LoadEvict`, `TryPublish`,
  `StoreEvict`), then `Submit`; a rotation is `ArmRotation`, `ArchiveLive` (after
  the drain), `InstallLive` or its rollback `RestoreLive`, and the publication of
  the boundary. `DiskWrite` is the disk thread.
- the *handler* (`step`): `Connect`, `Validate`, the probe, the bulk pass,
  `Activate`, the residual pass, the drain with its back-fill passes, the live
  loop. Every pass is the same walk (`ListArchives`, `StatLive`, then `Probe` or
  `ChooseStart`, `ReadHeader`, `OpenScanner`, `ReadBatch`, `EndOfFile`), one
  file-system call a step; `pass` says who waits for it.
- the *supervisor*: `SkipToProducer`, `Disengage`, `ClearEvict`, in the code's order.
- the *receiver*: takes a frame as it is written (`Receive`).

```
idle → validate → [probe] → [bulk] → activate → [residual] → drain ⇄ [refill] → live
any step: a failed read or write, an eviction or an expired wait → exit → disengage → clear → idle
```

The replica's handshake is its last accepted position: `settled_resume_point`
waits for its journal to hold all of it before it dials again. History variables:
`stale` counts the ring chunks left from an earlier session, `closed` says that
the drain ended on a chunk of its own, `skewed` that a rotation once moved the
files under a walk.

Simplifications: nothing is pruned and there is no snapshot, so the preflight of
a snapshot transfer fails; the handshake's chain comparison is reduced to the
position being on disk, its retries to a wait that may expire; listing a
directory and installing the new live file are each one step (a header read in
the middle of an installation is an error exit, as after `ArchiveLive`);
`ChainCheck` frames, shutdown and a panicking handler are left out; a link that
breaks loses the frames written after the break. The poll-mode `LiveHandoff`
takes the same decisions in bounded steps and is not modelled apart.

### PolicyControl

Every critical section of the mailbox's mutex is one step. The admin thread
(`asking`) stages or posts and waits, its deadline may pass at any moment; the
main thread claims the tenure's policy, journals the boot entry, attaches,
serves, polls and publishes, detaches; `Restart` leaves any prefix of what was
put on the ring and another configuration. `trail` is the journal's changes,
each with the ticket that asked for it, `answers` what each ticket was told.

### ClientPath

One action per step of each thread: `Accept` and `Announce` (the accept loop),
`Register`, `TakeCqe`, `ProcessFrame`, `EndCall`, `Retry` (the io_uring reader
with its slab and receive states), `MatchStep` (two output slots per applied
request, one by one), and the response loop with its fixed order of reading the
output ring, sampling the early replies and draining the control channel. The
kernel posts completions as io_uring documents them. The client is
`Outstanding`: it knows which frame it expects next and calls anything else bad.

Simplifications: frames are whole, a partial one waits as if it had not arrived;
the gate is open or closed for the slot at hand; the input ring is the client's
share of it; an overflowing send buffer is a failed send; heartbeats and
shutdown are left out, and so are a disconnect for an oversized frame or one that is no request
in the middle of a buffer (`client_frames.rs:348-374`) and the queries'
exemption from the halt's refusal (`client_frames.rs:401`): requests are not told
apart by what they ask.

### JournalStage

The sequencer's `pc` follows `run`: poison and shutdown checks, read, refresh of
the pending mark, the span up to the mark (`MarkSplit`), encode, the barrier
(submit, then apply the mark), the sync point, the idle pass, and the two ways
out: the sentinel's tail and the shutdown drain. `rotate_taking_prepared` is
`RequestRotation` (after the drain), then `RotationDone` or `RotationFailed`
with its back-off. The disk thread's `dpc` is sample stop, stage, write, sync,
the three stores of its cursors in the code's order, release, or cause and
poison. A replica is fed slots with the primary's sequences and, on a second
queue, marks; `boundaries` are the primary's, `diverged` says that its bytes
differ.

### Ring, Spsc, SeqLock, BroadcastLog

`BroadcastLog` has a log that grows and, for each consumer, what it was handed
and what it released; `Publish` may not run further ahead than the capacity,
`Deliver` hands over the next entry, after the consumer it comes after has
released it. `Ring` and `Spsc` have every load and store of a cursor as a step,
slots that are `Torn` while they are filled, cached gates and dependencies, and
INSTANCE the log with the refinement `log <- published, at <- readAt,
done <- processed, last <- handed` (`Spsc` with one consumer). `SeqLock` copies
word by word in any order. Memory is sequentially consistent here: the orderings
the code chose are taken to give that for the accesses they order.

### Failover

Three voters, each with a journal (a sequence of entries named by epoch and
author), an epoch, a raft term and what it has heard. `Elect`, `Heartbeat`,
`DropVote` and `Age` are the control plane, `Decide`, `Promote`, `Drain`, `Mint`,
`Abandon` the promotion, `ConnectFences`, `ConnectFollows`, `ConnectDiverges`,
`Transfer` the handshake and resync, `Stop`, `Restart...`, `Recover` the process.
Any message may be lost, any node may stop between two steps.

Simplifications: openraft is external, its elections appear only where they
succeed and in a fresh term; when a replica campaigns is left open (timer,
stand-down and nudge choose the moment); a lost reply is an aged one; the policy
is `two_disks`; a transfer that needs a snapshot is not told from one that does
not, and hands over the whole journal in one step (the code installs the
snapshot's position, adopts the epoch and streams the rest,
`replication/mod.rs:1753-1844`; a node cut off between the two has a tip ahead of
its journal, which `TruthfulTips` excludes). `Mint` confirms the leadership,
publishes and journals the epoch in one step: the assertion at
`raft/src/driver.rs:168-196` bounds confirmation and publication by the followers'
lease, during which nobody else is elected without this node's vote; a node paused
beyond that slack is outside the model as it is outside the code's argument.
`Claims` leaves out a recovering replica whose operator has already filed a
promotion (`server.rs:1195-1198`): a manual promotion, of which no property
speaks. `acked` is what the primary of the newest tenure has answered: it answers
its own clients, so entries it inherited count with the first of its own tenure.
`bare` are the nodes that archived a journal for a resync and have not had a
snapshot of the newest tenure since.

### Recovery

A file is its header's anchor and its cells; each directory is the sequence of
its states since its last fsync. `Kill` leaves the page cache, `PowerLoss` any
mix of unsynced cells (whole, torn, zeros) and the directory as of any
operation since its fsync. `Recover`, `SynthesizeLive`, `HeadSynthesized`,
`Refuse` are the bootstrap, `Drain` and `Sync` the batches, `ArchiveLive`,
`InstallPrepared`, `InstallFresh`, `FinishRotation`, `RollBack` the rotation,
`StartSave`, `SyncRotated`, `Publish`, `SyncPublished` the shadow's snapshot.

Simplifications: a cell is one entry; pages the kernel calls clean after a
failed fsync, trimmed archives, a bootstrap from a snapshot alone, a failed
rename-back, staging names and the checks of the genesis' length are left out.

## Runs

Deadlock checking is off throughout: every log is bounded and ends, and a node
that was shut down, killed for good, fenced or refused stops.

| Run | Bounds | Shows |
|---|---|---|
| `policy_presence` | views of 1 to 3 nodes, cursors 0..2, all policies; 2 slots, 4 joins, 2 policies, clock to 4, grace 2; 4 changes, 2 commands, 1 restart | evaluation against its reference; the override ends at the first ack, is never lost, justifies every write taken; grace runs from the loss; operators are told the truth, the lineage says what happened |
| `response_safety` | the gate with changes: 1 slot taken once, log of 2, four starts on `disk` and `two-disks`; replicas in any slot: 2 slots, 2 replicas, 2 joins, log of 1, `two-disks` and `ram`; degraded release on in both; 2 connections under a limit of 1, rings of 1, 3 requests or 1 fault | cached position durable, replies backed and governed by the right policy, changes witnessed; replies whole and not lost, shed requests stay shed, slab and permits accounted for |
| `response_liveness` | no join, log of 3; lighter loads | a wait ends by a forced change or shutdown; every request is answered and every closed connection settled |
| `handoff_safety` | 4 sequences, batches of 1 or 2, 3 segments, ring of 2, 1 fault | acks within the high-water, boundaries announced, ring chunks of a session dense, contiguity gate silent once bridged |
| `handoff_liveness` | 3 sequences, 2 segments, ring of 1, 1 fault | the replica catches up, or is left in the documented corner |
| `journal_safety` | both roles, 3 slots, batches of 3, write ring of 2, 1 failed rotation, a write or sync error anywhere | framing follows the primary's, divergence stops, cursors truthful, nothing dropped on stop, nothing durable after poison, segments swapped on the exact boundary |
| `journal_liveness` | replica, 2 slots, write ring of 1, 1 failed rotation | marks settle without traffic; a shutdown ends the stage |
| `journal_poison` | the same, no failed rotation | *violation*: a poisoned replica never ends |
| `pipeline` | capacity 2, consumers two abreast and one behind, 4 fills; 5 pushes; 2 words, 2 readers, 3 stores | both queues implement the broadcast log; a blocked push ends; a load is one store's |
| `failover_safety` | 3 nodes, logs of 2, 2 terms, 1 operator's act, replicas symmetric | sessions stay on one lineage; epochs in order; a decision on truthful tips holds what was acked |
| `failover_tip` | the same | *violation*: a decision without acked events a recovering peer holds |
| `recovery` | 5 entries, 3 files, drains of 2, 1 outstanding directory operation | refused in one shape only; replay is the journal; durable is for good, discarded too |

Why the bounds suffice for the interesting cases. Four joins let a replica come
and go on either side of every step of the producer's `journal`; a log of two
entries has a change and a write behind it, and with a recovered change in front
of them the pending queue reaches two; three have a held write, a change and a
forced change. Two joins over two slots and two replicas are both replicas at
once, one replica in both slots, or a slot handed from one replica to the other
between two loads; one write is enough for a reply to be judged on what they left. Three requests on a ring of one are one on the ring, one shed and
one parked; two connections under a limit of one force the slab entry and the
permit to be handed on. In `handoff_safety` four sequences and three segments
allow two rotations inside one walk and entries on both sides of each, batches of
two give chunks that straddle the position, a ring of two fills while a chunk is
held, and one fault ends a session anywhere and brings on a second one in the
same slot. Three slots in one batch put a mark in its middle and one at its end;
a write ring of two has a batch in the disk thread's hands and one behind it. A
ring of two with four fills wraps twice. Two terms give an election and one that
overtakes it; logs of two an event past the common one, a bump counting as an
entry. Five entries over three files are two rotations with a drain torn in the
last file, and a second crash on what the first left. Symmetry in `failover_safety`
exchanges the two nodes that start as replicas, which nothing tells apart; no
liveness is checked there.

### Fairness

`response_liveness` assumes weak fairness of the response, matching and
journal-disk threads: each is a loop on a pinned thread that never blocks on a
peer, and an fsync is assumed to return. Nothing is assumed of replicas,
operators or the network: the gate's part has no replica at all. On the client
path the accept loop carries on with a connection it admitted, the kernel
delivers what is there and honours a cancel or a shutdown, a slot becomes
durable in the end. Registrations, completions and retries of parked connections
are strongly fair: a wake of the reader drains all three in turn, so none is
passed over for ever by the others.

`handoff_liveness` assumes weak fairness of the sequencer's publication and
rotation once begun, of the disk thread, and of the handler with its supervisor,
the replica's reconnection included (its receiver redials for ever). It does not
assume that a client sends or that a rotation is asked for. The corner
`CaughtUpOrStranded` names is real under that assumption: an entry skipped from
the ring and not yet on disk at the residual pass reaches the replica only when
a later entry makes the receiver's gate reconnect. Where the node journals ticks
(`transport-core/src/tick.rs`) such an entry comes by itself.

`journal_liveness` and `journal_poison` assume weak fairness of the two threads and
that a back-off expires; and strong fairness of the sync point, which the
group-commit clock may delay but not for ever, and of the idle pass over the
marks, which the loop comes back to whenever the ring is empty. Nothing is
assumed of what feeds the threads or of disk errors. `pipeline` assumes that a call
under way is carried on and that consumers keep reading and publishing their
progress, nothing of calls never made.

## Findings

1. A poison latched while a replica's sequencer waits at a mid-batch rotation
   barrier is taken for a failed rotation and retried for ever (`journal_poison`),
   against the comments that call a write or sync error fatal.
2. A peer that is still recovering answers heartbeats with an empty tip, and a
   leader promotes without acked events that peer holds (`failover_tip`), against
   `docs/replication.md`. `TruthfulDecisionHoldsAcked` is what is left: when no
   tip misrepresents its journal, the decision is safe. That is proved.

### Known disagreements

Met while modelling, not runs of their own. The models contain them; each is why
a property above is worded as it is.

- `halt_start` with a missing stamp ages the halt from a start recorded for an
  earlier one, against the test that says an unseen rejoin restarts the grace
  period: `GraceFromStampedLoss` speaks of stamped losses.
- A reply behind a change let through degraded keeps the mark although its own
  policy was met without the primary's disk, against the wire protocol's
  description of `BatchEndDegraded`.
- The gate counts slots, not nodes: a replica that reconnects into the free slot
  while its old connection lingers is two nodes to `two-disks`, which
  `docs/replication.md:26` describes as "Two fsynced copies on PLP-backed NVMe, on
  two nodes". `docs/internal/determinism-audit-2026-09.md` reports it (item 28, "A
  half-open replica slot can count one replica twice"). The model has it, and the
  theorems hold with it: `VouchedFor` promises that many connections, and that many
  nodes except under `Twice`.
- A rotation between a walk's listing, header read and second open lets entries
  past a boundary go out without its announcement
  (`transport-core/src/replication/catchup.rs:294`, against the comments above it).
  `BoundaryAnnounced` shows that this is the only way.
- The ring is emptied before the slot is deactivated (`tcp_sender.rs:245`), so a
  chunk may be left for the next session, against "Idle consumers stay empty".
  `GateSilentOnceBridged` and `FreshChunksDense` confine the damage to sessions
  that meet such a leftover.
- A first rotation between the probe's two looks at the files makes it ask for a
  snapshot although nothing was pruned; that costs a transfer, never data.
- The tip's epoch is adopted at `StreamStart` before any entry of it arrives,
  though `raft/src/recency.rs:49` says "Fencing epoch in force at the tip"; a resync
  archives the journal before the transfer succeeds, and a snapshot from a primary
  that was superseded meanwhile does not bring back what was archived. All three
  misstate a tip: `TruthfulTips` excludes them.
- A primary whose link to one replica is down can be deposed by it; what it acks
  with the other replica after that one's last look is lost. `owed` counts what
  was acked when the answers were heard.
- A manual promotion and an election can mint the same epoch, though
  `docs/replication.md` calls them distinct: `EpochsMintedInOrder` is about
  elections.
- `take_poison`'s "(unreachable)" poison without a stored cause is reachable: flag
  and cause are two stores.
- A crash after rotation's fallback created the live file and before its header
  was written leaves a file recovery refuses, though `docs/journal-rotation.md`
  says it is created from scratch: the exception of `RefusedOnlyUnheaded`.
- Acked entries can be lost to a power failure while the node serves over
  directory operations it has not fsynced (`segment.rs`, the retry of a failed
  directory fsync; a restart after a kill in mid-rotation; a synthesized live
  file): the exception of `DurableForGood`.
- A crash between the snapshot's move to `.prev` and the publication of the new
  one leaves none at its path: recovery then needs the whole journal.

## Proofs

Proved with TLAPS for every value of the constants that the ASSUMEs allow, which
ask for no more than numbers in range and finite sets of nodes. `PROJECT.json`
("theorems") lists the results; the theorems named here state properties of the
runs, so what a run shows on a small instance the theorem shows on every one.

An invariant of the runs is seldom inductive. Each proof module states its
strengthening as a conjunction of named parts, built in layers: types first, then
each thread's own positions, then what relates two threads. Every layer has a
lemma for the initial state, one per action or group of actions, and one for the
step. The strengthenings were checked with TLC on the runs' instances before they
were proved.

### DurabilityGate_proofs

The evaluation of a policy, for views of any size. `DurablePosIsHeld`:
`durable_pos(p, v) > 0` implies `Satisfied(p, v, durable_pos(p, v))`. The node at
rank `count - 1` has `count - 1` nodes at least as far ahead, so with it `count`
nodes hold its cursor; the least clause cursor is then held at every clause.
`SatisfiedIsStable`: `Satisfied` survives growth of the view's domain and cursors.
`EvaluationAlwaysSound`: the position is also the highest one held, never moves
back as the view grows, is named by attribution, and is the one the code's loop
finds. The order by cursor and index is total, so ranks number the nodes and each
rank below the view's size is some node's (a pigeonhole); what `count` nodes hold,
the cursor of rank `count - 1` has reached; the loop takes the nodes in the order
of their ranks, shown by exhibiting the solution of its recursive function.
`u64::MAX` occurs only as the primary's in-memory cursor (`Bounded`), so the value
that stands for "no clause bounds this" never hides a position.

The gate: `TypeCorrect`, `CachedAlwaysDurable`, `RepliesAreBacked`, `RepliesAreGoverned`,
`ChangesAreWitnessed`. `CachedIsDurable` is not inductive: the position cached was
computed from loads taken earlier. `CursorInv` says that everything read so far
(`look`, `view`, `mem`) and every cursor a slot publishes is bounded by what the
node really holds, and that holdings never shrink; `DurablePosIsHeld` then gives
the fact at the evaluation and `SatisfiedIsStable` carries it through every other
step. Nothing is assumed about where replicas connect. Each place of a view has
cursors loaded from the slot's occupants at those moments (`LoadedFrom`), each
bounded by what one of them holds, so a position the evaluation finds has enough
places behind it (`BackedOn`, `HoldingPlaces`). Picking a node for each place is an
injection when no node was behind two, so there are as many nodes as places
(`BackedByNodes`); this is the second half of `VouchedFor`. `VouchedStays` carries
both through the steps that only let holdings grow. `ReplyBacked` adds that a wait
that has reached a verdict, and a slot about to be released, are covered by the
cached position.

`GovernInv` is about the log alone: the pending
changes are exactly the ones dealt with and not applied, in order (`PendingInv`),
the policy in force is the one the newest applied change names, and only an
unwitnessed change on the primary's disk runs ahead of its slot (`PolicyInv`).
`ReplyGoverned` follows from it, `ChangeWitnessed` from both.

`response_safety` checks policy changes over one slot and several slots under one
policy; the two together, for any number of slots, are covered here.

### ClientPath_proofs

`ConnectionsAlwaysAccounted`, `ShedRequestsStayShed`, `RepliesAlwaysReachClients`,
for any connections, ring and queue sizes and loads. The one hypothesis,
`Numbered`, says that there are finitely many connections, numbered from 1 (the
model's 0 is "none"), and that the response stage takes at least one slot at a time. Seven layers, each resting on the ones before:

- `Types`, with the bounds of what the response stage has taken note of.
- `Owned`: a slab entry on the free list is vacant; an armed receive and every
  completion still owed name the connection the entry holds, and nothing follows a
  terminal completion. So an index is handed on only when nothing can name it, and
  `BytesUnderOwner` follows.
- `Roll`: whoever a queue, the slab or the egress names is a connection the accept
  loop is done with; a connection is shut before the stage is told of its end; the
  connections announced and not yet drained, and those in the stage's table, are
  disjoint, and the count is theirs and the accept loop's (`PermitsCounted`).
- `Ordered`: a connection's requests ascend through socket, completions and parse
  buffer, one entry to a connection; a request on the ring, or of a shed tail, is
  before everything still to be parsed. `ShedStaysShed` follows: the requests a
  retry may put on the ring come after the tail it sheds first.
- `Heard`: what was sampled before the control channel was drained names no
  connection still to be announced, whence `NoReplyLost`.
- `Slots`: a request is queued once and answered on the ring or early, never both;
  the output ring alternates first and last slots of one request; where the next
  slot of the matching stage and of the response stage falls.
- `SeenWhole`: the client's account once its send buffer is flushed (`Seen`, a fold
  of `observe`). It is not bad; until the connection is let go of, every request
  under way is outstanding in it, and it is between two slots of a request exactly
  when the response stage is. That an early reply or a slot keeps it so is where
  `BatchBoundary`, the order of the queues and the uniqueness of requests meet.

`RepliesWhole` follows since a fold that ends well began well.

### PolicyPresence_proofs

`PresenceAlwaysConsistent`, `OverrideAlwaysEnds`, `ConsentAlwaysStands`,
`TakesAreJustified`, `GraceAlwaysRuns` from `PresenceInv`; `AnswersAlwaysTrue` and
`LineageAlwaysTruthful` from `ControlInv`. What makes them inductive is the order
of the producer's two looks: a latched override is of the generation loaded first,
hence of this one as long as nothing acked since that load, and what acked since
the second look acked since the first (`LookOrder`, `OverrideGeneration`). The count
is the number of slots engaged (`CountMatches`), and a stamp is no older than the
departure it dates (`LossOrder`). On the way to the journal one ticket is open at a
time and is on the ring at most once (`Tickets`); the lineage follows the claim,
then what was staged, then what was published (`TenureFollows`).

### CatchupHandoff_proofs

`AcksAlwaysWithinSent`, `RingAlwaysInOrder`, `GateAlwaysSilent` (an action property) and
`BoundariesAlwaysAnnounced`, for any number of entries, segments, ring slots and
faults. `AcksWithinSent` speaks of the drain and the live loop; `AckInv` says where
the receiver stands before that: not past the handshake until a walk sends, not
past the walk's `end` while it does, so that the seed, the larger of handshake and
residual end, is at or past it. The ring's order needs what keeps a fresh chunk
from following a hole (`Blocked`: the replica is evicted, the slot is not active
and nobody is past the look at that, or the ring is full and nobody consumes it).
The announcement follows a boundary along the stream: every one is announced, on
its way in the ring or in hand, or still ahead of the walk (`Covered`), as long as
no rotation moved files under a walk (`skewed`).

### JournalStage_proofs

`CursorsAlwaysTruthful`, `NothingEverDroppedOnStop`, `DiskThreadKeepsItsSteps`,
`FramingAlwaysFollowsPrimary`, `DivergenceAlwaysStops`, for any number of slots and
boundaries, any batch size, ring depth and number of failed rotations. The layers:

- `Window`: what the sequencer has read, encoded and handed over, place by place of
  its loop; the sentinel is the last slot.
- `HandOffInv`: a claimed slot is one of the ring's; a rotation is asked for and
  answered while the sequencer waits with the ring drained, so that the live
  segment is the one the sequencer believes in whenever there are batches.
- `DurableInv`: the batches in the ring are a chain, each the entries after the one
  before up to its own ring position, the first one at the durable cursor
  (`ChainInv`, `CursorInv`); what is placed is what is durable, plus what is staged
  (`PlacedInv`). From it the cursors, the stop and the disk thread's steps.
- `ReplicaInv`: the marks not yet resolved, the held one and the queue, lie at or
  ahead of the writer in order (`MarkInv`); a boundary the stream has gone past or
  announced, and that is not adopted, is among them (`BoundaryInv`); while the
  sequencer encodes with no mark in hand, no queued mark falls inside what it has
  read (`QueueInv`, which is what the order of the two queues comes down to). So an
  encode ends at or before every boundary not adopted, the live segment starts on
  the last boundary passed, and every write lands in the primary's segment
  (`FramedInv`). A diverged replica's first mark stays the first one outstanding
  (`DivergeInv`).

### Pipeline_proofs

`LoadsReturnOneStore` (`SeqLock`), `SpscRefinesLog` and `RingRefinesLog`: both queues
implement `BroadcastLog`, for every capacity, number of consumers and dependency
graph. The ring's invariant: consumers are in order behind their dependency and go
by a view that is behind it (`ConsumerOrder`), the producer's view of the gates is
behind them, a refresh under way included (`GateView`), hence nobody is lapped, the
consumers that are not gates included (`NobodyLapped`), hence the slot of every
entry still owed to somebody holds it (`RingContent`). That every consumer is
followed by some gate is an induction over the order in which consumers are added.

### Failover_proofs

`EpochsAlwaysMintedInOrder` (an action property) and `SessionsAlwaysOnLineage`, for
any number of voters, terms, restarts and entries. A majority that has heard a
later term contradicts a leader that still stands; while one stands, every epoch
ever minted is below its term, give or take the manual promotions ordered and
carried out (`Below`, `Room`, `Slack`). `Lineage`: epochs grow along a journal, and a
session's log begins the log of its target, which still holds the tenure it was
opened in.

`TruthfulDecisionAlwaysHoldsAcked` (an action property), for any number of terms,
restarts and entries, with three voters: automatic promotion wants at least three
(`server-runtime/src/raft.rs:95`) and a primary has two replica slots
(`transport-core/src/health.rs:512`), so three is the cluster in which two disks are a
majority. The property speaks of one step; what makes it true is spread over the
tenures before it, and the invariant (`Trusted`, as long as no operator promoted by
hand) has four parts:

- `Tenures`: two journals with entries of one epoch agree up to there (`Matching`),
  and who owns a tenure, serving or stopped as its primary, holds the longest
  journal of it.
- `Archived`: a replica that awaits a snapshot is in `bare`.
- `Kept`: two nodes secure what is acked, each by holding it together with an entry
  of its tenure or by being in `bare`; whoever holds an entry of a newer tenure
  holds all of it (`Carried`), and so does the owner of the newest (`Leading`).
- `Judged`: while a leader holds answers its journal and epoch stand still and the
  peers it heard are in its term or past it, so that unless all moved on no tenure
  has opened and what it owes is acked still; on truthful tips, one answer that is
  level means that it holds what it owes.

Two of three nodes secure an acked entry and the leader with one peer is two of
three: they meet, in a node that is not bare, in the leader or in a journal that
the leader's, level with it in epoch and length, begins with.

### Recovery_proofs

`ReplayAlwaysFaithful`, `RefusalsOnlyUnheaded` and `DurableAlwaysForGood` (an action
property), for any genesis, drain width, number of entries, segments, outstanding
directory operations and snapshots. Nothing in the model says that a journal is in
order: the walk finds out from what a crash left. Three layers:

- `Base`: a layout names no file twice and its first segment goes back to the
  genesis (`Shape`); a whole cell was written under the sequence at which it lies
  (`Placed`); only the live segment has cells that are not synced, at most one
  drain of them, and they follow what was last reported durable (`Synced`); a
  snapshot's state is the history its chain stands for (`Saved`); the node has
  applied what its last segment spells, through every step of a rotation and of its
  roll-back (`Running`), or is about to take up the anchor of a segment it
  synthesized (`Synthesizing`).
- `Cut`: whatever a recovery discarded is in no file the directory still names
  (`Clean`), and an older layout names no other file with cells in it (`Apart`):
  therefore a directory rolled back by a power loss cannot bring such an entry back.
  That the walk's last segment holds every entry of the ones before it is an
  induction along the links.
- `Solid`, as long as nothing is `excused`: every layout a power loss may bring back
  without an excuse is one of segments that link up and end in the durable history,
  the last one with a tail that a torn drain explains (`Held`, `Chained`); layouts not
  yet fsynced lie about either under a node that is `exposed` or while no file has
  unsynced cells (`Exposure`), so that a power loss takes back names or cells, never
  both; snapshots are of durable entries (`SavedHeld`). From it `SolidAccepts`: the
  walk accepts such a journal once its live segment is headed; and `AckedInJournal`:
  what it then recovers begins with everything reported durable.

### Only model-checked

- Liveness (`response_liveness`, `handoff_liveness`, `journal_liveness`,
  `BlockedPushEnds`) and the two violations: fairness is out of this prover's reach.

Every invariant and every safety action property of the passing runs is proved.

## Plan

Done: the modules above, with proofs of all their safety properties.
Models that would extend the project: the poll-mode `LiveHandoff` and egress, the
ack queue's pacing, pruning and the snapshot transfer inside `CatchupHandoff`,
the stand-down and nudge rules of the control plane with a liveness property of
failover.

## Not modelled

Codecs and wire formats, logging, metrics, CPU placement, NIC access, monitoring
endpoints, authentication, the example applications and the tools: sequential
code without shared state, or pure I/O. The repository is 130 000 lines, much
of it tests inside the source files, transports written out once per driver
(sockets, io_uring, DPDK), codecs and tools; the modules cover the code that
decides, in the variant of the io_uring and TCP drivers. The notes in
`PROJECT.json` say for each part what is left out.
