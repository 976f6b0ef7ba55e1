--------------------------- MODULE ReplicaPresence ---------------------------
(***************************************************************************)
(* The replica count, the operator's halt override and the loss stamp of a *)
(* replicated primary (transport-core/src/replica_presence.rs), with the   *)
(* three kinds of thread that touch them:                                  *)
(*                                                                         *)
(*   - the replication senders: a handler thread per slot lifts the count  *)
(*     and reports its connection's first ack; the supervisor thread       *)
(*     lowers the count once the handler has been joined, one slot at a    *)
(*     time (server-runtime/src/replication/tcp_sender.rs);                *)
(*   - the input ring's producer, which journals ack-policy changes and    *)
(*     decides, in between, whether a client write is taken                *)
(*     (server-runtime/src/halt.rs);                                       *)
(*   - the response stage, which ages the halt for the degraded release    *)
(*     (server-runtime/src/durability_gate.rs).                            *)
(*                                                                         *)
(* Every atomic load, store and read-modify-write is a step of its own, in *)
(* program order.  Relaxed reorderings of independent locations are not    *)
(* modelled.  The clock ticks nondeterministically up to MaxNow.           *)
(***************************************************************************)
EXTENDS Integers, FiniteSets, PolicySet

CONSTANTS
  Slots,     \* the replica slots of the sender
  Grace,     \* the degraded-release grace period, in clock ticks
  MaxNow,    \* bound on the clock
  MaxJoins   \* bound on the connections counted

ASSUME PresenceAssumption ==
  /\ IsFiniteSet(Slots)
  /\ Grace \in Nat /\ MaxNow \in Nat /\ MaxJoins \in Nat

VARIABLES
  connected,   \* ReplicaPresence.connected
  acked,       \* ReplicaPresence.acked: the first-ack generation
  overrideAt,  \* ReplicaPresence.override_at: 0, or a generation plus one
  lastLost,    \* ReplicaPresence.last_lost: 0, or an instant plus one
  slot,        \* where each slot's connection is in its life
  joins,       \* connections counted so far (bounded)
  now,         \* the clock
  fenced,      \* FenceState's latch: a newer primary has superseded this one
  prod,        \* the producer: its step and what it has loaded
  journaled,   \* the newest policy change published
  gate,        \* the response stage's halt check: its step and its loads
  \* history
  ackSinceLook,   \* a first ack since the producer's current count load
  ackSinceGen,    \* a first ack since its current generation load
  voided,         \* a first ack since the latched override's count load
  voidedGen,      \* a first ack since the latched override's generation load
  lowerAt,        \* when the supervisor began its latest lower
  lossAt          \* when the departure that last took the count to zero began

presenceVars == <<connected, acked, overrideAt, lastLost>>
ghostVars == <<ackSinceLook, ackSinceGen, voided, voidedGen, lowerAt, lossAt>>
vars == <<presenceVars, slot, joins, now, fenced, prod, journaled, gate, ghostVars>>

-----------------------------------------------------------------------------
(* Values *)

NeedsReplica(p) == p # Disk

Origins == {"Runtime", "Staged"}

SlotStates == {"idle", "lifting", "live", "acked", "lowering"}

\* Faulty variant: any override stands, whatever has acked since.
StandsForever(at) == at # 0

\* overridden's comparison: an override loaded as at ends with the first ack
\* after the look that latched it.
Stands(at) == at = acked + 1

\* overridden as one predicate over its two relaxed loads.
Overridden == overrideAt # 0 /\ Stands(overrideAt)

\* is_unwitnessed for a node that replicates: an explicit runtime Disk with
\* no replica seen.
IsUnwitnessed(policy, origin, noneSeen) ==
  noneSeen /\ origin = "Runtime" /\ policy = Disk

Idle == [pc |-> "idle", policy |-> Disk, origin |-> "Runtime", gen |-> 0,
         none |-> FALSE, at |-> 0, justified |-> FALSE]

GateIdle == [pc |-> "idle", stamp |-> 0, lossSeen |-> 0,
             started |-> -1, open |-> FALSE, known |-> FALSE, decidedAt |-> 0]

Init ==
  /\ connected = 0 /\ acked = 0 /\ overrideAt = 0
  /\ lastLost = 1                       \* stamped when made, at instant 0
  /\ slot = [i \in Slots |-> "idle"]
  /\ joins = 0 /\ now = 0 /\ fenced = FALSE
  /\ prod = Idle
  /\ journaled \in Policies             \* the policy the tenure starts under
  /\ gate = GateIdle
  /\ ackSinceLook = FALSE /\ ackSinceGen = FALSE
  /\ voided = FALSE /\ voidedGen = FALSE
  /\ lowerAt = 0 /\ lossAt = 0

-----------------------------------------------------------------------------
(* The senders *)

\* A write is justified at a moment when a replica streams or the operator's
\* consent stands: latched, and no replica has acknowledged since it was given.
NotHalted == connected > 0 \/ (overrideAt # 0 /\ ~voided)

\* Extend the history of a verdict in progress to the state just reached.
Justify == [prod EXCEPT !.justified = @ \/ NotHalted']

\* lift, first half: the accepted handshake raises the count.
LiftCount(i) ==
  /\ slot[i] = "idle" /\ joins < MaxJoins
  /\ connected' = connected + 1
  /\ slot' = [slot EXCEPT ![i] = "lifting"]
  /\ joins' = joins + 1
  /\ UNCHANGED <<acked, overrideAt, lastLost, now, fenced, journaled, gate, ghostVars>>
  /\ prod' = Justify

\* lift, second half: forget the last loss.
LiftForget(i) ==
  /\ slot[i] = "lifting"
  /\ lastLost' = 0
  /\ slot' = [slot EXCEPT ![i] = "live"]
  /\ UNCHANGED <<connected, acked, overrideAt, joins, now, fenced, prod, journaled, gate, ghostVars>>

\* FirstAck::acked: the connection's first ack bumps the generation.
FirstAck(i) ==
  /\ slot[i] = "live"
  /\ acked' = acked + 1
  /\ slot' = [slot EXCEPT ![i] = "acked"]
  /\ ackSinceLook' = TRUE /\ ackSinceGen' = TRUE
  /\ voided' = TRUE /\ voidedGen' = TRUE
  /\ UNCHANGED <<connected, overrideAt, lastLost, joins, now, fenced, prod, journaled, gate, lowerAt, lossAt>>

\* A counted connection whose handler the supervisor has joined; the supervisor
\* tears down one slot at a time.
Lowerable(i) == slot[i] \in {"live", "acked"} /\ \A j \in Slots : slot[j] # "lowering"

\* Faulty variant: a stamp already there is kept.
StampOnce == IF lastLost = 0 THEN now + 1 ELSE lastLost

\* stamp_loss: the present instant, never 0.
Stamp == now + 1

\* lower, first half: the supervisor, having joined the handler, stamps the
\* moment in case this is the last replica.
LowerStamp(i) ==
  /\ Lowerable(i)
  /\ lastLost' = Stamp
  /\ slot' = [slot EXCEPT ![i] = "lowering"]
  /\ lowerAt' = now
  /\ UNCHANGED <<connected, acked, overrideAt, joins, now, fenced, prod, journaled, gate,
                 ackSinceLook, ackSinceGen, voided, voidedGen, lossAt>>

\* lower, second half: the count goes down after the stamp.
LowerCount(i) ==
  /\ slot[i] = "lowering"
  /\ connected' = connected - 1
  /\ slot' = [slot EXCEPT ![i] = "idle"]
  /\ lossAt' = IF connected = 1 THEN lowerAt ELSE lossAt
  /\ UNCHANGED <<acked, overrideAt, lastLost, joins, now, fenced, prod, journaled, gate,
                 ackSinceLook, ackSinceGen, voided, voidedGen, lowerAt>>

-----------------------------------------------------------------------------
(* The input ring's producer: HaltGate::journal and HaltGate::verdict *)

\* decide, first load: the generation (Acquire).
DecideGeneration(policy, origin) ==
  /\ prod.pc = "idle"
  /\ prod' = [Idle EXCEPT !.pc = "observe", !.policy = policy,
                          !.origin = origin, !.gen = acked]
  /\ ackSinceGen' = FALSE
  /\ UNCHANGED <<presenceVars, slot, joins, now, fenced, journaled, gate,
                 ackSinceLook, voided, voidedGen, lowerAt, lossAt>>

\* decide, second load: the count.
DecideCount ==
  /\ prod.pc = "observe"
  /\ prod' = [prod EXCEPT !.pc = "publish", !.none = (connected = 0)]
  /\ ackSinceLook' = FALSE
  /\ UNCHANGED <<presenceVars, slot, joins, now, fenced, journaled, gate,
                 ackSinceGen, voided, voidedGen, lowerAt, lossAt>>

\* publish fails (the ring is full): nothing is recorded.
PublishRefused ==
  /\ prod.pc = "publish"
  /\ prod' = Idle
  /\ UNCHANGED <<presenceVars, slot, joins, now, fenced, journaled, gate, ghostVars>>

\* publish succeeds: the change's entry is on the input ring.
Publish ==
  /\ prod.pc = "publish"
  /\ journaled' = prod.policy
  /\ prod' = [prod EXCEPT !.pc = "record"]
  /\ UNCHANGED <<presenceVars, slot, joins, now, fenced, gate, ghostVars>>

\* Faulty variant: the override is latched at the generation of the latch.
LatchLate(forced) ==
  IF NeedsReplica(prod.policy) THEN 0 ELSE IF forced THEN acked + 1 ELSE overrideAt

\* Faulty variant: the generation itself is stored, 0 being no override.
LatchUnshifted(forced) ==
  IF NeedsReplica(prod.policy) THEN 0 ELSE IF forced THEN prod.gen ELSE overrideAt

\* The override record_journaled leaves: clear_override, latch_override at the
\* generation the look loaded, or nothing.
Latched(forced) ==
  IF NeedsReplica(prod.policy) THEN 0 ELSE IF forced THEN prod.gen + 1 ELSE overrideAt

\* record_journaled: a policy that needs a replica clears the override, a
\* forced Disk latches it at the generation its look loaded.
RecordJournaled ==
  /\ prod.pc = "record"
  /\ LET forced == IsUnwitnessed(prod.policy, prod.origin, prod.none)
     IN  /\ overrideAt' = Latched(forced)
         /\ voided' = IF forced THEN ackSinceLook ELSE voided
         /\ voidedGen' = IF forced THEN ackSinceGen ELSE voidedGen
  /\ prod' = Idle
  /\ UNCHANGED <<connected, acked, lastLost, slot, joins, now, fenced, journaled, gate,
                 ackSinceLook, ackSinceGen, lowerAt, lossAt>>

\* verdict, first loads: the fence latch, then the count.
VerdictCount ==
  /\ prod.pc = "idle"
  /\ prod' = [Idle EXCEPT !.pc = IF fenced THEN "close"
                                 ELSE IF connected = 0 THEN "override" ELSE "take",
                          !.justified = NotHalted]
  /\ UNCHANGED <<presenceVars, slot, joins, now, fenced, journaled, gate, ghostVars>>

\* verdict with no replica: overridden()'s first load.
VerdictOverride ==
  /\ prod.pc = "override"
  /\ prod' = [prod EXCEPT !.pc = IF overrideAt = 0 THEN "refuse" ELSE "generation",
                          !.at = overrideAt]
  /\ UNCHANGED <<presenceVars, slot, joins, now, fenced, journaled, gate, ghostVars>>

\* verdict with no replica: overridden()'s second load.
VerdictGeneration ==
  /\ prod.pc = "generation"
  /\ prod' = [prod EXCEPT !.pc = IF Stands(prod.at) THEN "take" ELSE "refuse"]
  /\ UNCHANGED <<presenceVars, slot, joins, now, fenced, journaled, gate, ghostVars>>

\* The reader acts on the verdict and returns to its loop.
VerdictDone ==
  /\ prod.pc \in {"take", "refuse", "close"}
  /\ prod' = Idle
  /\ UNCHANGED <<presenceVars, slot, joins, now, fenced, journaled, gate, ghostVars>>

-----------------------------------------------------------------------------
(* The response stage: degraded_release_open over last_loss *)

\* last_loss, first load: the count (Acquire).  A replica streaming forgets
\* the halt and closes the release.
LossCount ==
  /\ gate.pc = "idle"
  /\ gate' = IF connected # 0
             THEN [gate EXCEPT !.started = -1, !.open = FALSE]
             ELSE [gate EXCEPT !.pc = "stamp", !.lossSeen = lossAt]
  /\ UNCHANGED <<presenceVars, slot, joins, now, fenced, prod, journaled, ghostVars>>

\* last_loss, second load: the stamp (0 when a replica counted since has
\* cleared it).
LossStamp ==
  /\ gate.pc = "stamp"
  /\ gate' = [gate EXCEPT !.pc = "age", !.stamp = lastLost]
  /\ UNCHANGED <<presenceVars, slot, joins, now, fenced, prod, journaled, ghostVars>>

\* Faulty variant: the start recorded first wins over the stamp.
halt_start_seen(stamp, seen, t) ==
  IF seen # -1 THEN seen ELSE IF stamp # 0 THEN stamp - 1 ELSE t

\* halt_start: a stamped loss is authoritative, a missing one falls back to
\* the start last recorded, or to this very moment.
halt_start(stamp, seen, t) ==
  IF stamp # 0 THEN stamp - 1 ELSE IF seen # -1 THEN seen ELSE t

\* degraded_release_open: read the clock, date the halt, compare its age.
\* Whether the policy in force needs a replica is the gate's own state.
LossAge(needsReplica) ==
  /\ gate.pc = "age"
  /\ LET started == halt_start(gate.stamp, gate.started, now)
     IN  gate' = [gate EXCEPT !.pc = "idle", !.started = started,
                              !.open = needsReplica /\ now - started >= Grace,
                              !.known = gate.stamp # 0, !.decidedAt = now]
  /\ UNCHANGED <<presenceVars, slot, joins, now, fenced, prod, journaled, ghostVars>>

-----------------------------------------------------------------------------
(* The environment *)

\* Time passes.
Tick ==
  /\ now < MaxNow
  /\ now' = now + 1
  /\ UNCHANGED <<presenceVars, slot, joins, fenced, prod, journaled, gate, ghostVars>>

\* FenceState::fence: a peer with a higher epoch supersedes this node, for good.
Fence ==
  /\ ~fenced
  /\ fenced' = TRUE
  /\ UNCHANGED <<presenceVars, slot, joins, now, prod, journaled, gate, ghostVars>>

Sender == \E i \in Slots : LiftCount(i) \/ LiftForget(i) \/ FirstAck(i)
                           \/ LowerStamp(i) \/ LowerCount(i)

Producer ==
  \/ \E p \in Policies, o \in Origins : DecideGeneration(p, o)
  \/ DecideCount \/ PublishRefused \/ Publish \/ RecordJournaled
  \/ VerdictCount \/ VerdictOverride \/ VerdictGeneration \/ VerdictDone

Response == LossCount \/ LossStamp \/ \E n \in BOOLEAN : LossAge(n)

Next == Sender \/ Producer \/ Response \/ Tick \/ Fence

Spec == Init /\ [][Next]_vars

-----------------------------------------------------------------------------
(* Properties *)

ProducerSteps == {"idle", "observe", "publish", "record", "override",
                  "generation", "take", "refuse", "close"}

\* The type invariant.
TypeOK ==
  /\ connected \in Nat /\ acked \in Nat /\ overrideAt \in Nat /\ lastLost \in Nat
  /\ slot \in [Slots -> SlotStates]
  /\ joins \in Nat /\ now \in Nat /\ fenced \in BOOLEAN
  /\ prod \in [pc : ProducerSteps, policy : Policies, origin : Origins, gen : Nat,
               none : BOOLEAN, at : Nat, justified : BOOLEAN]
  /\ journaled \in Policies
  /\ gate \in [pc : {"idle", "stamp", "age"}, stamp : Nat, lossSeen : Nat,
               started : Nat \cup {-1}, open : BOOLEAN, known : BOOLEAN, decidedAt : Nat]
  /\ ackSinceLook \in BOOLEAN /\ ackSinceGen \in BOOLEAN
  /\ voided \in BOOLEAN /\ voidedGen \in BOOLEAN
  /\ lowerAt \in Nat /\ lossAt \in Nat

\* The override never outlives a replica: while it lifts the halt, no replica
\* has first acked since the producer saw that none was streaming, however
\* the ack interleaved with the decision, the publish and the latch
\* (replica_presence.rs, "Ended by a first ack, without a race").
OverrideEndsAtFirstAck == Overridden => ~voided

\* The operator's consent is never lost: once latched, the override stands
\* until a first ack later than the decision's generation load or a policy
\* that needs a replica; replicas that come and go without acking leave it
\* (lift, lower, record_journaled).
ConsentStands == overrideAt # 0 /\ ~voidedGen => Overridden

\* The override stands only beside the Disk policy: outside the producer's own
\* publish-then-record window, a latched override means the newest change
\* published is Disk (HaltGate::record_journaled, last_loss).
OverrideOnlyBesideDisk == prod.pc # "record" /\ overrideAt # 0 => journaled = Disk

\* A client write is taken only if, at some moment of the verdict's separate
\* loads, a replica was streaming or the operator's consent stood
\* (HaltGate::verdict, ReplicaPresence::halted).
TakeIsJustified == prod.pc = "take" => prod.justified

\* The stamp a halted reader sees belongs to the loss that took the count to
\* the zero it read, or to a later one, never to an earlier loss: stamped
\* before the count is lowered (ReplicaPresence::lower, last_loss).
StampNeverEarlier == gate.pc = "age" /\ gate.stamp # 0 => gate.stamp - 1 >= gate.lossSeen

\* With a stamp read, the degraded release opens no earlier than the grace
\* period after the loss the reader observed (degraded_release_open).
GraceFromStampedLoss ==
  gate.pc = "idle" /\ gate.open /\ gate.known => gate.decidedAt - gate.lossSeen >= Grace

\* The words the threads share agree whatever interleaves: an override only
\* beside Disk, a stamp no older than the loss it is read for.
PresenceConsistent == TypeOK /\ OverrideOnlyBesideDisk /\ StampNeverEarlier

=============================================================================
