--------------------------- MODULE DurabilityGate ---------------------------
(***************************************************************************)
(* The durability gate of the response stage (server-runtime/src/          *)
(* durability_gate.rs): which replies leave a primary, when, and under     *)
(* which ack policy.                                                       *)
(*                                                                         *)
(* Around the gate, the threads whose cursors it reads:                    *)
(*   - the pipeline: the producer publishes entries (client writes and     *)
(*     ack-policy changes), the matching stage dispatches them in order    *)
(*     and stores an unwitnessed change in the forced-policy cell, the     *)
(*     journal-disk thread persists them;                                  *)
(*   - the replicas and their slots' handlers: lift, seed, activate, ack,  *)
(*     and the supervisor's teardown (replication/cursors.rs, response.rs  *)
(*     with_cursor_view).                                                  *)
(*                                                                         *)
(* Every atomic load of an evaluation (the journal position, the forced    *)
(* cell, each slot's active flag, in-memory and persisted cursors) is a    *)
(* step of its own.  An entry is its position in the log; a write carries  *)
(* no policy.  The tenure starts after the entries recovery left in the    *)
(* log.  Time is abstract: the grace period may have elapsed or not        *)
(* whenever no replica is counted (see ReplicaPresence).                   *)
(*                                                                         *)
(* The accept loop gives any free slot to any replica, even to one whose   *)
(* older connection still holds another slot.  The gate sees slots; the    *)
(* properties are about nodes, so history remembers whose cursors a view   *)
(* was read from.                                                          *)
(***************************************************************************)
EXTENDS AckPolicy, Sequences

CONSTANTS
  Slots,        \* the replica slots, numbers above 0
  Replicas,     \* the nodes that may connect to them
  ChangeBytes,  \* the policies a change may name
  Start,        \* how a tenure may start: [inForce, newest, unwitnessed]
  DegradedAcks, \* the degraded release is switched on
  MaxLog,       \* bound on the entries of the log
  MaxJoins      \* bound on the connections counted

Write == "write"   \* the byte of an entry that is not a change
None == 0          \* no slot left to read; no forced change; no change applied

Seats == {Primary} \cup Slots     \* the places of a view
Nodes == {Primary} \cup Replicas  \* the nodes there are

ASSUME GateAssumption ==
  /\ Slots \in SUBSET (Nat \ {0}) /\ IsFiniteSet(Slots)
  /\ IsFiniteSet(Replicas) /\ Primary \notin Replicas
  /\ DegradedAcks \in BOOLEAN
  /\ ChangeBytes \subseteq AckPolicies
  /\ Start \subseteq [inForce : AckPolicies, newest : AckPolicies \cup {Write},
                      unwitnessed : BOOLEAN]
  /\ MaxLog \in Nat \ {0} /\ MaxLog < U64MAX /\ MaxJoins \in Nat

VARIABLES
  \* the pipeline
  log,       \* the entries published, oldest first: [byte, unwitnessed]
  base,      \* the policy in force before the log's first change
  matched,   \* entries the matching stage has dispatched
  jpos,      \* journal_persisted_wire_seq
  forced,    \* the forced-policy cell: an entry's position, or None
  shutdown,  \* the shutdown flag
  \* the replicas
  held,      \* the highest entry each replica has ever held in memory
  disk,      \* the highest entry each replica has persisted
  slot,      \* per slot: its connection's phase and occupant, the cursors
  joins,     \* connections counted so far
  \* the gate
  policy,    \* active_policy
  cached,    \* cached_durable_pos
  pending,   \* the changes still to apply, as log positions, oldest first
  appliedThrough, \* applied_through
  \* the gate's control
  pc,        \* where it is in admit, idle_recheck or wait_durable
  why,       \* what an evaluation is for: a wait, or the idle recheck
  seq,       \* the entry of the slot admitted last or being admitted
  extra,     \* that slot only carries the entry's wire_seq
  backing,   \* the slot's backing so far
  need,      \* what the wait is for
  look,      \* the evaluation's journal_pos
  view,      \* the evaluation's view, the slots read so far
  at,        \* the slot being read, None when all are
  mem,       \* its in-memory cursor
  \* history
  from,      \* per place of the view being read, the nodes whose cursors it has
  backers,   \* the same of the view the cached position was found on
  reply,     \* the reply released this turn
  applied    \* the change applied last this turn, and the policy before it

pipeVars == <<log, base, matched, jpos, forced, shutdown>>
replicaVars == <<held, disk, slot, joins>>
policyVars == <<policy, cached, backers, appliedThrough, applied>>
turnVars == <<seq, extra, backing, reply>>
waitVars == <<why, need>>
readVars == <<look, view, from, at, mem>>
gateVars == <<policyVars, pending, pc, turnVars, waitVars, readVars>>
vars == <<pipeVars, replicaVars, gateVars>>

-----------------------------------------------------------------------------
(* The log *)

IsChange(c) == log[c].byte # Write

\* The policy a log puts in force for what follows entry n: the newest change
\* at or below n names it, the policy b before the log if there is none.
Governing(l, b, n) ==
  LET changes == {c \in 1..n : l[c].byte # Write}
  IN  IF changes = {} THEN b
      ELSE l[CHOOSE c \in changes : \A d \in changes : d <= c].byte

PolicyAfter(n) == Governing(log, base, n)

\* What each node has ever held: the primary everything in memory.
Holdings ==
  [n \in Nodes |-> IF n = Primary THEN [mem |-> U64MAX, disk |-> jpos]
                   ELSE [mem |-> held[n], disk |-> disk[n]]]

FreeSlot == [phase |-> "free", occ |-> None, active |-> FALSE, mem |-> 0, acked |-> 0]

\* with_cursor_view's first node.
PrimaryView(j) == [n \in {Primary} |-> [mem |-> U64MAX, disk |-> j]]

\* Whose cursors that view has, and whose a load of slot i takes.
PrimaryAlone == [i \in Seats |-> IF i = Primary THEN {Primary} ELSE {}]
Occupant(i) == IF slot[i].occ = None THEN {} ELSE {slot[i].occ}

NoReply == [seq |-> 0, backing |-> "Policy", policy |-> base, by |-> PrimaryAlone]
NoneApplied == [seq |-> None, before |-> base, by |-> PrimaryAlone]

\* initial_gate_policy and DurabilityGate::new: the lineage's newest change is
\* pending under the policy before it; no slot is active yet, so the first
\* evaluation sees the primary alone, and what it finds durable is settled.
Init ==
  \E s \in Start :
    /\ base = s.inForce /\ policy = s.inForce
    /\ log = IF s.newest = Write THEN <<>>
             ELSE <<[byte |-> s.newest, unwitnessed |-> s.unwitnessed]>>
    /\ matched = Len(log) /\ jpos = Len(log)
    /\ forced = None /\ shutdown = FALSE
    /\ disk \in [Replicas -> 0..Len(log)] /\ held = disk
    /\ slot = [i \in Slots |-> FreeSlot] /\ joins = 0
    /\ cached = durable_pos(policy, PrimaryView(jpos))
    /\ pending = IF log = <<>> THEN <<>> ELSE <<1>>
    /\ appliedThrough = None
    /\ pc = "settle" /\ why = "idle"
    /\ seq = Len(log) /\ extra = FALSE /\ backing = "Policy" /\ need = 0
    /\ look = jpos /\ view = PrimaryView(0) /\ at = None /\ mem = 0
    /\ from = PrimaryAlone /\ backers = PrimaryAlone
    /\ reply = NoReply /\ applied = NoneApplied

-----------------------------------------------------------------------------
(* The pipeline *)

\* The producer publishes an entry: a write, or a change the halt gate decided
\* (unwitnessed only for a policy that needs no replica).
Publish ==
  /\ Len(log) < MaxLog
  /\ \/ log' = Append(log, [byte |-> Write, unwitnessed |-> FALSE])
     \/ \E byte \in ChangeBytes, u \in BOOLEAN :
          /\ u => ~needs_replica(byte)
          /\ log' = Append(log, [byte |-> byte, unwitnessed |-> u])
  /\ UNCHANGED <<base, matched, jpos, forced, shutdown, replicaVars, gateVars>>

\* The matching stage dispatches the next entry; an unwitnessed change also
\* goes to the forced-policy cell, replacing any earlier one.
Match ==
  /\ matched < Len(log)
  /\ matched' = matched + 1
  /\ forced' = IF log[matched + 1].unwitnessed THEN matched + 1 ELSE forced
  /\ UNCHANGED <<log, base, jpos, shutdown, replicaVars, gateVars>>

\* Faulty variant: the cursor is published one past the batch.
PersistPast ==
  /\ jpos < Len(log)
  /\ jpos' \in (jpos + 2)..(Len(log) + 1)
  /\ UNCHANGED <<log, base, matched, forced, shutdown, replicaVars, gateVars>>

\* The journal-disk thread's fsync returns and the cursor advances.
Persist ==
  /\ jpos < Len(log)
  /\ jpos' \in (jpos + 1)..Len(log)
  /\ UNCHANGED <<log, base, matched, forced, shutdown, replicaVars, gateVars>>

\* Shutdown is requested, by an operator or a fence.
Shutdown ==
  /\ ~shutdown /\ shutdown' = TRUE
  /\ UNCHANGED <<log, base, matched, jpos, forced, replicaVars, gateVars>>

-----------------------------------------------------------------------------
(* The replicas and their slots *)

Counted == {i \in Slots : slot[i].phase \in {"lifted", "seeded", "live"}}

\* A replica receives further entries on a stream the primary opened.
Receive(n) ==
  /\ \E i \in Counted : slot[i].occ = n
  /\ held[n] < Len(log)
  /\ held' = [held EXCEPT ![n] = @ + 1]
  /\ UNCHANGED <<pipeVars, disk, slot, joins, gateVars>>

\* A replica's own journal persists what it holds.
ReplicaPersist(n) ==
  /\ disk[n] < held[n]
  /\ disk' = [disk EXCEPT ![n] = held[n]]
  /\ UNCHANGED <<pipeVars, held, slot, joins, gateVars>>

\* A free slot takes whichever replica dials, the first one free at the accept;
\* handshakes end in any order, and the handler counts the replica when its does.
Lift(i, n) ==
  /\ slot[i].phase = "free" /\ joins < MaxJoins
  /\ slot' = [slot EXCEPT ![i].phase = "lifted", ![i].occ = n]
  /\ joins' = joins + 1
  /\ UNCHANGED <<pipeVars, held, disk, gateVars>>

\* seed_on_handshake: both cursors from the resume point the replica announced
\* (0 for a divergent one).
Seed(i) ==
  /\ slot[i].phase = "lifted"
  /\ \E s \in {0, disk[slot[i].occ]} :
       slot' = [slot EXCEPT ![i].phase = "seeded", ![i].mem = s, ![i].acked = s]
  /\ UNCHANGED <<pipeVars, held, disk, joins, gateVars>>

\* bridge_catchup_to_live: only then does the slot take part in evaluations.
Activate(i) ==
  /\ slot[i].phase = "seeded"
  /\ slot' = [slot EXCEPT ![i].phase = "live", ![i].active = TRUE]
  /\ UNCHANGED <<pipeVars, held, disk, joins, gateVars>>

\* record_ack: an ack frame the replica sent, at any moment up to now, with
\* what it then held and had persisted.
RecordAck(i) ==
  /\ slot[i].phase = "live"
  /\ \E m \in slot[i].mem..held[slot[i].occ], a \in slot[i].acked..disk[slot[i].occ] :
       /\ a <= m /\ (m > slot[i].mem \/ a > slot[i].acked)
       /\ slot' = [slot EXCEPT ![i].mem = m, ![i].acked = a]
  /\ UNCHANGED <<pipeVars, held, disk, joins, gateVars>>

\* disengage_slot, in its order: lower the count ...
Lower(i) ==
  /\ i \in Counted
  /\ slot' = [slot EXCEPT ![i].phase = "lowered"]
  /\ UNCHANGED <<pipeVars, held, disk, joins, gateVars>>

\* ... clear_on_disconnect, the cursors before the flag ...
ClearCursors(i) ==
  /\ slot[i].phase = "lowered"
  /\ slot' = [slot EXCEPT ![i].phase = "cleared", ![i].mem = 0, ![i].acked = 0]
  /\ UNCHANGED <<pipeVars, held, disk, joins, gateVars>>

\* ... and the active flag; the slot is free for another replica.
Deactivate(i) ==
  /\ slot[i].phase = "cleared"
  /\ slot' = [slot EXCEPT ![i] = FreeSlot]
  /\ UNCHANGED <<pipeVars, held, disk, joins, gateVars>>

-----------------------------------------------------------------------------
(* The gate: applying changes *)

\* Faulty variant: a switch keeps the position cached under the old policy.
ApplyKeepsCached(c) ==
  IF c <= appliedThrough
  THEN UNCHANGED policyVars
  ELSE /\ appliedThrough' = c
       /\ policy' = log[c].byte
       /\ UNCHANGED <<cached, backers>>
       /\ applied' = [seq |-> c, before |-> policy, by |-> backers]

\* apply_change, with is_stale and switch_to: a change at or below the newest
\* applied is stale; switching to another policy forgets the cached position.
ApplyChange(c) ==
  IF c <= appliedThrough
  THEN UNCHANGED policyVars
  ELSE /\ appliedThrough' = c
       /\ policy' = log[c].byte
       /\ IF log[c].byte = policy THEN UNCHANGED <<cached, backers>>
          ELSE cached' = 0 /\ backers' = PrimaryAlone
       /\ applied' = [seq |-> c, before |-> policy, by |-> backers]

\* apply_front_pending.
ApplyFrontPending == ApplyChange(Head(pending)) /\ pending' = Tail(pending)

\* Faulty variant: any change settles on the primary's disk alone.
FrontOnDisk == pending # <<>> /\ look >= Head(pending)

\* settle_pending_if_durable's test on the front change.
FrontDurable ==
  /\ pending # <<>>
  /\ \/ cached >= Head(pending)
     \/ log[Head(pending)].unwitnessed /\ look >= Head(pending)

\* Faulty variant: a change let through degraded is forgotten.
DropChange(c) == UNCHANGED pending

\* defer_change: the change joins the pending ones unless it is stale.
DeferChange(c) ==
  pending' = IF c <= appliedThrough THEN pending ELSE Append(pending, c)

-----------------------------------------------------------------------------
(* The gate: one turn of the response stage *)

\* The stage's next turn: the history of the last one is dropped.
NewTurn == reply' = NoReply /\ applied' = NoneApplied

\* The turn is over; the locals of its waits are gone.
EndTurn ==
  /\ pc' = "idle" /\ backing' = "Policy"
  /\ why' = "idle" /\ need' = 0
  /\ look' = 0 /\ view' = PrimaryView(0) /\ from' = PrimaryAlone /\ at' = None /\ mem' = 0

\* The end of admit_slot: a reply goes out with its backing; a change slot
\* applies its change, or defers it when only the primary's disk backs it.
SlotReleased(b) ==
  /\ EndTurn
  /\ IF extra \/ ~IsChange(seq)
     THEN /\ reply' = [seq |-> seq, backing |-> b, policy |-> policy, by |-> backers]
          /\ UNCHANGED <<policyVars, pending>>
     ELSE /\ IF b = "Policy" THEN ApplyChange(seq) /\ UNCHANGED pending
             ELSE DeferChange(seq) /\ UNCHANGED policyVars
          /\ UNCHANGED reply
  /\ UNCHANGED <<pipeVars, replicaVars, seq, extra>>

\* admit: the stage takes the next slot off the output ring: the change or the
\* first reply of the next entry, or a slot that only carries the current
\* wire_seq (a further report, a batch end, a query's response).
Admit ==
  /\ pc = "idle" /\ pc' = "pending"
  /\ \/ seq < matched /\ seq' = seq + 1 /\ extra' = FALSE
     \/ seq' = seq /\ extra' = TRUE
  /\ NewTurn
  /\ UNCHANGED <<pipeVars, replicaVars, policy, cached, backers, appliedThrough, pending, backing,
                 waitVars, readVars>>

\* wait_durable(n), called for w.
StartWait(w, n) == pc' = "check" /\ why' = w /\ need' = n

\* admit_pending's loop head: the slot's turn once nothing is pending ...
NothingPending ==
  /\ pc = "pending" /\ pending = <<>>
  /\ pc' = "slot"
  /\ UNCHANGED <<pipeVars, replicaVars, policyVars, pending, turnVars, waitVars, readVars>>

\* ... a front the cached position covers is applied ...
PendingCovered ==
  /\ pc = "pending" /\ pending # <<>> /\ Head(pending) <= cached
  /\ ApplyFrontPending
  /\ UNCHANGED <<pipeVars, replicaVars, pc, turnVars, waitVars, readVars>>

\* ... any other front is waited for.
WaitPending ==
  /\ pc = "pending" /\ pending # <<>> /\ Head(pending) > cached
  /\ StartWait("pending", Head(pending))
  /\ UNCHANGED <<pipeVars, replicaVars, policyVars, pending, turnVars, readVars>>

\* admit_slot with slot_needs_gate: the cached position covers the slot ...
SlotCovered == pc = "slot" /\ cached >= seq /\ SlotReleased(backing)

\* ... or it is waited for.
WaitSlot ==
  /\ pc = "slot" /\ cached < seq
  /\ StartWait("slot", seq)
  /\ UNCHANGED <<pipeVars, replicaVars, policyVars, pending, turnVars, readVars>>

-----------------------------------------------------------------------------
(* The gate: wait_durable, and the idle recheck *)

\* The shutdown load that starts each iteration of a wait.
WaitChecksShutdown ==
  /\ pc = "check"
  /\ pc' = IF shutdown THEN "stopped" ELSE "journal"
  /\ UNCHANGED <<pipeVars, replicaVars, policyVars, pending, turnVars, waitVars, readVars>>

\* Its load of the journal position.
WaitLoadsJournal ==
  /\ pc = "journal" /\ pc' = "settle"
  /\ look' = jpos
  /\ UNCHANGED <<pipeVars, replicaVars, policyVars, pending, turnVars, waitVars, view, from, at, mem>>

\* settle_pending_if_durable, one change of its loop: in a wait, after an idle
\* recheck's evaluation and at the start.
SettleFront ==
  /\ pc = "settle" /\ FrontDurable
  /\ ApplyFrontPending
  /\ UNCHANGED <<pipeVars, replicaVars, pc, turnVars, waitVars, readVars>>

\* The loop's end outside a wait: the stage's next turn.
SettledIdle ==
  /\ pc = "settle" /\ ~FrontDurable /\ why = "idle"
  /\ EndTurn
  /\ UNCHANGED <<pipeVars, replicaVars, policyVars, pending, seq, extra, reply>>

NextSlot(i) ==
  LET after == {j \in Slots : j > i}
  IN  IF after = {} THEN None ELSE CHOOSE j \in after : \A k \in after : j <= k

\* with_cursor_view starts from the primary's own entry.
StartView(j) ==
  /\ pc' = "active" /\ view' = PrimaryView(j) /\ from' = PrimaryAlone
  /\ at' = NextSlot(Primary) /\ mem' = 0

\* Faulty variant: a held wait never looks at the forced change.
ForcedIgnored ==
  /\ pc = "settle" /\ ~FrontDurable /\ why \in {"pending", "slot"}
  /\ StartView(look)
  /\ UNCHANGED <<pipeVars, replicaVars, policyVars, pending, turnVars, waitVars, look>>

\* The loop's end in a wait, and the rest of observe_forced: the newest forced
\* change is applied once its own entry is on this node's disk.
ObserveForced ==
  /\ pc = "settle" /\ ~FrontDurable /\ why \in {"pending", "slot"}
  /\ IF forced # None /\ look >= forced THEN ApplyChange(forced) ELSE UNCHANGED policyVars
  /\ StartView(look)
  /\ UNCHANGED <<pipeVars, replicaVars, pending, turnVars, waitVars, look>>

\* idle_recheck, between two slots.
IdleRecheck ==
  /\ pc = "idle"
  /\ look' = jpos /\ StartView(jpos)
  /\ NewTurn
  /\ UNCHANGED <<pipeVars, replicaVars, policy, cached, backers, appliedThrough, pending, seq, extra,
                 backing, waitVars>>

\* with_cursor_view: the slot's active flag ...
ReadActive ==
  /\ pc = "active" /\ at # None
  /\ IF slot[at].active THEN pc' = "mem" /\ UNCHANGED at
     ELSE UNCHANGED pc /\ at' = NextSlot(at)
  /\ UNCHANGED <<pipeVars, replicaVars, policyVars, pending, turnVars, waitVars, look, view, from, mem>>

\* ... its in-memory cursor ...
ReadMem ==
  /\ pc = "mem" /\ pc' = "acked"
  /\ mem' = slot[at].mem /\ from' = [from EXCEPT ![at] = @ \cup Occupant(at)]
  /\ UNCHANGED <<pipeVars, replicaVars, policyVars, pending, turnVars, waitVars, look, view, at>>

\* ... and its persisted one.
ReadAcked ==
  /\ pc = "acked" /\ pc' = "active"
  /\ view' = [n \in DOMAIN view \cup {at} |->
                IF n = at THEN [mem |-> mem, disk |-> slot[at].acked] ELSE view[n]]
  /\ from' = [from EXCEPT ![at] = @ \cup Occupant(at)]
  /\ at' = NextSlot(at) /\ mem' = 0
  /\ UNCHANGED <<pipeVars, replicaVars, policyVars, pending, turnVars, waitVars, look>>

\* evaluate_gate and evaluate_durability: the cached position is the policy's
\* over the view.  A wait it covers returns Open(Policy) and its caller goes on:
\* admit_pending from its loop head, so that a front the wait itself settled is
\* not applied twice.
Evaluate ==
  /\ pc = "active" /\ at = None
  /\ cached' = durable_pos(policy, view) /\ backers' = from
  /\ pc' = IF why = "idle" THEN "settle" ELSE IF cached' >= need THEN why ELSE "verdict"
  /\ view' = PrimaryView(0) /\ from' = PrimaryAlone
  /\ UNCHANGED <<pipeVars, replicaVars, policy, appliedThrough, applied, pending, turnVars,
                 waitVars, look, at, mem>>

\* degraded_release_open: no replica counted, a policy that needs one; whether
\* the grace period is over is left open.
DegradedReleaseMayOpen == DegradedAcks /\ Counted = {} /\ needs_replica(policy)

\* The wait returns Open(PrimaryOnly) for a pending change, which stays pending
\* with every change behind it ...
OpenDegradedPending ==
  /\ pc = "verdict" /\ why = "pending"
  /\ look >= need /\ DegradedReleaseMayOpen
  /\ pc' = "slot" /\ backing' = "PrimaryOnly"
  /\ UNCHANGED <<pipeVars, replicaVars, policyVars, pending, seq, extra, reply, waitVars, readVars>>

\* Faulty variant: the degraded release does not look at the journal.
OpenDegradedUnjournaled ==
  /\ pc = "verdict" /\ why = "slot"
  /\ DegradedReleaseMayOpen
  /\ SlotReleased("PrimaryOnly")

\* ... or for the slot, which is released on the primary's disk alone.
OpenDegradedSlot ==
  /\ pc = "verdict" /\ why = "slot"
  /\ look >= need /\ DegradedReleaseMayOpen
  /\ SlotReleased("PrimaryOnly")

\* Neither: the wait goes round again.
WaitAgain ==
  /\ pc = "verdict"
  /\ pc' = "check" /\ look' = 0
  /\ UNCHANGED <<pipeVars, replicaVars, policyVars, pending, turnVars, waitVars, view, from, at, mem>>

-----------------------------------------------------------------------------

Pipeline == Publish \/ Match \/ Persist \/ Shutdown

ReplicaStep ==
  \/ \E n \in Replicas : Receive(n) \/ ReplicaPersist(n)
  \/ \E i \in Slots : \/ \E n \in Replicas : Lift(i, n)
                      \/ Seed(i) \/ Activate(i) \/ RecordAck(i)
                      \/ Lower(i) \/ ClearCursors(i) \/ Deactivate(i)

\* A wait's steps, which the response thread always takes.
WaitStep ==
  \/ WaitChecksShutdown \/ WaitLoadsJournal \/ SettleFront \/ ObserveForced
  \/ ReadActive \/ ReadMem \/ ReadAcked \/ Evaluate
  \/ OpenDegradedPending \/ OpenDegradedSlot \/ WaitAgain

GateStep ==
  \/ Admit \/ IdleRecheck \/ SettledIdle
  \/ NothingPending \/ PendingCovered \/ WaitPending \/ SlotCovered \/ WaitSlot
  \/ WaitStep

Next == Pipeline \/ ReplicaStep \/ GateStep

Spec == Init /\ [][Next]_vars

\* The response, matching and journal-disk threads keep running, and an fsync
\* returns.
Fairness == WF_vars(GateStep) /\ WF_vars(Match) /\ WF_vars(Persist)

FairSpec == Spec /\ Fairness

-----------------------------------------------------------------------------
(* Properties *)

Phases == {"free", "lifted", "seeded", "live", "lowered", "cleared"}
PCs == {"idle", "pending", "slot", "check", "journal", "settle", "active", "mem",
        "acked", "verdict", "stopped"}
Backings == {"Policy", "PrimaryOnly"}

PipeTypeOK ==
  /\ log \in Seq([byte : AckPolicies \cup {Write}, unwitnessed : BOOLEAN]) /\ base \in AckPolicies
  /\ Len(log) <= MaxLog /\ matched \in 0..Len(log) /\ jpos \in 0..Len(log)
  /\ forced \in 0..matched /\ shutdown \in BOOLEAN

ReplicaTypeOK ==
  /\ held \in [Replicas -> 0..Len(log)] /\ disk \in [Replicas -> 0..Len(log)] /\ joins \in Nat
  /\ slot \in [Slots -> [phase : Phases, occ : Replicas \cup {None}, active : BOOLEAN,
                         mem : Nat, acked : Nat]]

PolicyTypeOK ==
  /\ policy \in AckPolicies /\ cached \in Nat
  /\ backers \in [Seats -> SUBSET Nodes]
  /\ appliedThrough \in 0..Len(log)
  /\ applied \in [seq : 0..Len(log), before : AckPolicies, by : [Seats -> SUBSET Nodes]]

TurnTypeOK ==
  /\ pc \in PCs /\ why \in {"idle", "pending", "slot"} /\ need \in Nat
  /\ seq \in 0..matched /\ extra \in BOOLEAN /\ backing \in Backings
  /\ reply \in [seq : 0..Len(log), backing : Backings, policy : AckPolicies,
                by : [Seats -> SUBSET Nodes]]

ReadTypeOK ==
  /\ look \in Nat /\ at \in Slots \cup {None} /\ mem \in Nat
  /\ from \in [Seats -> SUBSET Nodes]
  /\ DOMAIN view \in SUBSET Seats /\ view \in [DOMAIN view -> [mem : Nat, disk : Nat]]

\* Every variable has its type; cursors are positions of the log.
TypeOK ==
  /\ PipeTypeOK /\ ReplicaTypeOK /\ PolicyTypeOK /\ TurnTypeOK /\ ReadTypeOK
  /\ pending \in Seq(1..Len(log))

\* Each clause has its count of places that a node holding s was read from.
BackedBySlots(p, by, s) ==
  \A k \in DOMAIN to_policy(p) :
    LET clause == to_policy(p)[k]
    IN  Cardinality({i \in DOMAIN by :
                       \E n \in by[i] : effective_cursor(Holdings[n], clause.level) >= s})
          >= clause.count

\* One replica was read in two places: it reconnected into a free slot while
\* its older connection was still counted, or between two loads of one view.
Twice(by) == \E i, j \in DOMAIN by : i # j /\ by[i] \cap by[j] # {}

\* What an evaluation that counted `by` vouches for: as many connections as p
\* demands, each of a node that really holds s; and as many nodes, unless one
\* node was behind two of the connections.
VouchedFor(p, by, s) ==
  BackedBySlots(p, by, s) /\ (Twice(by) \/ Satisfied(p, Holdings, s))

\* The position the gate caches is durable under the policy in force, however
\* the loads of the evaluation interleaved with acks, fsyncs, policy switches,
\* teardowns and other replicas in the slots: switch_to's reset, the order of
\* observe_forced and evaluate_gate, of disengage_slot and seed_on_handshake.
CachedIsDurable == cached > 0 => VouchedFor(policy, backers, cached)

\* A reply released under the policy is held as that policy demands; one
\* marked as degraded is, unless it is on the primary's disk (admit_slot,
\* wait_durable).
ReplyBacked ==
  reply.seq > 0 =>
    \/ VouchedFor(reply.policy, reply.by, reply.seq)
    \/ reply.backing = "PrimaryOnly" /\ reply.seq <= jpos

\* A reply released under the policy was judged by the policy the log puts in
\* force at its entry, or by a later unwitnessed change that already was on the
\* primary's disk: no change before it is skipped, deferred past it or applied
\* early (admit_pending, defer_change, observe_forced).
ReplyGoverned ==
  reply.seq > 0 /\ reply.backing = "Policy" =>
    \/ reply.policy = PolicyAfter(reply.seq)
    \/ \E f \in reply.seq + 1 .. jpos : log[f].unwitnessed /\ log[f].byte = reply.policy

\* A witnessed change takes effect only once it is held as the policy just
\* before it in the log demands; an unwitnessed one also once on the primary's
\* disk (apply_change's callers).
ChangeWitnessed ==
  LET c == applied.seq IN
  c # None =>
    \/ log[c].unwitnessed /\ c <= jpos
    \/ applied.before = PolicyAfter(c - 1) /\ VouchedFor(applied.before, applied.by, c)

Waiting == why \in {"pending", "slot"} /\ pc \notin {"pending", "slot", "stopped"}

\* A gate held on entry `need` is freed once a forced change at or after it has
\* been dispatched, even if no replica ever comes back, and by a shutdown: the
\* stage is joined without a timeout (wait_durable's observe_forced and its
\* shutdown load).
WaitEnds ==
  (Waiting /\ (shutdown \/ (forced # None /\ forced >= need))) ~> ~Waiting
=============================================================================
