-------------------------------- MODULE Ring --------------------------------
(***************************************************************************)
(* The disruptor ring (pipeline/src/ring.rs): one producer, consumers that *)
(* follow the producer or one another, a slot array that is written and    *)
(* read with no lock.  Every load and store of a cursor is a step of its   *)
(* own, a slot is torn while it is being filled, and both sides decide on  *)
(* cached copies of the other's cursor.                                    *)
(*                                                                         *)
(* The cursors are modelled without a width: a u64 counts 584 years of     *)
(* nanoseconds.  An entry is a number, different for every fill.           *)
(***************************************************************************)
EXTENDS Naturals, Sequences, FiniteSets, FiniteSetsExt

CONSTANTS
  Capacity,      \* slots of the ring, a power of two in the code
  N,             \* consumers of the ring
  After,         \* After[c]: the consumer c is gated on, 0 for the producer
  MaxFills       \* bound: slots filled in a behaviour

(* Consumers are numbered in the order the builder added them, each after  *)
(* a consumer added before it (add_consumer_after's assertion).            *)
Consumers == 1..N

ASSUME RingAssumption ==
  /\ Capacity \in Nat \ {0}
  /\ MaxFills \in Nat
  /\ N \in Nat \ {0}
  /\ After \in [Consumers -> 0..N]
  /\ \A c \in Consumers : After[c] < c

VARIABLES
  slots,         \* slots[i]: the entry in slot i, Torn while it is filled
  cursor,        \* the producer's published count
  cachedGate,    \* cached_gate_min
  batch,         \* a Batch is open
  count,         \* entries filled and not yet committed
  pc,            \* where the producer's call is
  op,            \* the call: "none", "try", "wait" or "abortable"
  toScan,        \* gates the refresh has yet to load
  scanMin,       \* the least of those it loaded
  processed,     \* processed[c]: c's published progress
  nextRead,      \* next_read
  cachedDep,     \* cached_dep
  readAt,        \* position c reads next, in what it took from the ring
  handed,        \* the entry c read last
  fills,         \* slots filled so far (names the entries)
  published      \* history: the entries in the order of their publication

producerVars == <<cursor, cachedGate, batch, count, pc, op, toScan, scanMin>>
consumerVars == <<processed, nextRead, cachedDep, readAt, handed>>
ringVars ==
  <<slots, producerVars, consumerVars, fills, published>>

Torn == MaxFills + 1
Slot(seq) == seq % Capacity

GatesFirst == {c \in Consumers : After[c] = 0}

(* The producer waits for the consumers nobody comes after: whoever they   *)
(* follow is at least as far as they are (collect_gates).                  *)
Gates == {c \in Consumers : \A d \in Consumers : After[d] # c}

(* The sequence the next entry takes.                                      *)
NextSeq == cursor + count

(* Is there a free slot, going by this view of the slowest gate?           *)
HasRoom(gate) == NextSeq - gate < Capacity

(* The dependency's cursor (DependencyKind::load).                         *)
Dependency(c) == IF After[c] = 0 THEN cursor ELSE processed[After[c]]

RingInit ==
  /\ slots = [i \in 0..Capacity - 1 |-> 0]
  /\ cursor = 0 /\ cachedGate = 0
  /\ batch = FALSE /\ count = 0
  /\ pc = "idle" /\ op = "none" /\ toScan = {} /\ scanMin = 0
  /\ processed = [c \in Consumers |-> 0]
  /\ nextRead = [c \in Consumers |-> 0]
  /\ cachedDep = [c \in Consumers |-> 0]
  /\ readAt = [c \in Consumers |-> 0]
  /\ handed = [c \in Consumers |-> 0]
  /\ fills = 0
  /\ published = <<>>

-----------------------------------------------------------------------------
(* The producer.                                                           *)

(* The cursor's release store: everything filled so far is published.      *)
StoreCursor ==
  /\ cursor' = NextSeq
  /\ count' = 0
  /\ published' = published \o [i \in 1..count |-> slots[Slot(cursor + i - 1)]]

OpenBatch ==
  /\ pc = "idle" /\ ~batch
  /\ batch' = TRUE
  /\ UNCHANGED <<slots, cursor, cachedGate, count, pc, op, toScan, scanMin,
                 consumerVars, fills, published>>

(* The slot is handed to the closure that fills it.                        *)
StartFill ==
  /\ pc' = "fill"
  /\ slots' = [slots EXCEPT ![Slot(NextSeq)] = Torn]

StartScan ==
  /\ pc' = "scan"
  /\ toScan' = Gates
  /\ scanMin' = NextSeq

(* A publish or a push begins: the cached gate decides if it can, else     *)
(* the gates are read again.  Only a batch has the abortable push.         *)
Push(o) ==
  /\ pc = "idle" /\ fills < MaxFills
  /\ o = "abortable" => batch
  /\ op' = o
  /\ \/ HasRoom(cachedGate) /\ StartFill /\ UNCHANGED <<toScan, scanMin>>
     \/ ~HasRoom(cachedGate) /\ StartScan /\ UNCHANGED slots
  /\ UNCHANGED <<cursor, cachedGate, batch, count, consumerVars, fills,
                 published>>

(* One gate's cursor is loaded.                                            *)
ScanGate ==
  /\ pc = "scan" /\ toScan # {}
  /\ LET g == Min(toScan) IN
       /\ toScan' = toScan \ {g}
       /\ scanMin' = Min({scanMin, processed[g]})
  /\ UNCHANGED <<slots, cursor, cachedGate, batch, count, pc, op, consumerVars,
                 fills, published>>

(* What a blocked push does before it waits: it commits what the batch     *)
(* holds, so that the consumers can come free of it.                       *)
BeforeWaitSilent == UNCHANGED <<cursor, count, published>>

BeforeWait == StoreCursor

(* The refresh is complete: fill the slot, or give up, or wait and look    *)
(* again.                                                                  *)
EndScan ==
  /\ pc = "scan" /\ toScan = {}
  /\ cachedGate' = scanMin
  /\ \/ /\ HasRoom(scanMin)
        /\ StartFill
        /\ scanMin' = 0
        /\ UNCHANGED <<cursor, count, published, op, toScan>>
     \/ /\ ~HasRoom(scanMin) /\ op \in {"try", "abortable"}
        /\ pc' = "idle" /\ op' = "none" /\ scanMin' = 0
        /\ UNCHANGED <<slots, cursor, count, published, toScan>>
     \/ /\ ~HasRoom(scanMin) /\ op \in {"wait", "abortable"}
        /\ BeforeWait
        /\ StartScan
        /\ UNCHANGED <<slots, op>>
  /\ UNCHANGED <<batch, consumerVars, fills>>

(* The closure has filled the slot; outside a batch the cursor's store     *)
(* follows in PublishOne.                                                  *)
EndFill ==
  /\ pc = "fill"
  /\ slots' = [slots EXCEPT ![Slot(NextSeq)] = fills + 1]
  /\ fills' = fills + 1
  /\ count' = count + 1
  /\ pc' = IF batch THEN "idle" ELSE "publish"
  /\ op' = "none"
  /\ UNCHANGED <<cursor, cachedGate, batch, toScan, scanMin, consumerVars,
                 published>>

PublishOne ==
  /\ pc = "publish"
  /\ StoreCursor
  /\ pc' = "idle"
  /\ UNCHANGED <<slots, cachedGate, batch, op, toScan, scanMin, consumerVars,
                 fills>>

CommitBatch ==
  /\ pc = "idle" /\ batch
  /\ batch' = FALSE
  /\ StoreCursor
  /\ UNCHANGED <<slots, cachedGate, pc, op, toScan, scanMin, consumerVars,
                 fills>>

(* A batch dropped uncommitted leaves its slots filled and the cursor      *)
(* where it was.                                                           *)
DropBatch ==
  /\ pc = "idle" /\ batch
  /\ batch' = FALSE /\ count' = 0
  /\ UNCHANGED <<slots, cursor, cachedGate, pc, op, toScan, scanMin,
                 consumerVars, fills, published>>

-----------------------------------------------------------------------------
(* A consumer.  What it took is the positions from readAt to nextRead: a   *)
(* copy being made or a slice it borrows.                                  *)

Resting(c) == readAt[c] = nextRead[c]

(* It takes n entries: one within its cached view of the dependency, or a  *)
(* batch after loading the dependency.                                     *)
Take(c, n) ==
  /\ Resting(c)
  /\ \/ n = 1 /\ cachedDep[c] > nextRead[c] /\ UNCHANGED cachedDep
     \/ /\ n <= Dependency(c) - nextRead[c]
        /\ cachedDep' = [cachedDep EXCEPT ![c] = Dependency(c)]
  /\ nextRead' = [nextRead EXCEPT ![c] = @ + n]
  /\ UNCHANGED <<slots, producerVars, processed, readAt, handed, fills,
                 published>>

Read(c) ==
  /\ readAt[c] < nextRead[c]
  /\ handed' = [handed EXCEPT ![c] = slots[Slot(readAt[c])]]
  /\ readAt' = [readAt EXCEPT ![c] = @ + 1]
  /\ UNCHANGED <<slots, producerVars, processed, nextRead, cachedDep, fills,
                 published>>

(* It publishes progress (commit, commit_consumed, or set_progress with a  *)
(* position of its choice, which may cover a part of the slice it still    *)
(* holds).  The rule of read_contiguous: no position below the progress    *)
(* is read any more.                                                       *)
MayPublish(c) == (processed[c] + 1)..readAt[c]

SetProgress(c) ==
  /\ \E p \in MayPublish(c) :
       processed' = [processed EXCEPT ![c] = p]
  /\ UNCHANGED <<slots, producerVars, nextRead, cachedDep, readAt, handed,
                 fills, published>>

(* It gives up what it has not read (skip_to_dependency).                  *)
SkipToDependency(c) ==
  /\ Resting(c)
  /\ LET d == Dependency(c) IN
       /\ nextRead' = [nextRead EXCEPT ![c] = d]
       /\ readAt' = [readAt EXCEPT ![c] = d]
       /\ cachedDep' = [cachedDep EXCEPT ![c] = d]
       /\ processed' = [processed EXCEPT ![c] = d]
  /\ UNCHANGED <<slots, producerVars, handed, fills, published>>

-----------------------------------------------------------------------------
ProducerStep == ScanGate \/ EndScan \/ EndFill \/ PublishOne

ConsumerStep(c) == (\E n \in 1..Capacity : Take(c, n)) \/ Read(c)

RingNext ==
  \/ OpenBatch \/ CommitBatch \/ DropBatch
  \/ \E o \in {"try", "wait", "abortable"} : Push(o)
  \/ ProducerStep
  \/ \E c \in Consumers :
       ConsumerStep(c) \/ SetProgress(c) \/ SkipToDependency(c)

RingSpec == RingInit /\ [][RingNext]_ringVars

(* What the ring implements: consumers are handed the published entries.   *)
Log == INSTANCE BroadcastLog
         WITH log <- published, at <- readAt, done <- processed, last <- handed

-----------------------------------------------------------------------------
(* Types of the ring's state; no torn entry is ever published or handed to *)
(* a consumer.                                                             *)
RingTypeOK ==
  /\ slots \in [0..Capacity - 1 -> 0..Torn]
  /\ cursor \in Nat /\ cachedGate \in Nat /\ count \in Nat
  /\ batch \in BOOLEAN
  /\ pc \in {"idle", "scan", "fill", "publish"}
  /\ op \in {"none", "try", "wait", "abortable"}
  /\ toScan \subseteq Gates /\ scanMin \in Nat
  /\ processed \in [Consumers -> Nat]
  /\ nextRead \in [Consumers -> Nat]
  /\ cachedDep \in [Consumers -> Nat]
  /\ readAt \in [Consumers -> Nat]
  /\ handed \in [Consumers -> 0..MaxFills]
  /\ fills \in 0..MaxFills
  /\ published \in Seq(1..MaxFills)

(* The ring implements the broadcast log: every consumer is handed the     *)
(* published entries one by one, whole, none twice and none missed, though *)
(* producer and consumers share slots with no lock and each goes by a      *)
(* cached copy of the other's cursor; a batch appears at once or never.    *)
RingImplementsLog == Log!Spec

(* A push that found the ring full and waits.                              *)
Blocked == pc = "scan" /\ op = "wait"
=============================================================================
