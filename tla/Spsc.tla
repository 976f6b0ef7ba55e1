-------------------------------- MODULE Spsc --------------------------------
(***************************************************************************)
(* The single-producer single-consumer queue (pipeline/src/spsc.rs), the   *)
(* output path and the mark queue.  Writes accumulate behind local_head    *)
(* and one store of head publishes them; a full queue is decided on a      *)
(* cached tail, an empty one on a cached head.                             *)
(***************************************************************************)
EXTENDS Naturals, Sequences

CONSTANTS
  QueueCapacity, \* slots of the queue
  MaxPushes      \* bound: entries written in a behaviour

ASSUME SpscAssumption == QueueCapacity \in Nat \ {0} /\ MaxPushes \in Nat

VARIABLES
  cells,         \* cells[i]: the entry in slot i, TornCell while it is filled
  head, tail,    \* shared: entries published, entries consumed
  localHead,     \* local_head: entries written; names the entries too
  cachedTail,    \* the producer's copy of tail
  cachedHead,    \* the consumer's copy of head
  call,          \* the producer's call: "none", "try", "wait" or "unless"
  filling,       \* the call is filling its slot
  stop,          \* the stop flag of push_with_unless
  copied,        \* entries copied by the batch read in progress
  copyEnd,       \* where that batch read ends (tail when there is none)
  got,           \* the entry the consumer read last
  pushed         \* history: the entries in the order of their publication

spscVars == <<cells, head, tail, localHead, cachedTail, cachedHead, call,
              filling, stop, copied, copyEnd, got, pushed>>

TornCell == MaxPushes + 1
Cell(seq) == seq % QueueCapacity

SpscInit ==
  /\ cells = [i \in 0..QueueCapacity - 1 |-> 0]
  /\ head = 0 /\ tail = 0 /\ localHead = 0
  /\ cachedTail = 0 /\ cachedHead = 0
  /\ call = "none" /\ filling = FALSE /\ stop = FALSE
  /\ copied = 0 /\ copyEnd = 0 /\ got = 0
  /\ pushed = <<>>

-----------------------------------------------------------------------------
QueueHasRoom(t) == localHead - t < QueueCapacity

(* head's release store; flush makes it when writes are pending.           *)
Flush ==
  /\ head' = localHead
  /\ pushed' =
       pushed \o [i \in 1..(localHead - head) |-> cells[Cell(head + i - 1)]]

(* try_push_with, push_with or push_with_unless begins.                    *)
Begin(c) ==
  /\ call = "none" /\ localHead < MaxPushes
  /\ call' = c
  /\ UNCHANGED <<cells, head, tail, localHead, cachedTail, cachedHead, filling,
                 stop, copied, copyEnd, got, pushed>>

(* There is room by the cached tail: the closure gets the slot.            *)
StartWrite ==
  /\ call # "none" /\ ~filling
  /\ QueueHasRoom(cachedTail)
  /\ filling' = TRUE
  /\ cells' = [cells EXCEPT ![Cell(localHead)] = TornCell]
  /\ UNCHANGED <<head, tail, localHead, cachedTail, cachedHead, call, stop,
                 copied, copyEnd, got, pushed>>

(* None by the cached tail: load it.  Still none: a try gives up, a push   *)
(* that may be stopped reads the flag, and one that goes on waiting        *)
(* flushes first.                                                          *)
LoadTail ==
  /\ call # "none" /\ ~filling
  /\ ~QueueHasRoom(cachedTail)
  /\ cachedTail' = tail
  /\ \/ QueueHasRoom(tail) /\ UNCHANGED <<head, pushed, call>>
     \/ /\ ~QueueHasRoom(tail)
        /\ call = "try" \/ (call = "unless" /\ stop)
        /\ call' = "none"
        /\ UNCHANGED <<head, pushed>>
     \/ /\ ~QueueHasRoom(tail)
        /\ call = "wait" \/ (call = "unless" /\ ~stop)
        /\ Flush
        /\ UNCHANGED call
  /\ UNCHANGED <<cells, tail, localHead, cachedHead, filling, stop, copied,
                 copyEnd, got>>

EndWrite ==
  /\ filling
  /\ cells' = [cells EXCEPT ![Cell(localHead)] = localHead + 1]
  /\ localHead' = localHead + 1
  /\ filling' = FALSE /\ call' = "none"
  /\ UNCHANGED <<head, tail, cachedTail, cachedHead, stop, copied, copyEnd,
                 got, pushed>>

FlushPending ==
  /\ call = "none" /\ localHead > head
  /\ Flush
  /\ UNCHANGED <<cells, tail, localHead, cachedTail, cachedHead, call, filling,
                 stop, copied, copyEnd, got>>

SetStop ==
  /\ ~stop /\ stop' = TRUE
  /\ UNCHANGED <<cells, head, tail, localHead, cachedTail, cachedHead, call,
                 filling, copied, copyEnd, got, pushed>>

-----------------------------------------------------------------------------
NotCopying == copyEnd = tail

(* refresh, and the load try_consume makes when nothing is visible.        *)
Refresh ==
  /\ NotCopying
  /\ cachedHead' = head
  /\ UNCHANGED <<cells, head, tail, localHead, cachedTail, call, filling, stop,
                 copied, copyEnd, got, pushed>>

VisibleThrough(h) == h >= tail

Visible(h) == h > tail

(* try_consume_visible: one entry among those the last load showed; the    *)
(* copy and tail's store follow in CopyOne and EndBatch.                   *)
TryConsumeVisible ==
  /\ NotCopying /\ Visible(cachedHead)
  /\ copyEnd' = tail + 1
  /\ UNCHANGED <<cells, head, tail, localHead, cachedTail, cachedHead, call,
                 filling, stop, copied, got, pushed>>

(* consume_batch: load head, copy entry by entry, then one store of tail.  *)
BeginBatch(n) ==
  /\ NotCopying
  /\ cachedHead' = head
  /\ n <= head - tail
  /\ copyEnd' = tail + n
  /\ UNCHANGED <<cells, head, tail, localHead, cachedTail, call, filling, stop,
                 copied, got, pushed>>

CopyOne ==
  /\ copied < copyEnd
  /\ got' = cells[Cell(copied)]
  /\ copied' = copied + 1
  /\ UNCHANGED <<cells, head, tail, localHead, cachedTail, cachedHead, call,
                 filling, stop, copyEnd, pushed>>

EndBatch ==
  /\ tail < copyEnd /\ copied = copyEnd
  /\ tail' = copyEnd
  /\ UNCHANGED <<cells, head, localHead, cachedTail, cachedHead, call, filling,
                 stop, copied, copyEnd, got, pushed>>

-----------------------------------------------------------------------------
SpscProducerStep == StartWrite \/ LoadTail \/ EndWrite

SpscConsumerStep ==
  TryConsumeVisible \/ (\E n \in 1..QueueCapacity : BeginBatch(n)) \/ CopyOne
  \/ EndBatch

SpscNext ==
  \/ \E c \in {"try", "wait", "unless"} : Begin(c)
  \/ SpscProducerStep \/ FlushPending \/ SetStop
  \/ SpscConsumerStep \/ Refresh

SpscSpec == SpscInit /\ [][SpscNext]_spscVars

QueueLog == INSTANCE BroadcastLog
              WITH Consumers <- {1}, After <- <<0>>,
                   Capacity <- QueueCapacity, log <- pushed,
                   at <- <<copied>>, done <- <<tail>>, last <- <<got>>

-----------------------------------------------------------------------------
(* The queue implements the broadcast log with one consumer: it is handed  *)
(* what was pushed, whole, once and in order, whatever either side's cached*)
(* cursor says and however pushes, flushes and reads interleave.           *)
SpscImplementsLog == QueueLog!Spec

(* A push that waits for room.                                             *)
Waiting == call \in {"wait", "unless"}
=============================================================================
