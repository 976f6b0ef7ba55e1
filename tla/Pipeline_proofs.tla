-------------------------- MODULE Pipeline_proofs ---------------------------
(***************************************************************************)
(* Proofs about the lock-free structures of the pipeline crate, for every  *)
(* capacity, number of consumers, words and readers: a seqlock load is one *)
(* store's value, and the ring and the SPSC queue implement BroadcastLog.  *)
(***************************************************************************)
EXTENDS Ring, Spsc, SeqLock, SequenceTheorems, WellFoundedInduction, TLAPS

-----------------------------------------------------------------------------
(* The seqlock.                                                            *)

(* Types of the seqlock's state; a copy is a function on words.            *)
SeqLockTypes ==
  /\ sequence \in Nat
  /\ payload \in [Words -> Nat]
  /\ storing \subseteq Words
  /\ stores \in Nat
  /\ seq1 \in [Readers -> Nat]
  /\ DOMAIN copy = Readers
  /\ \A r \in Readers : \E S \in SUBSET Words : copy[r] \in [S -> Nat]
  /\ copy = [r \in Readers |-> copy[r]]
  /\ reading \in [Readers -> {"no", "begin", "copy"}]
  /\ floor \in [Readers -> Nat]
  /\ result \in [Readers -> [Words -> Nat]]

(* At rest the sequence is even and every word is the last store's; while  *)
(* a store is under way the words it has yet to write are the previous     *)
(* one's.                                                                  *)
AtRest ==
  /\ sequence = 2 * stores /\ storing = {}
  /\ \A w \in Words : payload[w] = stores

MidStore ==
  /\ stores >= 1 /\ sequence = 2 * stores - 1
  /\ \A w \in Words :
       payload[w] = IF w \in storing THEN stores - 1 ELSE stores

(* What r has copied while the sequence still is what it was is one        *)
(* store's value, and no older than what was complete when it began.       *)
CopyOfOneStore(r) ==
  \E k \in 0..stores :
    /\ seq1[r] = 2 * k /\ floor[r] <= k /\ seq1[r] <= sequence
    /\ sequence = seq1[r] => \A w \in DOMAIN copy[r] : copy[r][w] = k

ResultOfOneStore(r) ==
  \E v \in 0..stores :
    /\ result[r] = [w \in Words |-> v]
    /\ reading[r] = "no" => v >= floor[r]

SeqLockInv ==
  /\ SeqLockTypes
  /\ AtRest \/ MidStore
  /\ \A r \in Readers :
       /\ 2 * floor[r] <= sequence
       /\ reading[r] = "copy" => CopyOfOneStore(r)
       /\ ResultOfOneStore(r)

(* The initial payload is store number 0, which every reader has.          *)
LEMMA SeqLockStarts == SeqLockInit => SeqLockInv
<1> SUFFICES ASSUME SeqLockInit PROVE SeqLockInv
  OBVIOUS
<1>1. SeqLockTypes
  <2>1. \A r \in Readers : copy[r] \in [{} -> Nat]
    BY DEF SeqLockInit
  <2> QED
    BY <2>1 DEF SeqLockInit, SeqLockTypes
<1>2. AtRest
  BY DEF SeqLockInit, AtRest
<1>3. \A r \in Readers : ResultOfOneStore(r) /\ 2 * floor[r] <= sequence
  BY DEF SeqLockInit, ResultOfOneStore
<1> QED
  BY <1>1, <1>2, <1>3 DEF SeqLockInv, SeqLockInit

(* The writer's steps: a reader's copy is of an unchanged sequence or of   *)
(* no consequence.                                                         *)
LEMMA StoreBeginKeeps == SeqLockInv /\ StoreBegin => SeqLockInv'
<1> SUFFICES ASSUME SeqLockInv, StoreBegin PROVE SeqLockInv'
  OBVIOUS
<1> USE DEF StoreBegin, Opened, Even
<1>1. SeqLockTypes'
  BY DEF SeqLockInv, SeqLockTypes
<1>2. AtRest
  BY DEF SeqLockInv, SeqLockTypes, MidStore
<1>3. MidStore'
  <2>1. stores \in Nat /\ sequence = 2 * stores
        /\ \A w \in Words : payload[w] = stores
    BY <1>2 DEF AtRest, SeqLockInv, SeqLockTypes
  <2>2. stores' = stores + 1 /\ sequence' = 2 * stores + 1 /\ storing' = Words
        /\ payload' = payload
    BY <2>1
  <2>3. stores' >= 1 /\ sequence' = 2 * stores' - 1 /\ stores' - 1 = stores
    BY <2>1, <2>2
  <2> QED
    BY <2>1, <2>2, <2>3 DEF MidStore
<1>4. ASSUME NEW r \in Readers
      PROVE  /\ 2 * floor'[r] <= sequence'
             /\ reading'[r] = "copy" => CopyOfOneStore(r)'
             /\ ResultOfOneStore(r)'
  <2>1. 2 * floor'[r] <= sequence'
    BY DEF SeqLockInv, SeqLockTypes
  <2>2. ASSUME reading'[r] = "copy" PROVE CopyOfOneStore(r)'
    <3>1. PICK k \in 0..stores :
            /\ seq1[r] = 2 * k /\ floor[r] <= k /\ seq1[r] <= sequence
            /\ sequence = seq1[r] => \A w \in DOMAIN copy[r] : copy[r][w] = k
      BY <2>2 DEF SeqLockInv, CopyOfOneStore
    <3>2. k \in 0..stores' /\ sequence' # seq1'[r] /\ seq1'[r] <= sequence'
      BY <3>1 DEF SeqLockInv, SeqLockTypes
    <3> QED
      BY <3>1, <3>2 DEF CopyOfOneStore
  <2>3. ResultOfOneStore(r)'
    BY DEF SeqLockInv, SeqLockTypes, ResultOfOneStore
  <2> QED
    BY <2>1, <2>2, <2>3
<1> QED
  BY <1>1, <1>3, <1>4 DEF SeqLockInv

LEMMA StoreWordKeeps ==
  ASSUME SeqLockInv, NEW w \in Words, StoreWord(w)
  PROVE  SeqLockInv'
<1> USE DEF StoreWord
<1>1. SeqLockTypes'
  BY DEF SeqLockInv, SeqLockTypes
<1>2. MidStore
  BY DEF SeqLockInv, AtRest
<1>3. MidStore'
  BY <1>2 DEF MidStore, SeqLockInv, SeqLockTypes
<1>4. \A r \in Readers : /\ CopyOfOneStore(r)' <=> CopyOfOneStore(r)
                         /\ ResultOfOneStore(r)' <=> ResultOfOneStore(r)
  BY DEF CopyOfOneStore, ResultOfOneStore
<1> QED
  BY <1>1, <1>3, <1>4 DEF SeqLockInv

LEMMA StoreEndKeeps == SeqLockInv /\ StoreEnd => SeqLockInv'
<1> SUFFICES ASSUME SeqLockInv, StoreEnd PROVE SeqLockInv'
  OBVIOUS
<1> USE DEF StoreEnd
<1>1. SeqLockTypes'
  BY DEF SeqLockInv, SeqLockTypes
<1>2. MidStore
  BY DEF SeqLockInv, AtRest
<1>3. AtRest'
  BY <1>2 DEF AtRest, MidStore, SeqLockInv, SeqLockTypes
<1>4. ASSUME NEW r \in Readers
      PROVE  /\ 2 * floor'[r] <= sequence'
             /\ reading'[r] = "copy" => CopyOfOneStore(r)'
             /\ ResultOfOneStore(r)'
  <2>1. 2 * floor'[r] <= sequence'
    BY <1>2 DEF SeqLockInv, SeqLockTypes, MidStore
  <2>2. ASSUME reading'[r] = "copy" PROVE CopyOfOneStore(r)'
    <3>1. PICK k \in 0..stores :
            /\ seq1[r] = 2 * k /\ floor[r] <= k /\ seq1[r] <= sequence
            /\ sequence = seq1[r] => \A w \in DOMAIN copy[r] : copy[r][w] = k
      BY <2>2 DEF SeqLockInv, CopyOfOneStore
    <3>2. k \in 0..stores' /\ sequence' # seq1'[r] /\ seq1'[r] <= sequence'
      BY <1>2, <3>1 DEF SeqLockInv, SeqLockTypes, MidStore
    <3> QED
      BY <3>1, <3>2 DEF CopyOfOneStore
  <2>3. ResultOfOneStore(r)'
    BY DEF SeqLockInv, ResultOfOneStore
  <2> QED
    BY <2>1, <2>2, <2>3
<1> QED
  BY <1>1, <1>3, <1>4 DEF SeqLockInv

(* A reader's steps leave the writer and the other readers alone.          *)
LEMMA OthersKeep ==
  ASSUME SeqLockInv, NEW r \in Readers, NEW q \in Readers \ {r},
         UNCHANGED <<sequence, payload, storing, stores>>,
         seq1'[q] = seq1[q], copy'[q] = copy[q], reading'[q] = reading[q],
         floor'[q] = floor[q], result'[q] = result[q]
  PROVE  /\ 2 * floor'[q] <= sequence'
         /\ reading'[q] = "copy" => CopyOfOneStore(q)'
         /\ ResultOfOneStore(q)'
BY DEF SeqLockInv, CopyOfOneStore, ResultOfOneStore

LEMMA LoadCallKeeps ==
  ASSUME SeqLockInv, NEW r \in Readers, LoadCall(r)
  PROVE  SeqLockInv'
<1> USE DEF LoadCall, Completed
<1>1. 2 * (sequence \div 2) <= sequence /\ sequence \div 2 \in Nat
  BY DEF SeqLockInv, SeqLockTypes
<1>2. SeqLockTypes'
  BY <1>1 DEF SeqLockInv, SeqLockTypes
<1>3. (AtRest \/ MidStore)'
  BY DEF SeqLockInv, AtRest, MidStore
<1>4. 2 * floor'[r] <= sequence' /\ reading'[r] = "begin"
  BY <1>1 DEF SeqLockInv, SeqLockTypes
<1>5. ResultOfOneStore(r)'
  BY <1>4 DEF SeqLockInv, SeqLockTypes, ResultOfOneStore
<1>6. \A q \in Readers \ {r} :
        /\ 2 * floor'[q] <= sequence'
        /\ reading'[q] = "copy" => CopyOfOneStore(q)'
        /\ ResultOfOneStore(q)'
  BY OthersKeep DEF SeqLockInv, SeqLockTypes
<1> QED
  BY <1>2, <1>3, <1>4, <1>5, <1>6 DEF SeqLockInv

LEMMA LoadBeginKeeps ==
  ASSUME SeqLockInv, NEW r \in Readers, LoadBegin(r)
  PROVE  SeqLockInv'
<1> USE DEF LoadBegin, Even
<1>1. copy'[r] \in [{} -> Nat] /\ DOMAIN copy'[r] = {}
  BY DEF SeqLockInv, SeqLockTypes
<1>2. SeqLockTypes'
  BY <1>1 DEF SeqLockInv, SeqLockTypes
<1>3. (AtRest \/ MidStore)'
  BY DEF SeqLockInv, AtRest, MidStore
<1>4. sequence = 2 * stores
  BY DEF SeqLockInv, SeqLockTypes, AtRest, MidStore
<1>5. CopyOfOneStore(r)'
  <2>1. seq1'[r] = 2 * stores /\ floor'[r] = floor[r] /\ sequence' = sequence
    BY <1>4 DEF SeqLockInv, SeqLockTypes
  <2>2. stores \in 0..stores' /\ floor[r] <= stores
    BY <1>4 DEF SeqLockInv, SeqLockTypes
  <2>3. seq1'[r] <= sequence'
    BY <1>4, <2>1 DEF SeqLockInv, SeqLockTypes
  <2> QED
    BY <1>1, <2>1, <2>2, <2>3 DEF CopyOfOneStore
<1>6. ResultOfOneStore(r)' /\ 2 * floor'[r] <= sequence'
  BY DEF SeqLockInv, SeqLockTypes, ResultOfOneStore
<1>7. \A q \in Readers \ {r} :
        /\ 2 * floor'[q] <= sequence'
        /\ reading'[q] = "copy" => CopyOfOneStore(q)'
        /\ ResultOfOneStore(q)'
  BY OthersKeep DEF SeqLockInv, SeqLockTypes
<1> QED
  BY <1>2, <1>3, <1>5, <1>6, <1>7 DEF SeqLockInv

LEMMA LoadWordKeeps ==
  ASSUME SeqLockInv, NEW r \in Readers, NEW w \in Words, LoadWord(r, w)
  PROVE  SeqLockInv'
<1> USE DEF LoadWord
<1>1. PICK S \in SUBSET Words : copy[r] \in [S -> Nat]
  BY DEF SeqLockInv, SeqLockTypes
<1>2. copy'[r] = [x \in S \cup {w} |-> IF x = w THEN payload[w] ELSE copy[r][x]]
  BY <1>1 DEF SeqLockInv, SeqLockTypes
<1>3. copy'[r] \in [S \cup {w} -> Nat]
  BY <1>1, <1>2 DEF SeqLockInv, SeqLockTypes
<1>4. SeqLockTypes'
  BY <1>3 DEF SeqLockInv, SeqLockTypes
<1>5. (AtRest \/ MidStore)'
  BY DEF SeqLockInv, AtRest, MidStore
<1>6. CopyOfOneStore(r)'
  <2>1. PICK k \in 0..stores :
          /\ seq1[r] = 2 * k /\ floor[r] <= k /\ seq1[r] <= sequence
          /\ sequence = seq1[r] => \A x \in DOMAIN copy[r] : copy[r][x] = k
    BY DEF SeqLockInv, CopyOfOneStore
  <2>2. sequence = seq1[r] => payload[w] = k
    <3>1. k \in Nat /\ stores \in Nat
      BY DEF SeqLockInv, SeqLockTypes
    <3>2. sequence = 2 * k => AtRest /\ k = stores
      BY <3>1 DEF SeqLockInv, AtRest, MidStore
    <3> QED
      BY <2>1, <3>2 DEF AtRest
  <2> QED
    BY <1>1, <1>2, <2>1, <2>2 DEF CopyOfOneStore
<1>7. ResultOfOneStore(r)' /\ 2 * floor'[r] <= sequence'
  BY DEF SeqLockInv, SeqLockTypes, ResultOfOneStore
<1>8. \A q \in Readers \ {r} :
        /\ 2 * floor'[q] <= sequence'
        /\ reading'[q] = "copy" => CopyOfOneStore(q)'
        /\ ResultOfOneStore(q)'
  BY OthersKeep DEF SeqLockInv, SeqLockTypes
<1> QED
  BY <1>4, <1>5, <1>6, <1>7, <1>8 DEF SeqLockInv

LEMMA LoadEndKeeps ==
  ASSUME SeqLockInv, NEW r \in Readers, LoadEnd(r)
  PROVE  SeqLockInv'
<1> USE DEF LoadEnd, UnchangedSince
<1>1. copy'[r] \in [{} -> Nat]
  BY DEF SeqLockInv, SeqLockTypes
<1>2. copy[r] \in [Words -> Nat]
  BY DEF SeqLockInv, SeqLockTypes
<1>3. SeqLockTypes'
  BY <1>1, <1>2 DEF SeqLockInv, SeqLockTypes
<1>4. (AtRest \/ MidStore)'
  BY DEF SeqLockInv, AtRest, MidStore
<1>5. ResultOfOneStore(r)' /\ 2 * floor'[r] <= sequence'
  <2>1. CASE UnchangedSince(r)
    <3>1. PICK k \in 0..stores :
            /\ seq1[r] = 2 * k /\ floor[r] <= k /\ seq1[r] <= sequence
            /\ sequence = seq1[r] => \A x \in DOMAIN copy[r] : copy[r][x] = k
      BY DEF SeqLockInv, CopyOfOneStore
    <3>2. copy[r] = [x \in Words |-> k]
      BY <1>2, <2>1, <3>1
    <3>3. result'[r] = [x \in Words |-> k] /\ floor'[r] <= k
      BY <2>1, <3>1, <3>2 DEF SeqLockInv, SeqLockTypes
    <3>4. k \in 0..stores' /\ (reading'[r] = "no" => k >= floor'[r])
      BY <3>1, <3>3 DEF SeqLockInv, SeqLockTypes
    <3> QED
      BY <2>1, <3>3, <3>4 DEF SeqLockInv, ResultOfOneStore
  <2>2. CASE ~UnchangedSince(r)
    BY <2>2 DEF SeqLockInv, SeqLockTypes, ResultOfOneStore
  <2> QED
    BY <2>1, <2>2
<1>6. reading'[r] # "copy"
  BY DEF SeqLockInv, SeqLockTypes
<1>7. ASSUME NEW q \in Readers \ {r}
      PROVE  /\ 2 * floor'[q] <= sequence'
             /\ reading'[q] = "copy" => CopyOfOneStore(q)'
             /\ ResultOfOneStore(q)'
  <2>1. /\ copy'[q] = copy[q] /\ reading'[q] = reading[q]
        /\ floor'[q] = floor[q] /\ result'[q] = result[q]
    BY DEF SeqLockInv, SeqLockTypes
  <2> QED
    BY <2>1, OthersKeep
<1> QED
  BY <1>3, <1>4, <1>5, <1>6, <1>7 DEF SeqLockInv

(* seqlock.rs: a load returns one store's value whole, and not one already *)
(* replaced when the load began, for any number of words and readers and   *)
(* words copied in any order.                                              *)
THEOREM LoadsReturnOneStore == SeqLockSpec => []LoadIsOneStore
<1>1. SeqLockInit => SeqLockInv
  BY SeqLockStarts
<1>2. SeqLockInv /\ [SeqLockNext]_seqlockVars => SeqLockInv'
  <2> SUFFICES ASSUME SeqLockInv, [SeqLockNext]_seqlockVars
               PROVE  SeqLockInv'
    OBVIOUS
  <2>1. CASE SeqLockNext
    BY <2>1, StoreBeginKeeps, StoreWordKeeps, StoreEndKeeps, LoadCallKeeps,
       LoadBeginKeeps, LoadWordKeeps, LoadEndKeeps
       DEF SeqLockNext
  <2>2. CASE UNCHANGED seqlockVars
    BY <2>2 DEF seqlockVars, SeqLockInv, SeqLockTypes, AtRest, MidStore,
                CopyOfOneStore, ResultOfOneStore
  <2> QED
    BY <2>1, <2>2
<1>3. SeqLockInv => LoadIsOneStore
  BY DEF SeqLockInv, ResultOfOneStore, LoadIsOneStore
<1> QED
  BY <1>1, <1>2, <1>3, PTL DEF SeqLockSpec

-----------------------------------------------------------------------------
(* Facts about slot arrays and logs that the ring and the queue share.     *)

(* Two sequences less than a lap apart have slots of their own.            *)
LEMMA DistinctSlots ==
  ASSUME NEW K \in Nat \ {0}, NEW i \in Nat, NEW j \in Nat, i < j, j - i < K
  PROVE  i % K # j % K
<1> SUFFICES ASSUME i % K = j % K PROVE FALSE
  OBVIOUS
<1> DEFINE a == i \div K
           b == j \div K
<1>1. a \in Int /\ b \in Int /\ i = K * a + (i % K) /\ j = K * b + (j % K)
  OBVIOUS
<1>2. j - i = K * b - K * a
  BY <1>1
<1>3. K * b - K * a = K * (b - a)
  BY <1>1
<1> HIDE DEF a, b
<1>4. b - a >= 1 => K * (b - a) >= K
  BY <1>1
<1>5. b - a <= 0 => K * (b - a) <= 0
  BY <1>1
<1> QED
  BY <1>1, <1>2, <1>3, <1>4, <1>5

LEMMA SlotInRange ==
  ASSUME NEW K \in Nat \ {0}, NEW i \in Nat
  PROVE  i % K \in 0..K - 1
OBVIOUS

(* Appending entries to a log: what it then holds, and that the log is a   *)
(* strict prefix of the longer one.                                        *)
LEMMA Appending ==
  ASSUME NEW S, NEW s \in Seq(S), NEW n \in Nat, NEW f \in [1..n -> S]
  PROVE  /\ s \o f \in Seq(S)
         /\ Len(s \o f) = Len(s) + n
         /\ \A i \in 1..Len(s) : (s \o f)[i] = s[i]
         /\ \A i \in 1..n : (s \o f)[Len(s) + i] = f[i]
         /\ n = 0 => s \o f = s
         /\ SubSeq(s, 1, Len(s)) = SubSeq(s \o f, 1, Len(s))
         /\ n > 0 => s # s \o f
<1>1. f \in Seq(S) /\ Len(f) = n
  OBVIOUS
<1>2. /\ s \o f \in Seq(S)
      /\ Len(s \o f) = Len(s) + n
      /\ \A i \in 1..Len(s) + n :
           (s \o f)[i] = IF i <= Len(s) THEN s[i] ELSE f[i - Len(s)]
  BY <1>1, ConcatProperties
<1>3. Len(s) \in Nat
  OBVIOUS
<1>4. /\ \A i \in 1..Len(s) : (s \o f)[i] = s[i]
      /\ \A i \in 1..n : (s \o f)[Len(s) + i] = f[i]
  BY <1>2, <1>3
<1>5. ASSUME n = 0 PROVE s \o f = s
  BY <1>5, <1>2, <1>3, SeqEqual
<1>6. SubSeq(s, 1, Len(s)) = SubSeq(s \o f, 1, Len(s))
  <2> DEFINE u == SubSeq(s, 1, Len(s))
             v == SubSeq(s \o f, 1, Len(s))
  <2>1. \A i \in 1..Len(s) : s[i] \in S /\ (s \o f)[i] \in S
    BY <1>4
  <2>2. u \in Seq(S) /\ Len(u) = Len(s) /\ \A i \in 1..Len(s) : u[i] = s[i]
    BY <1>3, <2>1, SubSeqFull
  <2>3. v \in Seq(S) /\ Len(v) = Len(s)
        /\ \A i \in 1..Len(s) : v[i] = (s \o f)[i]
    <3>1. /\ v \in Seq(S)
          /\ Len(v) = IF 1 <= Len(s) THEN Len(s) - 1 + 1 ELSE 0
          /\ \A i \in 1..Len(s) - 1 + 1 : v[i] = (s \o f)[1 + i - 1]
      BY <1>3, <2>1, SubSeqProperties
    <3> QED
      BY <1>3, <3>1
  <2> HIDE DEF u, v
  <2>4. u = v
    BY <1>4, <2>2, <2>3, SeqEqual
  <2> QED
    BY <2>4 DEF u, v
<1>7. n > 0 => s # s \o f
  BY <1>2, <1>3
<1> QED
  BY <1>2, <1>4, <1>5, <1>6, <1>7

-----------------------------------------------------------------------------
(* The single-producer single-consumer queue.                              *)

SpscTypes ==
  /\ cells \in [0..QueueCapacity - 1 -> Nat]
  /\ head \in Nat /\ tail \in Nat /\ localHead \in Nat
  /\ cachedTail \in Nat /\ cachedHead \in Nat
  /\ filling \in BOOLEAN
  /\ copied \in Nat /\ copyEnd \in Nat /\ got \in Nat
  /\ pushed \in Seq(Nat)

(* Where the writer has got to, the slot it is filling included.           *)
WrittenEnd == IF filling THEN localHead + 1 ELSE localHead

(* The cursors are in order, the cached ones behind, and the writer is     *)
(* never more than the capacity ahead of the consumer's published tail.    *)
SpscOrder ==
  /\ tail <= copied /\ copied <= copyEnd /\ copyEnd <= head
  /\ head <= localHead
  /\ cachedTail <= tail /\ cachedHead <= head
  /\ WrittenEnd - tail <= QueueCapacity

(* An entry is its position; every cell the writer has not come round to   *)
(* again still holds its entry.                                            *)
SpscContent ==
  /\ Len(pushed) = head
  /\ \A i \in 1..head : pushed[i] = i
  /\ \A i \in Nat :
       i < localHead /\ WrittenEnd - i <= QueueCapacity
         => cells[Cell(i)] = i + 1

SpscInv == SpscTypes /\ SpscOrder /\ SpscContent

LEMMA SpscStarts == SpscInit => SpscInv
<1> SUFFICES ASSUME SpscInit PROVE SpscInv
  OBVIOUS
<1> QED
  BY SpscAssumption, EmptySeq
     DEF SpscInit, SpscInv, SpscTypes, SpscOrder, SpscContent, WrittenEnd

(* What a flush appends: the positions from head to local_head.            *)
LEMMA FlushAppends ==
  ASSUME SpscInv, Flush, UNCHANGED <<localHead, filling>>
  PROVE  /\ pushed' \in Seq(Nat) /\ Len(pushed') = localHead
         /\ \A i \in 1..localHead : pushed'[i] = i
         /\ localHead = head => pushed' = pushed
         /\ SubSeq(pushed, 1, Len(pushed)) = SubSeq(pushed', 1, Len(pushed))
         /\ localHead > head => pushed # pushed'
<1> DEFINE n == localHead - head
           f == [i \in 1..n |-> cells[Cell(head + i - 1)]]
<1>1. n \in Nat /\ head \in Nat /\ localHead \in Nat
  BY DEF SpscInv, SpscTypes, SpscOrder
<1>2. \A i \in 1..n : cells[Cell(head + i - 1)] = head + i
  <2> SUFFICES ASSUME NEW i \in 1..n
               PROVE  cells[Cell(head + i - 1)] = head + i
    OBVIOUS
  <2>1. /\ head + i - 1 \in Nat /\ head + i - 1 < localHead
        /\ WrittenEnd - (head + i - 1) <= QueueCapacity
    BY <1>1, SpscAssumption
       DEF SpscInv, SpscTypes, SpscOrder, WrittenEnd
  <2>2. cells[Cell(head + i - 1)] = (head + i - 1) + 1
    BY <2>1 DEF SpscInv, SpscContent
  <2> QED
    BY <1>1, <2>2
<1>3. f \in [1..n -> Nat]
  BY <1>1, <1>2
<1>4. pushed' = pushed \o f /\ Len(pushed) = head /\ pushed \in Seq(Nat)
  BY DEF Flush, SpscInv, SpscTypes, SpscContent
<1>5. \A i \in 1..n : f[i] = head + i
  BY <1>2
<1> HIDE DEF f, n
<1>6. /\ pushed' \in Seq(Nat) /\ Len(pushed') = head + n
      /\ \A i \in 1..head : pushed'[i] = pushed[i]
      /\ \A i \in 1..n : pushed'[head + i] = f[i]
      /\ n = 0 => pushed' = pushed
      /\ SubSeq(pushed, 1, Len(pushed)) = SubSeq(pushed', 1, Len(pushed))
      /\ n > 0 => pushed # pushed'
  <2>1. /\ pushed \o f \in Seq(Nat)
        /\ Len(pushed \o f) = Len(pushed) + n
        /\ \A i \in 1..Len(pushed) : (pushed \o f)[i] = pushed[i]
        /\ \A i \in 1..n : (pushed \o f)[Len(pushed) + i] = f[i]
        /\ n = 0 => pushed \o f = pushed
        /\ SubSeq(pushed, 1, Len(pushed)) = SubSeq(pushed \o f, 1, Len(pushed))
        /\ n > 0 => pushed # pushed \o f
    BY <1>1, <1>3, <1>4, Appending
  <2> QED
    BY <1>4, <2>1, Zenon
<1>7. \A i \in 1..localHead : pushed'[i] = i
  <2> SUFFICES ASSUME NEW i \in 1..localHead PROVE pushed'[i] = i
    OBVIOUS
  <2>1. CASE i <= head
    BY <1>1, <1>6, <2>1 DEF SpscInv, SpscContent
  <2>2. CASE i > head
    <3>1. i - head \in 1..n /\ head + (i - head) = i
      BY <1>1, <2>2 DEF n
    <3> QED
      BY <1>5, <1>6, <3>1
  <2> QED
    BY <1>1, <2>1, <2>2
<1> QED
  BY <1>1, <1>6, <1>7 DEF n

(* The cell about to be filled is no cell whose entry is still wanted.     *)
LEMMA WantedCellsKept ==
  ASSUME SpscInv, NEW i \in Nat, i < localHead,
         localHead - i < QueueCapacity, NEW e,
         cells' = [cells EXCEPT ![Cell(localHead)] = e]
  PROVE  cells'[Cell(i)] = cells[Cell(i)]
<1>1. localHead \in Nat /\ QueueCapacity \in Nat \ {0}
  BY SpscAssumption DEF SpscInv, SpscTypes
<1>2. Cell(i) # Cell(localHead)
  BY <1>1, DistinctSlots DEF Cell
<1>3. Cell(i) \in 0..QueueCapacity - 1
  BY <1>1, SlotInRange DEF Cell
<1> QED
  BY <1>2, <1>3 DEF SpscInv, SpscTypes

LEMMA SpscStep == SpscInv /\ SpscNext => SpscInv'
<1> SUFFICES ASSUME SpscInv, SpscNext PROVE SpscInv'
  OBVIOUS
<1>0. QueueCapacity \in Nat \ {0}
  BY SpscAssumption
<1>1. ASSUME NEW c \in {"try", "wait", "unless"}, Begin(c) PROVE SpscInv'
  BY <1>1 DEF Begin, SpscInv, SpscTypes, SpscOrder, SpscContent, WrittenEnd,
              Cell
<1>2. CASE StartWrite
  <2> USE <1>2 DEF StartWrite, QueueHasRoom
  <2>1. Cell(localHead) \in 0..QueueCapacity - 1
    BY <1>0, SlotInRange DEF Cell, SpscInv, SpscTypes
  <2>2. SpscTypes'
    BY <2>1, SpscAssumption DEF SpscInv, SpscTypes, TornCell
  <2>3. SpscOrder'
    BY <1>0 DEF SpscInv, SpscTypes, SpscOrder, WrittenEnd
  <2>4. ASSUME NEW i \in Nat, i < localHead',
               WrittenEnd' - i <= QueueCapacity
        PROVE  cells'[Cell(i)] = i + 1
    <3>1. /\ i < localHead /\ localHead - i < QueueCapacity
          /\ WrittenEnd - i <= QueueCapacity
      BY <1>0, <2>4 DEF WrittenEnd, SpscInv, SpscTypes
    <3>2. cells'[Cell(i)] = cells[Cell(i)]
      BY <3>1, WantedCellsKept
    <3> QED
      BY <3>1, <3>2 DEF SpscInv, SpscContent
  <2>5. SpscContent'
    BY <2>4 DEF SpscInv, SpscContent, Cell
  <2> QED
    BY <2>2, <2>3, <2>5 DEF SpscInv
<1>3. CASE LoadTail
  <2> USE <1>3 DEF LoadTail
  <2>1. CASE UNCHANGED <<head, pushed>>
    BY <2>1 DEF SpscInv, SpscTypes, SpscOrder, SpscContent, WrittenEnd, Cell
  <2>2. CASE Flush
    <3>1. /\ pushed' \in Seq(Nat) /\ Len(pushed') = localHead
          /\ \A i \in 1..localHead : pushed'[i] = i
      BY <2>2, FlushAppends
    <3>2. SpscTypes' /\ SpscOrder'
      BY <2>2, <3>1 DEF Flush, SpscInv, SpscTypes, SpscOrder, WrittenEnd
    <3>3. SpscContent'
      BY <2>2, <3>1 DEF Flush, SpscInv, SpscContent, WrittenEnd, Cell
    <3> QED
      BY <3>2, <3>3 DEF SpscInv
  <2> QED
    BY <2>1, <2>2
<1>4. CASE EndWrite
  <2> USE <1>4 DEF EndWrite
  <2>1. Cell(localHead) \in 0..QueueCapacity - 1
    BY <1>0, SlotInRange DEF Cell, SpscInv, SpscTypes
  <2>2. SpscTypes'
    <3>1. localHead + 1 \in Nat
      BY DEF SpscInv, SpscTypes
    <3>2. cells' \in [0..QueueCapacity - 1 -> Nat]
      BY <2>1, <3>1 DEF SpscInv, SpscTypes
    <3> QED
      BY <3>1, <3>2 DEF SpscInv, SpscTypes
  <2>3. SpscOrder'
    BY <1>0 DEF SpscInv, SpscTypes, SpscOrder, WrittenEnd
  <2>4. ASSUME NEW i \in Nat, i < localHead',
               WrittenEnd' - i <= QueueCapacity
        PROVE  cells'[Cell(i)] = i + 1
    <3>1. CASE i = localHead
      BY <2>1, <3>1 DEF SpscInv, SpscTypes
    <3>2. CASE i # localHead
      <4>1. /\ i < localHead /\ localHead - i < QueueCapacity
            /\ WrittenEnd - i <= QueueCapacity
        BY <1>0, <2>4, <3>2 DEF WrittenEnd, SpscInv, SpscTypes
      <4>2. cells'[Cell(i)] = cells[Cell(i)]
        BY <4>1, WantedCellsKept
      <4> QED
        BY <4>1, <4>2 DEF SpscInv, SpscContent
    <3> QED
      BY <3>1, <3>2
  <2>5. SpscContent'
    BY <2>4 DEF SpscInv, SpscContent, Cell
  <2> QED
    BY <2>2, <2>3, <2>5 DEF SpscInv
<1>5. CASE FlushPending
  <2> USE <1>5 DEF FlushPending
  <2>1. /\ pushed' \in Seq(Nat) /\ Len(pushed') = localHead
        /\ \A i \in 1..localHead : pushed'[i] = i
    BY FlushAppends
  <2>2. SpscTypes' /\ SpscOrder'
    BY <2>1 DEF Flush, SpscInv, SpscTypes, SpscOrder, WrittenEnd
  <2>3. SpscContent'
    BY <2>1 DEF Flush, SpscInv, SpscContent, WrittenEnd, Cell
  <2> QED
    BY <2>2, <2>3 DEF SpscInv
<1>6. CASE SetStop
  BY <1>6 DEF SetStop, SpscInv, SpscTypes, SpscOrder, SpscContent, WrittenEnd,
              Cell
<1>11. CASE Refresh
  <2>1. SpscTypes' /\ SpscOrder'
    BY <1>11 DEF Refresh, SpscInv, SpscTypes, SpscOrder, WrittenEnd
  <2>2. SpscContent'
    BY <1>11 DEF Refresh, SpscInv, SpscContent, WrittenEnd, Cell
  <2> QED
    BY <2>1, <2>2 DEF SpscInv
<1>7. CASE TryConsumeVisible
  BY <1>7 DEF TryConsumeVisible, NotCopying, Visible, SpscInv, SpscTypes,
              SpscOrder, SpscContent, WrittenEnd, Cell
<1>8. ASSUME NEW n \in 1..QueueCapacity, BeginBatch(n) PROVE SpscInv'
  BY <1>0, <1>8 DEF BeginBatch, NotCopying, SpscInv, SpscTypes, SpscOrder,
              SpscContent, WrittenEnd, Cell
<1>9. CASE CopyOne
  <2>1. Cell(copied) \in 0..QueueCapacity - 1
    BY <1>0, SlotInRange DEF Cell, SpscInv, SpscTypes
  <2> QED
    BY <1>9, <2>1 DEF CopyOne, SpscInv, SpscTypes, SpscOrder, SpscContent,
                      WrittenEnd, Cell
<1>10. CASE EndBatch
  BY <1>0, <1>10 DEF EndBatch, SpscInv, SpscTypes, SpscOrder, SpscContent,
                     WrittenEnd, Cell
<1> QED
  BY <1>1, <1>2, <1>3, <1>4, <1>5, <1>6, <1>7, <1>8, <1>9, <1>10,
     <1>11
     DEF SpscNext, SpscProducerStep, SpscConsumerStep

LEMMA SpscAlwaysInv == SpscSpec => []SpscInv
<1>1. SpscInv /\ UNCHANGED spscVars => SpscInv'
  BY DEF spscVars, SpscInv, SpscTypes, SpscOrder, SpscContent, WrittenEnd, Cell
<1> QED
  BY SpscStarts, SpscStep, <1>1, PTL DEF SpscSpec

(* A flush with writes pending publishes them all at once.                 *)
LEMMA FlushPublishes ==
  ASSUME SpscInv, Flush, localHead > head,
         UNCHANGED <<localHead, filling, tail, copied, got>>
  PROVE  QueueLog!Publish
<1>1. /\ Len(pushed) = head /\ Len(pushed') = localHead
      /\ SubSeq(pushed, 1, Len(pushed)) = SubSeq(pushed', 1, Len(pushed))
      /\ pushed # pushed'
  BY FlushAppends DEF SpscInv, SpscContent
<1>2. QueueLog!IsStrictPrefix(pushed, pushed')
  BY <1>1 DEF QueueLog!IsStrictPrefix, QueueLog!IsPrefix, SpscInv, SpscTypes
<1>3. localHead - tail <= QueueCapacity
  BY SpscAssumption DEF SpscInv, SpscTypes, SpscOrder, WrittenEnd
<1> QED
  BY <1>1, <1>2, <1>3 DEF QueueLog!Publish

(* spsc.rs: the queue hands over what was pushed, whole, once and in       *)
(* order, for every capacity and however the two sides interleave.         *)
THEOREM SpscRefinesLog == SpscSpec => SpscImplementsLog
<1>1. SpscInit => QueueLog!Init
  BY DEF SpscInit, QueueLog!Init
<1>2. SpscInv /\ [SpscNext]_spscVars => [QueueLog!Next]_(QueueLog!vars)
  <2> SUFFICES ASSUME SpscInv, [SpscNext]_spscVars
               PROVE  QueueLog!Next \/ UNCHANGED QueueLog!vars
    OBVIOUS
  <2>1. CASE \/ UNCHANGED spscVars
             \/ \E c \in {"try", "wait", "unless"} : Begin(c)
             \/ StartWrite \/ EndWrite \/ SetStop \/ Refresh
             \/ TryConsumeVisible
             \/ \E n \in 1..QueueCapacity : BeginBatch(n)
    BY <2>1 DEF spscVars, Begin, StartWrite, EndWrite, SetStop, Refresh,
                TryConsumeVisible, BeginBatch, QueueLog!vars
  <2>2. CASE LoadTail
    <3>1. CASE UNCHANGED <<head, pushed>>
      BY <2>2, <3>1 DEF LoadTail, QueueLog!vars
    <3>2. CASE Flush /\ localHead > head
      BY <2>2, <3>2, FlushPublishes DEF LoadTail, QueueLog!Next
    <3>3. CASE Flush /\ localHead = head
      <4>1. pushed' = pushed
        BY <2>2, <3>3, FlushAppends DEF LoadTail
      <4> QED
        BY <2>2, <4>1 DEF LoadTail, QueueLog!vars
    <3>4. localHead >= head /\ localHead \in Nat /\ head \in Nat
      BY DEF SpscInv, SpscTypes, SpscOrder
    <3> QED
      BY <2>2, <3>1, <3>2, <3>3, <3>4 DEF LoadTail
  <2>3. CASE FlushPending
    BY <2>3, FlushPublishes DEF FlushPending, QueueLog!Next
  <2>4. CASE CopyOne
    <3>1. /\ copied < Len(pushed) /\ copied + 1 \in 1..head
          /\ WrittenEnd - copied <= QueueCapacity /\ copied < localHead
      BY <2>4, SpscAssumption
         DEF CopyOne, SpscInv, SpscTypes, SpscOrder, SpscContent, WrittenEnd
    <3>2. got' = copied + 1 /\ pushed[copied + 1] = copied + 1
      BY <2>4, <3>1 DEF CopyOne, SpscInv, SpscContent, SpscTypes
    <3>3. <<got'>> = [<<got>> EXCEPT ![1] = pushed[copied + 1]]
          /\ <<copied'>> = [<<copied>> EXCEPT ![1] = copied + 1]
      BY <2>4, <3>2 DEF CopyOne
    <3>4. QueueLog!Deliver(1)
      BY <2>4, <3>1, <3>3 DEF CopyOne, QueueLog!Deliver, QueueLog!Bound
    <3> QED
      BY <3>4 DEF QueueLog!Next
  <2>5. CASE EndBatch
    <3>1. tail' \in (tail + 1)..copied
      BY <2>5 DEF EndBatch, SpscInv, SpscTypes, SpscOrder
    <3>2. <<tail'>> = [<<tail>> EXCEPT ![1] = tail']
      OBVIOUS
    <3>3. QueueLog!Release(1)
      BY <2>5, <3>1, <3>2 DEF EndBatch, QueueLog!Release
    <3> QED
      BY <3>3 DEF QueueLog!Next
  <2> QED
    BY <2>1, <2>2, <2>3, <2>4, <2>5
       DEF SpscNext, SpscProducerStep, SpscConsumerStep
<1> QED
  BY <1>1, <1>2, SpscAlwaysInv, PTL
     DEF SpscSpec, SpscImplementsLog, QueueLog!Spec

-----------------------------------------------------------------------------
(* The disruptor ring.                                                     *)

(* Every non-empty set of naturals has a least element.                    *)
LEMMA LeastNatural ==
  ASSUME NEW T \in SUBSET Nat, T # {}
  PROVE  \E x \in T : \A y \in T : x <= y
<1>1. \E x \in T : \A y \in T : ~(<<y, x>> \in OpToRel(<, Nat))
  BY NatLessThanWellFounded, WFMin
<1>2. PICK x \in T : \A y \in T : ~(<<y, x>> \in OpToRel(<, Nat))
  BY <1>1
<1>3. ASSUME NEW y \in T PROVE x <= y
  <2>1. <<y, x>> \in Nat \X Nat /\ <<y, x>>[1] = y /\ <<y, x>>[2] = x
    OBVIOUS
  <2>2. ~(y < x)
    BY <1>2, <2>1 DEF OpToRel
  <2> QED
    BY <2>2
<1> QED
  BY <1>3

(* What Min returns, for the refresh's scan over the gates.                *)
LEMMA MinOfNaturals ==
  ASSUME NEW T \in SUBSET Nat, T # {}
  PROVE  Min(T) \in T /\ \A y \in T : Min(T) <= y
<1>1. \E x \in T : \A y \in T : x =< y
  BY LeastNatural
<1> QED
  BY <1>1 DEF Min

(* Where the producer has got to, the slot it is filling included.         *)
FillEnd == IF pc = "fill" THEN NextSeq + 1 ELSE NextSeq

RingTypes ==
  /\ RingTypeOK
  /\ pc \in {"scan", "fill"} => fills < MaxFills

(* Consumers are in order behind their dependencies and the published      *)
(* cursor, and go by a view of the dependency that is behind it.           *)
ConsumerOrder ==
  \A c \in Consumers :
    /\ processed[c] <= readAt[c] /\ readAt[c] <= nextRead[c]
    /\ nextRead[c] <= Dependency(c) /\ cachedDep[c] <= Dependency(c)
    /\ nextRead[c] <= cursor

(* The producer's view of the gates, and what its refresh has loaded, is   *)
(* behind them.                                                            *)
GateView ==
  /\ \A g \in Gates : cachedGate <= processed[g]
  /\ pc = "scan" => \A g \in Gates \ toScan : scanMin <= processed[g]

(* Nobody is lapped: the producer is at most the capacity ahead of every   *)
(* consumer's published progress, not of the gates' alone.                 *)
NobodyLapped ==
  \A c \in Consumers : FillEnd - processed[c] <= Capacity

(* The slot of every published entry that some consumer has yet to release *)
(* still holds it, and the slots filled since are whole.                   *)
RingContent ==
  /\ Len(published) = cursor
  /\ \A c \in Consumers : \A i \in Nat :
       processed[c] <= i /\ i < cursor => slots[Slot(i)] = published[i + 1]
  /\ \A i \in Nat :
       cursor <= i /\ i < NextSeq => slots[Slot(i)] \in 1..MaxFills

RingInv ==
  RingTypes /\ ConsumerOrder /\ GateView /\ NobodyLapped /\ RingContent

LEMMA ConsumersExist == N \in Consumers /\ Consumers \subseteq Nat
BY RingAssumption DEF Consumers

(* Who a consumer follows is a consumer added before it.                   *)
LEMMA DependedOn ==
  \A c \in Consumers :
    After[c] # 0 => After[c] \in Consumers /\ After[c] # c
BY RingAssumption DEF Consumers

LEMMA RingStarts == RingInit => RingInv
<1> SUFFICES ASSUME RingInit PROVE RingInv
  OBVIOUS
<1> USE RingAssumption DEF RingInit
<1>1. RingTypes
  <2>1. 0 \in 0..Torn /\ 0 \in 0..MaxFills
    BY DEF Torn
  <2>2. slots \in [0..Capacity - 1 -> 0..Torn]
    BY <2>1
  <2>3. handed \in [Consumers -> 0..MaxFills] /\ fills \in 0..MaxFills
    BY <2>1
  <2>4. published \in Seq(1..MaxFills)
    BY EmptySeq
  <2> QED
    BY <2>2, <2>3, <2>4 DEF RingTypes, RingTypeOK
<1>2. ConsumerOrder
  BY DEF ConsumerOrder, Dependency, Consumers
<1>3. GateView
  BY DEF GateView, Gates
<1>4. NobodyLapped
  BY DEF NobodyLapped, FillEnd, NextSeq
<1>5. RingContent
  BY EmptySeq DEF RingContent, NextSeq
<1> QED
  BY <1>1, <1>2, <1>3, <1>4, <1>5 DEF RingInv

(* collect_gates keeps only the consumers nobody comes after.  That is     *)
(* enough: whoever they follow is at least as far.                         *)
LEMMA GatesAreLast ==
  ASSUME RingInv, NEW x \in Nat, \A g \in Gates : x <= processed[g]
  PROVE  \A c \in Consumers : x <= processed[c]
<1> SUFFICES ASSUME NEW b \in Consumers, processed[b] < x PROVE FALSE
  BY DEF RingInv, RingTypes, RingTypeOK
<1> DEFINE B == {c \in Consumers : processed[c] < x}
           T == {N - c : c \in B}
<1>1. N \in Nat /\ \A c \in Consumers : c \in Nat /\ N - c \in Nat
  BY RingAssumption DEF Consumers
<1>2. T \in SUBSET Nat /\ T # {}
  BY <1>1
<1>3. PICK t \in T : \A u \in T : t <= u
  BY <1>2, LeastNatural
<1>4. PICK m \in B : \A c \in B : N - m <= N - c
  BY <1>3
<1>5. \A c \in B : c <= m
  BY <1>1, <1>4
<1>6. m \notin Gates
  BY <1>4 DEF RingInv, RingTypes, RingTypeOK
<1>7. PICK d \in Consumers : After[d] = m
  BY <1>4, <1>6 DEF Gates
<1>8. m < d /\ m # 0
  BY <1>7, RingAssumption DEF Consumers
<1>9. processed[d] <= processed[m]
  <2>1. processed[d] <= nextRead[d] /\ nextRead[d] <= Dependency(d)
    <3>1. /\ processed[d] \in Nat /\ readAt[d] \in Nat /\ nextRead[d] \in Nat
          /\ processed[d] <= readAt[d] /\ readAt[d] <= nextRead[d]
          /\ nextRead[d] <= Dependency(d)
      BY DEF RingInv, RingTypes, RingTypeOK, ConsumerOrder
    <3> QED
      BY <3>1
  <2>2. Dependency(d) = processed[m]
    BY <1>7, <1>8 DEF Dependency
  <2>3. m \in Consumers
    BY <1>4
  <2>4. processed[d] \in Nat /\ nextRead[d] \in Nat /\ processed[m] \in Nat
    BY <2>3 DEF RingInv, RingTypes, RingTypeOK
  <2> QED
    BY <2>1, <2>2, <2>4
<1>10. d \in B
  <2>1. m \in Consumers /\ processed[m] < x
    BY <1>4
  <2>2. processed[d] \in Nat /\ processed[m] \in Nat
    BY <2>1 DEF RingInv, RingTypes, RingTypeOK
  <2>3. processed[d] < x
    BY <1>9, <2>1, <2>2
  <2> QED
    BY <2>3
<1> QED
  BY <1>1, <1>5, <1>8, <1>10

(* The slot about to be filled holds no entry that is still wanted.        *)
LEMMA WantedSlotsKept ==
  ASSUME RingInv, NEW c \in Consumers, NEW i \in Nat, processed[c] <= i,
         i < NextSeq, NextSeq - processed[c] < Capacity, NEW e,
         slots' = [slots EXCEPT ![Slot(NextSeq)] = e]
  PROVE  slots'[Slot(i)] = slots[Slot(i)]
<1>1. NextSeq \in Nat /\ Capacity \in Nat \ {0} /\ processed[c] \in Nat
  BY RingAssumption DEF RingInv, RingTypes, RingTypeOK, NextSeq
<1>2. NextSeq - i < Capacity
  BY <1>1
<1>3. Slot(i) # Slot(NextSeq)
  BY <1>1, <1>2, DistinctSlots DEF Slot
<1>4. Slot(i) \in 0..Capacity - 1
  BY <1>1, SlotInRange DEF Slot
<1> QED
  BY <1>3, <1>4 DEF RingInv, RingTypes, RingTypeOK

(* What a store of the cursor appends to the log.                          *)
LEMMA StoreAppends ==
  ASSUME RingInv, StoreCursor
  PROVE  /\ published' \in Seq(1..MaxFills) /\ Len(published') = NextSeq
         /\ \A i \in 1..cursor : published'[i] = published[i]
         /\ \A i \in Nat : cursor <= i /\ i < NextSeq
              => published'[i + 1] = slots[Slot(i)]
         /\ count = 0 => published' = published
         /\ SubSeq(published, 1, cursor) = SubSeq(published', 1, cursor)
         /\ count > 0 => published # published'
<1> DEFINE f == [i \in 1..count |-> slots[Slot(cursor + i - 1)]]
<1>1. count \in Nat /\ cursor \in Nat /\ NextSeq = cursor + count
      /\ published \in Seq(1..MaxFills) /\ Len(published) = cursor
  BY DEF RingInv, RingTypes, RingTypeOK, NextSeq, RingContent
<1>2. \A i \in 1..count : slots[Slot(cursor + i - 1)] \in 1..MaxFills
  <2> SUFFICES ASSUME NEW i \in 1..count
               PROVE  slots[Slot(cursor + i - 1)] \in 1..MaxFills
    OBVIOUS
  <2>1. /\ cursor + i - 1 \in Nat /\ cursor <= cursor + i - 1
        /\ cursor + i - 1 < NextSeq
    BY <1>1
  <2> QED
    BY <2>1 DEF RingInv, RingContent
<1>3. f \in [1..count -> 1..MaxFills]
  BY <1>2
<1>4. published' = published \o f
  BY DEF StoreCursor
<1>5. \A i \in 1..count : f[i] = slots[Slot(cursor + i - 1)]
  OBVIOUS
<1> HIDE DEF f
<1>6. /\ published \o f \in Seq(1..MaxFills)
      /\ Len(published \o f) = Len(published) + count
      /\ \A i \in 1..Len(published) : (published \o f)[i] = published[i]
      /\ \A i \in 1..count : (published \o f)[Len(published) + i] = f[i]
      /\ count = 0 => published \o f = published
      /\ SubSeq(published, 1, Len(published))
           = SubSeq(published \o f, 1, Len(published))
      /\ count > 0 => published # published \o f
  BY <1>1, <1>3, Appending
<1>7. /\ \A i \in 1..cursor : published'[i] = published[i]
      /\ \A i \in 1..count : published'[cursor + i] = f[i]
  BY <1>1, <1>4, <1>6
<1>8. ASSUME NEW i \in Nat, cursor <= i, i < NextSeq
      PROVE  published'[i + 1] = slots[Slot(i)]
  <2>1. /\ i - cursor + 1 \in 1..count /\ cursor + (i - cursor + 1) = i + 1
        /\ cursor + (i - cursor + 1) - 1 = i
    BY <1>1, <1>8
  <2> QED
    BY <1>5, <1>7, <2>1
<1> QED
  BY <1>1, <1>4, <1>6, <1>7, <1>8

(* A store of the cursor: consumers see more, no slot changes.             *)
LEMMA StoreCursorKeeps ==
  ASSUME RingInv, StoreCursor, UNCHANGED <<slots, consumerVars>>,
         pc # "fill", pc' # "fill"
  PROVE  /\ ConsumerOrder' /\ NobodyLapped' /\ RingContent'
         /\ cursor' \in Nat /\ count' = 0
         /\ published' \in Seq(1..MaxFills)
<1>1. /\ cursor \in Nat /\ count \in Nat /\ NextSeq \in Nat
      /\ cursor' = NextSeq /\ count' = 0 /\ NextSeq' = NextSeq
      /\ cursor <= cursor'
  BY DEF StoreCursor, NextSeq, RingInv, RingTypes, RingTypeOK
<1>2. ConsumerOrder'
  <2> SUFFICES ASSUME NEW c \in Consumers
               PROVE  /\ processed[c] <= readAt[c] /\ readAt[c] <= nextRead[c]
                      /\ nextRead[c] <= Dependency(c)'
                      /\ cachedDep[c] <= Dependency(c)'
                      /\ nextRead[c] <= cursor'
    BY DEF ConsumerOrder, consumerVars
  <2>1. /\ processed[c] <= readAt[c] /\ readAt[c] <= nextRead[c]
        /\ nextRead[c] <= Dependency(c) /\ cachedDep[c] <= Dependency(c)
        /\ nextRead[c] <= cursor
        /\ nextRead[c] \in Nat /\ cachedDep[c] \in Nat
    BY DEF RingInv, ConsumerOrder, RingTypes, RingTypeOK
  <2>2. Dependency(c) \in Nat /\ Dependency(c)' \in Nat
        /\ Dependency(c) <= Dependency(c)'
    <3>1. CASE After[c] = 0
      BY <1>1, <3>1 DEF Dependency
    <3>2. CASE After[c] # 0
      <4>1. processed[After[c]] \in Nat
        BY <3>2, DependedOn DEF RingInv, RingTypes, RingTypeOK
      <4> QED
        BY <3>2, <4>1 DEF Dependency, consumerVars
    <3> QED
      BY <3>1, <3>2
  <2> QED
    BY <1>1, <2>1, <2>2
<1>3. NobodyLapped'
  BY <1>1 DEF NobodyLapped, FillEnd, RingInv, consumerVars
<1>4. RingContent'
  <2>1. /\ Len(published') = NextSeq
        /\ \A i \in 1..cursor : published'[i] = published[i]
        /\ \A i \in Nat : cursor <= i /\ i < NextSeq
             => published'[i + 1] = slots[Slot(i)]
    BY StoreAppends
  <2>2. ASSUME NEW c \in Consumers, NEW i \in Nat, processed'[c] <= i,
               i < cursor'
        PROVE  slots'[Slot(i)] = published'[i + 1]
    <3>1. CASE i < cursor
      <4>1. i + 1 \in 1..cursor
        BY <1>1, <3>1
      <4>2. slots[Slot(i)] = published[i + 1]
        BY <2>2, <3>1 DEF RingInv, RingContent, consumerVars
      <4> QED
        BY <2>1, <4>1, <4>2
    <3>2. CASE cursor <= i
      BY <1>1, <2>1, <2>2, <3>2
    <3> QED
      BY <1>1, <3>1, <3>2
  <2>3. \A i \in Nat : ~(cursor' <= i /\ i < NextSeq')
    BY <1>1
  <2> QED
    BY <1>1, <2>1, <2>2, <2>3 DEF RingContent, Slot
<1> QED
  BY <1>1, <1>2, <1>3, <1>4, StoreAppends

(* Filling starts where every consumer has released.                       *)
LEMMA StartFillKeeps ==
  ASSUME RingInv, StartFill, pc # "fill",
         UNCHANGED <<cursor, count, processed, published>>,
         NEW gate \in Nat, HasRoom(gate),
         \A g \in Gates : gate <= processed[g]
  PROVE  /\ slots' \in [0..Capacity - 1 -> 0..Torn]
         /\ NobodyLapped' /\ RingContent'
<1>1. /\ cursor \in Nat /\ count \in Nat /\ NextSeq \in Nat
      /\ NextSeq' = NextSeq /\ Capacity \in Nat \ {0}
      /\ processed \in [Consumers -> Nat] /\ pc' = "fill"
  BY RingAssumption DEF NextSeq, RingInv, RingTypes, RingTypeOK, StartFill
<1>2. ASSUME NEW c \in Consumers
      PROVE  NextSeq - processed[c] < Capacity /\ processed[c] <= cursor
  <2>1. gate <= processed[c]
    BY GatesAreLast
  <2>2. /\ processed[c] <= readAt[c] /\ readAt[c] <= nextRead[c]
        /\ nextRead[c] <= cursor
        /\ readAt[c] \in Nat /\ nextRead[c] \in Nat
    BY DEF RingInv, RingTypes, RingTypeOK, ConsumerOrder
  <2> QED
    BY <1>1, <2>1, <2>2 DEF HasRoom
<1>3. slots' \in [0..Capacity - 1 -> 0..Torn]
  <2>1. Slot(NextSeq) \in 0..Capacity - 1 /\ Torn \in 0..Torn
    BY <1>1, SlotInRange, RingAssumption DEF Slot, Torn
  <2> QED
    BY <2>1 DEF StartFill, RingInv, RingTypes, RingTypeOK
<1>4. NobodyLapped'
  BY <1>1, <1>2 DEF NobodyLapped, FillEnd
<1>5. ASSUME NEW c \in Consumers, NEW i \in Nat, processed[c] <= i,
             i < NextSeq
      PROVE  slots'[Slot(i)] = slots[Slot(i)]
  BY <1>2, <1>5, WantedSlotsKept DEF StartFill
<1>6. ASSUME NEW c \in Consumers, NEW i \in Nat, processed[c] <= i,
             i < cursor
      PROVE  slots'[Slot(i)] = published[i + 1]
  <2>1. i < NextSeq
    BY <1>1, <1>6 DEF NextSeq
  <2> QED
    BY <1>5, <1>6, <2>1 DEF RingInv, RingContent
<1>7. ASSUME NEW i \in Nat, cursor <= i, i < NextSeq
      PROVE  slots'[Slot(i)] \in 1..MaxFills
  <2>1. processed[N] <= i
    BY <1>1, <1>2, <1>7, ConsumersExist
  <2> QED
    BY <1>5, <1>7, <2>1, ConsumersExist DEF RingInv, RingContent
<1>8. RingContent'
  BY <1>1, <1>6, <1>7 DEF RingInv, RingContent, Slot
<1> QED
  BY <1>3, <1>4, <1>8

(* A consumer's steps: the producer's views stay behind, what is wanted    *)
(* only shrinks.                                                           *)
LEMMA ProgressKeeps ==
  ASSUME RingInv, UNCHANGED <<slots, producerVars, fills, published>>,
         processed' \in [Consumers -> Nat],
         \A c \in Consumers : processed[c] <= processed'[c]
  PROVE  GateView' /\ NobodyLapped' /\ RingContent'
<1>1. /\ UNCHANGED <<slots, published, cursor, count, pc, cachedGate, toScan,
                     scanMin>>
      /\ NextSeq' = NextSeq /\ FillEnd' = FillEnd
  BY DEF producerVars, NextSeq, FillEnd
<1>2. /\ processed \in [Consumers -> Nat] /\ cachedGate \in Nat
      /\ scanMin \in Nat /\ NextSeq \in Nat /\ FillEnd \in Nat
      /\ Capacity \in Nat
  BY RingAssumption
     DEF RingInv, RingTypes, RingTypeOK, NextSeq, FillEnd
<1>3. GateView'
  BY <1>1, <1>2 DEF GateView, RingInv, Gates
<1>4. NobodyLapped'
  BY <1>1, <1>2 DEF NobodyLapped, RingInv
<1>5. RingContent'
  <2>1. ASSUME NEW c \in Consumers, NEW i \in Nat, processed'[c] <= i,
               i < cursor
        PROVE  slots[Slot(i)] = published[i + 1]
    <3>1. processed[c] <= i
      BY <1>2, <2>1
    <3> QED
      BY <2>1, <3>1 DEF RingInv, RingContent
  <2> QED
    BY <1>1, <2>1 DEF RingInv, RingContent, Slot
<1> QED
  BY <1>3, <1>4, <1>5

LEMMA OpenBatchKeeps == RingInv /\ OpenBatch => RingInv'
<1> SUFFICES ASSUME RingInv, OpenBatch PROVE RingInv'
  OBVIOUS
<1> USE DEF OpenBatch, consumerVars
<1>1. RingTypes'
  BY DEF RingInv, RingTypes, RingTypeOK, Gates, Torn
<1>2. ConsumerOrder' /\ GateView' /\ NobodyLapped'
  BY DEF RingInv, ConsumerOrder, Dependency, GateView, Gates, NobodyLapped,
         FillEnd, NextSeq
<1>3. RingContent'
  BY DEF RingInv, RingContent, NextSeq, Slot
<1> QED
  BY <1>1, <1>2, <1>3 DEF RingInv

LEMMA PushKeeps ==
  ASSUME RingInv, NEW o \in {"try", "wait", "abortable"}, Push(o)
  PROVE  RingInv'
<1> USE DEF Push
<1>1. ConsumerOrder'
  BY DEF RingInv, ConsumerOrder, Dependency, consumerVars
<1>2. CASE HasRoom(cachedGate) /\ StartFill
  <2>1. /\ slots' \in [0..Capacity - 1 -> 0..Torn]
        /\ NobodyLapped' /\ RingContent'
    BY <1>2, StartFillKeeps
       DEF RingInv, RingTypes, RingTypeOK, GateView, consumerVars
  <2>2. RingTypes'
    BY <1>2, <2>1
       DEF RingInv, RingTypes, RingTypeOK, Gates, Torn, StartFill, consumerVars
  <2>3. GateView'
    BY <1>2 DEF RingInv, GateView, Gates, StartFill, consumerVars
  <2> QED
    BY <1>1, <1>2, <2>1, <2>2, <2>3 DEF RingInv
<1>3. CASE ~HasRoom(cachedGate) /\ StartScan /\ UNCHANGED slots
  <2>1. NextSeq \in Nat
    BY DEF NextSeq, RingInv, RingTypes, RingTypeOK
  <2>2. RingTypes'
    BY <1>3, <2>1
       DEF RingInv, RingTypes, RingTypeOK, Gates, Torn, StartScan, consumerVars
  <2>3. GateView'
    BY <1>3 DEF RingInv, GateView, Gates, StartScan, consumerVars
  <2>4. NobodyLapped'
    BY <1>3 DEF RingInv, NobodyLapped, FillEnd, NextSeq, StartScan,
                consumerVars
  <2>5. RingContent'
    BY <1>3 DEF RingInv, RingContent, NextSeq, Slot, consumerVars
  <2> QED
    BY <1>1, <2>2, <2>3, <2>4, <2>5 DEF RingInv
<1> QED
  BY <1>2, <1>3

LEMMA ScanGateKeeps == RingInv /\ ScanGate => RingInv'
<1> SUFFICES ASSUME RingInv, ScanGate PROVE RingInv'
  OBVIOUS
<1> DEFINE g == Min(toScan)
<1>1. Gates \subseteq Consumers /\ toScan \subseteq Gates /\ toScan # {}
  BY DEF Gates, RingInv, RingTypes, RingTypeOK, ScanGate
<1>2. g \in toScan
  BY <1>1, ConsumersExist, MinOfNaturals
<1>3. g \in Consumers
  BY <1>1, <1>2
<1>4. processed[g] \in Nat /\ scanMin \in Nat
  BY <1>3 DEF RingInv, RingTypes, RingTypeOK
<1> DEFINE m == Min({scanMin, processed[g]})
<1>5. m \in Nat /\ m <= scanMin /\ m <= processed[g]
  <2>1. {scanMin, processed[g]} \in SUBSET Nat
    BY <1>4
  <2>2. m \in {scanMin, processed[g]}
        /\ \A y \in {scanMin, processed[g]} : m <= y
    BY <2>1, MinOfNaturals
  <2> QED
    BY <1>4, <2>2
<1>6. toScan' = toScan \ {g} /\ scanMin' = m
  BY DEF ScanGate
<1> HIDE DEF g, m
<1> USE DEF ScanGate, consumerVars
<1>7. RingTypes'
  BY <1>5, <1>6 DEF RingInv, RingTypes, RingTypeOK, Gates, Torn
<1>8. GateView'
  <2>1. ASSUME NEW h \in Gates \ toScan' PROVE scanMin' <= processed[h]
    <3>1. CASE h = g
      BY <1>5, <1>6, <3>1
    <3>2. CASE h # g
      <4>1. h \in Gates \ toScan
        BY <1>6, <2>1, <3>2
      <4>2. scanMin <= processed[h] /\ processed[h] \in Nat
        BY <4>1 DEF RingInv, GateView, Gates, RingTypes, RingTypeOK
      <4> QED
        BY <1>4, <1>5, <1>6, <4>2
    <3> QED
      BY <3>1, <3>2
  <2> QED
    BY <2>1 DEF RingInv, GateView, Gates
<1>9. ConsumerOrder' /\ NobodyLapped'
  BY DEF RingInv, ConsumerOrder, Dependency, NobodyLapped, FillEnd, NextSeq
<1>10. RingContent'
  BY DEF RingInv, RingContent, NextSeq, Slot
<1> QED
  BY <1>7, <1>8, <1>9, <1>10 DEF RingInv

LEMMA EndScanKeeps == RingInv /\ EndScan => RingInv'
<1> SUFFICES ASSUME RingInv, EndScan PROVE RingInv'
  OBVIOUS
<1>1. /\ \A g \in Gates : scanMin <= processed[g]
      /\ scanMin \in Nat /\ cachedGate' = scanMin /\ pc = "scan"
      /\ fills < MaxFills /\ toScan = {}
  BY DEF EndScan, RingInv, RingTypes, RingTypeOK, GateView
<1>2. UNCHANGED <<batch, processed, nextRead, cachedDep, readAt, handed, fills>>
  BY DEF EndScan, consumerVars
<1>3. CASE /\ HasRoom(scanMin) /\ StartFill /\ scanMin' = 0
           /\ UNCHANGED <<cursor, count, published, op, toScan>>
  <2>1. /\ slots' \in [0..Capacity - 1 -> 0..Torn]
        /\ NobodyLapped' /\ RingContent'
    BY <1>1, <1>2, <1>3, StartFillKeeps
  <2>2. RingTypes'
    BY <1>1, <1>2, <1>3, <2>1
       DEF RingInv, RingTypes, RingTypeOK, Gates, Torn, StartFill
  <2>3. GateView'
    BY <1>1, <1>2, <1>3 DEF GateView, Gates, StartFill
  <2>4. ConsumerOrder'
    BY <1>2, <1>3 DEF RingInv, ConsumerOrder, Dependency
  <2> QED
    BY <2>1, <2>2, <2>3, <2>4 DEF RingInv
<1>4. CASE /\ pc' = "idle" /\ op' = "none" /\ scanMin' = 0
           /\ UNCHANGED <<slots, cursor, count, published, toScan>>
  <2>1. RingTypes'
    BY <1>1, <1>2, <1>4 DEF RingInv, RingTypes, RingTypeOK, Gates, Torn
  <2>2. GateView' /\ NobodyLapped'
    BY <1>1, <1>2, <1>4
       DEF RingInv, GateView, Gates, NobodyLapped, FillEnd, NextSeq
  <2>3. ConsumerOrder'
    BY <1>2, <1>4 DEF RingInv, ConsumerOrder, Dependency
  <2>4. RingContent'
    BY <1>2, <1>4 DEF RingInv, RingContent, NextSeq, Slot
  <2> QED
    BY <2>1, <2>2, <2>3, <2>4 DEF RingInv
<1>5. CASE BeforeWait /\ StartScan /\ UNCHANGED <<slots, op>>
  <2>1. /\ ConsumerOrder' /\ NobodyLapped' /\ RingContent'
        /\ cursor' \in Nat /\ count' = 0
        /\ published' \in Seq(1..MaxFills)
    BY <1>1, <1>2, <1>5, StoreCursorKeeps
       DEF BeforeWait, StartScan, consumerVars
  <2>2. NextSeq \in Nat
    BY DEF NextSeq, RingInv, RingTypes, RingTypeOK
  <2>3. RingTypes'
    BY <1>1, <1>2, <1>5, <2>1, <2>2
       DEF RingInv, RingTypes, RingTypeOK, Gates, Torn, StartScan
  <2>4. GateView'
    BY <1>1, <1>2, <1>5 DEF GateView, Gates, StartScan
  <2> QED
    BY <2>1, <2>3, <2>4 DEF RingInv
<1> QED
  BY <1>3, <1>4, <1>5 DEF EndScan

LEMMA EndFillKeeps == RingInv /\ EndFill => RingInv'
<1> SUFFICES ASSUME RingInv, EndFill PROVE RingInv'
  OBVIOUS
<1> USE DEF EndFill, consumerVars
<1>1. /\ cursor \in Nat /\ count \in Nat /\ NextSeq = cursor + count
      /\ NextSeq' = NextSeq + 1 /\ NextSeq \in Nat
      /\ Capacity \in Nat \ {0} /\ MaxFills \in Nat
      /\ processed \in [Consumers -> Nat]
      /\ fills + 1 \in 1..MaxFills
      /\ slots \in [0..Capacity - 1 -> 0..Torn]
  BY RingAssumption DEF NextSeq, RingInv, RingTypes, RingTypeOK
<1>2. Slot(NextSeq) \in 0..Capacity - 1 /\ fills + 1 \in 0..Torn
  <2>1. Slot(NextSeq) \in 0..Capacity - 1
    BY <1>1, SlotInRange DEF Slot
  <2>2. fills + 1 \in 0..Torn
    BY <1>1 DEF Torn
  <2> QED
    BY <2>1, <2>2
<1>3. RingTypes'
  <2>1. slots' \in [0..Capacity - 1 -> 0..Torn]
    BY <1>1, <1>2
  <2>2. fills' \in 0..MaxFills /\ count' \in Nat
        /\ pc' \in {"idle", "publish"}
    BY <1>1
  <2> QED
    BY <2>1, <2>2 DEF RingInv, RingTypes, RingTypeOK, Gates, Torn
<1>4. ConsumerOrder' /\ GateView'
  BY DEF RingInv, ConsumerOrder, Dependency, GateView, Gates
<1>5. FillEnd = NextSeq + 1 /\ FillEnd' = NextSeq + 1
  BY <1>1 DEF FillEnd
<1>6. NobodyLapped'
  BY <1>5 DEF RingInv, NobodyLapped
<1>7. ASSUME NEW c \in Consumers
      PROVE  NextSeq - processed[c] < Capacity /\ processed[c] <= cursor
  <2>1. FillEnd - processed[c] <= Capacity
    BY DEF RingInv, NobodyLapped
  <2>2. /\ processed[c] <= readAt[c] /\ readAt[c] <= nextRead[c]
        /\ nextRead[c] <= cursor
        /\ readAt[c] \in Nat /\ nextRead[c] \in Nat
    BY DEF RingInv, RingTypes, RingTypeOK, ConsumerOrder
  <2> QED
    BY <1>1, <1>5, <2>1, <2>2
<1>8. ASSUME NEW c \in Consumers, NEW i \in Nat, processed[c] <= i,
             i < NextSeq
      PROVE  slots'[Slot(i)] = slots[Slot(i)]
  BY <1>7, <1>8, WantedSlotsKept
<1>9. ASSUME NEW c \in Consumers, NEW i \in Nat, processed[c] <= i,
             i < cursor
      PROVE  slots'[Slot(i)] = published[i + 1]
  <2>1. i < NextSeq
    BY <1>1, <1>9
  <2> QED
    BY <1>8, <1>9, <2>1 DEF RingInv, RingContent
<1>10. ASSUME NEW i \in Nat, cursor <= i, i < NextSeq + 1
       PROVE  slots'[Slot(i)] \in 1..MaxFills
  <2>1. CASE i = NextSeq
    BY <1>1, <1>2, <2>1
  <2>2. CASE i # NextSeq
    <3>1. processed[N] <= i /\ i < NextSeq
      BY <1>1, <1>7, <1>10, <2>2, ConsumersExist
    <3> QED
      BY <1>8, <1>10, <3>1, ConsumersExist DEF RingInv, RingContent
  <2> QED
    BY <2>1, <2>2
<1>11. RingContent'
  BY <1>1, <1>9, <1>10 DEF RingInv, RingContent, Slot
<1> QED
  BY <1>3, <1>4, <1>6, <1>11 DEF RingInv

(* A publish outside a batch and a batch's commit store the cursor.        *)
LEMMA PublishKeeps == RingInv /\ (PublishOne \/ CommitBatch) => RingInv'
<1> SUFFICES ASSUME RingInv, PublishOne \/ CommitBatch PROVE RingInv'
  OBVIOUS
<1>1. /\ StoreCursor /\ pc' = "idle" /\ pc # "fill" /\ batch' \in BOOLEAN
      /\ UNCHANGED <<slots, cachedGate, op, toScan, scanMin, consumerVars,
                     fills>>
  BY DEF PublishOne, CommitBatch, RingInv, RingTypes, RingTypeOK
<1>2. /\ ConsumerOrder' /\ NobodyLapped' /\ RingContent'
      /\ cursor' \in Nat /\ count' = 0
      /\ published' \in Seq(1..MaxFills)
  BY <1>1, StoreCursorKeeps
<1>3. RingTypes'
  BY <1>1, <1>2 DEF RingInv, RingTypes, RingTypeOK, Gates, Torn, consumerVars
<1>4. GateView'
  BY <1>1 DEF RingInv, GateView, Gates, consumerVars
<1> QED
  BY <1>2, <1>3, <1>4 DEF RingInv

(* Dropping a batch gives its slots back; what they held before was        *)
(* released by every consumer when they were filled.                       *)
LEMMA DropBatchKeeps == RingInv /\ DropBatch => RingInv'
<1> SUFFICES ASSUME RingInv, DropBatch PROVE RingInv'
  OBVIOUS
<1> USE DEF DropBatch, consumerVars
<1>1. RingTypes'
  BY DEF RingInv, RingTypes, RingTypeOK, Gates, Torn
<1>2. ConsumerOrder' /\ GateView'
  BY DEF RingInv, ConsumerOrder, Dependency, GateView, Gates
<1>3. /\ cursor \in Nat /\ count \in Nat /\ NextSeq' = cursor
      /\ NextSeq = cursor + count
      /\ Capacity \in Nat /\ processed \in [Consumers -> Nat]
  BY RingAssumption DEF RingInv, RingTypes, RingTypeOK, NextSeq
<1>4. FillEnd = cursor + count /\ FillEnd' = cursor
  BY <1>3 DEF FillEnd
<1>5. NobodyLapped'
  BY <1>3, <1>4 DEF RingInv, NobodyLapped
<1>6. RingContent'
  BY <1>3 DEF RingInv, RingContent, Slot
<1> QED
  BY <1>1, <1>2, <1>5, <1>6 DEF RingInv

(* Dependencies are naturals no later than the published cursor.           *)
LEMMA DependencyType ==
  ASSUME RingInv, NEW c \in Consumers
  PROVE  Dependency(c) \in Nat /\ Dependency(c) <= cursor
<1>1. CASE After[c] = 0
  BY <1>1 DEF Dependency, RingInv, RingTypes, RingTypeOK
<1>2. CASE After[c] # 0
  <2> DEFINE d == After[c]
  <2>1. d \in Consumers
    BY <1>2, DependedOn
  <2>2. /\ processed[d] \in Nat /\ readAt[d] \in Nat /\ nextRead[d] \in Nat
        /\ processed[d] <= readAt[d] /\ readAt[d] <= nextRead[d]
        /\ nextRead[d] <= cursor /\ cursor \in Nat
    BY <2>1 DEF RingInv, RingTypes, RingTypeOK, ConsumerOrder
  <2>3. Dependency(c) = processed[d]
    BY <1>2 DEF Dependency
  <2> QED
    BY <2>2, <2>3
<1> QED
  BY <1>1, <1>2

(* What other consumers may read only grows with one's progress.           *)
LEMMA OrderOfOthers ==
  ASSUME RingInv, NEW c \in Consumers, cursor' = cursor,
         NEW p \in Nat, processed[c] <= p,
         processed' = [processed EXCEPT ![c] = p],
         NEW d \in Consumers
  PROVE  /\ Dependency(d)' \in Nat /\ Dependency(d) <= Dependency(d)'
         /\ d = c => Dependency(d)' = Dependency(d)
<1>1. processed \in [Consumers -> Nat] /\ cursor \in Nat
  BY DEF RingInv, RingTypes, RingTypeOK
<1>2. CASE After[d] = 0
  BY <1>1, <1>2 DEF Dependency
<1>3. CASE After[d] # 0
  <2>1. After[d] \in Consumers /\ After[d] # d
    BY <1>3, DependedOn
  <2>2. Dependency(d) = processed[After[d]]
        /\ Dependency(d)' = processed'[After[d]]
    BY <1>3 DEF Dependency
  <2>3. CASE After[d] = c
    BY <1>1, <2>1, <2>2, <2>3
  <2>4. CASE After[d] # c
    BY <1>1, <2>1, <2>2, <2>4
  <2> QED
    BY <2>3, <2>4
<1> QED
  BY <1>2, <1>3

LEMMA TakeKeeps ==
  ASSUME RingInv, NEW c \in Consumers, NEW n \in 1..Capacity, Take(c, n)
  PROVE  RingInv'
<1> USE DEF Take, Resting
<1>1. /\ processed \in [Consumers -> Nat] /\ nextRead \in [Consumers -> Nat]
      /\ cachedDep \in [Consumers -> Nat] /\ readAt \in [Consumers -> Nat]
      /\ cursor \in Nat /\ n \in Nat
  BY RingAssumption DEF RingInv, RingTypes, RingTypeOK
<1>2. Dependency(c) \in Nat /\ Dependency(c) <= cursor
  BY DependencyType
<1>3. nextRead[c] + n <= Dependency(c)
  <2>1. cachedDep[c] <= Dependency(c)
    BY DEF RingInv, ConsumerOrder
  <2> QED
    BY <1>1, <1>2, <2>1
<1>4. cachedDep' \in [Consumers -> Nat] /\ nextRead' \in [Consumers -> Nat]
  BY <1>1, <1>2
<1>5. RingTypes'
  BY <1>4 DEF RingInv, RingTypes, RingTypeOK, Gates, Torn, producerVars
<1>6. GateView' /\ NobodyLapped' /\ RingContent'
  BY <1>1, ProgressKeeps
<1>7. ConsumerOrder'
  <2> SUFFICES ASSUME NEW d \in Consumers
               PROVE  /\ processed[d] <= readAt[d]
                      /\ readAt[d] <= nextRead'[d]
                      /\ nextRead'[d] <= Dependency(d)
                      /\ cachedDep'[d] <= Dependency(d)
                      /\ nextRead'[d] <= cursor
    BY DEF ConsumerOrder, Dependency, producerVars
  <2>1. /\ processed[d] <= readAt[d] /\ readAt[d] <= nextRead[d]
        /\ nextRead[d] <= Dependency(d) /\ cachedDep[d] <= Dependency(d)
        /\ nextRead[d] <= cursor
    BY DEF RingInv, ConsumerOrder
  <2>2. CASE d = c
    BY <1>1, <1>2, <1>3, <2>1, <2>2
  <2>3. CASE d # c
    BY <1>1, <2>1, <2>3
  <2> QED
    BY <2>2, <2>3
<1> QED
  BY <1>5, <1>6, <1>7 DEF RingInv

(* What is read is the published entry, whole: its reader has not released *)
(* it.                                                                     *)
LEMMA ReadIsPublished ==
  ASSUME RingInv, NEW c \in Consumers, readAt[c] < nextRead[c]
  PROVE  /\ slots[Slot(readAt[c])] = published[readAt[c] + 1]
         /\ readAt[c] < Dependency(c)
         /\ published[readAt[c] + 1] \in 1..MaxFills
<1>1. /\ processed[c] \in Nat /\ nextRead[c] \in Nat /\ readAt[c] \in Nat
      /\ cursor \in Nat
  BY DEF RingInv, RingTypes, RingTypeOK
<1>2. Dependency(c) \in Nat
  BY DependencyType
<1>3. /\ processed[c] <= readAt[c]
      /\ nextRead[c] <= Dependency(c) /\ nextRead[c] <= cursor
  BY DEF RingInv, ConsumerOrder
<1>4. readAt[c] < cursor /\ readAt[c] < Dependency(c)
  BY <1>1, <1>2, <1>3
<1>5. slots[Slot(readAt[c])] = published[readAt[c] + 1]
  BY <1>1, <1>3, <1>4 DEF RingInv, RingContent
<1>6. readAt[c] + 1 \in 1..Len(published)
  BY <1>1, <1>4 DEF RingInv, RingContent
<1>7. published[readAt[c] + 1] \in 1..MaxFills
  BY <1>6, ElementOfSeq DEF RingInv, RingTypes, RingTypeOK
<1> QED
  BY <1>4, <1>5, <1>7

LEMMA ReadKeeps ==
  ASSUME RingInv, NEW c \in Consumers, Read(c)
  PROVE  RingInv'
<1> USE DEF Read
<1>1. /\ processed \in [Consumers -> Nat] /\ nextRead \in [Consumers -> Nat]
      /\ readAt \in [Consumers -> Nat]
      /\ handed \in [Consumers -> 0..MaxFills]
  BY DEF RingInv, RingTypes, RingTypeOK
<1>2. slots[Slot(readAt[c])] \in 0..MaxFills
  BY ReadIsPublished
<1>3. handed' \in [Consumers -> 0..MaxFills] /\ readAt' \in [Consumers -> Nat]
  BY <1>1, <1>2
<1>4. RingTypes'
  BY <1>3 DEF RingInv, RingTypes, RingTypeOK, Gates, Torn, producerVars
<1>5. GateView' /\ NobodyLapped' /\ RingContent'
  BY <1>1, ProgressKeeps
<1>6. ConsumerOrder'
  <2> SUFFICES ASSUME NEW d \in Consumers
               PROVE  /\ processed[d] <= readAt'[d]
                      /\ readAt'[d] <= nextRead[d]
    BY DEF RingInv, ConsumerOrder, Dependency, producerVars
  <2>1. processed[d] <= readAt[d] /\ readAt[d] <= nextRead[d]
    BY DEF RingInv, ConsumerOrder
  <2>2. readAt'[d] = IF d = c THEN readAt[d] + 1 ELSE readAt[d]
    BY <1>1
  <2> QED
    BY <1>1, <2>1, <2>2
<1> QED
  BY <1>4, <1>5, <1>6 DEF RingInv

LEMMA SetProgressKeeps ==
  ASSUME RingInv, NEW c \in Consumers, SetProgress(c)
  PROVE  RingInv'
<1>1. /\ processed \in [Consumers -> Nat] /\ nextRead \in [Consumers -> Nat]
      /\ cachedDep \in [Consumers -> Nat] /\ readAt \in [Consumers -> Nat]
  BY DEF RingInv, RingTypes, RingTypeOK
<1>2. PICK p \in (processed[c] + 1)..readAt[c] :
        processed' = [processed EXCEPT ![c] = p]
  BY DEF SetProgress, MayPublish
<1>3. UNCHANGED <<slots, producerVars, nextRead, cachedDep, readAt, handed,
                  fills, published>>
  BY DEF SetProgress
<1>4. p \in Nat /\ processed[c] <= p /\ p <= readAt[c]
  BY <1>1, <1>2
<1>5. /\ processed' \in [Consumers -> Nat]
      /\ \A d \in Consumers : processed[d] <= processed'[d]
  BY <1>1, <1>2, <1>4
<1>6. RingTypes'
  BY <1>3, <1>5 DEF RingInv, RingTypes, RingTypeOK, Gates, Torn, producerVars
<1>7. GateView' /\ NobodyLapped' /\ RingContent'
  BY <1>3, <1>5, ProgressKeeps
<1>8. ConsumerOrder'
  <2> SUFFICES ASSUME NEW d \in Consumers
               PROVE  /\ processed'[d] <= readAt[d]
                      /\ readAt[d] <= nextRead[d]
                      /\ nextRead[d] <= Dependency(d)'
                      /\ cachedDep[d] <= Dependency(d)'
                      /\ nextRead[d] <= cursor
    BY <1>3 DEF ConsumerOrder, producerVars
  <2>1. /\ processed[d] <= readAt[d] /\ readAt[d] <= nextRead[d]
        /\ nextRead[d] <= Dependency(d) /\ cachedDep[d] <= Dependency(d)
        /\ nextRead[d] <= cursor
    BY DEF RingInv, ConsumerOrder
  <2>2. Dependency(d)' \in Nat /\ Dependency(d) <= Dependency(d)'
        /\ Dependency(d) \in Nat
    BY <1>2, <1>3, <1>4, OrderOfOthers, DependencyType DEF producerVars
  <2>3. processed'[d] <= readAt[d]
    BY <1>1, <1>2, <1>4, <2>1
  <2> QED
    BY <1>1, <2>1, <2>2, <2>3
<1> QED
  BY <1>6, <1>7, <1>8 DEF RingInv

LEMMA SkipKeeps ==
  ASSUME RingInv, NEW c \in Consumers, SkipToDependency(c)
  PROVE  RingInv'
<1> DEFINE p == Dependency(c)
<1>1. /\ processed \in [Consumers -> Nat] /\ nextRead \in [Consumers -> Nat]
      /\ cachedDep \in [Consumers -> Nat] /\ readAt \in [Consumers -> Nat]
  BY DEF RingInv, RingTypes, RingTypeOK
<1>2. /\ nextRead' = [nextRead EXCEPT ![c] = p]
      /\ readAt' = [readAt EXCEPT ![c] = p]
      /\ cachedDep' = [cachedDep EXCEPT ![c] = p]
      /\ processed' = [processed EXCEPT ![c] = p]
      /\ UNCHANGED <<slots, producerVars, handed, fills, published>>
  BY DEF SkipToDependency
<1>3. p \in Nat /\ processed[c] <= p /\ p <= cursor
  <2>1. /\ processed[c] <= readAt[c] /\ readAt[c] <= nextRead[c]
        /\ nextRead[c] <= Dependency(c)
    BY DEF RingInv, ConsumerOrder
  <2> QED
    BY <1>1, <2>1, DependencyType
<1>4. /\ processed' \in [Consumers -> Nat]
      /\ \A d \in Consumers : processed[d] <= processed'[d]
  BY <1>1, <1>2, <1>3
<1>5. /\ nextRead' \in [Consumers -> Nat] /\ readAt' \in [Consumers -> Nat]
      /\ cachedDep' \in [Consumers -> Nat]
  BY <1>1, <1>2, <1>3
<1>6. RingTypes'
  BY <1>2, <1>4, <1>5
     DEF RingInv, RingTypes, RingTypeOK, Gates, Torn, producerVars
<1>7. GateView' /\ NobodyLapped' /\ RingContent'
  BY <1>2, <1>4, ProgressKeeps
<1>8. ConsumerOrder'
  <2> SUFFICES ASSUME NEW d \in Consumers
               PROVE  /\ processed'[d] <= readAt'[d]
                      /\ readAt'[d] <= nextRead'[d]
                      /\ nextRead'[d] <= Dependency(d)'
                      /\ cachedDep'[d] <= Dependency(d)'
                      /\ nextRead'[d] <= cursor
    BY <1>2 DEF ConsumerOrder, producerVars
  <2>1. /\ processed[d] <= readAt[d] /\ readAt[d] <= nextRead[d]
        /\ nextRead[d] <= Dependency(d) /\ cachedDep[d] <= Dependency(d)
        /\ nextRead[d] <= cursor
    BY DEF RingInv, ConsumerOrder
  <2>2. /\ Dependency(d)' \in Nat /\ Dependency(d) <= Dependency(d)'
        /\ Dependency(d) \in Nat
        /\ d = c => Dependency(d)' = Dependency(d)
    BY <1>2, <1>3, OrderOfOthers, DependencyType DEF producerVars
  <2>3. CASE d = c
    <3>1. /\ processed'[d] = p /\ readAt'[d] = p /\ nextRead'[d] = p
          /\ cachedDep'[d] = p /\ Dependency(d)' = p
      BY <1>1, <1>2, <2>2, <2>3
    <3> QED
      BY <1>3, <3>1
  <2>4. CASE d # c
    <3>1. /\ processed'[d] = processed[d] /\ readAt'[d] = readAt[d]
          /\ nextRead'[d] = nextRead[d] /\ cachedDep'[d] = cachedDep[d]
      BY <1>1, <1>2, <2>4
    <3> QED
      BY <1>1, <2>1, <2>2, <3>1
  <2> QED
    BY <2>3, <2>4
<1> QED
  BY <1>6, <1>7, <1>8 DEF RingInv

LEMMA RingAlwaysInv == RingSpec => []RingInv
<1>1. RingInv /\ [RingNext]_ringVars => RingInv'
  <2> SUFFICES ASSUME RingInv, [RingNext]_ringVars PROVE RingInv'
    OBVIOUS
  <2>1. CASE RingNext
    BY <2>1, OpenBatchKeeps, PublishKeeps, DropBatchKeeps, PushKeeps,
       ScanGateKeeps, EndScanKeeps, EndFillKeeps, TakeKeeps, ReadKeeps,
       SetProgressKeeps, SkipKeeps
       DEF RingNext, ProducerStep, ConsumerStep
  <2>2. CASE UNCHANGED ringVars
    <3> USE <2>2 DEF ringVars, producerVars, consumerVars
    <3>1. RingTypes'
      BY DEF RingInv, RingTypes, RingTypeOK, Gates, Torn
    <3>2. ConsumerOrder' /\ GateView' /\ NobodyLapped'
      BY DEF RingInv, ConsumerOrder, Dependency, GateView, Gates,
             NobodyLapped, FillEnd, NextSeq
    <3>3. RingContent'
      BY DEF RingInv, RingContent, NextSeq, Slot
    <3> QED
      BY <3>1, <3>2, <3>3 DEF RingInv
  <2> QED
    BY <2>1, <2>2
<1> QED
  BY RingStarts, <1>1, PTL DEF RingSpec

(* ring.rs: no torn entry is published or handed to a consumer, and no     *)
(* consumer is lapped, whatever the capacity and the consumers' graph.     *)
THEOREM RingTypeCorrect == RingSpec => []RingTypeOK
<1>1. RingInv => RingTypeOK
  BY DEF RingInv, RingTypes
<1> QED
  BY RingAlwaysInv, <1>1, PTL

(* A store of the cursor publishes the pending entries at once.            *)
LEMMA StorePublishes ==
  ASSUME RingInv, StoreCursor, pc # "fill",
         UNCHANGED <<readAt, processed, handed>>
  PROVE  Log!Publish \/ UNCHANGED Log!vars
<1>1. /\ Len(published) = cursor /\ count \in Nat /\ cursor \in Nat
      /\ NextSeq = cursor + count
  BY DEF RingInv, RingContent, RingTypes, RingTypeOK, NextSeq
<1>2. CASE count = 0
  BY <1>2, StoreAppends DEF Log!vars
<1>3. CASE count > 0
  <2>1. /\ SubSeq(published, 1, cursor) = SubSeq(published', 1, cursor)
        /\ published # published' /\ Len(published') = NextSeq
    BY <1>3, StoreAppends
  <2>2. Log!IsStrictPrefix(published, published')
    BY <1>1, <2>1 DEF Log!IsStrictPrefix, Log!IsPrefix
  <2>3. \A c \in Consumers : Len(published') - processed[c] <= Capacity
    BY <2>1 DEF RingInv, NobodyLapped, FillEnd
  <2> QED
    BY <2>2, <2>3 DEF Log!Publish
<1> QED
  BY <1>1, <1>2, <1>3

(* ring.rs: for every capacity and every graph of consumers, each is       *)
(* handed the published entries, whole, once and in order, and the         *)
(* producer laps nobody.                                                   *)
THEOREM RingRefinesLog == RingSpec => RingImplementsLog
<1>1. RingInit => Log!Init
  BY DEF RingInit, Log!Init
<1>2. RingInv /\ [RingNext]_ringVars => [Log!Next]_(Log!vars)
  <2> SUFFICES ASSUME RingInv, [RingNext]_ringVars
               PROVE  Log!Next \/ UNCHANGED Log!vars
    OBVIOUS
  <2>1. CASE UNCHANGED ringVars
    BY <2>1 DEF ringVars, consumerVars, Log!vars
  <2>2. CASE OpenBatch \/ DropBatch \/ ScanGate \/ EndFill
    BY <2>2 DEF OpenBatch, DropBatch, ScanGate, EndFill, consumerVars, Log!vars
  <2>3. CASE \E o \in {"try", "wait", "abortable"} : Push(o)
    BY <2>3 DEF Push, consumerVars, Log!vars
  <2>4. CASE PublishOne \/ CommitBatch
    BY <2>4, StorePublishes DEF PublishOne, CommitBatch, consumerVars, Log!Next
  <2>5. CASE EndScan
    <3>1. CASE UNCHANGED published
      BY <2>5, <3>1 DEF EndScan, consumerVars, Log!vars
    <3>2. CASE BeforeWait
      BY <2>5, <3>2, StorePublishes
         DEF EndScan, BeforeWait, consumerVars, Log!Next
    <3> QED
      BY <2>5, <3>1, <3>2 DEF EndScan
  <2>6. ASSUME NEW c \in Consumers, NEW n \in 1..Capacity, Take(c, n)
        PROVE  UNCHANGED Log!vars
    BY <2>6 DEF Take, Log!vars
  <2>7. ASSUME NEW c \in Consumers,
               Read(c) \/ SetProgress(c) \/ SkipToDependency(c)
        PROVE  Log!Next
    <3>1. Log!Bound(c) = Dependency(c)
      BY DEF Log!Bound, Dependency, RingInv, RingContent
    <3>2. CASE Read(c)
      <4>1. Log!Deliver(c)
        BY <3>1, <3>2, ReadIsPublished DEF Read, Log!Deliver
      <4> QED
        BY <4>1 DEF Log!Next
    <3>3. CASE SetProgress(c)
      <4>1. processed \in [Consumers -> Nat]
        BY DEF RingInv, RingTypes, RingTypeOK
      <4>2. PICK p \in (processed[c] + 1)..readAt[c] :
              processed' = [processed EXCEPT ![c] = p]
        BY <3>3 DEF SetProgress, MayPublish
      <4>3. processed'[c] = p
        BY <4>1, <4>2
      <4>4. Log!Release(c)
        BY <3>3, <4>2, <4>3 DEF SetProgress, Log!Release
      <4> QED
        BY <4>4 DEF Log!Next
    <3>4. CASE SkipToDependency(c)
      <4>1. Log!Skip(c)
        BY <3>1, <3>4 DEF SkipToDependency, Log!Skip
      <4> QED
        BY <4>1 DEF Log!Next
    <3> QED
      BY <2>7, <3>2, <3>3, <3>4
  <2> QED
    BY <2>1, <2>2, <2>3, <2>4, <2>5, <2>6, <2>7
       DEF RingNext, ProducerStep, ConsumerStep
<1> QED
  BY <1>1, <1>2, RingAlwaysInv, PTL DEF RingSpec, RingImplementsLog, Log!Spec

=============================================================================
