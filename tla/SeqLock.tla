------------------------------- MODULE SeqLock ------------------------------
(***************************************************************************)
(* The single-writer seqlock (pipeline/src/seqlock.rs) through which the   *)
(* journal stage hands the durable state to the shadow stage.  The payload *)
(* is copied word by word with relaxed atomics, so between the fences the  *)
(* words appear, and are loaded, in any order; the sequence is odd while a *)
(* store is under way.  Store number v writes v into every word.           *)
(***************************************************************************)
EXTENDS Naturals, FiniteSets

CONSTANTS
  Words,         \* the 8-byte chunks of the payload
  Readers,       \* threads that load
  MaxStores      \* bound: stores in a behaviour

ASSUME SeqLockAssumption == MaxStores \in Nat

VARIABLES
  sequence,      \* the counter: even at rest, odd during a store
  payload,       \* payload[w]: the store that wrote word w last
  storing,       \* words the store under way has yet to write
  stores,        \* stores begun
  seq1,          \* seq1[r]: the sequence r's attempt began with
  copy,          \* copy[r]: the words r has copied, as a function on them
  reading,       \* r has an attempt under way
  floor,         \* history: stores complete when r's load began
  result         \* result[r]: what r's last load returned

seqlockVars == <<sequence, payload, storing, stores, seq1, copy, reading,
                 floor, result>>

Even(n) == n % 2 = 0

SeqLockInit ==
  /\ sequence = 0
  /\ payload = [w \in Words |-> 0]
  /\ storing = {} /\ stores = 0
  /\ seq1 = [r \in Readers |-> 0]
  /\ copy = [r \in Readers |-> <<>>]
  /\ reading = [r \in Readers |-> "no"]
  /\ floor = [r \in Readers |-> 0]
  /\ result = [r \in Readers |-> [w \in Words |-> 0]]

-----------------------------------------------------------------------------
(* The sequence a store leaves while it copies.                            *)
Opened == sequence + 1

(* store: the sequence goes odd, the words follow, it goes even again.     *)
StoreBegin ==
  /\ storing = {} /\ Even(sequence) /\ stores < MaxStores
  /\ sequence' = Opened
  /\ stores' = stores + 1
  /\ storing' = Words
  /\ UNCHANGED <<payload, seq1, copy, reading, floor, result>>

StoreWord(w) ==
  /\ w \in storing
  /\ payload' = [payload EXCEPT ![w] = stores]
  /\ storing' = storing \ {w}
  /\ UNCHANGED <<sequence, stores, seq1, copy, reading, floor, result>>

StoreEnd ==
  /\ storing = {} /\ sequence # 2 * stores
  /\ sequence' = 2 * stores
  /\ UNCHANGED <<payload, storing, stores, seq1, copy, reading, floor, result>>

-----------------------------------------------------------------------------
(* Stores complete by now.                                                 *)
Completed == sequence \div 2

LoadCall(r) ==
  /\ reading[r] = "no"
  /\ reading' = [reading EXCEPT ![r] = "begin"]
  /\ floor' = [floor EXCEPT ![r] = Completed]
  /\ UNCHANGED <<sequence, payload, storing, stores, seq1, copy, result>>

(* An attempt: an odd sequence is looked at again, an even one starts the  *)
(* copy.                                                                   *)
LoadBegin(r) ==
  /\ reading[r] = "begin"
  /\ Even(sequence)
  /\ seq1' = [seq1 EXCEPT ![r] = sequence]
  /\ copy' = [copy EXCEPT ![r] = <<>>]
  /\ reading' = [reading EXCEPT ![r] = "copy"]
  /\ UNCHANGED <<sequence, payload, storing, stores, floor, result>>

LoadWord(r, w) ==
  /\ reading[r] = "copy" /\ w \notin DOMAIN copy[r]
  /\ copy' = [copy EXCEPT ![r] =
                [x \in DOMAIN @ \cup {w} |-> IF x = w THEN payload[w] ELSE @[x]]]
  /\ UNCHANGED <<sequence, payload, storing, stores, seq1, reading, floor,
                 result>>

UnchangedUnchecked(r) == TRUE

(* Is the sequence what it was when the copy began?                        *)
UnchangedSince(r) == sequence = seq1[r]

(* The second look at the sequence keeps the copy or starts again.         *)
LoadEnd(r) ==
  /\ reading[r] = "copy" /\ DOMAIN copy[r] = Words
  /\ IF UnchangedSince(r)
       THEN /\ reading' = [reading EXCEPT ![r] = "no"]
            /\ result' = [result EXCEPT ![r] = copy[r]]
            /\ floor' = floor
       ELSE /\ reading' = [reading EXCEPT ![r] = "begin"]
            /\ UNCHANGED <<result, floor>>
  /\ copy' = [copy EXCEPT ![r] = <<>>]
  /\ UNCHANGED <<sequence, payload, storing, stores, seq1>>

-----------------------------------------------------------------------------
SeqLockNext ==
  \/ StoreBegin \/ (\E w \in Words : StoreWord(w)) \/ StoreEnd
  \/ \E r \in Readers :
       \/ LoadCall(r) \/ LoadBegin(r) \/ LoadEnd(r)
       \/ \E w \in Words : LoadWord(r, w)

SeqLockSpec == SeqLockInit /\ [][SeqLockNext]_seqlockVars

-----------------------------------------------------------------------------
(* A load returns one store's value whole, never words of two, and not one *)
(* that was already replaced when the load began; it never returns what    *)
(* the writer has not begun to write.                                      *)
LoadIsOneStore ==
  \A r \in Readers :
    \E v \in 0..stores :
      /\ result[r] = [w \in Words |-> v]
      /\ reading[r] = "no" => v >= floor[r]
=============================================================================
