---------------------------- MODULE BroadcastLog ----------------------------
(***************************************************************************)
(* What a queue of the pipeline crate promises, with none of its slots,    *)
(* cursors or caches: one log of entries that only grows, of which each    *)
(* consumer is handed every entry once and in order, no sooner than the    *)
(* consumer it comes after is done with it; and a log that never runs more *)
(* than Capacity entries ahead of what any consumer has released.  The     *)
(* ring (Ring.tla) and the single-consumer queue (Spsc.tla) implement it.  *)
(***************************************************************************)
EXTENDS Naturals, Sequences, SequencesExt

CONSTANTS
  Consumers,     \* who reads the log
  After,         \* After[c]: the consumer c comes after, 0 for none
  Capacity       \* slots of the queue

VARIABLES
  log,           \* the entries published, in order
  at,            \* at[c]: entries c was handed (or skipped)
  done,          \* done[c]: entries c has released
  last           \* last[c]: the entry c was handed last, 0 before the first

vars == <<log, at, done, last>>

(* What c may be handed: all of the log, or what the consumer before it    *)
(* has released.                                                           *)
Bound(c) == IF After[c] = 0 THEN Len(log) ELSE done[After[c]]

Init ==
  /\ log = <<>>
  /\ at = [c \in Consumers |-> 0]
  /\ done = [c \in Consumers |-> 0]
  /\ last = [c \in Consumers |-> 0]

(* Entries are published, one or a whole batch at once.                    *)
Publish ==
  /\ IsStrictPrefix(log, log')
  /\ \A c \in Consumers : Len(log') - done[c] <= Capacity
  /\ UNCHANGED <<at, done, last>>

(* A consumer is handed its next entry.                                    *)
Deliver(c) ==
  /\ at[c] < Bound(c)
  /\ at' = [at EXCEPT ![c] = @ + 1]
  /\ last' = [last EXCEPT ![c] = log[at[c] + 1]]
  /\ UNCHANGED <<log, done>>

(* A consumer gives back entries it was handed.                            *)
Release(c) ==
  /\ done'[c] \in (done[c] + 1)..at[c]
  /\ done' = [done EXCEPT ![c] = done'[c]]
  /\ UNCHANGED <<log, at, last>>

(* A consumer gives up what it has not been handed yet.                    *)
Skip(c) ==
  /\ at' = [at EXCEPT ![c] = Bound(c)]
  /\ done' = [done EXCEPT ![c] = Bound(c)]
  /\ UNCHANGED <<log, last>>

Next ==
  \/ Publish
  \/ \E c \in Consumers : Deliver(c) \/ Release(c) \/ Skip(c)

Spec == Init /\ [][Next]_vars
=============================================================================
