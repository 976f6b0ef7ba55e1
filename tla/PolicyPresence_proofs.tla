------------------------ MODULE PolicyPresence_proofs -------------------------
(***************************************************************************)
(* Proofs about the replica count, the halt override and the loss stamp    *)
(* (ReplicaPresence), for every number of slots, every set of policies and *)
(* every grace period, and about the way of a policy change to the journal *)
(* (PolicyControl), for every number of commands, changes and restarts.    *)
(***************************************************************************)
EXTENDS ReplicaPresence, PolicyControl, FiniteSetTheorems, SequenceTheorems, TLAPS

-----------------------------------------------------------------------------
(* The invariant *)

\* The slots whose connection is counted.
Counted == {i \in Slots : slot[i] # "idle"}

CountMatches == connected = Cardinality(Counted)

\* What the producer's two looks (the generation, then the count) and the
\* first acks since say of the generation it holds.
LookOrder ==
  /\ prod.pc \in {"observe", "publish", "record"} =>
       prod.gen <= acked /\ (ackSinceGen <=> prod.gen < acked)
  /\ prod.pc \in {"publish", "record"} => (ackSinceLook => ackSinceGen)

\* A latched override is of this generation or an earlier one; it is this one
\* as long as nothing acked since the generation was loaded, and then nothing
\* acked since the count was.
OverrideGeneration ==
  /\ overrideAt <= acked + 1
  /\ Overridden => ~voided
  /\ overrideAt # 0 /\ ~voidedGen => Overridden

\* Policies are published before they are recorded.
PublishedFirst ==
  /\ prod.pc = "record" => journaled = prod.policy
  /\ OverrideOnlyBesideDisk

\* A verdict in progress that was never justified saw no standing consent.
VerdictView ==
  /\ prod.pc = "generation" => prod.at = overrideAt /\ overrideAt # 0
  /\ prod.pc \in {"override", "generation"} /\ ~prod.justified =>
       overrideAt = 0 \/ voided
  /\ TakeIsJustified

\* Departures are dated in order, and a stamp is no older than the latest.
LossOrder ==
  /\ lossAt <= lowerAt /\ lowerAt <= now
  /\ lastLost # 0 => lowerAt <= lastLost - 1
  /\ gate.pc = "stamp" => gate.lossSeen <= lossAt

PresenceInv ==
  /\ TypeOK /\ CountMatches
  /\ LookOrder /\ OverrideGeneration /\ PublishedFirst /\ VerdictView
  /\ LossOrder /\ StampNeverEarlier /\ GraceFromStampedLoss

-----------------------------------------------------------------------------
(* Counting the slots *)

\* One more, or one less, counted slot.
LEMMA CountUp ==
  ASSUME TypeOK, NEW i \in Slots, slot[i] = "idle", NEW s \in SlotStates,
         s # "idle", slot' = [slot EXCEPT ![i] = s]
  PROVE  Cardinality(Counted') = Cardinality(Counted) + 1
<1>1. Counted' = Counted \cup {i} /\ i \notin Counted
  BY DEF Counted, TypeOK
<1>2. IsFiniteSet(Counted)
  BY PresenceAssumption, FS_Subset DEF Counted
<1> QED
  BY <1>1, <1>2, FS_AddElement

LEMMA CountDown ==
  ASSUME TypeOK, NEW i \in Slots, slot[i] # "idle",
         slot' = [slot EXCEPT ![i] = "idle"]
  PROVE  /\ Cardinality(Counted') = Cardinality(Counted) - 1
         /\ Cardinality(Counted') \in Nat
<1>1. Counted' = Counted \ {i} /\ i \in Counted
  BY DEF Counted, TypeOK
<1>2. IsFiniteSet(Counted)
  BY PresenceAssumption, FS_Subset DEF Counted
<1>3. Cardinality(Counted') = Cardinality(Counted) - 1 /\ IsFiniteSet(Counted')
  BY <1>1, <1>2, FS_RemoveElement
<1> QED
  BY <1>3, FS_CardinalityType

LEMMA CountSame ==
  ASSUME TypeOK, NEW i \in Slots, slot[i] # "idle", NEW s \in SlotStates,
         s # "idle", slot' = [slot EXCEPT ![i] = s]
  PROVE  Counted' = Counted
BY DEF Counted, TypeOK

-----------------------------------------------------------------------------
(* The initial state *)

LEMMA PresenceStarts == Init => PresenceInv
<1> SUFFICES ASSUME Init PROVE PresenceInv
  OBVIOUS
<1> USE DEF Init
<1>1. TypeOK
  BY PresenceAssumption, PolicyAssumption DEF TypeOK, Idle, GateIdle, SlotStates, ProducerSteps, Origins
<1>2. CountMatches
  <2>1. Counted = {}
    BY DEF Counted
  <2> QED
    BY <2>1, FS_EmptySet DEF CountMatches
<1>3. LookOrder /\ PublishedFirst /\ VerdictView
  BY DEF LookOrder, PublishedFirst, OverrideOnlyBesideDisk, VerdictView,
         TakeIsJustified, Idle
<1>4. OverrideGeneration
  BY DEF OverrideGeneration, Overridden
<1>5. LossOrder /\ StampNeverEarlier /\ GraceFromStampedLoss
  BY DEF LossOrder, StampNeverEarlier, GraceFromStampedLoss, GateIdle
<1> QED
  BY <1>1, <1>2, <1>3, <1>4, <1>5 DEF PresenceInv

-----------------------------------------------------------------------------
(* The steps.  What an action leaves alone keeps its part of the invariant. *)

producerPart == <<acked, overrideAt, prod, journaled, ackSinceLook, ackSinceGen,
                  voided, voidedGen>>
lossPart == <<lastLost, now, gate, lowerAt, lossAt>>

LEMMA ProducerPartKept ==
  ASSUME PresenceInv, UNCHANGED producerPart
  PROVE  (LookOrder /\ OverrideGeneration /\ PublishedFirst /\ VerdictView)'
BY DEF producerPart, PresenceInv, LookOrder, OverrideGeneration, Overridden, Stands,
       PublishedFirst, OverrideOnlyBesideDisk, VerdictView, TakeIsJustified

LEMMA LossPartKept ==
  ASSUME PresenceInv, UNCHANGED lossPart
  PROVE  (LossOrder /\ StampNeverEarlier /\ GraceFromStampedLoss)'
BY DEF lossPart, PresenceInv, LossOrder, StampNeverEarlier, GraceFromStampedLoss

LEMMA LiftCountKeeps ==
  ASSUME PresenceInv, NEW i \in Slots, LiftCount(i)
  PROVE  PresenceInv'
<1> USE DEF LiftCount, Justify, ghostVars
<1>1. TypeOK /\ CountMatches
  BY DEF PresenceInv
<1>2. "lifting" \in SlotStates
  BY DEF SlotStates
<1>3. NotHalted' \in BOOLEAN
  BY DEF NotHalted
<1>4. /\ prod' \in [pc : ProducerSteps, policy : Policies, origin : Origins,
                    gen : Nat, none : BOOLEAN, at : Nat, justified : BOOLEAN]
      /\ prod'.pc = prod.pc /\ prod'.gen = prod.gen /\ prod'.at = prod.at
      /\ prod'.policy = prod.policy
      /\ prod.justified => prod'.justified
  BY <1>1, <1>3 DEF TypeOK
<1>5. TypeOK'
  BY <1>1, <1>2, <1>4 DEF TypeOK
<1>6. CountMatches'
  BY <1>1, <1>2, CountUp DEF CountMatches
<1>7. (LookOrder /\ OverrideGeneration /\ PublishedFirst /\ VerdictView)'
  BY <1>4 DEF PresenceInv, LookOrder, OverrideGeneration, Overridden, Stands,
              PublishedFirst, OverrideOnlyBesideDisk, VerdictView, TakeIsJustified
<1>8. (LossOrder /\ StampNeverEarlier /\ GraceFromStampedLoss)'
  BY LossPartKept DEF lossPart
<1> QED
  BY <1>5, <1>6, <1>7, <1>8 DEF PresenceInv

LEMMA LiftForgetKeeps ==
  ASSUME PresenceInv, NEW i \in Slots, LiftForget(i)
  PROVE  PresenceInv'
<1> USE DEF LiftForget, ghostVars
<1>1. TypeOK /\ CountMatches
  BY DEF PresenceInv
<1>2. "live" \in SlotStates
  BY DEF SlotStates
<1>3. TypeOK'
  BY <1>1, <1>2 DEF TypeOK
<1>4. CountMatches'
  BY <1>1, <1>2, CountSame DEF CountMatches
<1>5. (LookOrder /\ OverrideGeneration /\ PublishedFirst /\ VerdictView)'
  BY ProducerPartKept DEF producerPart
<1>6. (LossOrder /\ StampNeverEarlier /\ GraceFromStampedLoss)'
  BY DEF PresenceInv, LossOrder, StampNeverEarlier, GraceFromStampedLoss
<1> QED
  BY <1>3, <1>4, <1>5, <1>6 DEF PresenceInv

\* A first ack ends the override, whatever generation it was latched at.
LEMMA FirstAckKeeps ==
  ASSUME PresenceInv, NEW i \in Slots, FirstAck(i)
  PROVE  PresenceInv'
<1> USE DEF FirstAck
<1>1. TypeOK /\ CountMatches
  BY DEF PresenceInv
<1>2. "acked" \in SlotStates
  BY DEF SlotStates
<1>3. TypeOK'
  BY <1>1, <1>2 DEF TypeOK
<1>4. CountMatches'
  BY <1>1, <1>2, CountSame DEF CountMatches
<1>5. LookOrder'
  BY <1>1 DEF PresenceInv, LookOrder, TypeOK
<1>6. OverrideGeneration'
  BY <1>1 DEF PresenceInv, OverrideGeneration, Overridden, Stands, TypeOK
<1>7. PublishedFirst' /\ VerdictView'
  BY DEF PresenceInv, PublishedFirst, OverrideOnlyBesideDisk, VerdictView, TakeIsJustified
<1>8. (LossOrder /\ StampNeverEarlier /\ GraceFromStampedLoss)'
  BY LossPartKept DEF lossPart
<1> QED
  BY <1>3, <1>4, <1>5, <1>6, <1>7, <1>8 DEF PresenceInv

LEMMA LowerStampKeeps ==
  ASSUME PresenceInv, NEW i \in Slots, LowerStamp(i)
  PROVE  PresenceInv'
<1> USE DEF LowerStamp, Lowerable, Stamp
<1>1. TypeOK /\ CountMatches
  BY DEF PresenceInv
<1>2. "lowering" \in SlotStates
  BY DEF SlotStates
<1>3. TypeOK'
  BY <1>1, <1>2 DEF TypeOK
<1>4. CountMatches'
  BY <1>1, <1>2, CountSame DEF CountMatches
<1>5. (LookOrder /\ OverrideGeneration /\ PublishedFirst /\ VerdictView)'
  BY ProducerPartKept DEF producerPart
<1>6. (LossOrder /\ StampNeverEarlier /\ GraceFromStampedLoss)'
  BY <1>1 DEF PresenceInv, LossOrder, StampNeverEarlier, GraceFromStampedLoss, TypeOK
<1> QED
  BY <1>3, <1>4, <1>5, <1>6 DEF PresenceInv

LEMMA LowerCountKeeps ==
  ASSUME PresenceInv, NEW i \in Slots, LowerCount(i)
  PROVE  PresenceInv'
<1> USE DEF LowerCount
<1>1. TypeOK /\ CountMatches
  BY DEF PresenceInv
<1>2. "idle" \in SlotStates
  BY DEF SlotStates
<1>3. connected' = Cardinality(Counted') /\ connected' \in Nat
  BY <1>1, CountDown DEF CountMatches
<1>4. TypeOK'
  BY <1>1, <1>2, <1>3 DEF TypeOK
<1>5. CountMatches'
  BY <1>3 DEF CountMatches
<1>6. (LookOrder /\ OverrideGeneration /\ PublishedFirst /\ VerdictView)'
  BY ProducerPartKept DEF producerPart
<1>7. (LossOrder /\ StampNeverEarlier /\ GraceFromStampedLoss)'
  BY <1>1 DEF PresenceInv, LossOrder, StampNeverEarlier, GraceFromStampedLoss, TypeOK
<1> QED
  BY <1>4, <1>5, <1>6, <1>7 DEF PresenceInv

-----------------------------------------------------------------------------
(* The producer *)

\* The producer's steps leave the count and the loss alone.
LEMMA ProducerRest ==
  ASSUME PresenceInv, UNCHANGED <<connected, slot, lossPart>>
  PROVE  (CountMatches /\ LossOrder /\ StampNeverEarlier /\ GraceFromStampedLoss)'
BY LossPartKept DEF PresenceInv, CountMatches, Counted

LEMMA OrderFacts == \A n \in Nat : n <= n /\ ~(n < n)
OBVIOUS

LEMMA DecideKeeps ==
  ASSUME PresenceInv,
         \/ \E p \in Policies, o \in Origins : DecideGeneration(p, o)
         \/ DecideCount
  PROVE  PresenceInv'
<1>1. TypeOK
  BY DEF PresenceInv
<1>2. ASSUME NEW p \in Policies, NEW o \in Origins, DecideGeneration(p, o)
      PROVE  PresenceInv'
  <2> USE <1>2 DEF DecideGeneration, presenceVars
  <2>1. /\ prod' \in [pc : ProducerSteps, policy : Policies, origin : Origins,
                      gen : Nat, none : BOOLEAN, at : Nat, justified : BOOLEAN]
        /\ prod'.pc = "observe" /\ prod'.gen = acked
    BY <1>1 DEF TypeOK, Idle, ProducerSteps
  <2>2. TypeOK'
    BY <1>1, <2>1 DEF TypeOK
  <2>3. LookOrder' /\ PublishedFirst' /\ VerdictView'
    <3>1. acked' = acked /\ acked \in Nat /\ acked <= acked /\ ~(acked < acked)
      BY <1>1, OrderFacts, Zenon DEF TypeOK
    <3>2. LookOrder'
      BY <2>1, <3>1 DEF LookOrder
    <3>3. PublishedFirst' /\ VerdictView'
      BY <2>1 DEF PresenceInv, PublishedFirst, OverrideOnlyBesideDisk, VerdictView,
                  TakeIsJustified
    <3> QED
      BY <3>2, <3>3
  <2>4. OverrideGeneration'
    BY DEF PresenceInv, OverrideGeneration, Overridden, Stands
  <2> QED
    BY <2>2, <2>3, <2>4, ProducerRest DEF PresenceInv, lossPart
<1>3. CASE DecideCount
  <2> USE <1>3 DEF DecideCount, presenceVars
  <2>1. /\ prod' \in [pc : ProducerSteps, policy : Policies, origin : Origins,
                      gen : Nat, none : BOOLEAN, at : Nat, justified : BOOLEAN]
        /\ prod'.pc = "publish" /\ prod'.gen = prod.gen
    BY <1>1 DEF TypeOK, ProducerSteps
  <2>2. TypeOK'
    BY <1>1, <2>1 DEF TypeOK
  <2>3. LookOrder' /\ PublishedFirst' /\ VerdictView'
    BY <1>1, <2>1 DEF PresenceInv, LookOrder, PublishedFirst, OverrideOnlyBesideDisk,
                      VerdictView, TakeIsJustified, TypeOK
  <2>4. OverrideGeneration'
    BY DEF PresenceInv, OverrideGeneration, Overridden, Stands
  <2> QED
    BY <2>2, <2>3, <2>4, ProducerRest DEF PresenceInv, lossPart
<1> QED
  BY <1>2, <1>3

\* A step that leaves the producer idle.
LEMMA IdleKeeps ==
  ASSUME PresenceInv, prod' = Idle, OverrideOnlyBesideDisk',
         UNCHANGED <<presenceVars, slot, joins, now, fenced, journaled, gate, ghostVars>>
  PROVE  PresenceInv'
<1> USE DEF presenceVars, ghostVars
<1>1. TypeOK'
  BY PresenceAssumption, PolicyAssumption DEF PresenceInv, TypeOK, Idle, ProducerSteps, Origins
<1>2. LookOrder' /\ PublishedFirst' /\ VerdictView'
  BY DEF PresenceInv, LookOrder, PublishedFirst, VerdictView, TakeIsJustified, Idle
<1>3. OverrideGeneration'
  BY DEF PresenceInv, OverrideGeneration, Overridden, Stands
<1> QED
  BY <1>1, <1>2, <1>3, ProducerRest DEF PresenceInv, lossPart

LEMMA PublishKeeps ==
  ASSUME PresenceInv, Publish
  PROVE  PresenceInv'
<1> USE DEF Publish, presenceVars, ghostVars
<1>1. TypeOK
  BY DEF PresenceInv
<1>2. /\ prod' \in [pc : ProducerSteps, policy : Policies, origin : Origins,
                    gen : Nat, none : BOOLEAN, at : Nat, justified : BOOLEAN]
      /\ prod'.pc = "record" /\ prod'.gen = prod.gen /\ prod'.policy = prod.policy
      /\ prod.policy \in Policies
  BY <1>1 DEF TypeOK, ProducerSteps
<1>3. TypeOK'
  BY <1>1, <1>2 DEF TypeOK
<1>4. LookOrder' /\ PublishedFirst' /\ VerdictView'
  BY <1>2 DEF PresenceInv, LookOrder, PublishedFirst, OverrideOnlyBesideDisk,
              VerdictView, TakeIsJustified
<1>5. OverrideGeneration'
  BY DEF PresenceInv, OverrideGeneration, Overridden, Stands
<1> QED
  BY <1>3, <1>4, <1>5, ProducerRest DEF PresenceInv, lossPart

\* record_journaled: the latch is at the generation the look loaded, so that
\* an ack since then leaves it already ended.
LEMMA RecordKeeps ==
  ASSUME PresenceInv, RecordJournaled
  PROVE  PresenceInv'
<1> USE DEF RecordJournaled
<1>1. TypeOK
  BY DEF PresenceInv
<1> DEFINE forced == IsUnwitnessed(prod.policy, prod.origin, prod.none)
<1>2. forced \in BOOLEAN /\ (forced => ~NeedsReplica(prod.policy))
  BY <1>1 DEF IsUnwitnessed, NeedsReplica, TypeOK
<1>3. /\ overrideAt' = Latched(forced)
      /\ voided' = IF forced THEN ackSinceLook ELSE voided
      /\ voidedGen' = IF forced THEN ackSinceGen ELSE voidedGen
  OBVIOUS
<1> HIDE DEF forced
<1>4. /\ prod.gen \in Nat /\ acked \in Nat /\ overrideAt \in Nat
      /\ prod.gen <= acked /\ (ackSinceGen <=> prod.gen < acked)
      /\ (ackSinceLook => ackSinceGen)
  BY <1>1 DEF TypeOK, PresenceInv, LookOrder
<1>5. TypeOK'
  <2>1. overrideAt' \in Nat
    BY <1>3, <1>4 DEF Latched
  <2>2. voided' \in BOOLEAN /\ voidedGen' \in BOOLEAN
    BY <1>1, <1>3 DEF TypeOK
  <2> QED
    BY <1>1, <2>1, <2>2, PresenceAssumption, PolicyAssumption DEF TypeOK, Idle, ProducerSteps, Origins
<1>6. OverrideGeneration'
  <2>1. CASE NeedsReplica(prod.policy)
    BY <1>3, <1>4, <2>1 DEF Latched, OverrideGeneration, Overridden
  <2>2. CASE ~NeedsReplica(prod.policy) /\ forced
    BY <1>3, <1>4, <2>2 DEF Latched, OverrideGeneration, Overridden, Stands
  <2>3. CASE ~NeedsReplica(prod.policy) /\ ~forced
    BY <1>3, <2>3 DEF PresenceInv, Latched, OverrideGeneration, Overridden, Stands
  <2> QED
    BY <2>1, <2>2, <2>3
<1>7. PublishedFirst'
  BY <1>3 DEF PresenceInv, PublishedFirst, OverrideOnlyBesideDisk, Latched,
              NeedsReplica, Idle
<1>8. LookOrder' /\ VerdictView'
  BY DEF LookOrder, VerdictView, TakeIsJustified, Idle
<1> QED
  BY <1>5, <1>6, <1>7, <1>8, ProducerRest DEF PresenceInv, lossPart

\* The verdict's loads: a verdict to take has a moment that justifies it.
LEMMA VerdictKeeps ==
  ASSUME PresenceInv, VerdictCount \/ VerdictOverride \/ VerdictGeneration
  PROVE  PresenceInv'
<1> USE DEF VerdictCount, VerdictOverride, VerdictGeneration, presenceVars, ghostVars
<1>1. TypeOK
  BY DEF PresenceInv
<1>2. UNCHANGED <<presenceVars, slot, joins, now, fenced, journaled, gate, ghostVars>>
  OBVIOUS
<1>3. OverrideGeneration'
  BY DEF PresenceInv, OverrideGeneration, Overridden, Stands
<1>4. /\ prod' \in [pc : ProducerSteps, policy : Policies, origin : Origins,
                    gen : Nat, none : BOOLEAN, at : Nat, justified : BOOLEAN]
      /\ prod'.pc \notin {"observe", "publish", "record"}
      /\ prod.pc # "record"
      /\ VerdictView'
  <2>1. CASE VerdictCount
    <3>1. NotHalted \in BOOLEAN
      BY DEF NotHalted
    <3>2. /\ prod' \in [pc : ProducerSteps, policy : Policies, origin : Origins,
                        gen : Nat, none : BOOLEAN, at : Nat, justified : BOOLEAN]
          /\ prod'.pc = IF fenced THEN "close"
                        ELSE IF connected = 0 THEN "override" ELSE "take"
          /\ prod'.justified = NotHalted
      BY <1>1, <2>1, <3>1, PresenceAssumption, PolicyAssumption DEF TypeOK, Idle, ProducerSteps, Origins
    <3>3. VerdictView'
      BY <1>1, <1>2, <3>2 DEF VerdictView, TakeIsJustified, NotHalted, TypeOK
    <3> QED
      BY <2>1, <3>2, <3>3
  <2>2. CASE VerdictOverride
    <3>1. /\ prod' \in [pc : ProducerSteps, policy : Policies, origin : Origins,
                        gen : Nat, none : BOOLEAN, at : Nat, justified : BOOLEAN]
          /\ prod'.pc = IF overrideAt = 0 THEN "refuse" ELSE "generation"
          /\ prod'.at = overrideAt /\ prod'.justified = prod.justified
      BY <1>1, <2>2 DEF TypeOK, ProducerSteps
    <3>2. VerdictView'
      BY <1>2, <2>2, <3>1 DEF PresenceInv, VerdictView, TakeIsJustified
    <3> QED
      BY <2>2, <3>1, <3>2
  <2>3. CASE VerdictGeneration
    <3>1. /\ prod' \in [pc : ProducerSteps, policy : Policies, origin : Origins,
                        gen : Nat, none : BOOLEAN, at : Nat, justified : BOOLEAN]
          /\ prod'.pc = IF Stands(prod.at) THEN "take" ELSE "refuse"
          /\ prod'.justified = prod.justified
      BY <1>1, <2>3 DEF TypeOK, ProducerSteps
    <3>2. Stands(prod.at) => prod.justified
      BY <2>3 DEF PresenceInv, VerdictView, OverrideGeneration, Overridden
    <3>3. VerdictView'
      BY <3>1, <3>2 DEF VerdictView, TakeIsJustified
    <3> QED
      BY <2>3, <3>1, <3>3
  <2> QED
    BY <2>1, <2>2, <2>3
<1>5. TypeOK'
  BY <1>1, <1>2, <1>4 DEF TypeOK
<1>6. LookOrder' /\ PublishedFirst'
  BY <1>2, <1>4 DEF PresenceInv, LookOrder, PublishedFirst, OverrideOnlyBesideDisk
<1> QED
  BY <1>2, <1>3, <1>4, <1>5, <1>6, ProducerRest DEF PresenceInv, lossPart

LEMMA ProducerKeeps == PresenceInv /\ Producer => PresenceInv'
<1> SUFFICES ASSUME PresenceInv, Producer PROVE PresenceInv'
  OBVIOUS
<1>1. CASE PublishRefused \/ VerdictDone
  BY <1>1, IdleKeeps DEF PublishRefused, VerdictDone, PresenceInv, PublishedFirst,
                         OverrideOnlyBesideDisk, presenceVars, Idle
<1> QED
  BY <1>1, DecideKeeps, PublishKeeps, RecordKeeps, VerdictKeeps DEF Producer

-----------------------------------------------------------------------------
(* The response stage *)

LEMMA ResponseKeeps == PresenceInv /\ Response => PresenceInv'
<1> SUFFICES ASSUME PresenceInv, Response PROVE PresenceInv'
  OBVIOUS
<1> DEFINE GateType == [pc : {"idle", "stamp", "age"}, stamp : Nat, lossSeen : Nat,
                        started : Nat \cup {-1}, open : BOOLEAN, known : BOOLEAN,
                        decidedAt : Nat]
<1>1. TypeOK /\ CountMatches
  BY DEF PresenceInv
<1>2. UNCHANGED <<presenceVars, slot, joins, now, fenced, prod, journaled, ghostVars>>
  BY DEF Response, LossCount, LossStamp, LossAge
<1>3. (LookOrder /\ OverrideGeneration /\ PublishedFirst /\ VerdictView)'
  BY <1>2, ProducerPartKept DEF producerPart, presenceVars, ghostVars
<1>4. /\ gate' \in GateType
      /\ LossOrder' /\ StampNeverEarlier' /\ GraceFromStampedLoss'
  <2>1. CASE LossCount /\ connected # 0
    <3>1. /\ gate' \in GateType /\ gate'.pc = "idle" /\ ~gate'.open
      BY <1>1, <2>1 DEF TypeOK, LossCount
    <3> QED
      BY <1>2, <3>1 DEF PresenceInv, LossOrder, StampNeverEarlier, GraceFromStampedLoss,
                        presenceVars, ghostVars
  <2>2. CASE LossCount /\ connected = 0
    <3>1. /\ gate' \in GateType /\ gate'.pc = "stamp" /\ gate'.lossSeen = lossAt
      BY <1>1, <2>2 DEF TypeOK, LossCount
    <3> QED
      BY <1>1, <1>2, <3>1 DEF PresenceInv, LossOrder, StampNeverEarlier,
                        GraceFromStampedLoss, presenceVars, ghostVars, TypeOK
  <2>3. CASE LossStamp
    <3>1. /\ gate' \in GateType /\ gate'.pc = "age" /\ gate'.stamp = lastLost
          /\ gate'.lossSeen = gate.lossSeen /\ gate.pc = "stamp"
          /\ gate.lossSeen \in Nat /\ lastLost \in Nat
      BY <1>1, <2>3 DEF TypeOK, LossStamp
    <3> QED
      BY <1>1, <1>2, <3>1 DEF PresenceInv, LossOrder, StampNeverEarlier,
                        GraceFromStampedLoss, presenceVars, ghostVars, TypeOK
  <2>4. ASSUME NEW n \in BOOLEAN, LossAge(n)
        PROVE  /\ gate' \in GateType
               /\ LossOrder' /\ StampNeverEarlier' /\ GraceFromStampedLoss'
    <3> DEFINE started == halt_start(gate.stamp, gate.started, now)
    <3>1. started \in Nat /\ (gate.stamp # 0 => started = gate.stamp - 1)
          /\ gate.stamp \in Nat /\ gate.lossSeen \in Nat /\ now \in Nat
      BY <1>1 DEF TypeOK, halt_start
    <3>2. gate' = [gate EXCEPT !.pc = "idle", !.started = started,
                               !.open = n /\ now - started >= Grace,
                               !.known = gate.stamp # 0, !.decidedAt = now]
      BY <2>4 DEF LossAge
    <3> HIDE DEF started
    <3>3. /\ gate' \in GateType
          /\ gate'.pc = "idle" /\ gate'.lossSeen = gate.lossSeen
          /\ gate'.open => now - started >= Grace
          /\ gate'.known => gate.stamp # 0
          /\ gate'.decidedAt = now
      BY <1>1, <3>1, <3>2 DEF TypeOK
    <3>4. gate.stamp # 0 => gate.stamp - 1 >= gate.lossSeen
      BY <2>4 DEF LossAge, PresenceInv, StampNeverEarlier
    <3>5. GraceFromStampedLoss'
      BY <3>1, <3>3, <3>4, PresenceAssumption, PolicyAssumption DEF GraceFromStampedLoss
    <3> QED
      BY <1>2, <3>3, <3>5 DEF PresenceInv, LossOrder, StampNeverEarlier,
                              presenceVars, ghostVars
  <2> QED
    BY <2>1, <2>2, <2>3, <2>4 DEF Response
<1>5. TypeOK' /\ CountMatches'
  BY <1>1, <1>2, <1>4 DEF TypeOK, CountMatches, Counted, presenceVars, ghostVars
<1> QED
  BY <1>3, <1>4, <1>5 DEF PresenceInv

\* The clock and the fence touch neither the override nor a stamp.
LEMMA EnvironmentKeeps == PresenceInv /\ (Tick \/ Fence) => PresenceInv'
<1> SUFFICES ASSUME PresenceInv, Tick \/ Fence PROVE PresenceInv'
  OBVIOUS
<1> USE DEF Tick, Fence, presenceVars, ghostVars
<1>1. TypeOK' /\ CountMatches'
  <2>1. CASE Tick
    BY <2>1 DEF PresenceInv, TypeOK, CountMatches, Counted
  <2>2. CASE Fence
    BY <2>2 DEF PresenceInv, TypeOK, CountMatches, Counted
  <2> QED
    BY <2>1, <2>2
<1>2. (LookOrder /\ OverrideGeneration /\ PublishedFirst /\ VerdictView)'
  BY ProducerPartKept DEF producerPart
<1>3. (LossOrder /\ StampNeverEarlier /\ GraceFromStampedLoss)'
  BY DEF PresenceInv, TypeOK, LossOrder, StampNeverEarlier, GraceFromStampedLoss
<1> QED
  BY <1>1, <1>2, <1>3 DEF PresenceInv

-----------------------------------------------------------------------------
(* The theorems *)

LEMMA PresenceAlwaysInv == Spec => []PresenceInv
<1>1. PresenceInv /\ [Next]_vars => PresenceInv'
  <2> SUFFICES ASSUME PresenceInv, [Next]_vars PROVE PresenceInv'
    OBVIOUS
  <2>1. CASE Next
    BY <2>1, LiftCountKeeps, LiftForgetKeeps, FirstAckKeeps, LowerStampKeeps,
       LowerCountKeeps, ProducerKeeps, ResponseKeeps, EnvironmentKeeps
       DEF Next, Sender
  <2>2. CASE UNCHANGED vars
    <3> USE <2>2 DEF vars, presenceVars, ghostVars
    <3>1. TypeOK' /\ CountMatches'
      BY DEF PresenceInv, TypeOK, CountMatches, Counted
    <3> QED
      BY <3>1, ProducerPartKept, LossPartKept DEF PresenceInv, producerPart, lossPart
  <2> QED
    BY <2>1, <2>2
<1> QED
  BY PresenceStarts, <1>1, PTL DEF Spec

\* The words the threads share agree whatever interleaves: the count is a
\* natural, an override stands only beside Disk, and a stamp is no older than
\* the loss it is read for (ReplicaPresence::lower, record_journaled).
THEOREM PresenceAlwaysConsistent == Spec => []PresenceConsistent
<1>1. PresenceInv => PresenceConsistent
  BY DEF PresenceInv, PublishedFirst, PresenceConsistent
<1> QED
  BY PresenceAlwaysInv, <1>1, PTL

\* The override never outlives a replica, however a first ack interleaves with
\* the decision, the publish and the latch (record_journaled, overridden).
THEOREM OverrideAlwaysEnds == Spec => []OverrideEndsAtFirstAck
<1>1. PresenceInv => OverrideEndsAtFirstAck
  BY DEF PresenceInv, OverrideGeneration, OverrideEndsAtFirstAck
<1> QED
  BY PresenceAlwaysInv, <1>1, PTL

\* Nor is the operator's consent lost to replicas that come and go without
\* acking (lift, lower, record_journaled).
THEOREM ConsentAlwaysStands == Spec => []ConsentStands
<1>1. PresenceInv => ConsentStands
  BY DEF PresenceInv, OverrideGeneration, ConsentStands
<1> QED
  BY PresenceAlwaysInv, <1>1, PTL

\* A client write is taken only at a verdict some moment of which justifies it
\* (HaltGate::verdict).
THEOREM TakesAreJustified == Spec => []TakeIsJustified
<1>1. PresenceInv => TakeIsJustified
  BY DEF PresenceInv, VerdictView
<1> QED
  BY PresenceAlwaysInv, <1>1, PTL

\* The degraded release opens no earlier than the grace period after the loss
\* its reader saw (degraded_release_open, last_loss).
THEOREM GraceAlwaysRuns == Spec => []GraceFromStampedLoss
<1>1. PresenceInv => GraceFromStampedLoss
  BY DEF PresenceInv
<1> QED
  BY PresenceAlwaysInv, <1>1, PTL

-----------------------------------------------------------------------------
(* A policy change on its way to the journal (PolicyControl)               *)

Change == [policy : Policies, unwitnessed : BOOLEAN, ticket : Nat,
           after : LineagePolicy]

Request == [kind : {"request"}, policy : Policies, ticket : Nat]

MainStates == {"replica", "primary", "claimed", "booted", "attached", "serving",
               "publish", "stopped"}

ControlTypes ==
  /\ trail \in Seq(Change) /\ floor \in 0..Len(trail)
  /\ replicates \in BOOLEAN /\ main \in MainStates
  /\ claim \in Policies /\ staged \in Policies /\ requested \in Policies
  /\ attached \in BOOLEAN /\ pending \in BOOLEAN
  /\ request \in Request \cup {None}
  /\ issued \in Nat /\ published \in Nat /\ asking \in Nat
  /\ answers \subseteq Nat \X {"Published", "ProducerStopped", "RingFull"}

\* One ticket is open at a time, the newest; a ticket is on the ring only once
\* published, and then once.
Tickets ==
  /\ asking # 0 => asking = issued
  /\ published <= issued
  /\ request # None => asking # 0 /\ request.ticket = asking /\ published < asking
  /\ \A i \in 1..Len(trail) : trail[i].ticket <= published
  /\ \A i, j \in 1..Len(trail) :
       trail[i].ticket = trail[j].ticket /\ trail[i].ticket # 0 => i = j
  /\ published # 0 => \E i \in 1..Len(trail) : trail[i].ticket = published

\* What was told stays true: an answered ticket is older than the open one.
Answered ==
  \A a \in answers :
    /\ 1 <= a[1] /\ a[1] <= issued /\ (asking # 0 => a[1] < asking)
    /\ (\E i \in 1..Len(trail) : trail[i].ticket = a[1]) <=> a[2] = "Published"

\* A node that accepts no replica has the policy in force marked.
Marked(lineage) == lineage.unwitnessed \/ lineage.previous = "none"

\* From the claim to the stop, the lineage follows the claim, then what was
\* staged, then what was published.
TenureFollows ==
  /\ attached <=> main \in {"attached", "serving", "publish"}
  /\ main \in {"booted", "attached"} => Lineage # None /\ Lineage.policy = claim
  /\ main = "attached" => staged = requested
  /\ LastWordJournaled
  /\ main \in {"booted", "attached", "serving", "publish"} /\ ~replicates
       => Marked(Lineage)

\* The newest run of the first n changes: they name one policy, reached from
\* another, and the transition is unwitnessed iff one of them was.
NewestRun(t, n) ==
  /\ t[n].after.policy = t[n].policy
  /\ \E k \in 1..n :
       /\ \A i \in k..n : t[i].policy = t[n].policy
       /\ t[n].after.unwitnessed <=> \E i \in k..n : t[i].unwitnessed
       /\ IF k = 1 THEN t[n].after.previous = "none"
          ELSE /\ t[k - 1].policy = t[n].after.previous
               /\ t[n].after.previous # t[n].policy

Runs == \A n \in 1..Len(trail) : NewestRun(trail, n)

ControlInv ==
  ControlTypes /\ Tickets /\ Answered /\ TenureFollows /\ Runs

\* The lineage is None, or the last change's.
LEMMA LineageType ==
  ASSUME ControlTypes
  PROVE  /\ trail = <<>> => Lineage = None
         /\ trail # <<>> => /\ Len(trail) \in 1..Len(trail)
                            /\ Lineage = trail[Len(trail)].after
                            /\ Lineage \in LineagePolicy /\ Lineage # None
<1>1. trail = <<>> => Lineage = None
  BY DEF Lineage
<1>2. ASSUME trail # <<>>
      PROVE  /\ Len(trail) \in 1..Len(trail)
             /\ Lineage = trail[Len(trail)].after
             /\ Lineage \in LineagePolicy /\ Lineage # None
  <2>1. trail \in Seq(Change) /\ Len(trail) \in Nat \ {0}
    BY <1>2, EmptySeq DEF ControlTypes
  <2>2. Len(trail) \in 1..Len(trail)
    BY <2>1
  <2>3. trail[Len(trail)] \in Change
    BY <2>1, <2>2, ElementOfSeq
  <2>4. Lineage = trail[Len(trail)].after /\ Lineage \in LineagePolicy
    BY <1>2, <2>3 DEF Lineage, Change
  <2>5. Lineage.kind = "policy" /\ None.kind = "none"
    BY <2>4 DEF LineagePolicy, None
  <2> QED
    BY <2>2, <2>4, <2>5
<1> QED
  BY <1>1, <1>2

\* LineagePolicy::after leaves the policy it is given in force.
LEMMA AfterType ==
  ASSUME NEW current \in LineagePolicy \cup {None}, NEW p \in Policies,
         NEW u \in BOOLEAN
  PROVE  /\ After(current, p, u) \in LineagePolicy
         /\ After(current, p, u).policy = p
         /\ After(current, p, u) # None
         /\ u => After(current, p, u).unwitnessed
<1>1. CASE current # None /\ current.policy = p
  <2>1. current \in LineagePolicy
    BY <1>1
  <2>2. After(current, p, u) = [current EXCEPT !.unwitnessed = @ \/ u]
    BY <1>1 DEF After
  <2>3. /\ After(current, p, u) \in LineagePolicy
        /\ After(current, p, u).policy = p
        /\ u => After(current, p, u).unwitnessed
    BY <1>1, <2>1, <2>2 DEF LineagePolicy
  <2>4. After(current, p, u).kind = "policy" /\ None.kind = "none"
    BY <2>3 DEF LineagePolicy, None
  <2> QED
    BY <2>3, <2>4
<1>2. CASE ~(current # None /\ current.policy = p)
  <2> DEFINE prev == IF current = None THEN "none" ELSE current.policy
  <2>1. prev \in Policies \cup {"none"}
    BY DEF LineagePolicy
  <2>2. After(current, p, u)
          = [kind |-> "policy", policy |-> p, unwitnessed |-> u, previous |-> prev]
    BY <1>2 DEF After
  <2> HIDE DEF prev
  <2>3. /\ After(current, p, u) \in LineagePolicy
        /\ After(current, p, u).policy = p
        /\ u => After(current, p, u).unwitnessed
    BY <2>1, <2>2 DEF LineagePolicy
  <2>4. After(current, p, u).kind = "policy" /\ None.kind = "none"
    BY <2>2 DEF None
  <2> QED
    BY <2>3, <2>4
<1> QED
  BY <1>1, <1>2

\* What a change put on the ring does to the trail: one more entry, the others
\* as they were, and the lineage after it.
LEMMA Journaling ==
  ASSUME ControlInv, NEW p \in Policies, NEW u \in BOOLEAN, NEW ticket \in Nat,
         Journal(p, u, ticket)
  PROVE  /\ trail' \in Seq(Change) /\ Len(trail') = Len(trail) + 1
         /\ Len(trail) \in Nat
         /\ \A i \in 1..Len(trail) : trail'[i] = trail[i]
         /\ trail'[Len(trail) + 1].ticket = ticket
         /\ Lineage' # None /\ Lineage'.policy = p
         /\ u => Lineage'.unwitnessed
         /\ Runs'
<1> DEFINE e == [policy |-> p, unwitnessed |-> u, ticket |-> ticket,
                 after |-> After(Lineage, p, u)]
           L == Len(trail)
<1>1. trail \in Seq(Change) /\ L \in Nat
  BY DEF ControlInv, ControlTypes
<1>2. Lineage \in LineagePolicy \cup {None}
  BY LineageType DEF ControlInv
<1>3. /\ After(Lineage, p, u) \in LineagePolicy
      /\ After(Lineage, p, u).policy = p
      /\ After(Lineage, p, u) # None
      /\ u => After(Lineage, p, u).unwitnessed
  BY <1>2, AfterType
<1>4. e \in Change
  BY <1>3 DEF Change
<1>5. trail' = Append(trail, e)
  BY DEF Journal
<1>6. e.policy = p /\ e.unwitnessed = u /\ e.ticket = ticket
      /\ e.after = After(Lineage, p, u)
  OBVIOUS
<1> HIDE DEF e
<1>7. /\ trail' \in Seq(Change) /\ Len(trail') = L + 1
      /\ \A i \in 1..L : trail'[i] = trail[i]
      /\ trail'[L + 1] = e
  BY <1>1, <1>4, <1>5
<1>8. Lineage' = e.after
  <2>1. trail' # <<>>
    BY <1>1, <1>7, EmptySeq
  <2> QED
    BY <1>1, <1>7, <2>1 DEF Lineage
<1>9. Runs'
  <2> SUFFICES ASSUME NEW n \in 1..L + 1 PROVE NewestRun(trail', n)
    BY <1>7 DEF Runs
  <2>1. CASE n \in 1..L
    <3>1. NewestRun(trail, n)
      BY <2>1 DEF ControlInv, Runs
    <3>2. PICK k \in 1..n :
            /\ \A i \in k..n : trail[i].policy = trail[n].policy
            /\ trail[n].after.unwitnessed <=> \E i \in k..n : trail[i].unwitnessed
            /\ IF k = 1 THEN trail[n].after.previous = "none"
               ELSE /\ trail[k - 1].policy = trail[n].after.previous
                    /\ trail[n].after.previous # trail[n].policy
      BY <3>1 DEF NewestRun
    <3>3. /\ trail'[n] = trail[n]
          /\ \A i \in k..n : trail'[i] = trail[i]
          /\ k # 1 => trail'[k - 1] = trail[k - 1]
      BY <1>1, <1>7, <2>1
    <3> QED
      BY <3>1, <3>2, <3>3 DEF NewestRun
  <2>2. CASE n = L + 1
    <3>1. trail'[n] = e
      BY <1>7, <2>2
    <3>2. CASE Lineage # None /\ Lineage.policy = p
      <4>1. L \in 1..L /\ Lineage = trail[L].after /\ Lineage \in LineagePolicy
        BY <3>2, LineageType DEF ControlInv
      <4>2. NewestRun(trail, L)
        BY <4>1 DEF ControlInv, Runs
      <4>3. PICK k \in 1..L :
              /\ \A i \in k..L : trail[i].policy = trail[L].policy
              /\ trail[L].after.unwitnessed <=> \E i \in k..L : trail[i].unwitnessed
              /\ IF k = 1 THEN trail[L].after.previous = "none"
                 ELSE /\ trail[k - 1].policy = trail[L].after.previous
                      /\ trail[L].after.previous # trail[L].policy
        BY <4>2 DEF NewestRun
      <4>4. trail[L].policy = p
        BY <3>2, <4>1, <4>2 DEF NewestRun
      <4>5. e.after = [Lineage EXCEPT !.unwitnessed = @ \/ u]
        BY <1>6, <3>2 DEF After
      <4>6. /\ e.after.previous = Lineage.previous
            /\ e.after.unwitnessed <=> Lineage.unwitnessed \/ u
        BY <4>1, <4>5 DEF LineagePolicy
      <4>7. /\ k \in 1..n /\ \A i \in k..n : i \in k..L \/ i = n
            /\ n \in k..n /\ \A i \in k..L : i \in k..n /\ i \in 1..L
            /\ k # 1 => k - 1 \in 1..L
        BY <1>1, <2>2
      <4>8. \A i \in k..n : trail'[i].policy = p
        BY <1>6, <1>7, <3>1, <4>3, <4>4, <4>7
      <4>9. (\E i \in k..n : trail'[i].unwitnessed)
              <=> (\E i \in k..L : trail[i].unwitnessed) \/ u
        <5>1. ASSUME NEW i \in k..n, trail'[i].unwitnessed
              PROVE  (\E j \in k..L : trail[j].unwitnessed) \/ u
          BY <1>6, <1>7, <3>1, <4>7, <5>1
        <5>2. ASSUME NEW i \in k..L, trail[i].unwitnessed
              PROVE  \E j \in k..n : trail'[j].unwitnessed
          BY <1>7, <4>7, <5>2
        <5>3. ASSUME u PROVE \E j \in k..n : trail'[j].unwitnessed
          BY <1>6, <3>1, <4>7, <5>3
        <5> QED
          BY <5>1, <5>2, <5>3
      <4>10. IF k = 1 THEN e.after.previous = "none"
             ELSE trail'[k - 1].policy = e.after.previous /\ e.after.previous # p
        BY <1>7, <4>1, <4>3, <4>4, <4>6, <4>7
      <4> QED
        BY <1>3, <1>6, <3>1, <4>1, <4>3, <4>6, <4>7, <4>8, <4>9, <4>10
           DEF NewestRun
    <3>3. CASE ~(Lineage # None /\ Lineage.policy = p)
      <4>1. e.after = [kind |-> "policy", policy |-> p, unwitnessed |-> u,
                previous |-> IF Lineage = None THEN "none" ELSE Lineage.policy]
        BY <1>6, <3>3 DEF After
      <4>2. /\ e.after.policy = p /\ e.after.unwitnessed = u
            /\ e.after.previous = IF Lineage = None THEN "none" ELSE Lineage.policy
        BY <4>1
      <4>3. n \in 1..n /\ \A i \in n..n : i = n
        BY <1>1, <2>2
      <4>4. IF n = 1 THEN e.after.previous = "none"
            ELSE trail'[n - 1].policy = e.after.previous /\ e.after.previous # p
        <5>1. CASE trail = <<>>
          <6>1. n = 1 /\ Lineage = None
            BY <2>2, <5>1, EmptySeq, LineageType DEF ControlInv
          <6> QED
            BY <4>2, <6>1
        <5>2. CASE trail # <<>>
          <6>1. L \in 1..L /\ Lineage = trail[L].after /\ Lineage # None
            BY <5>2, LineageType DEF ControlInv
          <6>2. n # 1 /\ n - 1 = L /\ trail'[L] = trail[L]
            BY <1>1, <1>7, <2>2, <6>1
          <6>3. trail[L].after.policy = trail[L].policy
            BY <6>1 DEF ControlInv, Runs, NewestRun
          <6> QED
            BY <3>3, <4>2, <6>1, <6>2, <6>3
        <5> QED
          BY <5>1, <5>2
      <4> QED
        BY <1>6, <3>1, <4>2, <4>3, <4>4 DEF NewestRun
    <3> QED
      BY <3>2, <3>3
  <2> QED
    BY <1>1, <2>1, <2>2
<1> QED
  BY <1>1, <1>3, <1>6, <1>7, <1>8, <1>9

\* The tickets on the ring are numbers up to the last published.
LEMMA TicketsKnown ==
  ASSUME ControlInv
  PROVE  \A i \in 1..Len(trail) :
           trail[i].ticket \in Nat /\ trail[i].ticket <= published
<1> SUFFICES ASSUME NEW i \in 1..Len(trail)
             PROVE  trail[i].ticket \in Nat /\ trail[i].ticket <= published
  OBVIOUS
<1>1. trail \in Seq(Change)
  BY DEF ControlInv, ControlTypes
<1>2. trail[i] \in Change
  BY <1>1, ElementOfSeq
<1>3. trail[i].ticket \in Nat
  BY <1>2 DEF Change
<1> QED
  BY <1>3 DEF ControlInv, Tickets

LEMMA ControlStarts == ControlInit => ControlInv
<1> SUFFICES ASSUME ControlInit PROVE ControlInv
  OBVIOUS
<1> USE DEF ControlInit
<1>1. Len(trail) = 0 /\ trail \in Seq(Change) /\ Lineage = None
  BY EmptySeq DEF Lineage
<1>2. ControlTypes
  <2>1. floor \in 0..Len(trail)
    BY <1>1
  <2>2. /\ replicates \in BOOLEAN /\ main \in MainStates /\ requested \in Policies
        /\ claim \in Policies /\ staged \in Policies
    BY PolicyAssumption DEF MainStates
  <2>3. /\ attached \in BOOLEAN /\ pending \in BOOLEAN
        /\ request \in Request \cup {None}
    OBVIOUS
  <2>4. /\ issued \in Nat /\ published \in Nat /\ asking \in Nat
        /\ answers \subseteq Nat \X {"Published", "ProducerStopped", "RingFull"}
    OBVIOUS
  <2> QED
    BY ONLY <1>1, <2>1, <2>2, <2>3, <2>4 DEF ControlTypes
<1>3. Tickets /\ Answered /\ Runs
  BY <1>1 DEF Tickets, Answered, Runs
<1>4. TenureFollows
  BY DEF TenureFollows, LastWordJournaled, Serving
<1> QED
  BY <1>2, <1>3, <1>4 DEF ControlInv

\* A change on nobody's behalf answers no ticket.
LEMMA UntickedChange ==
  ASSUME ControlInv, NEW p \in Policies, NEW u \in BOOLEAN, Journal(p, u, 0),
         UNCHANGED <<mailbox, asking, answers>>
  PROVE  Tickets' /\ Answered'
<1> DEFINE L == Len(trail)
<1> USE DEF mailbox
<1>1. /\ L \in Nat /\ Len(trail') = L + 1
      /\ \A i \in 1..L : trail'[i] = trail[i]
      /\ trail'[L + 1].ticket = 0
  BY Journaling
<1>2. published \in Nat /\ answers \subseteq Nat \X {"Published", "ProducerStopped", "RingFull"}
  BY DEF ControlInv, ControlTypes
<1>3. \A i \in 1..L + 1 : i \in 1..L \/ i = L + 1
  BY <1>1
<1>4. \A i \in 1..L : i \in 1..L + 1
  BY <1>1
<1> HIDE DEF L
<1>5. Tickets'
  <2>1. \A i \in 1..L + 1 : trail'[i].ticket <= published
    BY <1>1, <1>2, <1>3 DEF ControlInv, Tickets, L
  <2>2. ASSUME NEW i \in 1..L + 1, NEW j \in 1..L + 1,
               trail'[i].ticket = trail'[j].ticket, trail'[i].ticket # 0
        PROVE  i = j
    <3>1. i \in 1..L /\ j \in 1..L
      BY <1>1, <1>3, <2>2
    <3> QED
      BY <1>1, <2>2, <3>1 DEF ControlInv, Tickets, L
  <2>3. published # 0 => \E i \in 1..L + 1 : trail'[i].ticket = published
    BY <1>1, <1>4 DEF ControlInv, Tickets, L
  <2> QED
    BY <1>1, <2>1, <2>2, <2>3 DEF ControlInv, Tickets
<1>6. Answered'
  <2> SUFFICES ASSUME NEW a \in answers
               PROVE  (\E i \in 1..L + 1 : trail'[i].ticket = a[1])
                        <=> a[2] = "Published"
    BY <1>1 DEF ControlInv, Answered
  <2>1. a[1] \in Nat /\ 1 <= a[1] /\ a[1] # 0
    BY <1>2 DEF ControlInv, Answered
  <2>2. (\E i \in 1..L + 1 : trail'[i].ticket = a[1])
          <=> (\E i \in 1..L : trail[i].ticket = a[1])
    BY <1>1, <1>3, <1>4, <2>1
  <2> QED
    BY <2>2 DEF ControlInv, Answered, L
<1> QED
  BY <1>5, <1>6

\* Who replicates nothing marks every change.
LEMMA UnwitnessedType ==
  ASSUME replicates \in BOOLEAN, NEW p, NEW o
  PROVE  /\ Unwitnessed(p, o) \subseteq BOOLEAN
         /\ ~replicates => Unwitnessed(p, o) = {TRUE}
BY DEF Unwitnessed

LEMMA ObserveKeeps ==
  ASSUME ControlInv, NEW p \in Policies, NEW u \in BOOLEAN, Observe(p, u)
  PROVE  ControlInv'
<1> USE DEF Observe, tenure, mailbox
<1>1. /\ trail' \in Seq(Change) /\ Len(trail') = Len(trail) + 1
      /\ Len(trail) \in Nat /\ Runs'
  BY Journaling
<1>2. ControlTypes'
  BY <1>1 DEF ControlInv, ControlTypes
<1>3. Tickets' /\ Answered'
  BY UntickedChange
<1>4. TenureFollows'
  BY DEF ControlInv, TenureFollows, LastWordJournaled, Serving
<1> QED
  BY <1>1, <1>2, <1>3, <1>4 DEF ControlInv

\* Steps that leave the trail and the tickets alone.
LEMMA TicketsKept ==
  ASSUME ControlInv, UNCHANGED <<trail, request, issued, published, asking, answers>>
  PROVE  Tickets' /\ Answered' /\ Runs' /\ Lineage' = Lineage
BY DEF ControlInv, Tickets, Answered, Runs, NewestRun, Lineage

\* A restart keeps a prefix of the trail, whose runs are what they were.
LEMMA RestartKeeps == ControlInv /\ Restart => ControlInv'
<1> SUFFICES ASSUME ControlInv, Restart PROVE ControlInv'
  OBVIOUS
<1>1. trail \in Seq(Change) /\ Len(trail) \in Nat /\ floor \in 0..Len(trail)
  BY DEF ControlInv, ControlTypes
<1>2. PICK n \in floor..Len(trail) :
        /\ trail' = [i \in 1..n |-> [trail[i] EXCEPT !.ticket = 0]]
        /\ floor' = n
  BY DEF Restart
<1>3. n \in Nat /\ \A i \in 1..n : i \in 1..Len(trail) /\ trail[i] \in Change
  BY <1>1, ElementOfSeq
<1>4. ASSUME NEW i \in 1..n
      PROVE  /\ trail'[i] \in Change /\ trail'[i].ticket = 0
             /\ trail'[i].policy = trail[i].policy
             /\ trail'[i].unwitnessed = trail[i].unwitnessed
             /\ trail'[i].after = trail[i].after
  <2>1. trail'[i] = [trail[i] EXCEPT !.ticket = 0]
    BY <1>2
  <2> QED
    BY <1>3, <2>1 DEF Change
<1>5. trail' \in [1..n -> Change]
  BY <1>2, <1>4
<1>6. trail' \in Seq(Change) /\ Len(trail') = n
  <2>1. trail' \in Seq(Change)
    BY <1>3, <1>5
  <2>2. DOMAIN trail' = 1..n
    BY <1>5
  <2> QED
    BY <1>3, <2>1, <2>2, LenProperties
<1>7. ControlTypes'
  <2>1. floor' \in 0..Len(trail')
    BY <1>2, <1>3, <1>6
  <2>2. /\ replicates' \in BOOLEAN /\ main' \in MainStates
        /\ requested' \in Policies /\ claim' \in Policies /\ staged' \in Policies
    BY PolicyAssumption DEF Restart, MainStates
  <2>3. /\ attached' \in BOOLEAN /\ pending' \in BOOLEAN
        /\ request' \in Request \cup {None}
    BY DEF Restart
  <2>4. /\ issued' \in Nat /\ published' \in Nat /\ asking' \in Nat
        /\ answers' \subseteq Nat \X {"Published", "ProducerStopped", "RingFull"}
    BY DEF Restart
  <2> QED
    BY ONLY <1>6, <2>1, <2>2, <2>3, <2>4 DEF ControlTypes
<1>8. Tickets'
  <2>1. issued' = 0 /\ published' = 0 /\ asking' = 0 /\ request' = None
    BY DEF Restart
  <2>2. \A i \in 1..Len(trail') : trail'[i].ticket = 0
    BY <1>4, <1>6
  <2> QED
    BY ONLY <2>1, <2>2 DEF Tickets
<1>9. Answered'
  BY DEF Restart, Answered
<1>10. Runs'
  <2> SUFFICES ASSUME NEW m \in 1..n PROVE NewestRun(trail', m)
    BY <1>6 DEF Runs
  <2>1. NewestRun(trail, m)
    BY <1>3 DEF ControlInv, Runs
  <2>2. PICK k \in 1..m :
          /\ \A i \in k..m : trail[i].policy = trail[m].policy
          /\ trail[m].after.unwitnessed <=> \E i \in k..m : trail[i].unwitnessed
          /\ IF k = 1 THEN trail[m].after.previous = "none"
             ELSE /\ trail[k - 1].policy = trail[m].after.previous
                  /\ trail[m].after.previous # trail[m].policy
    BY <2>1 DEF NewestRun
  <2>3. m \in k..m /\ (\A i \in k..m : i \in 1..n) /\ (k # 1 => k - 1 \in 1..n)
    BY <1>3
  <2>4. /\ trail'[m].policy = trail[m].policy /\ trail'[m].after = trail[m].after
        /\ \A i \in k..m : /\ trail'[i].policy = trail[i].policy
                           /\ trail'[i].unwitnessed = trail[i].unwitnessed
        /\ k # 1 => trail'[k - 1].policy = trail[k - 1].policy
    BY <1>4, <2>3
  <2>5. trail[m].after.policy = trail[m].policy
    BY <2>1 DEF NewestRun
  <2>6. (\E i \in k..m : trail'[i].unwitnessed) <=> \E i \in k..m : trail[i].unwitnessed
    BY <2>4
  <2>7. /\ \A i \in k..m : trail'[i].policy = trail'[m].policy
        /\ trail'[m].after.unwitnessed <=> \E i \in k..m : trail'[i].unwitnessed
    BY <2>2, <2>4, <2>6
  <2>8. IF k = 1 THEN trail'[m].after.previous = "none"
        ELSE /\ trail'[k - 1].policy = trail'[m].after.previous
             /\ trail'[m].after.previous # trail'[m].policy
    BY <2>2, <2>4
  <2> QED
    BY ONLY <2>4, <2>5, <2>7, <2>8 DEF NewestRun
<1>11. TenureFollows'
  BY DEF Restart, TenureFollows, LastWordJournaled, Serving
<1> QED
  BY <1>7, <1>8, <1>9, <1>10, <1>11 DEF ControlInv

LEMMA ClaimKeeps == ControlInv /\ Claim => ControlInv'
<1> SUFFICES ASSUME ControlInv, Claim PROVE ControlInv'
  OBVIOUS
<1> USE DEF Claim, mailbox
<1>1. ControlTypes'
  BY DEF ControlInv, ControlTypes, MainStates
<1>2. TenureFollows'
  BY DEF ControlInv, TenureFollows, LastWordJournaled, Serving
<1> QED
  BY <1>1, <1>2, TicketsKept DEF ControlInv

\* journal_boot leaves the claim in force, marked where nobody can witness it.
LEMMA JournalBootKeeps == ControlInv /\ JournalBoot => ControlInv'
<1> SUFFICES ASSUME ControlInv, JournalBoot PROVE ControlInv'
  OBVIOUS
<1> USE DEF JournalBoot, mailbox
<1>1. claim \in Policies /\ replicates \in BOOLEAN
  BY DEF ControlInv, ControlTypes
<1>2. CASE boot_entry(Lineage, claim)
  <2>1. PICK u \in Unwitnessed(claim, "Staged") : Journal(claim, u, 0)
    BY <1>2
  <2>2. u \in BOOLEAN /\ (~replicates => u = TRUE)
    BY <1>1, <2>1, UnwitnessedType
  <2>3. /\ trail' \in Seq(Change) /\ Len(trail') = Len(trail) + 1
        /\ Len(trail) \in Nat /\ Runs'
        /\ Lineage' # None /\ Lineage'.policy = claim
        /\ u => Lineage'.unwitnessed
    BY <1>1, <2>1, <2>2, Journaling
  <2>4. ControlTypes'
    BY <2>3 DEF ControlInv, ControlTypes, MainStates
  <2>5. Tickets' /\ Answered'
    BY <1>1, <2>1, <2>2, UntickedChange
  <2>6. TenureFollows'
    BY <2>2, <2>3 DEF ControlInv, TenureFollows, LastWordJournaled, Serving, Marked
  <2> QED
    BY <2>3, <2>4, <2>5, <2>6 DEF ControlInv
<1>3. CASE ~boot_entry(Lineage, claim)
  <2>1. UNCHANGED trail
    BY <1>3
  <2>2. ControlTypes'
    BY <2>1 DEF ControlInv, ControlTypes, MainStates
  <2>3. Lineage # None /\ Lineage.policy = claim
        /\ (~replicates => Marked(Lineage))
    BY <1>3 DEF boot_entry, Marked
  <2>4. Lineage' = Lineage
    BY <2>1, TicketsKept
  <2>5. TenureFollows'
    BY <2>3, <2>4 DEF ControlInv, TenureFollows, LastWordJournaled, Serving, Marked
  <2> QED
    BY <2>1, <2>2, <2>5, TicketsKept DEF ControlInv
<1> QED
  BY <1>2, <1>3

LEMMA AttachKeeps == ControlInv /\ Attach => ControlInv'
<1> SUFFICES ASSUME ControlInv, Attach PROVE ControlInv'
  OBVIOUS
<1> USE DEF Attach, FoundRequested
<1>1. ControlTypes'
  BY DEF ControlInv, ControlTypes, MainStates
<1>2. Lineage' = Lineage
  BY TicketsKept
<1>3. TenureFollows'
  BY <1>2 DEF ControlInv, TenureFollows, LastWordJournaled, Serving, Marked
<1> QED
  BY <1>1, <1>3, TicketsKept DEF ControlInv

LEMMA AttachStagedKeeps == ControlInv /\ AttachStaged => ControlInv'
<1> SUFFICES ASSUME ControlInv, AttachStaged PROVE ControlInv'
  OBVIOUS
<1> USE DEF AttachStaged, mailbox
<1>1. staged \in Policies /\ replicates \in BOOLEAN /\ staged = requested
  BY DEF ControlInv, ControlTypes, TenureFollows
<1>2. CASE staged # claim
  <2>1. PICK u \in Unwitnessed(staged, "Staged") : Journal(staged, u, 0)
    BY <1>2
  <2>2. u \in BOOLEAN /\ (~replicates => u = TRUE)
    BY <1>1, <2>1, UnwitnessedType
  <2>3. /\ trail' \in Seq(Change) /\ Len(trail') = Len(trail) + 1
        /\ Len(trail) \in Nat /\ Runs'
        /\ Lineage' # None /\ Lineage'.policy = staged
        /\ u => Lineage'.unwitnessed
    BY <1>1, <2>1, <2>2, Journaling
  <2>4. ControlTypes'
    BY <2>3 DEF ControlInv, ControlTypes, MainStates
  <2>5. Tickets' /\ Answered'
    BY <1>1, <2>1, <2>2, UntickedChange
  <2>6. TenureFollows'
    BY <1>1, <2>2, <2>3
       DEF ControlInv, TenureFollows, LastWordJournaled, Serving, Marked
  <2> QED
    BY <2>3, <2>4, <2>5, <2>6 DEF ControlInv
<1>3. CASE staged = claim
  <2>1. UNCHANGED trail
    BY <1>3
  <2>2. ControlTypes'
    BY <2>1 DEF ControlInv, ControlTypes, MainStates
  <2>3. Lineage' = Lineage
    BY <2>1, TicketsKept
  <2>4. TenureFollows'
    BY <1>1, <1>3, <2>3
       DEF ControlInv, TenureFollows, LastWordJournaled, Serving, Marked
  <2> QED
    BY <2>1, <2>2, <2>4, TicketsKept DEF ControlInv
<1> QED
  BY <1>2, <1>3

LEMMA PollKeeps == ControlInv /\ (Poll \/ PublishNothing) => ControlInv'
<1> SUFFICES ASSUME ControlInv, Poll \/ PublishNothing PROVE ControlInv'
  OBVIOUS
<1> USE DEF Poll, PublishNothing, mailbox
<1>1. ControlTypes'
  BY DEF ControlInv, ControlTypes, MainStates
<1>2. Lineage' = Lineage
  BY TicketsKept
<1>3. TenureFollows'
  BY <1>2 DEF ControlInv, TenureFollows, LastWordJournaled, Serving, Marked
<1> QED
  BY <1>1, <1>3, TicketsKept DEF ControlInv

\* A request is published once: its ticket is newer than any on the ring.
LEMMA PublishRequestKeeps == ControlInv /\ PublishRequest => ControlInv'
<1> SUFFICES ASSUME ControlInv, PublishRequest PROVE ControlInv'
  OBVIOUS
<1> USE DEF PublishRequest, PublishedPolicy
<1> DEFINE L == Len(trail)
           p == request.policy
           t == request.ticket
<1>1. /\ request \in Request /\ p \in Policies /\ t \in Nat
      /\ replicates \in BOOLEAN /\ published \in Nat /\ issued \in Nat
      /\ asking \in Nat
  BY DEF ControlInv, ControlTypes, Request
<1>2. t = asking /\ asking # 0 /\ asking = issued /\ published < asking
  BY DEF ControlInv, Tickets
<1>3. PICK u \in Unwitnessed(p, "Runtime") : Journal(p, u, t)
  OBVIOUS
<1>4. u \in BOOLEAN /\ (~replicates => u = TRUE)
  BY <1>1, <1>3, UnwitnessedType
<1>5. /\ trail' \in Seq(Change) /\ Len(trail') = L + 1 /\ L \in Nat
      /\ \A i \in 1..L : trail'[i] = trail[i]
      /\ trail'[L + 1].ticket = t
      /\ Lineage' # None /\ Lineage'.policy = p
      /\ u => Lineage'.unwitnessed
      /\ Runs'
  BY <1>1, <1>3, <1>4, Journaling
<1>6. published' = t /\ requested' = p /\ request' = None
  OBVIOUS
<1>7. /\ \A i \in 1..L + 1 : i \in 1..L \/ i = L + 1
      /\ \A i \in 1..L : i \in 1..L + 1
      /\ L + 1 \in 1..L + 1
  BY <1>5
<1>8. \A i \in 1..L : trail[i].ticket \in Nat /\ trail[i].ticket <= published
  BY TicketsKnown
<1> HIDE DEF L, p, t
<1>9. ControlTypes'
  <2>1. floor' \in 0..Len(trail')
    BY <1>5 DEF ControlInv, ControlTypes, L
  <2>2. request' \in Request \cup {None} /\ published' \in Nat /\ requested' \in Policies
    BY <1>1, <1>6
  <2>3. main' \in MainStates /\ pending' \in BOOLEAN
    BY DEF MainStates
  <2> QED
    BY <1>5, <2>1, <2>2, <2>3 DEF ControlInv, ControlTypes
<1>10. Tickets'
  <2>1. \A i \in 1..L + 1 : trail'[i].ticket <= t
    BY <1>1, <1>2, <1>5, <1>7, <1>8
  <2>2. ASSUME NEW i \in 1..L + 1, NEW j \in 1..L + 1,
               trail'[i].ticket = trail'[j].ticket, trail'[i].ticket # 0
        PROVE  i = j
    <3>1. CASE i \in 1..L /\ j \in 1..L
      BY <1>5, <2>2, <3>1 DEF ControlInv, Tickets, L
    <3>2. CASE i = L + 1 \/ j = L + 1
      <4>1. \A k \in 1..L : trail'[k].ticket # t
        BY <1>1, <1>2, <1>5, <1>8
      <4> QED
        BY <1>5, <1>7, <2>2, <3>2, <4>1
    <3> QED
      BY <1>7, <3>1, <3>2
  <2>3. \E i \in 1..L + 1 : trail'[i].ticket = t
    BY <1>5, <1>7
  <2>4. asking' = issued' /\ t <= issued'
    BY <1>1, <1>2
  <2> QED
    BY <1>5, <1>6, <2>1, <2>2, <2>3, <2>4 DEF Tickets
<1>11. Answered'
  <2> SUFFICES ASSUME NEW a \in answers
               PROVE  (\E i \in 1..L + 1 : trail'[i].ticket = a[1])
                        <=> a[2] = "Published"
    BY <1>5 DEF ControlInv, Answered
  <2>1. a[1] \in Nat /\ a[1] # t
    BY <1>1, <1>2 DEF ControlInv, ControlTypes, Answered
  <2>2. (\E i \in 1..L + 1 : trail'[i].ticket = a[1])
          <=> (\E i \in 1..L : trail[i].ticket = a[1])
    BY <1>5, <1>7, <2>1
  <2> QED
    BY <2>2 DEF ControlInv, Answered, L
<1>12. TenureFollows'
  BY <1>4, <1>5, <1>6
     DEF ControlInv, TenureFollows, LastWordJournaled, Serving, Marked
<1> QED
  BY <1>5, <1>9, <1>10, <1>11, <1>12 DEF ControlInv

\* Steps that leave the trail alone and at most take the request away.
LEMMA WithdrawnKeeps ==
  ASSUME ControlInv, UNCHANGED <<trail, issued, published, asking, answers>>,
         request' \in {request, None}
  PROVE  Tickets' /\ Answered' /\ Runs' /\ Lineage' = Lineage
BY DEF ControlInv, Tickets, Answered, Runs, NewestRun, Lineage

LEMMA DetachKeeps == ControlInv /\ Detach => ControlInv'
<1> SUFFICES ASSUME ControlInv, Detach PROVE ControlInv'
  OBVIOUS
<1> USE DEF Detach
<1>1. ControlTypes'
  BY DEF ControlInv, ControlTypes, MainStates
<1>2. TenureFollows'
  BY DEF ControlInv, TenureFollows, LastWordJournaled, Serving
<1> QED
  BY <1>1, <1>2, WithdrawnKeeps DEF ControlInv

LEMMA StageKeeps ==
  ASSUME ControlInv, NEW p \in Policies, Stage(p)
  PROVE  ControlInv'
<1> USE DEF Stage, tenure
<1>1. ControlTypes'
  BY DEF ControlInv, ControlTypes
<1>2. Lineage' = Lineage
  BY TicketsKept
<1>3. TenureFollows'
  BY <1>2 DEF ControlInv, TenureFollows, LastWordJournaled, Serving, Marked
<1> QED
  BY <1>1, <1>3, TicketsKept DEF ControlInv

LEMMA PostKeeps ==
  ASSUME ControlInv, NEW p \in Policies, Post(p)
  PROVE  ControlInv'
<1> USE DEF Post, tenure
<1>1. issued \in Nat /\ published \in Nat /\ published <= issued /\ asking = 0
      /\ answers \subseteq Nat \X {"Published", "ProducerStopped", "RingFull"}
  BY DEF ControlInv, ControlTypes, Tickets
<1>2. request' \in Request /\ request'.ticket = issued + 1 /\ asking' = issued + 1
  BY <1>1 DEF Request
<1>3. ControlTypes'
  BY <1>1, <1>2 DEF ControlInv, ControlTypes
<1>4. Tickets'
  BY <1>1, <1>2 DEF ControlInv, Tickets
<1>5. Answered'
  BY <1>1, <1>2 DEF ControlInv, Answered
<1>6. Lineage' = Lineage /\ Runs'
  BY DEF Lineage, ControlInv, Runs, NewestRun
<1>7. TenureFollows'
  BY <1>6 DEF ControlInv, TenureFollows, LastWordJournaled, Serving, Marked
<1> QED
  BY <1>3, <1>4, <1>5, <1>6, <1>7 DEF ControlInv

\* What the admin thread is told: published iff its ticket is on the ring, and
\* never to be there otherwise.
LEMMA ToldKeeps ==
  ASSUME ControlInv, ToldPublished \/ ToldStopped \/ ToldRingFull
  PROVE  ControlInv'
<1>1. PICK o \in {"Published", "ProducerStopped", "RingFull"} :
        /\ Told(o)
        /\ o = "Published" <=> published >= asking
        /\ asking # 0
        /\ UNCHANGED <<attached, issued, published, requested>>
        /\ request' = None /\ pending' \in BOOLEAN
  <2>1. asking \in Nat /\ published \in Nat
    BY DEF ControlInv, ControlTypes
  <2>2. CASE ToldPublished
    <3>1. request = None
      BY <2>1, <2>2 DEF ToldPublished, ControlInv, Tickets
    <3>2. pending' \in BOOLEAN
      BY <2>2 DEF ToldPublished, mailbox, ControlInv, ControlTypes
    <3> QED
      BY <2>2, <3>1, <3>2 DEF ToldPublished, mailbox
  <2>3. CASE ToldStopped
    <3>1. request = None
      BY <2>3 DEF ToldStopped, Waiting, ControlInv, Tickets
    <3>2. pending' \in BOOLEAN
      BY <2>3 DEF ToldStopped, mailbox, ControlInv, ControlTypes
    <3>3. ~(published >= asking)
      BY <2>1, <2>3 DEF ToldStopped
    <3> QED
      BY <2>3, <3>1, <3>2, <3>3 DEF ToldStopped, mailbox
  <2>4. CASE ToldRingFull
    <3>1. ~(published >= asking)
      BY <2>1, <2>4 DEF ToldRingFull
    <3> QED
      BY <2>4, <3>1 DEF ToldRingFull, Withdrawn
  <2> QED
    BY <2>2, <2>3, <2>4
<1> USE <1>1 DEF Told, tenure
<1>2. /\ asking \in Nat /\ asking = issued /\ published \in Nat
      /\ issued \in Nat /\ published <= issued
      /\ \A i \in 1..Len(trail) :
           trail[i].ticket \in Nat /\ trail[i].ticket <= published
  BY TicketsKnown DEF ControlInv, ControlTypes, Tickets
<1>3. ControlTypes'
  BY <1>2 DEF ControlInv, ControlTypes
<1>4. Tickets'
  BY DEF ControlInv, Tickets
<1>5. (\E i \in 1..Len(trail) : trail[i].ticket = asking) <=> o = "Published"
  <2>1. CASE published >= asking
    <3>1. published = asking /\ published # 0
      BY <1>2, <2>1
    <3> QED
      BY <2>1, <3>1 DEF ControlInv, Tickets
  <2>2. CASE ~(published >= asking)
    BY <1>2, <2>2
  <2> QED
    BY <2>1, <2>2
<1>6. Answered'
  <2> SUFFICES ASSUME NEW a \in answers \cup {<<asking, o>>}
               PROVE  /\ 1 <= a[1] /\ a[1] <= issued
                      /\ (\E i \in 1..Len(trail) : trail[i].ticket = a[1])
                           <=> a[2] = "Published"
    BY DEF Answered
  <2>1. CASE a \in answers
    BY <2>1 DEF ControlInv, Answered
  <2>2. CASE a = <<asking, o>>
    <3>1. a[1] = asking /\ a[2] = o
      BY <2>2
    <3> QED
      BY <1>2, <1>5, <3>1
  <2> QED
    BY <2>1, <2>2
<1>7. Lineage' = Lineage /\ Runs'
  BY DEF Lineage, ControlInv, Runs, NewestRun
<1>8. TenureFollows'
  BY <1>7 DEF ControlInv, TenureFollows, LastWordJournaled, Serving, Marked
<1> QED
  BY <1>3, <1>4, <1>6, <1>7, <1>8 DEF ControlInv

LEMMA ControlAlwaysInv == ControlSpec => []ControlInv
<1>1. ControlInv /\ [ControlNext]_controlVars => ControlInv'
  <2> SUFFICES ASSUME ControlInv, [ControlNext]_controlVars PROVE ControlInv'
    OBVIOUS
  <2>1. CASE ControlNext
    BY <2>1, RestartKeeps, ObserveKeeps, ClaimKeeps, JournalBootKeeps,
       AttachKeeps, AttachStagedKeeps, PollKeeps, PublishRequestKeeps,
       DetachKeeps, StageKeeps, PostKeeps, ToldKeeps
       DEF ControlNext, Admin
  <2>2. CASE UNCHANGED controlVars
    <3> USE <2>2 DEF controlVars, tenure, mailbox
    <3>1. ControlTypes'
      BY DEF ControlInv, ControlTypes
    <3>2. Lineage' = Lineage
      BY TicketsKept
    <3>3. TenureFollows'
      BY <3>2 DEF ControlInv, TenureFollows, LastWordJournaled, Serving, Marked
    <3> QED
      BY <3>1, <3>3, TicketsKept DEF ControlInv
  <2> QED
    BY <2>1, <2>2
<1> QED
  BY ControlStarts, <1>1, PTL DEF ControlSpec

\* An operator told "Published" has exactly one entry on the ring and one
\* refused never has one, however the deadline, the publish, the producer's
\* stop and a restart interleave (AckPolicyControl::request,
\* AckPolicyPublisher::publish).
THEOREM AnswersAlwaysTrue == ControlSpec => []AnswersAreTrue
<1>1. ControlInv => AnswersAreTrue
  <2> SUFFICES ASSUME ControlInv PROVE AnswersAreTrue
    OBVIOUS
  <2>1. DOMAIN trail = 1..Len(trail)
    BY DEF ControlInv, ControlTypes
  <2>2. ASSUME NEW a \in answers
        PROVE  {i \in DOMAIN trail : trail[i].ticket = a[1]} # {}
                 <=> a[2] = "Published"
    BY <2>1 DEF ControlInv, Answered
  <2> QED
    BY <2>1, <2>2 DEF ControlInv, Tickets, AnswersAreTrue
<1> QED
  BY ControlAlwaysInv, <1>1, PTL

\* What the lineage says of the policy in force is true, through boots,
\* promotions, staged and runtime changes and restarts that lose a suffix: the
\* last word taken is its newest policy once the producer serves, the
\* transition is the newest that moved the policy, and a node without replicas
\* serves only under a marked one (journal_boot, attach, LineagePolicy::after).
THEOREM LineageAlwaysTruthful == ControlSpec => []LineageTruthful
<1>1. ControlInv => LineageTruthful
  <2> SUFFICES ASSUME ControlInv PROVE LineageTruthful
    OBVIOUS
  <2>1. LastWordJournaled
    BY DEF ControlInv, TenureFollows
  <2>2. TransitionIsNewestMove
    <3>0. DOMAIN trail = 1..Len(trail)
      BY DEF ControlInv, ControlTypes
    <3> SUFFICES ASSUME Lineage # None
                 PROVE  \E k \in 1..Len(trail) :
                          /\ \A i \in k..Len(trail) : trail[i].policy = Lineage.policy
                          /\ Lineage.unwitnessed
                               <=> \E i \in k..Len(trail) : trail[i].unwitnessed
                          /\ IF k = 1 THEN Lineage.previous = "none"
                             ELSE /\ trail[k - 1].policy = Lineage.previous
                                  /\ Lineage.previous # Lineage.policy
      BY <3>0 DEF TransitionIsNewestMove
    <3>1. Len(trail) \in 1..Len(trail) /\ Lineage = trail[Len(trail)].after
      BY LineageType DEF ControlInv
    <3>2. NewestRun(trail, Len(trail))
      BY <3>1 DEF ControlInv, Runs
    <3> QED
      BY <3>1, <3>2 DEF NewestRun
  <2>3. StandaloneMarked
    BY DEF ControlInv, TenureFollows, StandaloneMarked, Serving, Marked
  <2> QED
    BY <2>1, <2>2, <2>3 DEF LineageTruthful
<1> QED
  BY ControlAlwaysInv, <1>1, PTL

=============================================================================
