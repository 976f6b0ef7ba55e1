----------------------------- MODULE MCPipeline -----------------------------
(* The three lock-free structures of the pipeline crate in one instance:   *)
(* the initial state picks which of them the behaviour is about.           *)
EXTENDS Ring, Spsc, SeqLock, TLC

VARIABLE about

(* The input ring: the journal and the matching stage follow the producer, *)
(* the shadow stage follows the journal.                                   *)
MCAfter == <<0, 0, 1>>

mcVars == <<ringVars, spscVars, seqlockVars, about>>

RingOnly == about = "ring" /\ UNCHANGED <<spscVars, seqlockVars, about>>
QueueOnly == about = "spsc" /\ UNCHANGED <<ringVars, seqlockVars, about>>
LockOnly == about = "seqlock" /\ UNCHANGED <<ringVars, spscVars, about>>

MCInit ==
  /\ RingInit /\ SpscInit /\ SeqLockInit
  /\ about \in {"ring", "spsc", "seqlock"}

MCNext ==
  \/ RingOnly /\ RingNext
  \/ QueueOnly /\ SpscNext
  \/ LockOnly /\ SeqLockNext

(* A call under way is carried on; consumers keep reading and publishing   *)
(* their progress.  Nothing is assumed of calls that were never made.      *)
MCSpec ==
  /\ MCInit /\ [][MCNext]_mcVars
  /\ WF_mcVars(RingOnly /\ ProducerStep)
  /\ \A c \in Consumers :
       /\ WF_mcVars(RingOnly /\ ConsumerStep(c))
       /\ WF_mcVars(RingOnly /\ SetProgress(c))
  /\ WF_mcVars(QueueOnly /\ SpscProducerStep)
  /\ WF_mcVars(QueueOnly /\ SpscConsumerStep)

InBlockedPush ==
  (about = "ring" /\ Blocked) \/ (about = "spsc" /\ Waiting)

(* A push that waits for room gets it as long as the consumers keep        *)
(* reading and publishing their progress: neither queue's producer waits   *)
(* for room that only its own unpublished entries take up (push_with,      *)
(* push_with_unless).                                                      *)
BlockedPushEnds == InBlockedPush ~> ~InBlockedPush
=============================================================================
