---------------------------- MODULE PolicyControl ----------------------------
(***************************************************************************)
(* How an ack-policy change reaches the journal                            *)
(* (server-runtime/src/policy_control.rs) and what a lineage remembers of  *)
(* it (transport-core/src/lineage.rs):                                     *)
(*                                                                         *)
(*   - the admin listener's thread stages a policy or posts it in the      *)
(*     mailbox and waits, at most a bounded time, to be told;              *)
(*   - the main thread claims the policy a tenure starts under, journals   *)
(*     the boot entry and attaches the input ring's producer, which then   *)
(*     polls the mailbox until it stops;                                   *)
(*   - the process may die at any step and restart under another           *)
(*     configuration, on any prefix of what it had put on the ring.        *)
(*                                                                         *)
(* Every critical section of the mailbox's mutex is one step.  A full ring *)
(* is a poll that does not happen; the requester's deadline may pass at    *)
(* any moment.  Who is streaming is the look of ReplicaPresence; here its  *)
(* verdict on an explicit Disk is left open.                               *)
(***************************************************************************)
EXTENDS Integers, Sequences, PolicySet

CONSTANTS
  MaxTrail,    \* bound on the changes journaled
  MaxAsks,     \* bound on the commands one process is sent
  MaxRestarts  \* bound on the restarts

ASSUME ControlAssumption == MaxTrail \in Nat /\ MaxAsks \in Nat /\ MaxRestarts \in Nat

VARIABLES
  trail,       \* the changes journaled, each with the lineage after it
  floor,       \* how many of them this process found when it started
  replicates,  \* Replication::Enabled
  main,        \* the tenure's thread: where it is
  claim,       \* the claim's policy
  staged,      \* what attach found requested
  attached,    \* State.producer
  request,     \* State.request
  issued, published,  \* State.issued, State.published
  requested,   \* State.requested
  pending,     \* AckPolicyControl.pending
  asking,      \* the admin thread's ticket, 0 when it is not waiting
  asks,        \* commands so far
  restarts,    \* restarts so far
  answers      \* history: what each ticket was told

mailbox == <<attached, request, issued, published, requested, pending>>
tenure == <<main, claim, staged>>
controlVars == <<trail, floor, replicates, tenure, mailbox, asking, asks, restarts, answers>>

-----------------------------------------------------------------------------
(* The lineage *)

None == [kind |-> "none"]

\* A LineagePolicy: the policy in force, whether the transition to it was
\* unwitnessed, and the policy before it ("none" for a first change).
LineagePolicy == [kind : {"policy"}, policy : Policies, unwitnessed : BOOLEAN,
                  previous : Policies \cup {"none"}]

\* LineagePolicy::after: a change naming the policy in force moves nothing, it
\* only adds its own "unwitnessed" to the transition's.
After(current, p, u) ==
  IF current # None /\ current.policy = p
  THEN [current EXCEPT !.unwitnessed = @ \/ u]
  ELSE [kind |-> "policy", policy |-> p, unwitnessed |-> u,
        previous |-> IF current = None THEN "none" ELSE current.policy]

Lineage == IF trail = <<>> THEN None ELSE trail[Len(trail)].after

\* The change to p is put on the input ring (or accepted from the stream), on
\* behalf of the given ticket (0: of no request).
Journal(p, u, ticket) ==
  /\ Len(trail) < MaxTrail
  /\ trail' = Append(trail, [policy |-> p, unwitnessed |-> u, ticket |-> ticket,
                             after |-> After(Lineage, p, u)])

\* is_unwitnessed: every change on a node that accepts no replica; with
\* replication, only a runtime Disk, when no replica was seen.
Unwitnessed(p, origin) ==
  IF ~replicates THEN {TRUE}
  ELSE IF origin = "Runtime" /\ p = Disk THEN BOOLEAN ELSE {FALSE}

\* Replication::can_meet.
can_meet(p) == replicates \/ p = Disk

-----------------------------------------------------------------------------
(* The process *)

\* A process starts as a replica or a primary, of either shape, under any
\* configured policy.
ControlInit ==
  /\ trail = <<>> /\ floor = 0
  /\ replicates \in BOOLEAN
  /\ main \in {"replica", "primary"}
  /\ requested \in Policies
  /\ claim = Disk /\ staged = Disk
  /\ attached = FALSE /\ request = None /\ pending = FALSE
  /\ issued = 0 /\ published = 0
  /\ asking = 0 /\ asks = 0 /\ restarts = 0
  /\ answers = {}

\* The process dies and starts again, with any configuration, on any prefix of
\* what it had put on the ring; what it had recovered is on disk.
Restart ==
  /\ restarts < MaxRestarts
  /\ restarts' = restarts + 1
  /\ \E n \in floor..Len(trail) :
       /\ trail' = [i \in 1..n |-> [trail[i] EXCEPT !.ticket = 0]]
       /\ floor' = n
  /\ replicates' \in BOOLEAN
  /\ main' \in {"replica", "primary"}
  /\ requested' \in Policies
  /\ claim' = Disk /\ staged' = Disk
  /\ attached' = FALSE /\ request' = None /\ pending' = FALSE
  /\ issued' = 0 /\ published' = 0
  /\ asking' = 0 /\ asks' = 0 /\ answers' = {}

\* SharedLineagePolicy::observe: a replica accepts a change of its primary's.
Observe(p, u) ==
  /\ main = "replica"
  /\ Journal(p, u, 0)
  /\ UNCHANGED <<floor, replicates, tenure, mailbox, asking, asks, restarts, answers>>

-----------------------------------------------------------------------------
(* The tenure: claim, journal_boot, attach, poll, drop *)

\* AckPolicyControl::claim, at boot or at promotion.
Claim ==
  /\ main \in {"replica", "primary"}
  /\ main' = "claimed"
  /\ claim' = requested
  /\ UNCHANGED <<trail, floor, replicates, staged, mailbox, asking, asks, restarts, answers>>

\* boot_entry: the lineage names another policy or none; or, with replication
\* disabled, names it through a transition that may still await its witness.
boot_entry(lineage, p) ==
  \/ lineage = None \/ lineage.policy # p
  \/ ~replicates /\ lineage.previous # "none" /\ ~lineage.unwitnessed

\* PublisherClaim::journal_boot.
JournalBoot ==
  /\ main = "claimed"
  /\ main' = "booted"
  /\ IF boot_entry(Lineage, claim)
     THEN \E u \in Unwitnessed(claim, "Staged") : Journal(claim, u, 0)
     ELSE UNCHANGED trail
  /\ UNCHANGED <<floor, replicates, claim, staged, mailbox, asking, asks, restarts, answers>>

\* Faulty variant: the policy claimed at the tenure's start is taken for the
\* one now requested.
FoundClaimed == claim

\* What attach finds requested, under the lock it attaches under.
FoundRequested == requested

\* BootedClaim::attach, under the lock: from here a request is posted, not
\* staged.
Attach ==
  /\ main = "booted"
  /\ main' = "attached"
  /\ attached' = TRUE
  /\ staged' = FoundRequested
  /\ UNCHANGED <<trail, floor, replicates, claim, request, issued, published, requested,
                 pending, asking, asks, restarts, answers>>

\* BootedClaim::attach, after it: a policy staged since the claim is journaled
\* ahead of any runtime request.
AttachStaged ==
  /\ main = "attached"
  /\ main' = "serving"
  /\ IF staged # claim
     THEN \E u \in Unwitnessed(staged, "Staged") : Journal(staged, u, 0)
     ELSE UNCHANGED trail
  /\ UNCHANGED <<floor, replicates, claim, staged, mailbox, asking, asks, restarts, answers>>

\* AckPolicyPublisher::poll: the flag is seen set.
Poll ==
  /\ main = "serving" /\ pending
  /\ main' = "publish"
  /\ UNCHANGED <<trail, floor, replicates, claim, staged, mailbox, asking, asks, restarts, answers>>

\* AckPolicyPublisher::publish, the request withdrawn since the flag was read,
\* or the ring full: nothing changes.
PublishNothing ==
  /\ main = "publish"
  /\ main' = "serving"
  /\ UNCHANGED <<trail, floor, replicates, claim, staged, mailbox, asking, asks, restarts, answers>>

\* The requested policy publish leaves.
PublishedPolicy == request.policy

\* AckPolicyPublisher::publish: the entry goes on the ring under the lock.
PublishRequest ==
  /\ main = "publish" /\ request # None
  /\ \E u \in Unwitnessed(request.policy, "Runtime") :
       Journal(request.policy, u, request.ticket)
  /\ request' = None
  /\ published' = request.ticket
  /\ requested' = PublishedPolicy
  /\ pending' = FALSE
  /\ main' = "serving"
  /\ UNCHANGED <<floor, replicates, claim, staged, attached, issued, asking, asks,
                 restarts, answers>>

\* AckPolicyPublisher dropped: the producer has stopped.
Detach ==
  /\ main = "serving"
  /\ main' = "stopped"
  /\ attached' = FALSE /\ request' = None /\ pending' = FALSE
  /\ UNCHANGED <<trail, floor, replicates, claim, staged, issued, published, requested,
                 asking, asks, restarts, answers>>

-----------------------------------------------------------------------------
(* The admin thread: AckPolicyControl::request *)

\* With no producer attached the policy is staged.
Stage(p) ==
  /\ asking = 0 /\ asks < MaxAsks /\ can_meet(p)
  /\ ~attached
  /\ asks' = asks + 1
  /\ requested' = p
  /\ UNCHANGED <<trail, floor, replicates, tenure, attached, request, issued, published,
                 pending, asking, restarts, answers>>

\* With one attached it is posted, and the command waits.
Post(p) ==
  /\ asking = 0 /\ asks < MaxAsks /\ can_meet(p)
  /\ attached /\ request = None
  /\ asks' = asks + 1
  /\ issued' = issued + 1
  /\ request' = [kind |-> "request", policy |-> p, ticket |-> issued + 1]
  /\ pending' = TRUE
  /\ asking' = issued + 1
  /\ UNCHANGED <<trail, floor, replicates, tenure, attached, published, requested,
                 restarts, answers>>

Told(outcome) ==
  /\ answers' = answers \cup {<<asking, outcome>>}
  /\ asking' = 0
  /\ UNCHANGED <<trail, floor, replicates, tenure, asks, restarts>>

\* The wait ends: published.
ToldPublished ==
  /\ asking # 0 /\ published >= asking
  /\ Told("Published")
  /\ UNCHANGED mailbox

Waiting == request # None /\ request.ticket = asking

\* The wait ends: gone unpublished, the producer stopped.
ToldStopped ==
  /\ asking # 0 /\ published < asking /\ ~Waiting
  /\ Told("ProducerStopped")
  /\ UNCHANGED mailbox

\* Faulty variant: the refused request stays posted.
Remaining == request

\* What a withdrawal leaves in the mailbox.
Withdrawn == None

\* The wait ends at its deadline: withdrawn under the lock.
ToldRingFull ==
  /\ asking # 0 /\ published < asking /\ Waiting
  /\ request' = Withdrawn
  /\ pending' = FALSE
  /\ Told("RingFull")
  /\ UNCHANGED <<attached, issued, published, requested>>

Admin ==
  \/ \E p \in Policies : Stage(p) \/ Post(p)
  \/ ToldPublished \/ ToldStopped \/ ToldRingFull

ControlNext ==
  \/ Restart
  \/ \E p \in Policies, u \in BOOLEAN : Observe(p, u)
  \/ Claim \/ JournalBoot \/ Attach \/ AttachStaged
  \/ Poll \/ PublishNothing \/ PublishRequest \/ Detach
  \/ Admin

ControlSpec == ControlInit /\ [][ControlNext]_controlVars

-----------------------------------------------------------------------------
(* Properties *)

Serving == main \in {"serving", "publish"}

\* An operator told "Published" has exactly one entry on the ring, and one told
\* that the ring was full or the producer stopped never has one, however the
\* deadline, the publish and the stop interleave ("either on the ring or never
\* will be", AckPolicyControl::request); nobody waiting, nothing is posted.
AnswersAreTrue ==
  /\ \A a \in answers :
       {i \in DOMAIN trail : trail[i].ticket = a[1]} # {} <=> a[2] = "Published"
  /\ \A i, j \in DOMAIN trail :
       trail[i].ticket = trail[j].ticket /\ trail[i].ticket # 0 => i = j
  /\ asking = 0 => request = None

\* The policy the node last took a request for (configured, staged or
\* published) is the newest of the lineage once the producer serves: a command
\* staged while the primary starts is not lost between the claim, the boot
\* entry and the attach (PublisherClaim::journal_boot, BootedClaim::attach).
LastWordJournaled == Serving => Lineage # None /\ Lineage.policy = requested

\* The lineage's transition, whatever was re-sent, forced, replicated or lost
\* to a restart: the policy differs from the one before it, it was reached from
\* that one by the first change of the newest run, and it is unwitnessed iff
\* one of the run was (LineagePolicy::after).
TransitionIsNewestMove ==
  Lineage # None =>
    \E k \in DOMAIN trail :
      /\ \A i \in k..Len(trail) : trail[i].policy = Lineage.policy
      /\ Lineage.unwitnessed <=> \E i \in k..Len(trail) : trail[i].unwitnessed
      /\ IF k = 1 THEN Lineage.previous = "none"
         ELSE trail[k - 1].policy = Lineage.previous /\ Lineage.previous # Lineage.policy

\* A node that accepts no replica serves only under a policy its journal says
\* needed no witness: the newest transition is unwitnessed or the lineage's
\* first, whatever waiting change an earlier, replicating process left
\* (boot_entry, BootEntry::TakesEffectUnwitnessed).
StandaloneMarked ==
  Serving /\ ~replicates => Lineage.unwitnessed \/ Lineage.previous = "none"

\* What the lineage says of the policy in force is true: the last word taken,
\* the move that led to it, and that a node without replicas had no witness.
LineageTruthful == LastWordJournaled /\ TransitionIsNewestMove /\ StandaloneMarked
=============================================================================
