----------------------------- MODULE MCResponse -----------------------------
(***************************************************************************)
(* The two models of the response stage for TLC, one chosen in the initial *)
(* state: its durability gate over the cursors of the node and of its      *)
(* replicas (DurabilityGate), and its loop between the reader and the      *)
(* clients, the gate reduced to open or not (ClientPath).  The gate is run *)
(* twice: with policy changes over one slot that is taken once ("gate"),   *)
(* and with replicas that come and go in every slot over a fixed policy    *)
(* ("slots").                                                              *)
(***************************************************************************)
EXTENDS DurabilityGate, ClientPath

CONSTANTS
  GateJoins,   \* bound on the connections of the part "gate"
  SlotsLog     \* bound on the entries of the part "slots"

VARIABLE part

ASSUME ConnsNumbered == Numbered
ASSUME PartBounds == GateJoins \in Nat /\ SlotsLog \in Nat

mcVars == <<part, pathVars, vars>>

\* A fresh tenure on two-disks or ram, and tenures that begin with the newest change of
\* a recovered history pending.
MCStart ==
  {[inForce |-> "two-disks", newest |-> Write, unwitnessed |-> FALSE],
   [inForce |-> "ram", newest |-> Write, unwitnessed |-> FALSE],
   [inForce |-> "disk", newest |-> "two-disks", unwitnessed |-> FALSE],
   [inForce |-> "two-disks", newest |-> "disk", unwitnessed |-> FALSE],
   [inForce |-> "two-disks", newest |-> "disk", unwitnessed |-> TRUE]}

DiskPolicies == {"disk", "two-disks"}

MCFreshStart == {[inForce |-> "two-disks", newest |-> Write, unwitnessed |-> FALSE]}

FirstSlot == NextSlot(Primary)
FirstReplica == CHOOSE n \in Replicas : TRUE

MCConns == {1, 2}

\* Three requests on one connection, so that a shed tail can park; or one
\* fault, on one connection or with a second one after it.
MCLoads ==
  {[reqs |-> <<3, 0>>, faults |-> 0], [reqs |-> <<2, 0>>, faults |-> 1],
   [reqs |-> <<1, 1>>, faults |-> 1]}
MCLightLoads == {[reqs |-> <<2, 0>>, faults |-> 0], [reqs |-> <<1, 1>>, faults |-> 1]}

\* The part not chosen stays in one initial state.
MCInit ==
  /\ part \in {"gate", "slots", "path"}
  /\ Init /\ PathInit
  /\ part # "path" => load = CHOOSE l \in Loads : TRUE
  /\ part = "gate" => base \in DiskPolicies
  /\ part = "slots" => log = <<>>
  /\ part = "path" => log = <<>> /\ base = "two-disks"
  /\ \A n, m \in Replicas : disk[n] = disk[m]

GateOnly == part = "gate" /\ UNCHANGED <<part, pathVars>>
SlotsOnly == part = "slots" /\ UNCHANGED <<part, pathVars>>
PathOnly == part = "path" /\ UNCHANGED <<part, vars>>

\* The policies of this part count disks alone, so what a slot says of memory is
\* left at what it says of disks; a further slot of an entry is told from its
\* first only once a change was dealt with.
GateBounds ==
  /\ joins' <= GateJoins /\ (shutdown' => GateJoins = 0)
  /\ extra' => appliedThrough' # None \/ pending' # <<>>
  /\ \A i \in Slots : /\ slot'[i].mem = slot'[i].acked
                      /\ slot'[i].occ # None => i = FirstSlot /\ slot'[i].occ = FirstReplica

\* Waits for writes under one policy, replicas in any slot.
SlotsBounds ==
  /\ Len(log') <= SlotsLog /\ \A c \in DOMAIN log' : log'[c].byte = Write
  /\ ~shutdown' /\ ~extra' /\ ~(pc = "idle" /\ pc' = "active")

MCNext ==
  \/ GateOnly /\ Next /\ GateBounds
  \/ SlotsOnly /\ Next /\ SlotsBounds
  \/ PathOnly /\ PathNext

MCSpec == MCInit /\ [][MCNext]_mcVars

Verdicts == {"Take", "Refuse", "Close"}

\* The gate's own fairness (Fairness).  On the path every thread runs: the accept
\* loop registers whom it admitted, a wake of the reader drains completions and
\* registrations and then retries every parked connection, the matching and the
\* response stage keep turning.  The kernel delivers what is there and honours a
\* cancel or a shutdown, and a slot becomes durable in the end.
MCFairSpec ==
  /\ MCSpec
  /\ WF_mcVars(GateOnly /\ GateStep /\ GateBounds) /\ WF_mcVars(GateOnly /\ Match)
  /\ WF_mcVars(GateOnly /\ Persist)
  /\ WF_mcVars(PathOnly /\ Announce) /\ WF_mcVars(PathOnly /\ MatchStep)
  /\ WF_mcVars(PathOnly /\ Durable) /\ WF_mcVars(PathOnly /\ Stage)
  /\ WF_mcVars(PathOnly /\ KernelAnswers)
  /\ WF_mcVars(PathOnly /\ (ProcessFrame \/ EndCall))
  /\ SF_mcVars(PathOnly /\ Register)
  /\ SF_mcVars(PathOnly /\ \E v \in Verdicts : TakeCqe(v))
  /\ SF_mcVars(PathOnly /\ \E i \in Entries : \E v \in Verdicts : Retry(i, v))
=============================================================================
