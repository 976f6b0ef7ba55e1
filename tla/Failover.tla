------------------------------- MODULE Failover -------------------------------
(***************************************************************************)
(* Automatic failover: the election the control plane holds (raft/src),    *)
(* the promotion policy that acts on it (server-runtime/src/               *)
(* raft_promotion.rs, promotion.rs), the fencing epoch that supersedes the *)
(* old primary (transport-core/src/fence.rs) and the handshake by which a  *)
(* replica follows, resyncs from or fences a primary (replication/).       *)
(*                                                                         *)
(* A journal is the sequence of its entries, an entry the epoch and the    *)
(* node that wrote it; the first entry of an epoch is its EpochBump.  The  *)
(* ack policy is two_disks, so an acked entry is durable on the primary    *)
(* and on a replica, and what a node holds is what survives its crash.     *)
(* The mesh may lose any message.  When a replica campaigns is left open:  *)
(* its timer, the stand-down rule and the challenger's nudge choose the    *)
(* moment.  Clocks: an answer counts for at most PEER_TIP_GRACE (1.5 s)    *)
(* and a promotion waits for the link to be down for PRIMARY_DOWN_GRACE    *)
(* (3 s), so every answer that counts was heard since the link went down.  *)
(***************************************************************************)
EXTENDS Integers, FiniteSetsExt, SequencesExt

CONSTANTS
  Nodes,        \* the voters
  Genesis,      \* the node configured as primary
  EscapeDrops,  \* LIVENESS_ESCAPE_DROPS
  MaxLog,       \* bound on the entries of a journal
  MaxTerm,      \* bound on the election terms
  MaxActs       \* bound on the operator's acts: restarts and PROMOTEs

ASSUME FailoverBounds ==
  /\ IsFiniteSet(Nodes) /\ Genesis \in Nodes /\ Cardinality(Nodes) >= 3
  /\ {EscapeDrops, MaxLog, MaxTerm, MaxActs} \subseteq Nat

VARIABLES
  role, target, link, seen, req,  \* the process: server.rs, the receive loop
  log, epoch,                     \* the data plane: journal, FenceState
  term, lead, drops,              \* the control plane: openraft, VoteFilter
  heard,                          \* answers a leader holds: PeerTips, quorum acks
  acts,                           \* the operator's acts so far
  minted, acked, manual,          \* history: epochs journaled, entries acked
  owed, blind, bare               \* history: what a decision answers for

process == <<role, target, link, seen, req>>
data == <<log, epoch>>
raft == <<term, lead, drops>>
mesh == <<heard, owed, blind>>
history == <<minted, acked, bare, manual>>
vars == <<process, data, raft, mesh, history, acts>>

Manual == -1                    \* PromotionOrigin::Manual in the request word
Major(Q) == 2 * Cardinality(Q) > Cardinality(Nodes)
Up(n) == role[n] # "down"
EpochOf(s) == IF s = <<>> THEN 0 ELSE Last(s)[1]

-----------------------------------------------------------------------------
(* The advertised tip and the order on tips. *)

\* Before recovery has seeded them, both halves of the tip are zero.
Tip(n) == IF role[n] = "recovering" THEN <<0, 0>>
          ELSE <<epoch[n], Len(log[n])>>

\* JournalTip::is_ahead_of: epoch first, then sequence.
Ahead(x, y) == x[1] > y[1] \/ (x[1] = y[1] /\ x[2] > y[2])

\* What a voter does with a vote request: deliver it to raft, or drop it
\* because the candidate is behind, until too many have been dropped.
Delivers(v, n) == /\ role[v] # "recovering"
                  /\ ~Ahead(Tip(v), Tip(n)) \/ drops[v] >= EscapeDrops

\* The answers the nodes of S hold no longer count.
Forget(S) ==
  /\ heard' = [n \in Nodes |-> IF n \in S THEN [v \in Nodes |-> "none"] ELSE heard[n]]
  /\ owed' = [n \in Nodes |-> IF n \in S THEN <<>> ELSE owed[n]]
  /\ blind' = [n \in Nodes |-> blind[n] /\ n \notin S]

-----------------------------------------------------------------------------
(* An envelope.  Every request and reply carries its sender's tip: a node  *)
(* that claims to serve and is superseded fences itself.                   *)

\* SupersessionPolicy: a primary, or a replica whose promotion is filed.
Claims(n) == \/ role[n] \in {"serving", "promoting"}
             \/ role[n] = "replica" /\ req[n] # 0

Superseded(n, v) == Claims(n) /\ Tip(v)[1] > epoch[n]

\* role after each node n has heard the peers from[n].
AfterHearing(from) ==
  [n \in Nodes |-> IF \E v \in from[n] : Superseded(n, v) THEN "fenced" ELSE role[n]]

Nobody == [n \in Nodes |-> {}]

-----------------------------------------------------------------------------
\* A cluster in service: the replicas stream, and hold the first entry.
Init ==
  /\ role = [n \in Nodes |-> IF n = Genesis THEN "serving" ELSE "replica"]
  /\ target = [n \in Nodes |-> Genesis]
  /\ link = [n \in Nodes |-> IF n = Genesis THEN "down" ELSE "up"]
  /\ seen = [n \in Nodes |-> n # Genesis] /\ req = [n \in Nodes |-> 0]
  /\ log = [n \in Nodes |-> <<<<0, Genesis>>>>] /\ epoch = [n \in Nodes |-> 0]
  /\ term = [n \in Nodes |-> 0] /\ lead = [n \in Nodes |-> FALSE]
  /\ drops = [n \in Nodes |-> 0]
  /\ heard = [n \in Nodes |-> [v \in Nodes |-> "none"]]
  /\ owed = [n \in Nodes |-> <<>>] /\ blind = [n \in Nodes |-> FALSE]
  /\ minted = {0} /\ acked = <<<<0, Genesis>>>> /\ bare = {}
  /\ acts = 0 /\ manual = FALSE

-----------------------------------------------------------------------------
(* The data plane. *)

Linked(p) == {r \in Nodes : link[r] = "up" /\ target[r] = p}

\* The primary takes a client's event: halted while it has no replica.
Write(p) ==
  /\ role[p] = "serving" /\ Linked(p) # {} /\ Len(log[p]) < MaxLog
  /\ log' = [log EXCEPT ![p] = Append(@, <<epoch[p], p>>)]
  /\ UNCHANGED <<process, epoch, raft, mesh, history, acts>>

\* Entries the primary of the newest tenure has acked once a replica of its
\* holds the first k of its journal.  It answers its own clients: an entry it
\* inherited is acked with the first one of its tenure.
AckedWith(p, k) ==
  IF epoch[p] = Max(minted) /\ k > Len(acked) /\ log[p][k][1] = epoch[p]
  THEN SubSeq(log[p], 1, k) ELSE acked

\* The replica journals the next entry and acknowledges it; an EpochBump
\* raises its epoch.
Replicate(r) ==
  LET p == target[r]  k == Len(log[r]) + 1 IN
  /\ link[r] = "up" /\ role[r] = "replica" /\ role[p] = "serving"
  /\ k <= Len(log[p])
  /\ log' = [log EXCEPT ![r] = Append(@, log[p][k])]
  /\ epoch' = [epoch EXCEPT ![r] = Max({@, log[p][k][1]})]
  /\ acked' = AckedWith(p, k)
  /\ UNCHANGED <<process, raft, mesh, minted, bare, manual, acts>>

\* A faulty handshake that compares positions only.
PositionMatches(r, p) == Len(log[r]) <= Len(log[p])

\* The handshake: the primary recomputes its chain at the replica's position.
ChainMatches(r, p) == IsPrefix(log[r], log[p])

Dials(r, p) == role[r] = "replica" /\ link[r] = "down" /\ p = target[r]
               /\ role[p] = "serving"

\* The replica is of a newer tenure: the primary fences itself.
ConnectFences(r) ==
  LET p == target[r] IN
  /\ Dials(r, p) /\ epoch[r] > epoch[p]
  /\ role' = [role EXCEPT ![p] = "fenced"]
  /\ Forget({r})
  /\ UNCHANGED <<target, link, seen, req, data, raft, history, acts>>

\* StreamStart: the replica adopts the primary's epoch, then its entries.
ConnectFollows(r) ==
  LET p == target[r] IN
  /\ Dials(r, p) /\ epoch[r] <= epoch[p] /\ ChainMatches(r, p)
  /\ link' = [link EXCEPT ![r] = "up"] /\ seen' = [seen EXCEPT ![r] = TRUE]
  /\ epoch' = [epoch EXCEPT ![r] = Max({@, epoch[p]})]
  /\ acked' = AckedWith(p, Len(log[r]))
  /\ Forget({r})
  /\ UNCHANGED <<role, target, req, log, raft, minted, bare, manual, acts>>

\* HashMismatch: the replica archives its journal and awaits a snapshot.
ConnectDiverges(r) ==
  LET p == target[r] IN
  /\ Dials(r, p) /\ epoch[r] <= epoch[p] /\ ~ChainMatches(r, p)
  /\ link' = [link EXCEPT ![r] = "transfer"]
  /\ log' = [log EXCEPT ![r] = <<>>]
  /\ bare' = bare \union {r}
  /\ Forget({r})
  /\ UNCHANGED <<role, target, seen, req, epoch, raft, minted, acked, manual, acts>>

\* The snapshot arrives, with the epoch; streaming resumes behind it.  Only
\* one of the newest tenure makes up for the journal that was archived.
Transfer(r) ==
  LET p == target[r] IN
  /\ link[r] = "transfer" /\ role[r] = "replica" /\ role[p] = "serving"
  /\ link' = [link EXCEPT ![r] = "up"] /\ seen' = [seen EXCEPT ![r] = TRUE]
  /\ log' = [log EXCEPT ![r] = log[p]]
  /\ epoch' = [epoch EXCEPT ![r] = Max({@, epoch[p]})]
  /\ acked' = AckedWith(p, Len(log[p]))
  /\ bare' = IF epoch[p] = Max(minted) THEN bare \ {r} ELSE bare
  /\ UNCHANGED <<role, target, req, raft, mesh, minted, manual, acts>>

\* The replica's session ends: a blip, a dead primary, a failed transfer.
LinkDrop(r) ==
  /\ link[r] # "down"
  /\ link' = [link EXCEPT ![r] = "down"]
  /\ Forget({r})
  /\ UNCHANGED <<role, target, seen, req, data, raft, history, acts>>

-----------------------------------------------------------------------------
(* Processes stop and restart.  Journal, term and membership survive; a    *)
(* session with the process is lost, which its replica has yet to notice.  *)

Halt(n) ==
  /\ role' = [role EXCEPT ![n] = "down"]
  /\ link' = [r \in Nodes |-> IF r = n THEN "down"
                              ELSE IF target[r] = n /\ link[r] # "down" THEN "lost"
                              ELSE link[r]]
  /\ seen' = [seen EXCEPT ![n] = FALSE] /\ req' = [req EXCEPT ![n] = 0]
  /\ epoch' = [epoch EXCEPT ![n] = 0]
  /\ lead' = [lead EXCEPT ![n] = FALSE] /\ drops' = [drops EXCEPT ![n] = 0]
  /\ Forget({n})
  /\ UNCHANGED <<target, log, term, history>>

\* A crash, or the shutdown of a fenced node.
Stop(n) == Up(n) /\ Halt(n) /\ UNCHANGED acts

\* A primary boots with the epoch its journal recovered, without a bump; the
\* operator may point a node that was down at another primary.
RestartPrimary(n) ==
  /\ role[n] = "down" /\ target[n] = n /\ acts < MaxActs
  /\ role' = [role EXCEPT ![n] = "serving"]
  /\ epoch' = [epoch EXCEPT ![n] = EpochOf(log[n])]
  /\ acts' = acts + 1
  /\ UNCHANGED <<target, link, seen, req, log, raft, mesh, history>>

RestartReplica(n, t) ==
  /\ role[n] = "down" /\ t # n /\ acts < MaxActs
  /\ role' = [role EXCEPT ![n] = "recovering"]
  /\ target' = [target EXCEPT ![n] = t]
  /\ acts' = acts + 1
  /\ UNCHANGED <<link, seen, req, data, raft, mesh, history>>

\* Recovery seeds the epoch and the tip, then raises tip_ready.
Recover(n) ==
  /\ role[n] = "recovering"
  /\ role' = [role EXCEPT ![n] = "replica"]
  /\ epoch' = [epoch EXCEPT ![n] = EpochOf(log[n])]
  /\ UNCHANGED <<target, link, seen, req, log, raft, mesh, history, acts>>

-----------------------------------------------------------------------------
(* The control plane.  openraft itself is external: a node votes once per  *)
(* term and a leader keeps its role until it meets a higher term.          *)

\* A fenced node stands down, and so does one whose tip is not recovered.
MayCampaign(n) == role[n] \in {"replica", "promoting", "serving"}

\* n wins the votes of Q in a term no node has voted in.
Elect(n, Q) ==
  LET t == Max({term[v] : v \in Nodes}) + 1 IN
  /\ MayCampaign(n) /\ t <= MaxTerm /\ n \notin Q /\ Major(Q \union {n})
  /\ \A v \in Q : Up(v) /\ Delivers(v, n)
  /\ term' = [v \in Nodes |-> IF v \in Q \union {n} THEN t ELSE term[v]]
  /\ lead' = [v \in Nodes |-> IF v \in Q THEN FALSE ELSE v = n \/ lead[v]]
  /\ role' = AfterHearing([v \in Nodes |-> IF v \in Q THEN {n}
                                           ELSE IF v = n THEN Q ELSE {}])
  /\ Forget(Q \union {n})
  /\ UNCHANGED <<target, link, seen, req, data, drops, history, acts>>

\* A vote request that v's filter drops is counted.
DropVote(n, v) ==
  /\ MayCampaign(n) /\ Up(v) /\ role[v] # "recovering" /\ ~Delivers(v, n)
  /\ drops' = [drops EXCEPT ![v] = @ + 1]
  /\ role' = AfterHearing([Nobody EXCEPT ![v] = {n}])
  /\ UNCHANGED <<target, link, seen, req, data, term, lead, mesh, history, acts>>

Counts(n) == role[n] = "replica" /\ link[n] = "down" /\ req[n] = 0

\* The leader n holds v's answer: how v's tip compares with its own.
Answered(n, v) ==
  /\ heard' = [heard EXCEPT ![n][v] = IF Ahead(Tip(v), Tip(n)) THEN "ahead" ELSE "level"]
  /\ owed' = [owed EXCEPT ![n] = IF \A w \in Nodes : heard[n][w] = "none"
                                 THEN acked ELSE @]
  /\ blind' = [blind EXCEPT ![n] = @ \/ role[v] = "recovering" \/ v \in bare]

\* A leader's heartbeat and its answer.  An answer of a later term deposes
\* the leader; an answer that is lost is one that ages at once.
Heartbeat(n, v) ==
  LET follows == term[v] <= term[n] IN
  /\ lead[n] /\ Up(n) /\ Up(v) /\ n # v
  /\ term' = [term EXCEPT ![v] = Max({@, term[n]}), ![n] = Max({@, term[v]})]
  /\ lead' = [lead EXCEPT ![v] = @ /\ ~follows, ![n] = follows]
  /\ drops' = [drops EXCEPT ![v] = 0, ![n] = 0]
  /\ role' = AfterHearing([Nobody EXCEPT ![n] = {v}, ![v] = {n}])
  /\ IF ~follows THEN Forget({n})
     ELSE IF Counts(n) THEN Answered(n, v) ELSE Forget({v})
  /\ UNCHANGED <<target, link, seen, req, data, history, acts>>

\* A peer not heard for PEER_TIP_GRACE is silent.
Age(n, v) ==
  /\ heard[n][v] # "none"
  /\ IF \A w \in Nodes \ {v} : heard[n][w] = "none" THEN Forget({n})
     ELSE /\ heard' = [heard EXCEPT ![n][v] = "none"]
          /\ UNCHANGED <<owed, blind>>
  /\ UNCHANGED <<process, data, raft, history, acts>>

-----------------------------------------------------------------------------
(* Promotion. *)

\* leader_lease_check: a majority acknowledged this leadership recently.
Leased(n) == Major({n} \union {v \in Nodes : heard[n][v] # "none"})

\* A faulty policy that trusts the election to have found the best node.
ElectionIsProof(n) == TRUE

\* The journal-safety veto: no peer heard recently is ahead.
NotBehind(n) == \A v \in Nodes : heard[n][v] # "ahead"

\* auto_promotion_decision, and the request filed when it allows.
Decide(n) ==
  /\ role[n] = "replica" /\ lead[n] /\ req[n] = 0 /\ link[n] = "down"
  /\ Leased(n) /\ (seen[n] \/ log[n] # <<>>) /\ NotBehind(n)
  /\ term[n] > epoch[n]
  /\ req' = [req EXCEPT ![n] = term[n]]
  /\ UNCHANGED <<role, target, link, seen, data, raft, mesh, history, acts>>

\* The operator's PROMOTE: the first request wins.
Promote(n) ==
  /\ role[n] \in {"replica", "recovering"} /\ req[n] = 0 /\ acts < MaxActs
  /\ req' = [req EXCEPT ![n] = Manual] /\ manual' = TRUE /\ acts' = acts + 1
  /\ UNCHANGED <<role, target, link, seen, data, raft, mesh, minted, acked, bare>>

\* The receive loop ends its session and hands the engine over; a replica
\* with no journal has nothing to promote and exits.
Drain(n) ==
  /\ role[n] = "replica" /\ req[n] # 0
  /\ IF log[n] = <<>> THEN Halt(n)
     ELSE /\ role' = [role EXCEPT ![n] = "promoting"]
          /\ link' = [link EXCEPT ![n] = "down"]
          /\ Forget({n})
          /\ UNCHANGED <<target, seen, req, data, raft, history>>
  /\ UNCHANGED acts

\* journal_promotion_epoch_bump: the epoch, floored at the election term.
NewEpoch(n) == Max({epoch[n] + 1, req[n]})

\* A faulty mint that does not ask the control plane again.
TermStands(n, Q) == Q = {}

\* LeaderConfirm: the voters whose heartbeats confirm n in the term it won.
Confirms(n, Q) ==
  /\ lead[n] /\ term[n] = req[n] /\ Major(Q \union {n})
  /\ \A v \in Q : Up(v) /\ term[v] <= term[n]

\* The tenure opens: the bump is journaled and the node serves, unless the
\* confirming replies told it that it is superseded.
Mint(n, Q) ==
  /\ role[n] = "promoting"
  /\ IF req[n] = Manual THEN Q = {} ELSE Confirms(n, Q)
  /\ LET e == NewEpoch(n) IN
     /\ epoch' = [epoch EXCEPT ![n] = e]
     /\ log' = [log EXCEPT ![n] = Append(@, <<e, n>>)]
     /\ minted' = minted \union {e}
  /\ role' = [role EXCEPT ![n] =
                IF \E v \in Q : Tip(v)[1] > epoch[n] THEN "fenced" ELSE "serving"]
  /\ term' = [v \in Nodes |-> IF v \in Q THEN term[n] ELSE term[v]]
  /\ lead' = [v \in Nodes |-> lead[v] /\ (v \notin Q \/ v = n)]
  /\ drops' = [v \in Nodes |-> IF v \in Q THEN 0 ELSE drops[v]]
  /\ acked' = LongestCommonPrefix({acked, log[n]})
  /\ req' = [req EXCEPT ![n] = 0]
  /\ UNCHANGED <<target, link, seen, mesh, bare, manual, acts>>

\* Not confirmed: nothing is published and the node exits.
Abandon(n) == /\ role[n] = "promoting" /\ req[n] # Manual
              /\ Halt(n) /\ UNCHANGED acts

-----------------------------------------------------------------------------
DataPlane ==
  \/ \E n \in Nodes : Write(n) \/ Replicate(n) \/ Transfer(n) \/ LinkDrop(n)
  \/ \E n \in Nodes : ConnectFences(n) \/ ConnectFollows(n) \/ ConnectDiverges(n)

Processes ==
  \E n \in Nodes : \/ Stop(n) \/ RestartPrimary(n) \/ Recover(n)
                   \/ \E t \in Nodes : RestartReplica(n, t)

ControlPlane ==
  \E n \in Nodes : \/ \E Q \in SUBSET Nodes : Elect(n, Q)
                   \/ \E v \in Nodes : DropVote(n, v) \/ Heartbeat(n, v) \/ Age(n, v)

Promotion ==
  \E n \in Nodes : \/ Decide(n) \/ Promote(n) \/ Drain(n) \/ Abandon(n)
                   \/ \E Q \in SUBSET (Nodes \ {n}) : Mint(n, Q)

Next == DataPlane \/ Processes \/ ControlPlane \/ Promotion

Spec == Init /\ [][Next]_vars

-----------------------------------------------------------------------------
Roles == {"down", "recovering", "replica", "promoting", "serving", "fenced"}
Epochs == 0..(MaxTerm + MaxActs)

\* The variables have their types, and no term or epoch outgrows the
\* elections held and the commands given.
TypeOK ==
  /\ role \in [Nodes -> Roles] /\ target \in [Nodes -> Nodes]
  /\ link \in [Nodes -> {"down", "transfer", "up", "lost"}] /\ seen \in [Nodes -> BOOLEAN]
  /\ req \in [Nodes -> {Manual} \union (0..MaxTerm)]
  /\ \A n \in Nodes : \A i \in DOMAIN log[n] : log[n][i] \in Epochs \X Nodes
  /\ heard \in [Nodes -> [Nodes -> {"none", "level", "ahead"}]]
  /\ epoch \in [Nodes -> Epochs] /\ term \in [Nodes -> 0..MaxTerm]
  /\ lead \in [Nodes -> BOOLEAN] /\ drops \in [Nodes -> 0..EscapeDrops]
  /\ minted \subseteq Epochs
  /\ acts \in 0..MaxActs /\ manual \in BOOLEAN /\ bare \subseteq Nodes

\* docs/replication.md: the journal-safety veto makes promotion land on the
\* node that holds every acked event.  An election files a promotion on a
\* node that holds every entry acked before the first of the answers it
\* judged by was sent (auto_promotion_decision).
Files(n) == req[n] = 0 /\ req'[n] > 0
HoldsAcked(n) == IsPrefix(owed[n], log[n])
DecisionHoldsAcked == [][\A n \in Nodes : ~manual /\ Files(n) => HoldsAcked(n)]_vars

\* It does, when every tip it judged by stands for what the journal behind
\* it holds: no peer was still recovering when it answered, neither the node
\* nor a peer had archived its journal for a resync that the newest tenure
\* has not completed, and its own epoch is one its journal reached.
TruthfulTips(n) == ~blind[n] /\ n \notin bare /\ EpochOf(log[n]) = epoch[n]
TruthfulDecisionHoldsAcked ==
  [][\A n \in Nodes : ~manual /\ Files(n) /\ TruthfulTips(n) => HoldsAcked(n)]_vars

\* Elections mint epochs in order: the bump that a confirmed promotion
\* journals is above every epoch journaled before it anywhere.
EpochsMintedInOrder ==
  [][\A n \in Nodes : ~manual /\ role[n] = "promoting" /\ Len(log'[n]) > Len(log[n])
       => \A e \in minted : epoch'[n] > e]_vars

\* A replica with an open session follows its primary's lineage: same epoch,
\* and a journal that is a prefix of the primary's for as long as the primary
\* serves, whatever crashed, diverged or was promoted before.
FollowsLineage ==
  \A r \in Nodes : LET p == target[r] IN
    link[r] = "up" /\ role[r] = "replica" /\ role[p] = "serving"
      => epoch[r] = epoch[p] /\ IsPrefix(log[r], log[p])

\* An open session never mixes two lineages, and no counter leaves its range:
\* the vote filter's escape opens in time (ConnectFollows, VoteFilter).
SessionsOnLineage == TypeOK /\ FollowsLineage

=============================================================================
